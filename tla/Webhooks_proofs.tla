-------------------------- MODULE Webhooks_proofs --------------------------
(***************************************************************************)
(* Theorems about the two halves of the webhook tick, Fanout and Delivery, *)
(* and about the whole of it, Webhooks, for any number of changes,         *)
(* subscriptions, ingest runs, delivery ids and overlapping ticks.         *)
(***************************************************************************)
EXTENDS Webhooks, TLAPS, FiniteSetTheorems

-----------------------------------------------------------------------------
(* Fan-out: types, and that no timely change is lost.                       *)

(* TypeInit: the initial state has the type that FanoutTypeOK states.       *)
LEMMA TypeInit == FanoutInit => FanoutTypeOK
  BY TablesAssumption
  DEF FanoutInit, TablesInit, FanInit, FanoutTypeOK, TablesTypeOK, FanTypeOK,
      FanLocals, NoFan, Stages

(* InsertKeepsRows: an insert adds one pending row and changes no other.    *)
LEMMA InsertKeepsRows ==
  ASSUME NEW s \in Subs, NEW c \in Changes, NEW n \in Nat,
         DOMAIN rows \subseteq RowIds,
         \A i \in DOMAIN rows : rows[i] \in Row,
         InsertRow(s, c, n)
  PROVE  /\ DOMAIN rows' \subseteq RowIds
         /\ \A i \in DOMAIN rows' : rows'[i] \in Row
         /\ DOMAIN rows \subseteq DOMAIN rows'
         /\ \E i \in DOMAIN rows' : i.sub = s /\ i.change = c
  <1>1. PICK k \in Copies :
            LET id == [sub |-> s, change |-> c, copy |-> k] IN
            /\ id \notin DOMAIN rows
            /\ rows' = [i \in DOMAIN rows \cup {id} |->
                            IF i = id THEN NewRow(n) ELSE rows[i]]
    BY DEF InsertRow
  <1> DEFINE id == [sub |-> s, change |-> c, copy |-> k]
  <1>2. id \in RowIds /\ id.sub = s /\ id.change = c
    BY DEF RowIds
  <1>3. NewRow(n) \in Row
    BY DEF NewRow, Row
  <1>4. DOMAIN rows' = DOMAIN rows \cup {id}
    BY <1>1
  <1>5. \A i \in DOMAIN rows' : rows'[i] \in Row
    BY <1>1, <1>3, <1>4
  <1> QED
    BY <1>2, <1>4, <1>5

(* The statements of one enqueueNewChanges call keep the types.             *)
LEMMA TypeFanStep ==
  ASSUME FanoutTypeOK, NEW t \in Ticks, FanStep(t) \/ FanCrash(t)
  PROVE  FanoutTypeOK'
  <1> USE DEF FanoutTypeOK
  <1>0. /\ clock \in 1..MaxTime /\ MaxTime \in Nat
        /\ checkpoint \in 0..MaxTime
        /\ createdAt \in [Changes -> 0..MaxTime]
        /\ fan \in [Ticks -> FanLocals]
        /\ NoFan \in FanLocals
    BY TablesAssumption
    DEF TablesTypeOK, FanTypeOK, NoFan, FanLocals, Stages
  <1>1. CASE ReadCheckpoint(t)
    <2> DEFINE f == [NoFan EXCEPT !.pc = "changes", !.now = clock, !.since = checkpoint]
    <2>0. clock \in 0..MaxTime
      BY <1>0
    <2>1. f \in FanLocals
      BY <1>0, <2>0 DEF FanLocals, NoFan, Stages
    <2>2. fan' = [fan EXCEPT ![t] = f]
      BY <1>1 DEF ReadCheckpoint
    <2>3. fan' \in [Ticks -> FanLocals]
      BY <1>0, <2>1, <2>2
    <2> QED
      BY <1>1, <2>3 DEF ReadCheckpoint, tables, TablesTypeOK, FanTypeOK
  <1>2. CASE ReadChanges(t)
    <2>1. NewChanges(t) \in SUBSET Changes
      BY DEF NewChanges, Committed
    <2>2. fan' \in [Ticks -> FanLocals]
      BY <1>0, <1>2, <2>1 DEF ReadChanges, FanLocals, Stages
    <2> QED
      BY <1>2, <2>2 DEF ReadChanges, tables, TablesTypeOK, FanTypeOK
  <1>3. CASE ReadSubs(t)
    <2>1. {p \in fan[t].batch \X ActiveSubs : p[1] \in Wants[p[2]]}
              \in SUBSET (Changes \X Subs)
      BY <1>0 DEF ActiveSubs, FanLocals
    <2> DEFINE P == {p \in fan[t].batch \X ActiveSubs : p[1] \in Wants[p[2]]}
    <2>3. fan' = [fan EXCEPT ![t] = [fan[t] EXCEPT !.pc = "insert", !.todo = P]]
      BY <1>0, <1>3 DEF ReadSubs
    <2>4. fan[t] \in FanLocals
      BY <1>0
    <2> HIDE DEF P
    <2>5. [fan[t] EXCEPT !.pc = "insert", !.todo = P] \in FanLocals
      BY <2>1, <2>4 DEF FanLocals, Stages, P
    <2>2. fan' \in [Ticks -> FanLocals]
      BY <1>0, <2>3, <2>5
    <2> QED
      BY <1>3, <2>2 DEF ReadSubs, tables, TablesTypeOK, FanTypeOK
  <1>4. CASE InsertDelivery(t)
    <2>1. PICK p \in NextPairs(t) :
              /\ InsertRow(p[2], p[1], fan[t].now)
              /\ fan' = [fan EXCEPT ![t].todo = @ \ {p}]
      BY <1>4 DEF InsertDelivery
    <2>2. p[2] \in Subs /\ p[1] \in Changes /\ fan[t].now \in Nat
      BY <1>0, <2>1 DEF NextPairs, FanLocals
    <2>3. fan' \in [Ticks -> FanLocals]
      BY <1>0, <2>1 DEF FanLocals
    <2>4. /\ DOMAIN rows \subseteq RowIds
          /\ \A i \in DOMAIN rows : rows[i] \in Row
      BY DEF TablesTypeOK
    <2>5. /\ DOMAIN rows' \subseteq RowIds
          /\ \A i \in DOMAIN rows' : rows'[i] \in Row
      BY <2>1, <2>2, <2>4, InsertKeepsRows
    <2> QED
      BY <1>4, <2>3, <2>5 DEF InsertDelivery, TablesTypeOK, FanTypeOK
  <1>5. CASE InsertRejected(t)
    <2>1. fan' \in [Ticks -> FanLocals]
      BY <1>0, <1>5 DEF InsertRejected
    <2> QED
      BY <1>5, <2>1 DEF InsertRejected, tables, TablesTypeOK, FanTypeOK
  <1>6. CASE WriteCheckpoint(t)
    <2>1. fan' \in [Ticks -> FanLocals]
      BY <1>0, <1>6 DEF WriteCheckpoint
    <2>2. fan[t].batch \subseteq Changes
      BY <1>0 DEF FanLocals
    <2>3. checkpoint' \in 0..MaxTime
      BY <1>0, <1>6, <2>2 DEF WriteCheckpoint
    <2> QED
      BY <1>6, <2>1, <2>3 DEF WriteCheckpoint, tables, TablesTypeOK, FanTypeOK
  <1>7. CASE FanCrash(t)
    <2>1. fan' \in [Ticks -> FanLocals]
      BY <1>0, <1>7 DEF FanCrash
    <2> QED
      BY <1>7, <2>1 DEF FanCrash, tables, TablesTypeOK, FanTypeOK
  <1> QED
    BY <1>1, <1>2, <1>3, <1>4, <1>5, <1>6, <1>7 DEF FanStep

(* So do the ingest runs, the subscriptions API and the clock.              *)
LEMMA TypeOthers ==
  ASSUME FanoutTypeOK, FanoutOthers \/ \E s \in Subs : PauseSubscription(s)
  PROVE  FanoutTypeOK'
  <1> USE DEF FanoutTypeOK
  <1>0. /\ clock \in 1..MaxTime /\ MaxTime \in Nat
        /\ runNow \in [Runs -> 0..MaxTime]
    BY TablesAssumption DEF TablesTypeOK
  <1>1. CASE ClockTick /\ UNCHANGED fanVars
    <2>1. clock' \in 1..MaxTime
      BY <1>0, <1>1 DEF ClockTick
    <2> QED
      BY <1>1, <2>1 DEF ClockTick, fanVars, TablesTypeOK, FanTypeOK
  <1>2. CASE \E r \in Runs : (BeginRun(r) \/ EndRun(r)) /\ UNCHANGED fanVars
    <2>1. runNow' \in [Runs -> 0..MaxTime]
      BY <1>0, <1>2 DEF BeginRun, EndRun
    <2> QED
      BY <1>2, <2>1 DEF BeginRun, EndRun, fanVars, TablesTypeOK, FanTypeOK
  <1>3. CASE \E r \in Runs, c \in Changes : IngestCommit(r, c)
    <2>1. PICK r \in Runs, c \in Changes : IngestCommit(r, c)
      BY <1>3
    <2>2. createdAt' \in [Changes -> 0..MaxTime]
      BY <1>0, <2>1 DEF IngestCommit, CommitChange, TablesTypeOK
    <2>3. owed' \subseteq Changes \X Subs
      BY <2>1 DEF IngestCommit, FanTypeOK, ActiveSubs
    <2>4. late' \subseteq Changes
      BY <2>1 DEF IngestCommit, FanTypeOK
    <2> QED
      BY <2>1, <2>2, <2>3, <2>4
      DEF IngestCommit, CommitChange, TablesTypeOK, FanTypeOK
  <1>4. CASE \E s \in Subs : CreateSubscription(s) /\ UNCHANGED fanVars
    BY <1>4 DEF CreateSubscription, fanVars, TablesTypeOK, FanTypeOK
  <1>5. CASE \E s \in Subs : DeleteSubscription(s) /\ UNCHANGED fanVars
    BY <1>5 DEF DeleteSubscription, CascadeRows, fanVars, TablesTypeOK, FanTypeOK
  <1>6. CASE \E s \in Subs : PauseSubscription(s)
    BY <1>6 DEF PauseSubscription, fanVars, TablesTypeOK, FanTypeOK
  <1> QED
    BY <1>1, <1>2, <1>3, <1>4, <1>5, <1>6 DEF FanoutOthers

(* A stuttering step keeps the types.                                       *)
LEMMA TypeStutter ==
  ASSUME FanoutTypeOK, UNCHANGED fanoutVars
  PROVE  FanoutTypeOK'
  BY DEF fanoutVars, tables, fanVars, FanoutTypeOK, TablesTypeOK, FanTypeOK

(* FanoutTyped: enqueueNewChanges and everything beside it keep the tables, *)
(* the checkpoint and every tick's locals within their types.               *)
THEOREM FanoutTyped == FanoutSpec => []FanoutTypeOK
  <1>1. FanoutTypeOK /\ [FanoutNext]_fanoutVars => FanoutTypeOK'
    BY TypeFanStep, TypeOthers, TypeStutter DEF FanoutNext
  <1> QED
    BY TypeInit, <1>1, PTL DEF FanoutSpec

-----------------------------------------------------------------------------

(* Nothing is owed at first.                                                *)
LEMMA FanoutInvInit == FanoutInit => FanoutInv
  <1> SUFFICES ASSUME FanoutInit PROVE FanoutInv
    OBVIOUS
  <1>1. owed = {} /\ \A t \in Ticks : fan[t].pc = "idle"
    BY DEF FanoutInit, FanInit, NoFan
  <1>2. FanoutTypeOK
    BY TypeInit
  <1> QED
    BY <1>1, <1>2
    DEF FanoutInv, OwedAreReal, BatchCommitted, HasBatch, SinceServed,
        BatchComplete, TodoComplete, NoTimelyChangeLost

(* A step that takes no row away, wakes no subscription and leaves the      *)
(* commits alone keeps what is owed, and what is served, as it was.         *)
LEMMA ServedGrows ==
  ASSUME DOMAIN rows \subseteq DOMAIN rows'
  PROVE  \A p \in owed : Served(p) => Served(p)'
  BY DEF Served, HasRow

(* Each step of a tick keeps the invariant: the tick's own locals stay      *)
(* complete, the other ticks' are untouched.                                *)
LEMMA FanStepInv ==
  ASSUME FanoutInv, NEW t \in Ticks, FanStep(t) \/ FanCrash(t)
  PROVE  FanoutInv'
  <1>1. FanoutTypeOK'
    BY TypeFanStep DEF FanoutInv
  <1>2. /\ fan \in [Ticks -> FanLocals]
        /\ createdAt \in [Changes -> Nat]
        /\ checkpoint \in Nat
        /\ owed \subseteq Changes \X Subs
        /\ \A u \in Ticks : fan[u].since \in Nat /\ fan[u].batch \subseteq Changes
    BY TablesAssumption
    DEF FanoutInv, FanoutTypeOK, TablesTypeOK, FanTypeOK, FanLocals
  <1>3. UNCHANGED <<createdAt, subs, owed, late>>
    BY DEF FanStep, FanCrash, ReadCheckpoint, ReadChanges, ReadSubs, InsertDelivery,
           InsertRejected, WriteCheckpoint, tables
  <1>4. \A u \in Ticks \ {t} : fan'[u] = fan[u]
    BY <1>2
    DEF FanStep, FanCrash, ReadCheckpoint, ReadChanges, ReadSubs, InsertDelivery,
        InsertRejected, WriteCheckpoint
  <1>5. DOMAIN rows \subseteq DOMAIN rows'
    BY DEF FanStep, FanCrash, ReadCheckpoint, ReadChanges, ReadSubs, InsertDelivery,
           InsertRejected, WriteCheckpoint, tables, InsertRow
  <1>6. \A p \in owed : (Due(p)' <=> Due(p)) /\ (Served(p) => Served(p)')
    BY <1>3, <1>5, ServedGrows DEF Due
  <1>7. OwedAreReal'
    BY <1>3 DEF FanoutInv, OwedAreReal
  <1>8. Committed' = Committed
    BY <1>3 DEF Committed
  <1>9. checkpoint' = checkpoint \/ WriteCheckpoint(t)
    BY DEF FanStep, FanCrash, ReadCheckpoint, ReadChanges, ReadSubs, InsertDelivery,
           InsertRejected
  \* The parts that speak of t's locals, by what the step made of them.
  <1> DEFINE Own == /\ HasBatch(t)' => (fan[t].batch)' \subseteq Committed
                    /\ \A p \in owed :
                        /\ (fan'[t].pc # "idle" /\ Due(p)
                             /\ createdAt[p[1]] <= fan'[t].since)
                                => Served(p)'
                        /\ (/\ HasBatch(t)' /\ Due(p)
                             /\ \E c \in fan'[t].batch : createdAt[p[1]] <= createdAt[c])
                                => Served(p)' \/ p[1] \in fan'[t].batch
                        /\ (fan'[t].pc = "insert" /\ Due(p) /\ p[1] \in fan'[t].batch)
                                => Served(p)' \/ p \in fan'[t].todo
  <1>10. Own
    <2>1. CASE fan'[t] = NoFan
      BY <2>1 DEF NoFan, HasBatch
    <2>2. CASE ReadCheckpoint(t)
      <3>1. fan'[t].pc = "changes" /\ fan'[t].since = checkpoint
        BY <1>2, <2>2 DEF ReadCheckpoint, NoFan
      <3>2. \A p \in owed : (Due(p) /\ createdAt[p[1]] <= checkpoint) => Served(p)
        BY DEF FanoutInv, NoTimelyChangeLost, Due, Served
      <3> QED
        BY <1>6, <3>1, <3>2 DEF HasBatch
    <2>3. CASE ReadChanges(t) /\ fan'[t] # NoFan
      <3>1. /\ fan'[t].pc = "subs"
            /\ fan'[t].since = fan[t].since
            /\ fan'[t].batch = {c \in Committed : createdAt[c] > fan[t].since}
            /\ fan[t].pc = "changes"
        BY <1>2, <2>3 DEF ReadChanges, NewChanges, FanLocals
      <3>2. \A p \in owed : (Due(p) /\ createdAt[p[1]] <= fan[t].since) => Served(p)
        BY <3>1 DEF FanoutInv, SinceServed
      <3>3. \A p \in owed : p[1] \in Committed
        BY <1>2 DEF FanoutInv, OwedAreReal, Committed
      <3>4. \A p \in owed : Due(p) => Served(p) \/ p[1] \in fan'[t].batch
        BY <1>2, <3>1, <3>2, <3>3
      <3>5. fan'[t].batch \subseteq Committed
        BY <3>1
      <3> QED
        BY <1>6, <3>1, <3>2, <3>4, <3>5 DEF HasBatch
    <2>4. CASE ReadSubs(t)
      <3>1. /\ fan[t].pc = "subs" /\ fan'[t].pc = "insert"
            /\ fan'[t].since = fan[t].since
            /\ fan'[t].batch = fan[t].batch
            /\ fan'[t].todo = {p \in fan[t].batch \X ActiveSubs : p[1] \in Wants[p[2]]}
        BY <1>2, <2>4 DEF ReadSubs, FanLocals
      <3>2. \A p \in owed : (Due(p) /\ p[1] \in fan[t].batch) => p \in fan'[t].todo
        BY <1>2, <3>1 DEF FanoutInv, OwedAreReal, Due, ActiveSubs
      <3> QED
        BY <1>6, <3>1, <3>2
        DEF HasBatch, FanoutInv, BatchCommitted, SinceServed, BatchComplete
    <2>5. CASE InsertDelivery(t)
      <3>1. PICK q \in NextPairs(t) :
                /\ InsertRow(q[2], q[1], fan[t].now)
                /\ fan' = [fan EXCEPT ![t].todo = @ \ {q}]
        BY <2>5 DEF InsertDelivery
      <3>2. /\ fan[t].pc = "insert" /\ fan'[t].pc = "insert"
            /\ fan'[t].since = fan[t].since
            /\ fan'[t].batch = fan[t].batch
            /\ fan'[t].todo = fan[t].todo \ {q}
        BY <1>2, <2>5, <3>1 DEF InsertDelivery, FanLocals
      <3>3. Served(q)'
        <4>1. /\ q[2] \in Subs /\ q[1] \in Changes /\ fan[t].now \in Nat
              /\ DOMAIN rows \subseteq RowIds /\ \A i \in DOMAIN rows : rows[i] \in Row
          BY <1>2, TablesAssumption
          DEF NextPairs, FanLocals, FanoutInv, FanoutTypeOK, TablesTypeOK
        <4> QED
          BY <3>1, <4>1, InsertKeepsRows DEF Served, HasRow
      <3> QED
        BY <1>6, <3>2, <3>3
        DEF HasBatch, FanoutInv, BatchCommitted, SinceServed, BatchComplete, TodoComplete
    <2> QED
      BY <1>2, <2>1, <2>2, <2>3, <2>4, <2>5
      DEF FanStep, FanCrash, InsertRejected, WriteCheckpoint
  <1>11. BatchCommitted'
    BY <1>4, <1>8, <1>10 DEF FanoutInv, BatchCommitted, HasBatch
  <1>12. SinceServed'
    BY <1>3, <1>4, <1>6, <1>10 DEF FanoutInv, SinceServed
  <1>13. BatchComplete'
    BY <1>3, <1>4, <1>6, <1>10 DEF FanoutInv, BatchComplete, HasBatch
  <1>14. TodoComplete'
    BY <1>3, <1>4, <1>6, <1>10 DEF FanoutInv, TodoComplete
  <1>15. NoTimelyChangeLost'
    <2>1. CASE checkpoint' = checkpoint
      BY <1>3, <1>6, <2>1 DEF FanoutInv, NoTimelyChangeLost, Due, Served
    <2>2. CASE WriteCheckpoint(t)
      <3>1. PICK last \in fan[t].batch : checkpoint' = createdAt[last]
        BY <2>2 DEF WriteCheckpoint
      <3>2. fan[t].pc = "insert" /\ fan[t].todo = {}
        BY <2>2 DEF WriteCheckpoint
      <3>3. \A p \in owed : (Due(p) /\ createdAt[p[1]] <= createdAt[last]) => Served(p)
        BY <3>2 DEF FanoutInv, HasBatch, BatchComplete, TodoComplete
      <3> QED
        BY <1>3, <1>6, <3>1, <3>3 DEF NoTimelyChangeLost, Due, Served
    <2> QED
      BY <1>9, <2>1, <2>2
  <1> QED
    BY <1>1, <1>7, <1>11, <1>12, <1>13, <1>14, <1>15 DEF FanoutInv

(* A change committed behind a fan-out's back is late; any other lies ahead *)
(* of the checkpoint, of every read and of every batch.                     *)
LEMMA IngestCommitInv ==
  ASSUME FanoutInv, NEW r \in Runs, NEW c \in Changes, IngestCommit(r, c)
  PROVE  FanoutInv'
  <1>1. FanoutTypeOK'
    BY TypeOthers DEF FanoutInv, FanoutOthers
  <1>2. /\ createdAt \in [Changes -> Nat]
        /\ owed \subseteq Changes \X Subs
        /\ \A u \in Ticks : fan[u].batch \subseteq Changes
    BY TablesAssumption
    DEF FanoutInv, FanoutTypeOK, TablesTypeOK, FanTypeOK, FanLocals
  <1>3. /\ UNCHANGED <<clock, runNow, subs, rows, checkpoint, fan>>
        /\ runNow[r] # 0 /\ createdAt[c] = 0
        /\ createdAt' = [createdAt EXCEPT ![c] = runNow[r]]
        /\ owed' = owed \cup {<<c, s>> : s \in {x \in ActiveSubs : c \in Wants[x]}}
        /\ late \subseteq late'
        /\ LookedPast(runNow[r]) => c \in late'
    BY DEF IngestCommit, CommitChange
  <1>4. /\ createdAt'[c] = runNow[r]
        /\ \A d \in Changes \ {c} : createdAt'[d] = createdAt[d]
    BY <1>2, <1>3
  <1>5. \A p \in owed' : p \in owed \/ p[1] = c
    BY <1>3
  <1>6. \A p \in owed : p[1] # c /\ p[1] \in Changes
    BY <1>2, <1>3 DEF FanoutInv, OwedAreReal
  <1>7. \A p \in owed' : (Due(p)' /\ p[1] # c) => p \in owed /\ Due(p)
    BY <1>3, <1>5 DEF Due
  <1>8. \A p \in owed' : Due(p)' /\ p[1] = c => ~ LookedPast(runNow[r])
    BY <1>3 DEF Due
  <1>9. \A p : Served(p)' <=> Served(p)
    BY <1>3 DEF Served, HasRow
  <1>10. \A u \in Ticks : HasBatch(u) => c \notin fan[u].batch
    BY <1>3 DEF FanoutInv, BatchCommitted, Committed
  <1>11. OwedAreReal'
    <2> SUFFICES ASSUME NEW p \in owed'
                 PROVE  (createdAt[p[1]] # 0 /\ p[1] \in Wants[p[2]] /\ subs[p[2]] # "none")'
      BY DEF OwedAreReal
    <2>1. CASE p \in owed
      BY <1>3, <1>4, <1>6, <2>1 DEF FanoutInv, OwedAreReal
    <2>2. CASE p \notin owed
      BY <1>3, <1>4, <2>2 DEF ActiveSubs
    <2> QED
      BY <2>1, <2>2
  <1>12. BatchCommitted'
    BY <1>3, <1>4, <1>2 DEF FanoutInv, BatchCommitted, HasBatch, Committed
  <1>13. SinceServed'
    <2> SUFFICES ASSUME NEW u \in Ticks, NEW p \in owed',
                        fan[u].pc # "idle", Due(p)', createdAt'[p[1]] <= fan[u].since
                 PROVE  Served(p)
      BY <1>3, <1>9 DEF SinceServed
    <2>1. p[1] # c
      BY <1>4, <1>8 DEF LookedPast
    <2> QED
      BY <1>4, <1>6, <1>7, <2>1 DEF FanoutInv, SinceServed
  <1>14. BatchComplete'
    <2> SUFFICES ASSUME NEW u \in Ticks, NEW p \in owed', HasBatch(u), Due(p)',
                        NEW d \in fan[u].batch, createdAt'[p[1]] <= createdAt'[d]
                 PROVE  Served(p) \/ p[1] \in fan[u].batch
      BY <1>3, <1>9 DEF BatchComplete, HasBatch
    <2>1. d # c /\ createdAt'[d] = createdAt[d]
      BY <1>2, <1>4, <1>10
    <2>2. p[1] # c
      BY <1>4, <1>8, <2>1 DEF LookedPast, HasBatch
    <2> QED
      BY <1>4, <1>6, <1>7, <2>1, <2>2 DEF FanoutInv, BatchComplete
  <1>15. TodoComplete'
    <2> SUFFICES ASSUME NEW u \in Ticks, NEW p \in owed', fan[u].pc = "insert",
                        Due(p)', p[1] \in fan[u].batch
                 PROVE  Served(p) \/ p \in fan[u].todo
      BY <1>3, <1>9 DEF TodoComplete
    <2>1. p[1] # c
      BY <1>10 DEF HasBatch
    <2> QED
      BY <1>7, <2>1 DEF FanoutInv, TodoComplete
  <1>16. NoTimelyChangeLost'
    <2> SUFFICES ASSUME NEW p \in owed', Due(p)', createdAt'[p[1]] <= checkpoint
                 PROVE  Served(p)
      BY <1>3, <1>9 DEF NoTimelyChangeLost, Due, Served
    <2>1. p[1] # c
      BY <1>4, <1>8 DEF LookedPast
    <2> QED
      BY <1>4, <1>6, <1>7, <2>1 DEF FanoutInv, NoTimelyChangeLost, Due, Served
  <1> QED
    BY <1>1, <1>11, <1>12, <1>13, <1>14, <1>15, <1>16 DEF FanoutInv

(* Whatever leaves the feed and the ticks alone and takes rows only from    *)
(* subscriptions that end: nothing comes to be due, nothing due loses rows. *)
LEMMA OthersInv ==
  ASSUME FanoutInv, FanoutTypeOK',
         UNCHANGED <<createdAt, checkpoint, fan, owed, late>>,
         \A s \in Subs : subs[s] # "none" => subs'[s] # "none",
         \A s \in Subs : subs'[s] = "active" /\ subs[s] # "none" => subs[s] = "active",
         \A i \in DOMAIN rows : subs'[i.sub] = "active" => i \in DOMAIN rows'
  PROVE  FanoutInv'
  <1>1. owed \subseteq Changes \X Subs
    BY DEF FanoutInv, FanoutTypeOK, FanTypeOK
  <1>2. \A p \in owed : Due(p)' => Due(p)
    BY <1>1 DEF Due, FanoutInv, OwedAreReal
  <1>3. \A p \in owed : Due(p)' /\ Served(p) => Served(p)'
    BY DEF Due, Served, HasRow
  <1>4. OwedAreReal'
    BY <1>1 DEF FanoutInv, OwedAreReal
  <1>5. BatchCommitted'
    BY DEF FanoutInv, BatchCommitted, HasBatch, Committed
  <1>6. SinceServed'
    BY <1>2, <1>3 DEF FanoutInv, SinceServed
  <1>7. BatchComplete'
    BY <1>2, <1>3 DEF FanoutInv, BatchComplete, HasBatch
  <1>8. TodoComplete'
    BY <1>2, <1>3 DEF FanoutInv, TodoComplete
  <1>9. NoTimelyChangeLost'
    <2> SUFFICES ASSUME NEW p \in owed, Due(p)', createdAt[p[1]] <= checkpoint
                 PROVE  Served(p)'
      BY DEF NoTimelyChangeLost, Due, Served
    <2>1. Due(p)
      BY <1>2
    <2>2. Served(p)
      BY <2>1 DEF FanoutInv, NoTimelyChangeLost, Due, Served
    <2> QED
      BY <1>3, <2>2
  <1> QED
    BY <1>4, <1>5, <1>6, <1>7, <1>8, <1>9 DEF FanoutInv

(* Every step of the specification, or none, keeps the invariant.           *)
LEMMA FanoutNextInv ==
  ASSUME FanoutInv, [FanoutNext]_fanoutVars
  PROVE  FanoutInv'
  <1>1. FanoutTypeOK'
    BY TypeFanStep, TypeOthers, TypeStutter DEF FanoutNext, FanoutInv
  <1>2. subs \in [Subs -> {"none", "active", "paused", "deleted"}]
    BY DEF FanoutInv, FanoutTypeOK, TablesTypeOK
  <1>3. CASE \E t \in Ticks : FanStep(t) \/ FanCrash(t)
    BY <1>3, FanStepInv
  <1>4. CASE \E r \in Runs, c \in Changes : IngestCommit(r, c)
    BY <1>4, IngestCommitInv
  <1>5. CASE \/ ClockTick /\ UNCHANGED fanVars
             \/ \E r \in Runs : (BeginRun(r) \/ EndRun(r)) /\ UNCHANGED fanVars
             \/ UNCHANGED fanoutVars
    <2>1. UNCHANGED <<createdAt, checkpoint, fan, owed, late, subs, rows>>
      BY <1>5 DEF ClockTick, BeginRun, EndRun, fanVars, fanoutVars, tables
    <2> QED
      BY <1>1, <2>1, OthersInv
  <1>6. CASE \E s \in Subs : CreateSubscription(s) /\ UNCHANGED fanVars
    <2>1. /\ UNCHANGED <<createdAt, checkpoint, fan, owed, late, rows>>
          /\ \A s \in Subs : subs[s] # "none" => subs'[s] = subs[s]
      BY <1>2, <1>6 DEF CreateSubscription, fanVars
    <2> QED
      BY <1>1, <2>1, OthersInv
  <1>7. CASE \E s \in Subs : DeleteSubscription(s) /\ UNCHANGED fanVars
    <2>1. PICK s \in Subs : DeleteSubscription(s) /\ UNCHANGED fanVars
      BY <1>7
    <2>2. /\ UNCHANGED <<createdAt, checkpoint, fan, owed, late>>
          /\ subs' = [subs EXCEPT ![s] = "deleted"]
          /\ DOMAIN rows' = {j \in DOMAIN rows : j.sub # s}
      BY <2>1 DEF DeleteSubscription, CascadeRows, fanVars
    <2> QED
      BY <1>1, <1>2, <2>2, OthersInv
  <1>8. CASE \E s \in Subs : PauseSubscription(s)
    <2>1. PICK s \in Subs : PauseSubscription(s)
      BY <1>8
    <2>2. /\ UNCHANGED <<createdAt, checkpoint, fan, owed, late, rows>>
          /\ subs' = [subs EXCEPT ![s] = "paused"]
      BY <2>1 DEF PauseSubscription, fanVars
    <2> QED
      BY <1>1, <1>2, <2>2, OthersInv
  <1> QED
    BY <1>3, <1>4, <1>5, <1>6, <1>7, <1>8 DEF FanoutNext, FanoutOthers

(* FanoutKeepsTimely: however many ticks overlap, die part-way or move the  *)
(* checkpoint back, a subscription that stays active has a delivery for     *)
(* every change it was owed that was committed before any fan-out looked    *)
(* past its second, once the checkpoint has passed it.                      *)
THEOREM FanoutKeepsTimely == FanoutSpec => []NoTimelyChangeLost
  <1>1. FanoutInv => NoTimelyChangeLost
    BY DEF FanoutInv
  <1> QED
    BY FanoutInvInit, FanoutNextInv, <1>1, PTL DEF FanoutSpec

-----------------------------------------------------------------------------
(* Powers of two.  The provers know nothing of 2^n; that it counts the      *)
(* subsets of 1..n tells how it grows.                                      *)

(* PowerCounts: 2^n is the number of subsets of 1..n.                       *)
LEMMA PowerCounts ==
  ASSUME NEW n \in Nat
  PROVE  /\ IsFiniteSet(SUBSET (1..n))
         /\ Cardinality(SUBSET (1..n)) = 2^n
         /\ 2^n \in Nat
  <1>1. IsFiniteSet(1..n) /\ Cardinality(1..n) = n
    <2>1. 1 \in Int /\ n \in Int
      OBVIOUS
    <2>2. IsFiniteSet(1..n) /\ Cardinality(1..n) = IF 1 > n THEN 0 ELSE n - 1 + 1
      BY <2>1, FS_Interval
    <2> QED
      BY <2>2
  <1>2. IsFiniteSet(SUBSET (1..n)) /\ Cardinality(SUBSET (1..n)) = 2^Cardinality(1..n)
    BY <1>1, FS_SUBSET
  <1>3. Cardinality(SUBSET (1..n)) \in Nat
    BY <1>2, FS_CardinalityType
  <1> QED
    BY <1>1, <1>2, <1>3

(* PowerDoubles: half of the subsets of 1..n+1 have n+1 in them.            *)
LEMMA PowerDoubles ==
  ASSUME NEW n \in Nat
  PROVE  2^(n + 1) = 2 * 2^n
  <1> DEFINE A == SUBSET (1..n)
             B == {X \cup {n + 1} : X \in A}
             f == [X \in A |-> X \cup {n + 1}]
  <1>1. IsFiniteSet(A) /\ Cardinality(A) = 2^n /\ 2^n \in Nat
    BY PowerCounts
  <1>2. n + 1 \in Nat /\ n + 1 \notin 1..n /\ 1..(n + 1) = 1..n \cup {n + 1}
    OBVIOUS
  <1>3. IsFiniteSet(SUBSET (1..(n + 1))) /\ Cardinality(SUBSET (1..(n + 1))) = 2^(n + 1)
    BY <1>2, PowerCounts
  <1>4. \A X, Y \in A : X \cup {n + 1} = Y \cup {n + 1} => X = Y
    <2> SUFFICES ASSUME NEW X \in A, NEW Y \in A, X \cup {n + 1} = Y \cup {n + 1}
                 PROVE  X = Y
      OBVIOUS
    <2>1. n + 1 \notin X /\ n + 1 \notin Y
      BY <1>2
    <2> QED
      BY <2>1
  <1>5. f \in Bijection(A, B)
    <2>1. f \in [A -> B]
      OBVIOUS
    <2>2. \A X, Y \in A : f[X] = f[Y] => X = Y
      BY <1>4
    <2>3. \A Z \in B : \E X \in A : f[X] = Z
      OBVIOUS
    <2> QED
      BY <2>1, <2>2, <2>3, Zenon DEF Bijection, Injection, Surjection, IsInjective
  <1>6. ExistsBijection(A, B)
    BY <1>5 DEF ExistsBijection
  <1>7. IsFiniteSet(B) /\ Cardinality(B) = 2^n
    BY <1>1, <1>6, FS_Bijection
  <1>8. SUBSET (1..(n + 1)) = A \cup B
    <2>1. ASSUME NEW X \in SUBSET (1..(n + 1)), n + 1 \in X PROVE X \in B
      <3>1. X \ {n + 1} \in A
        BY <1>2
      <3>2. X = (X \ {n + 1}) \cup {n + 1}
        BY <2>1
      <3> QED
        BY <3>1, <3>2
    <2>2. ASSUME NEW X \in SUBSET (1..(n + 1)), n + 1 \notin X PROVE X \in A
      BY <1>2, <2>2
    <2>3. A \cup B \subseteq SUBSET (1..(n + 1))
      BY <1>2
    <2> QED
      BY <2>1, <2>2, <2>3
  <1>9. A \cap B = {}
    BY <1>2
  <1>10. Cardinality(A \cup B) = Cardinality(A) + Cardinality(B) - Cardinality(A \cap B)
    BY <1>1, <1>7, FS_Union
  <1>11. Cardinality(A \cap B) = 0
    BY <1>9, FS_EmptySet
  <1>12. 2^(n + 1) = Cardinality(A \cup B)
    BY <1>3, <1>8, Zenon
  <1> HIDE DEF A, B
  <1> QED
    BY <1>1, <1>7, <1>10, <1>11, <1>12

(* BackoffAdds: each failed attempt adds its backoff to the sum.            *)
LEMMA BackoffAdds ==
  /\ BackoffSum(0) = 0
  /\ \A a \in Nat : /\ BackoffSum(a) \in Nat
                    /\ Backoff(a) \in Nat
                    /\ BackoffSum(a + 1) = BackoffSum(a) + Backoff(a + 1)
  <1>1. BaseBackoff \in Nat
    BY DeliveryAssumption
  <1>2. \A a \in Nat : 2^a \in Nat /\ 2^(a + 1) = 2 * 2^a /\ 2^a >= 1
    <2>1. \A a \in Nat : 2^a \in Nat /\ 2^(a + 1) = 2 * 2^a
      BY PowerCounts, PowerDoubles
    <2>2. ASSUME NEW a \in Nat PROVE 2^a >= 1
      <3>1. IsFiniteSet(SUBSET (1..a)) /\ Cardinality(SUBSET (1..a)) = 2^a
        BY PowerCounts
      <3>2. SUBSET (1..a) # {}
        OBVIOUS
      <3>3. 2^a # 0
        BY <3>1, <3>2, FS_EmptySet
      <3> QED
        BY <2>1, <3>3
    <2> QED
      BY <2>1, <2>2
  <1>3. BackoffSum(0) = 0
    BY <1>1, <1>2 DEF BackoffSum
  <1>4. ASSUME NEW a \in Nat
        PROVE  /\ BackoffSum(a) \in Nat
               /\ Backoff(a) \in Nat
               /\ BackoffSum(a + 1) = BackoffSum(a) + Backoff(a + 1)
    <2> DEFINE x == 2^a
    <2>1. x \in Nat /\ x >= 1 /\ 2^(a + 1) = 2 * x /\ 2^((a + 1) + 1) = 2 * (2 * x)
      BY <1>2, a + 1 \in Nat
    <2> HIDE DEF x
    <2>2. /\ BackoffSum(a) = BaseBackoff * (2 * x - 2)
          /\ BackoffSum(a + 1) = BaseBackoff * (2 * (2 * x) - 2)
          /\ Backoff(a + 1) = BaseBackoff * (2 * x)
          /\ Backoff(a) = BaseBackoff * x
      BY <2>1 DEF BackoffSum, Backoff, x
    <2>3. /\ BaseBackoff * (2 * x - 2) \in Nat
          /\ BaseBackoff * x \in Nat
          /\ BaseBackoff * (2 * (2 * x) - 2)
                = BaseBackoff * (2 * x - 2) + BaseBackoff * (2 * x)
      BY <1>1, <2>1
    <2> QED
      BY <2>2, <2>3
  <1> QED
    BY <1>3, <1>4

-----------------------------------------------------------------------------
(* Delivery: types.                                                         *)

(* What deliverDue read: some rows by their ids.                            *)
RowMaps == UNION {[D -> Row] : D \in SUBSET RowIds}

DrainLocals == [pc: {"idle", "pick", "inactive", "post", "record", "pause"},
                now: 0..MaxTime, due: RowMaps, cur: SUBSET RowIds,
                answer: {"none", "2xx", "error"}]

DeliveryTypes ==
    /\ TablesTypeOK
    /\ drain \in [Ticks -> DrainLocals]
    /\ posts \in [RowIds -> Nat]
    /\ born \in [RowIds -> Nat]
    /\ cuts \in Nat
    /\ crossed \in Nat

(* A tick works on at most one delivery, of the batch it read.              *)
OneInHand ==
    \A t \in Ticks :
        /\ drain[t].cur \subseteq DOMAIN drain[t].due
        /\ \A i, j \in drain[t].cur : i = j
        /\ drain[t].pc \in {"idle", "pick"} => drain[t].cur = {}
        /\ drain[t].pc = "idle" => DOMAIN drain[t].due = {}

(* RowMapIs: a member of RowMaps is a function from ids to rows ...         *)
LEMMA RowMapIs ==
  ASSUME NEW f \in RowMaps
  PROVE  /\ DOMAIN f \subseteq RowIds
         /\ \A i \in DOMAIN f : f[i] \in Row
         /\ f = [i \in DOMAIN f |-> f[i]]
  <1>1. PICK D \in SUBSET RowIds : f \in [D -> Row]
    BY DEF RowMaps
  <1>2. DOMAIN f = D /\ f = [i \in D |-> f[i]]
    BY <1>1
  <1> QED
    BY <1>1, <1>2

(* ... and every such function is one.                                      *)
LEMMA RowMapFrom ==
  ASSUME NEW f, NEW D, D \subseteq RowIds, f = [i \in D |-> f[i]],
         \A i \in D : f[i] \in Row
  PROVE  f \in RowMaps
  <1>1. f \in [D -> Row]
    OBVIOUS
  <1> QED
    BY <1>1 DEF RowMaps

(* DeliveryTypes says more than the type invariant that the runs check.     *)
LEMMA TypesImply == DeliveryTypes => DeliveryTypeOK
  <1> SUFFICES ASSUME DeliveryTypes PROVE DeliveryTypeOK
    OBVIOUS
  <1>1. ASSUME NEW t \in Ticks
        PROVE  /\ drain[t].pc \in {"idle", "pick", "inactive", "post", "record", "pause"}
               /\ drain[t].now \in 0..MaxTime
               /\ DOMAIN drain[t].due \subseteq RowIds
               /\ \A i \in DOMAIN drain[t].due : drain[t].due[i] \in Row
               /\ drain[t].cur \subseteq RowIds
               /\ drain[t].answer \in {"none", "2xx", "error"}
    <2>1. drain[t] \in DrainLocals
      BY DEF DeliveryTypes
    <2>2. drain[t].due \in RowMaps
      BY <2>1 DEF DrainLocals
    <2> QED
      BY <2>1, <2>2, RowMapIs DEF DrainLocals
  <1> QED
    BY <1>1 DEF DeliveryTypes, DeliveryTypeOK, DrainTypeOK

(* NoDrain is what a tick that is not delivering holds.                     *)
LEMMA NoDrainTyped == NoDrain \in DrainLocals /\ DOMAIN NoDrain.due = {}
  <1> DEFINE none == [i \in {} |-> i]
  <1>1. none \in RowMaps /\ DOMAIN none = {}
    <2>1. none = [i \in {} |-> none[i]] /\ {} \subseteq RowIds
      OBVIOUS
    <2> HIDE DEF none
    <2>2. none \in RowMaps
      BY <2>1, RowMapFrom
    <2> QED
      BY <2>2, <2>1
  <1> QED
    BY <1>1, TablesAssumption DEF NoDrain, DrainLocals

(* InsertAdds: an insert adds one pending row under an id that was free.    *)
LEMMA InsertAdds ==
  ASSUME NEW s \in Subs, NEW c \in Changes, NEW n \in Nat, InsertRow(s, c, n)
  PROVE  \E id \in RowIds \ DOMAIN rows :
            /\ id.sub = s /\ id.change = c
            /\ DOMAIN rows' = DOMAIN rows \cup {id}
            /\ rows'[id] = NewRow(n)
            /\ \A i \in DOMAIN rows : rows'[i] = rows[i]
            /\ rows' = [i \in DOMAIN rows' |-> rows'[i]]
  <1>1. PICK k \in Copies :
            LET id == [sub |-> s, change |-> c, copy |-> k] IN
            /\ id \notin DOMAIN rows
            /\ rows' = [i \in DOMAIN rows \cup {id} |->
                            IF i = id THEN NewRow(n) ELSE rows[i]]
    BY DEF InsertRow
  <1> DEFINE id == [sub |-> s, change |-> c, copy |-> k]
  <1>2. id \in RowIds /\ id.sub = s /\ id.change = c
    BY DEF RowIds
  <1>3. /\ DOMAIN rows' = DOMAIN rows \cup {id}
        /\ rows'[id] = NewRow(n)
        /\ \A i \in DOMAIN rows : rows'[i] = rows[i]
        /\ rows' = [i \in DOMAIN rows' |-> rows'[i]]
    BY <1>1
  <1> QED
    BY <1>1, <1>2, <1>3

(* UpdateIs: an update touches its row, if that is still there, and no      *)
(* other.                                                                   *)
LEMMA UpdateIs ==
  ASSUME NEW i, NEW r, UpdateRow(i, r)
  PROVE  /\ DOMAIN rows' = DOMAIN rows
         /\ \A j \in DOMAIN rows : j # i => rows'[j] = rows[j]
         /\ i \in DOMAIN rows => rows'[i] = r
  BY DEF UpdateRow

(* NextTurnIs: the delivery a turn worked on leaves the batch; the other    *)
(* ticks hold what they held.                                               *)
LEMMA NextTurnIs ==
  ASSUME drain \in [Ticks -> DrainLocals], NEW t \in Ticks, NEW i \in RowIds,
         NextTurn(t, i)
  PROVE  /\ drain' \in [Ticks -> DrainLocals]
         /\ \A u \in Ticks \ {t} : drain'[u] = drain[u]
         /\ drain'[t].pc = "pick" /\ drain'[t].cur = {}
         /\ drain'[t].now = drain[t].now
         /\ DOMAIN drain'[t].due = DOMAIN drain[t].due \ {i}
         /\ \A j \in DOMAIN drain'[t].due : drain'[t].due[j] = drain[t].due[j]
  <1> DEFINE rest == [j \in DOMAIN drain[t].due \ {i} |-> drain[t].due[j]]
             next == [drain[t] EXCEPT !.pc = "pick", !.cur = {}, !.answer = "none",
                                      !.due = rest]
  <1>1. drain[t] \in DrainLocals
    OBVIOUS
  <1>2. drain[t].due \in RowMaps
    BY <1>1 DEF DrainLocals
  <1>3. rest \in RowMaps
    <2>1. /\ DOMAIN drain[t].due \subseteq RowIds
          /\ \A j \in DOMAIN drain[t].due : drain[t].due[j] \in Row
      BY <1>2, RowMapIs
    <2> DEFINE D == DOMAIN drain[t].due \ {i}
    <2>2. rest = [j \in D |-> rest[j]] /\ D \subseteq RowIds /\ \A j \in D : rest[j] \in Row
      BY <2>1
    <2> HIDE DEF rest, D
    <2> QED
      BY <2>2, RowMapFrom
  <1>4. drain' = [drain EXCEPT ![t] = next]
    BY DEF NextTurn
  <1> HIDE DEF rest
  <1>5. /\ next \in DrainLocals
        /\ next.pc = "pick" /\ next.cur = {} /\ next.now = drain[t].now /\ next.due = rest
    BY <1>1, <1>3 DEF DrainLocals
  <1> HIDE DEF next
  <1>6. /\ drain' \in [Ticks -> DrainLocals]
        /\ drain'[t] = next
        /\ \A u \in Ticks \ {t} : drain'[u] = drain[u]
    BY <1>4, <1>5
  <1>7. /\ DOMAIN rest = DOMAIN drain[t].due \ {i}
        /\ \A j \in DOMAIN rest : rest[j] = drain[t].due[j]
    BY DEF rest
  <1> QED
    BY <1>5, <1>6, <1>7

(* ReadDueIs: a batch of due rows is read as it stands.                     *)
LEMMA ReadDueIs ==
  ASSUME DeliveryTypes, NEW t \in Ticks, ReadDue(t)
  PROVE  /\ drain' \in [Ticks -> DrainLocals]
         /\ \A u \in Ticks \ {t} : drain'[u] = drain[u]
         /\ drain[t].pc = "idle" /\ drain'[t].pc = "pick" /\ drain'[t].cur = {}
         /\ drain'[t].now = clock
         /\ DOMAIN drain'[t].due \subseteq DueRows
         /\ \A i \in DOMAIN drain'[t].due : drain'[t].due[i] = rows[i]
  <1>1. PICK D \in SUBSET DueRows :
            drain' = [drain EXCEPT ![t] = [NoDrain EXCEPT !.pc = "pick", !.now = clock,
                                              !.due = [i \in D |-> rows[i]]]]
    BY DEF ReadDue
  <1> DEFINE f == [i \in D |-> rows[i]]
             next == [NoDrain EXCEPT !.pc = "pick", !.now = clock, !.due = f]
  <1>2. /\ drain \in [Ticks -> DrainLocals]
        /\ DOMAIN rows \subseteq RowIds
        /\ \A i \in DOMAIN rows : rows[i] \in Row
        /\ clock \in 0..MaxTime
    BY TablesAssumption DEF DeliveryTypes, TablesTypeOK
  <1>3. f \in RowMaps
    <2>1. f = [i \in D |-> f[i]] /\ D \subseteq RowIds /\ \A i \in D : f[i] \in Row
      BY <1>2 DEF DueRows
    <2> HIDE DEF f
    <2> QED
      BY <2>1, RowMapFrom
  <1>4. drain' = [drain EXCEPT ![t] = next]
    BY <1>1
  <1> HIDE DEF f
  <1>5. next \in DrainLocals /\ next.pc = "pick" /\ next.cur = {} /\ next.now = clock
        /\ next.due = f
    BY <1>2, <1>3, NoDrainTyped DEF DrainLocals, NoDrain
  <1> HIDE DEF next
  <1>6. /\ drain' \in [Ticks -> DrainLocals]
        /\ \A u \in Ticks \ {t} : drain'[u] = drain[u]
        /\ drain'[t] = next
    BY <1>2, <1>4, <1>5
  <1>7. DOMAIN f = D /\ \A i \in D : f[i] = rows[i]
    BY DEF f
  <1>8. drain[t].pc = "idle"
    BY DEF ReadDue
  <1> QED
    BY <1>5, <1>6, <1>7, <1>8

(* TurnIs: what a step within a turn makes of the tick's locals.            *)
LEMMA TurnIs ==
  ASSUME DeliveryTypes, NEW t \in Ticks,
         PickDelivery(t) \/ Post(t) \/ RecordExhausted(t)
  PROVE  /\ drain' \in [Ticks -> DrainLocals]
         /\ \A u \in Ticks \ {t} : drain'[u] = drain[u]
         /\ drain'[t].due = drain[t].due /\ drain'[t].now = drain[t].now
         /\ PickDelivery(t) =>
                /\ drain[t].pc = "pick" /\ drain'[t].pc \in {"post", "inactive"}
                /\ \E i \in DOMAIN drain[t].due :
                    /\ drain'[t].cur = {i}
                    /\ drain'[t].pc = "post" => subs[i.sub] = "active"
         /\ Post(t) => /\ drain[t].pc = "post" /\ drain'[t].pc = "record"
                       /\ drain'[t].cur = drain[t].cur
         /\ RecordExhausted(t) => /\ drain[t].pc = "record" /\ drain'[t].pc = "pause"
                                  /\ drain'[t].cur = drain[t].cur
  <1>0. drain \in [Ticks -> DrainLocals] /\ drain[t] \in DrainLocals
    BY DEF DeliveryTypes
  <1>1. CASE PickDelivery(t)
    <2>1. PICK i \in DOMAIN drain[t].due :
              drain' = [drain EXCEPT ![t].cur = {i},
                  ![t].pc = IF subs[i.sub] = "active" THEN "post" ELSE "inactive"]
      BY <1>1 DEF PickDelivery
    <2>2. i \in RowIds
      BY <1>0, RowMapIs DEF DrainLocals
    <2> DEFINE next == [drain[t] EXCEPT !.cur = {i},
                  !.pc = IF subs[i.sub] = "active" THEN "post" ELSE "inactive"]
    <2>3. drain' = [drain EXCEPT ![t] = next]
      BY <2>1
    <2>4. /\ next \in DrainLocals /\ next.due = drain[t].due /\ next.now = drain[t].now
          /\ next.cur = {i} /\ next.pc \in {"post", "inactive"}
          /\ next.pc = "post" => subs[i.sub] = "active"
      BY <1>0, <2>2 DEF DrainLocals
    <2> HIDE DEF next
    <2>5. /\ drain' \in [Ticks -> DrainLocals] /\ drain'[t] = next
          /\ \A u \in Ticks \ {t} : drain'[u] = drain[u]
      BY <1>0, <2>3, <2>4
    <2>6. drain[t].pc = "pick" /\ ~ Post(t) /\ ~ RecordExhausted(t)
      BY <1>1 DEF PickDelivery, Post, RecordExhausted
    <2> QED
      BY <2>4, <2>5, <2>6
  <1>2. CASE Post(t)
    <2>1. PICK answer \in {"2xx", "error"} :
              drain' = [drain EXCEPT ![t].pc = "record", ![t].answer = answer]
      BY <1>2 DEF Post
    <2> DEFINE next == [drain[t] EXCEPT !.pc = "record", !.answer = answer]
    <2>3. drain' = [drain EXCEPT ![t] = next]
      BY <2>1
    <2>4. /\ next \in DrainLocals /\ next.due = drain[t].due /\ next.now = drain[t].now
          /\ next.cur = drain[t].cur /\ next.pc = "record"
      BY <1>0 DEF DrainLocals
    <2> HIDE DEF next
    <2>5. /\ drain' \in [Ticks -> DrainLocals] /\ drain'[t] = next
          /\ \A u \in Ticks \ {t} : drain'[u] = drain[u]
      BY <1>0, <2>3, <2>4
    <2>6. drain[t].pc = "post" /\ ~ PickDelivery(t) /\ ~ RecordExhausted(t)
      BY <1>2 DEF PickDelivery, Post, RecordExhausted
    <2> QED
      BY <2>4, <2>5, <2>6
  <1>3. CASE RecordExhausted(t)
    <2> DEFINE next == [drain[t] EXCEPT !.pc = "pause"]
    <2>3. drain' = [drain EXCEPT ![t] = next]
      BY <1>3 DEF RecordExhausted
    <2>4. /\ next \in DrainLocals /\ next.due = drain[t].due /\ next.now = drain[t].now
          /\ next.cur = drain[t].cur /\ next.pc = "pause"
      BY <1>0 DEF DrainLocals
    <2> HIDE DEF next
    <2>5. /\ drain' \in [Ticks -> DrainLocals] /\ drain'[t] = next
          /\ \A u \in Ticks \ {t} : drain'[u] = drain[u]
      BY <1>0, <2>3, <2>4
    <2>6. drain[t].pc = "record" /\ ~ PickDelivery(t) /\ ~ Post(t)
      BY <1>3 DEF PickDelivery, Post, RecordExhausted
    <2> QED
      BY <2>4, <2>5, <2>6
  <1> QED
    BY <1>1, <1>2, <1>3

(* EndIs: what ends a call: the loop is done, or it is cut off.             *)
LEMMA EndIs ==
  ASSUME DeliveryTypes, NEW t \in Ticks, DrainDone(t) \/ DrainCrash(t)
  PROVE  /\ drain' \in [Ticks -> DrainLocals]
         /\ \A u \in Ticks \ {t} : drain'[u] = drain[u]
         /\ drain'[t].pc = "idle" /\ drain'[t].cur = {} /\ DOMAIN drain'[t].due = {}
         /\ drain'[t].now = 0
  <1>1. drain' = [drain EXCEPT ![t] = NoDrain]
    BY DEF DrainDone, DrainCrash
  <1>2. NoDrain.pc = "idle" /\ NoDrain.cur = {} /\ NoDrain.now = 0
    BY DEF NoDrain
  <1> QED
    BY <1>1, <1>2, NoDrainTyped DEF DeliveryTypes

(* UpdateTyped: an update with a row keeps the table's type.                *)
LEMMA UpdateTyped ==
  ASSUME TablesTypeOK, NEW i, NEW r, UpdateRow(i, r),
         i \in DOMAIN rows => r \in Row,
         UNCHANGED <<clock, createdAt, runNow, subs>>
  PROVE  TablesTypeOK'
  <1>1. DOMAIN rows' = DOMAIN rows /\ \A j \in DOMAIN rows' : rows'[j] \in Row
    BY UpdateIs DEF TablesTypeOK
  <1> QED
    BY <1>1 DEF TablesTypeOK

(* Each statement of deliverDue keeps the types.                            *)
LEMMA TypesDrainStep ==
  ASSUME DeliveryTypes, OneInHand, NEW t \in Ticks, DrainStep(t) \/ DrainCrash(t)
  PROVE  DeliveryTypes' /\ OneInHand'
  <1>0. /\ TablesTypeOK
        /\ drain \in [Ticks -> DrainLocals]
        /\ drain[t] \in DrainLocals
        /\ posts \in [RowIds -> Nat] /\ born \in [RowIds -> Nat]
        /\ cuts \in Nat /\ crossed \in Nat
        /\ MaxAttempts \in Nat
    BY DeliveryAssumption DEF DeliveryTypes
  <1>a. /\ drain[t].cur \subseteq RowIds
        /\ drain[t].now \in Nat
        /\ \A i \in DOMAIN drain[t].due : drain[t].due[i] \in Row
        /\ drain[t].cur \subseteq DOMAIN drain[t].due
    BY <1>0, RowMapIs, TablesAssumption DEF DrainLocals, OneInHand
  <1>b. ASSUME UNCHANGED tables
        PROVE  TablesTypeOK'
    BY <1>0, <1>b DEF tables, TablesTypeOK
  <1>c. \A i \in DOMAIN rows : rows[i] \in Row
    BY <1>0 DEF TablesTypeOK
  <1> DEFINE Own == /\ drain'[t].cur \subseteq DOMAIN drain'[t].due
                    /\ \A i, j \in drain'[t].cur : i = j
                    /\ drain'[t].pc \in {"idle", "pick"} => drain'[t].cur = {}
                    /\ drain'[t].pc = "idle" => DOMAIN drain'[t].due = {}
  <1>d. ASSUME NEW i \in drain[t].cur, NextTurn(t, i)
        PROVE  drain' \in [Ticks -> DrainLocals] /\ OneInHand'
    <2>1. /\ drain' \in [Ticks -> DrainLocals]
          /\ \A u \in Ticks \ {t} : drain'[u] = drain[u]
          /\ Own
      BY <1>0, <1>a, <1>d, NextTurnIs
    <2> QED
      BY <2>1 DEF OneInHand
  <1>e. ASSUME DrainDone(t) \/ DrainCrash(t)
        PROVE  drain' \in [Ticks -> DrainLocals] /\ OneInHand'
    <2>1. /\ drain' \in [Ticks -> DrainLocals]
          /\ \A u \in Ticks \ {t} : drain'[u] = drain[u]
          /\ Own
      BY <1>e, EndIs
    <2> QED
      BY <2>1 DEF OneInHand
  <1>f. ASSUME PickDelivery(t) \/ Post(t) \/ RecordExhausted(t)
        PROVE  drain' \in [Ticks -> DrainLocals] /\ OneInHand'
    <2>1. /\ drain' \in [Ticks -> DrainLocals]
          /\ \A u \in Ticks \ {t} : drain'[u] = drain[u]
          /\ drain'[t].due = drain[t].due
      BY <1>f, TurnIs
    <2>2. drain'[t].pc \notin {"idle", "pick"}
      BY <1>f, TurnIs
    <2>3. \/ drain'[t].cur = drain[t].cur
          \/ \E i \in DOMAIN drain[t].due : drain'[t].cur = {i}
      BY <1>f, TurnIs
    <2>4. Own
      BY <2>1, <2>2, <2>3 DEF OneInHand
    <2> QED
      BY <2>1, <2>4 DEF OneInHand
  <1>g. \A i \in DOMAIN drain[t].due :
            NextAttempt(t, i) \in Nat /\ Backoff(NextAttempt(t, i)) \in Nat
    BY <1>a, BackoffAdds DEF NextAttempt, Row
  <1>1. CASE ReadDue(t)
    <2>1. /\ drain' \in [Ticks -> DrainLocals]
          /\ \A u \in Ticks \ {t} : drain'[u] = drain[u]
          /\ Own
      BY <1>1, ReadDueIs
    <2>2. OneInHand'
      BY <2>1 DEF OneInHand
    <2> QED
      BY <1>0, <1>1, <1>b, <2>1, <2>2 DEF ReadDue, DeliveryTypes
  <1>2. CASE PickDelivery(t)
    BY <1>0, <1>2, <1>b, <1>f DEF PickDelivery, DeliveryTypes
  <1>3. CASE DrainDone(t)
    BY <1>0, <1>3, <1>b, <1>e DEF DrainDone, DeliveryTypes
  <1>4. CASE FailInactive(t)
    <2>1. PICK i \in drain[t].cur :
              UpdateRow(i, [rows[i] EXCEPT !.status = "failed"]) /\ NextTurn(t, i)
      BY <1>4 DEF FailInactive
    <2>2. i \in DOMAIN rows => [rows[i] EXCEPT !.status = "failed"] \in Row
      BY <1>c DEF Row
    <2>3. TablesTypeOK'
      BY <1>0, <1>4, <2>1, <2>2, UpdateTyped DEF FailInactive
    <2> QED
      BY <1>0, <1>4, <1>d, <2>1, <2>3 DEF FailInactive, DeliveryTypes
  <1>5. CASE Post(t)
    <2>1. PICK i \in drain[t].cur : posts' = [posts EXCEPT ![i] = @ + 1]
      BY <1>5 DEF Post
    <2>2. posts' \in [RowIds -> Nat]
      BY <1>0, <1>a, <2>1
    <2> QED
      BY <1>0, <1>5, <1>b, <1>f, <2>2 DEF Post, DeliveryTypes
  <1>6. CASE RecordOk(t)
    <2>1. PICK i \in drain[t].cur :
              UpdateRow(i, [rows[i] EXCEPT !.status = "ok"]) /\ NextTurn(t, i)
      BY <1>6 DEF RecordOk
    <2>2. i \in DOMAIN rows => [rows[i] EXCEPT !.status = "ok"] \in Row
      BY <1>c DEF Row
    <2>3. TablesTypeOK'
      BY <1>0, <1>6, <2>1, <2>2, UpdateTyped DEF RecordOk
    <2> QED
      BY <1>0, <1>6, <1>d, <2>1, <2>3 DEF RecordOk, DeliveryTypes
  <1>7. CASE RecordRetry(t)
    <2>1. PICK i \in drain[t].cur :
              /\ UpdateRow(i, [rows[i] EXCEPT
                    !.attempt = NextAttempt(t, i),
                    !.nextAttemptAt = drain[t].now + Backoff(NextAttempt(t, i))])
              /\ NextTurn(t, i)
      BY <1>7 DEF RecordRetry
    <2> DEFINE at == drain[t].now + Backoff(NextAttempt(t, i))
    <2>2. NextAttempt(t, i) \in Nat /\ at \in Nat
      BY <1>a, <1>g
    <2> HIDE DEF at
    <2>3. i \in DOMAIN rows => [rows[i] EXCEPT !.attempt = NextAttempt(t, i),
                                               !.nextAttemptAt = at] \in Row
      BY <1>c, <2>2 DEF Row
    <2>4. TablesTypeOK'
      BY <1>0, <1>7, <2>1, <2>3, UpdateTyped DEF RecordRetry, at
    <2> QED
      BY <1>0, <1>7, <1>d, <2>1, <2>4 DEF RecordRetry, DeliveryTypes
  <1>8. CASE RecordExhausted(t)
    <2>1. PICK i \in drain[t].cur :
              UpdateRow(i, [rows[i] EXCEPT !.status = "failed",
                                           !.attempt = NextAttempt(t, i)])
      BY <1>8 DEF RecordExhausted
    <2>2. NextAttempt(t, i) \in Nat
      BY <1>a, <1>g
    <2>3. i \in DOMAIN rows => [rows[i] EXCEPT !.status = "failed",
                                               !.attempt = NextAttempt(t, i)] \in Row
      BY <1>c, <2>2 DEF Row
    <2>4. TablesTypeOK'
      BY <1>0, <1>8, <2>1, <2>3, UpdateTyped DEF RecordExhausted
    <2> QED
      BY <1>0, <1>8, <1>f, <2>1, <2>4 DEF RecordExhausted, DeliveryTypes
  <1>9. CASE PauseAfterExhausted(t)
    <2>1. PICK i \in drain[t].cur :
              /\ subs' = IF subs[i.sub] = "active"
                         THEN [subs EXCEPT ![i.sub] = "paused"] ELSE subs
              /\ NextTurn(t, i)
      BY <1>9 DEF PauseAfterExhausted
    <2>2. subs' \in [Subs -> {"none", "active", "paused", "deleted"}]
      BY <1>0, <2>1 DEF TablesTypeOK
    <2>3. TablesTypeOK'
      BY <1>0, <1>9, <2>2 DEF PauseAfterExhausted, TablesTypeOK
    <2> QED
      BY <1>0, <1>9, <1>d, <2>1, <2>3 DEF PauseAfterExhausted, DeliveryTypes
  <1>10. CASE DrainCrash(t)
    BY <1>0, <1>10, <1>b, <1>e DEF DrainCrash, DeliveryTypes
  <1> QED
    BY <1>1, <1>2, <1>3, <1>4, <1>5, <1>6, <1>7, <1>8, <1>9, <1>10 DEF DrainStep

(* RecordBirth keeps the record of births a record.                         *)
LEMMA BirthTyped ==
  ASSUME TablesTypeOK', born \in [RowIds -> Nat], RecordBirth
  PROVE  /\ born' \in [RowIds -> Nat]
         /\ \A i \in RowIds : i \in DOMAIN rows => born'[i] = born[i]
         /\ \A i \in RowIds : i \notin DOMAIN rows' => born'[i] = born[i]
         /\ \A i \in DOMAIN rows' \ DOMAIN rows : born'[i] = rows'[i].nextAttemptAt
  <1>1. \A i \in DOMAIN rows' : i \in RowIds /\ rows'[i].nextAttemptAt \in Nat
    BY DEF TablesTypeOK, Row
  <1> QED
    BY <1>1 DEF RecordBirth

(* So does everything else a tick meets.                                    *)
LEMMA TypesDeliveryInit == DeliveryInit => DeliveryTypes /\ OneInHand
  <1>1. DeliveryInit => TablesTypeOK
    BY TablesAssumption DEF DeliveryInit, TablesTypeOK
  <1>2. DrainInit => OneInHand
    BY NoDrainTyped DEF DrainInit, OneInHand, NoDrain
  <1>3. DrainInit => /\ drain \in [Ticks -> DrainLocals]
                     /\ posts \in [RowIds -> Nat] /\ born \in [RowIds -> Nat]
                     /\ cuts \in Nat /\ crossed \in Nat
    BY NoDrainTyped DEF DrainInit
  <1> QED
    BY <1>1, <1>2, <1>3 DEF DeliveryInit, DeliveryTypes

(* What happens beside deliverDue, as far as it concerns it: rows are born, *)
(* and subscriptions are deleted together with their rows.                  *)
Beside ==
    /\ UNCHANGED <<drain, posts, cuts, crossed>>
    /\ clock' >= clock
    /\ \A s \in Subs : subs[s] = "deleted" => subs'[s] = "deleted"
    /\ \A s \in Subs : subs'[s] = "paused" => subs[s] = "paused"
    /\ \A i \in DOMAIN rows : i \in DOMAIN rows' \/ subs'[i.sub] = "deleted"
    /\ \A i \in DOMAIN rows : i \in DOMAIN rows' => rows'[i] = rows[i]
    /\ \A i \in RowIds : i \notin DOMAIN rows' \ DOMAIN rows => born'[i] = born[i]
    /\ \A i \in DOMAIN rows' \ DOMAIN rows :
        subs[i.sub] # "deleted" /\ rows'[i] = NewRow(born'[i])

(* A row is born when its insert says it is due.                            *)
LEMMA BirthIsBeside ==
  ASSUME TablesTypeOK, NEW s \in Subs, NEW c \in Changes, NEW n \in Nat,
         InsertRow(s, c, n), RecordBirth, subs[s] # "deleted",
         born \in [RowIds -> Nat],
         UNCHANGED <<clock, createdAt, runNow, subs, drain, posts, cuts, crossed>>
  PROVE  Beside /\ TablesTypeOK' /\ born' \in [RowIds -> Nat]
  <1>1. PICK id \in RowIds \ DOMAIN rows :
            /\ id.sub = s /\ id.change = c
            /\ DOMAIN rows' = DOMAIN rows \cup {id}
            /\ rows'[id] = NewRow(n)
            /\ \A i \in DOMAIN rows : rows'[i] = rows[i]
            /\ rows' = [i \in DOMAIN rows' |-> rows'[i]]
    BY InsertAdds
  <1>2. NewRow(n) \in Row /\ NewRow(n).nextAttemptAt = n
    BY DEF NewRow, Row
  <1>3. TablesTypeOK'
    BY <1>1, <1>2 DEF TablesTypeOK
  <1>4. /\ born' \in [RowIds -> Nat]
        /\ \A i \in RowIds : i \in DOMAIN rows => born'[i] = born[i]
        /\ \A i \in RowIds : i \notin DOMAIN rows' => born'[i] = born[i]
        /\ \A i \in DOMAIN rows' \ DOMAIN rows : born'[i] = rows'[i].nextAttemptAt
    BY <1>3, BirthTyped
  <1>5. DOMAIN rows' \ DOMAIN rows = {id}
    BY <1>1
  <1>6. subs'[id.sub] = subs[s] /\ born'[id] = n
    BY <1>1, <1>2, <1>4, <1>5
  <1>7. clock \in Nat
    BY TablesAssumption DEF TablesTypeOK
  <1> QED
    BY <1>1, <1>3, <1>4, <1>5, <1>6, <1>7 DEF Beside

(* The clock moves, or nothing at all does that deliverDue could notice.    *)
LEMMA QuietIsBeside ==
  ASSUME TablesTypeOK, born \in [RowIds -> Nat],
         UNCHANGED <<subs, rows, drain, posts, born, cuts, crossed>>, clock' >= clock
  PROVE  Beside
  BY DEF Beside

(* A subscription is deleted, and its rows with it.                         *)
LEMMA DeleteIsBeside ==
  ASSUME TablesTypeOK, NEW s \in Subs, DeleteSubscription(s), UNCHANGED drainVars
  PROVE  Beside /\ TablesTypeOK'
  <1>1. /\ UNCHANGED <<clock, createdAt, runNow, drain, posts, born, cuts, crossed>>
        /\ subs' = [subs EXCEPT ![s] = "deleted"]
        /\ rows' = [i \in {j \in DOMAIN rows : j.sub # s} |-> rows[i]]
    BY DEF DeleteSubscription, CascadeRows, drainVars
  <1>2. clock \in Nat /\ subs \in [Subs -> {"none", "active", "paused", "deleted"}]
    BY TablesAssumption DEF TablesTypeOK
  <1>3. /\ DOMAIN rows' = {j \in DOMAIN rows : j.sub # s}
        /\ \A i \in DOMAIN rows' : rows'[i] = rows[i]
    BY <1>1
  <1>4. TablesTypeOK'
    BY <1>1, <1>2, <1>3 DEF TablesTypeOK
  <1>5. \A x \in Subs : x # s => subs'[x] = subs[x]
    BY <1>1, <1>2
  <1>6. subs'[s] = "deleted"
    BY <1>1, <1>2
  <1> QED
    BY <1>1, <1>2, <1>3, <1>4, <1>5, <1>6 DEF Beside

(* Everything in DeliveryNext that is not a step of deliverDue is Beside.   *)
LEMMA DeliveryBeside ==
  ASSUME DeliveryTypes,
         \/ \E s \in Subs, c \in Changes : Enqueue(s, c)
         \/ ClockTick /\ UNCHANGED drainVars
         \/ \E s \in Subs : DeleteSubscription(s) /\ UNCHANGED drainVars
         \/ UNCHANGED deliveryVars
  PROVE  Beside /\ TablesTypeOK' /\ born' \in [RowIds -> Nat]
  <1>0. TablesTypeOK /\ born \in [RowIds -> Nat] /\ clock \in Nat
    BY TablesAssumption DEF DeliveryTypes, TablesTypeOK
  <1>1. ASSUME NEW s \in Subs, NEW c \in Changes, Enqueue(s, c)
        PROVE  Beside /\ TablesTypeOK' /\ born' \in [RowIds -> Nat]
    BY <1>0, <1>1, BirthIsBeside DEF Enqueue
  <1>2. CASE ClockTick /\ UNCHANGED drainVars
    <2>1. clock' \in 1..MaxTime /\ clock' >= clock
      BY <1>0, <1>2, TablesAssumption DEF ClockTick, TablesTypeOK
    <2>2. TablesTypeOK'
      BY <1>0, <1>2, <2>1 DEF ClockTick, TablesTypeOK
    <2> QED
      BY <1>0, <1>2, <2>1, <2>2, QuietIsBeside DEF ClockTick, drainVars
  <1>3. CASE \E s \in Subs : DeleteSubscription(s) /\ UNCHANGED drainVars
    BY <1>0, <1>3, DeleteIsBeside DEF drainVars
  <1>4. CASE UNCHANGED deliveryVars
    <2>1. TablesTypeOK'
      BY <1>0, <1>4 DEF deliveryVars, tables, TablesTypeOK
    <2> QED
      BY <1>0, <1>4, <2>1, QuietIsBeside DEF deliveryVars, tables, drainVars
  <1> QED
    BY <1>1, <1>2, <1>3, <1>4

(* What is beside deliverDue keeps its types.                               *)
LEMMA TypesBeside ==
  ASSUME DeliveryTypes, OneInHand, Beside, TablesTypeOK', born' \in [RowIds -> Nat]
  PROVE  DeliveryTypes' /\ OneInHand'
  BY DEF DeliveryTypes, OneInHand, Beside

LEMMA TypesDeliveryNext ==
  ASSUME DeliveryTypes, OneInHand, [DeliveryNext]_deliveryVars
  PROVE  DeliveryTypes' /\ OneInHand'
  BY TypesDrainStep, DeliveryBeside, TypesBeside DEF DeliveryNext

(* DeliveryTyped: deliverDue and everything beside it keep the tables and   *)
(* every tick's locals within their types, however ticks overlap.           *)
THEOREM DeliveryTyped == DeliverySpec => []DeliveryTypeOK
  <1>1. DeliverySpec => [](DeliveryTypes /\ OneInHand)
    BY TypesDeliveryInit, TypesDeliveryNext, PTL DEF DeliverySpec
  <1> QED
    BY <1>1, TypesImply, PTL

-----------------------------------------------------------------------------
(* Delivery: the retry window.                                              *)

(* What a tick read was due when it read it, had attempts left and had      *)
(* waited out every backoff so far; whatever other ticks do to the row      *)
(* since, what this tick writes comes from what it read.                    *)
ReadsHaveWaited ==
    \A t \in Ticks :
        /\ drain[t].now <= clock
        /\ \A i \in DOMAIN drain[t].due :
            /\ drain[t].due[i].attempt < MaxAttempts
            /\ drain[t].due[i].nextAttemptAt <= drain[t].now
            /\ drain[t].due[i].nextAttemptAt
                    >= born[i] + BackoffSum(drain[t].due[i].attempt)

(* A row that was read is there until its subscription is deleted.          *)
ReadsHaveRows ==
    \A t \in Ticks : \A i \in DOMAIN drain[t].due :
        i \in DOMAIN rows \/ subs[i.sub] = "deleted"

AttemptsBounded ==
    \A i \in DOMAIN rows :
        /\ rows[i].attempt <= MaxAttempts
        /\ rows[i].status = "pending" => rows[i].attempt < MaxAttempts

RetryInv == ReadsHaveWaited /\ ReadsHaveRows /\ AttemptsBounded /\ RetryWindow

(* Nothing has been read and there are no rows at first.                    *)
LEMMA RetryInit == DrainInit /\ clock = 1 /\ DOMAIN rows = {} => RetryInv
  <1> SUFFICES ASSUME DrainInit, clock = 1, DOMAIN rows = {} PROVE RetryInv
    OBVIOUS
  <1>1. \A t \in Ticks : DOMAIN drain[t].due = {} /\ drain[t].now = 0
    BY NoDrainTyped DEF DrainInit, NoDrain
  <1> QED
    BY <1>1
    DEF RetryInv, ReadsHaveWaited, ReadsHaveRows, AttemptsBounded, RetryWindow

(* A row born or a row cascaded away changes nothing for the others.        *)
LEMMA RetryBeside ==
  ASSUME DeliveryTypes, RetryInv, Beside, TablesTypeOK'
  PROVE  RetryInv'
  <1>0. /\ clock \in Nat /\ clock' \in Nat /\ clock' >= clock
        /\ UNCHANGED drain
        /\ DOMAIN rows \subseteq RowIds /\ DOMAIN rows' \subseteq RowIds
        /\ drain \in [Ticks -> DrainLocals]
        /\ MaxAttempts \in Nat \ {0}
        /\ born \in [RowIds -> Nat]
    BY TablesAssumption, DeliveryAssumption DEF DeliveryTypes, TablesTypeOK, Beside
  <1>1. \A i \in DOMAIN rows : i \in DOMAIN rows' => rows'[i] = rows[i] /\ born'[i] = born[i]
    BY <1>0 DEF Beside
  <1>2. ASSUME NEW i \in DOMAIN rows', i \notin DOMAIN rows
        PROVE  /\ rows'[i].status = "pending" /\ rows'[i].attempt = 0
               /\ rows'[i].nextAttemptAt = born'[i] /\ born'[i] \in Nat
    <2>1. rows'[i] = NewRow(born'[i]) /\ rows'[i] \in Row
      BY <1>2 DEF Beside, TablesTypeOK
    <2>2. rows'[i].nextAttemptAt \in Nat
      BY <2>1 DEF Row
    <2> QED
      BY <2>1, <2>2 DEF NewRow
  <1>3. ASSUME NEW t \in Ticks, NEW i \in DOMAIN drain[t].due
        PROVE  /\ i \in RowIds /\ i.sub \in Subs
               /\ i \in DOMAIN rows' \/ subs'[i.sub] = "deleted"
               /\ born'[i] = born[i]
    <2>1. i \in RowIds /\ i.sub \in Subs
      BY <1>0, <1>3, RowMapIs DEF DrainLocals, RowIds
    <2>2. i \in DOMAIN rows \/ subs[i.sub] = "deleted"
      BY DEF RetryInv, ReadsHaveRows
    <2>3. i \in DOMAIN rows' \/ subs'[i.sub] = "deleted"
      BY <2>1, <2>2 DEF Beside
    <2>4. i \notin DOMAIN rows' \ DOMAIN rows
      BY <2>2 DEF Beside
    <2>5. born'[i] = born[i]
      BY <2>1, <2>4 DEF Beside
    <2> QED
      BY <2>1, <2>3, <2>5
  <1>4. ReadsHaveWaited'
    <2> SUFFICES ASSUME NEW t \in Ticks
                 PROVE  /\ drain[t].now <= clock'
                        /\ \A i \in DOMAIN drain[t].due :
                            /\ drain[t].due[i].attempt < MaxAttempts
                            /\ drain[t].due[i].nextAttemptAt <= drain[t].now
                            /\ drain[t].due[i].nextAttemptAt
                                  >= born'[i] + BackoffSum(drain[t].due[i].attempt)
      BY <1>0 DEF ReadsHaveWaited
    <2>1. drain[t].now \in Nat
      BY <1>0, TablesAssumption DEF DrainLocals
    <2>2. drain[t].now <= clock'
      BY <1>0, <2>1 DEF RetryInv, ReadsHaveWaited
    <2> QED
      BY <1>3, <2>2 DEF RetryInv, ReadsHaveWaited
  <1>5. ReadsHaveRows'
    BY <1>0, <1>3 DEF ReadsHaveRows
  <1>6. AttemptsBounded'
    BY <1>0, <1>1, <1>2 DEF RetryInv, AttemptsBounded
  <1>7. RetryWindow'
    <2> SUFFICES ASSUME NEW i \in DOMAIN rows'
                 PROVE  /\ rows'[i].attempt < MaxAttempts =>
                            rows'[i].nextAttemptAt >= born'[i] + BackoffSum(rows'[i].attempt)
                        /\ rows'[i].attempt = MaxAttempts =>
                            clock' >= born'[i] + BackoffSum(MaxAttempts - 1)
      BY DEF RetryWindow
    <2>1. CASE i \in DOMAIN rows
      <3>1. born[i] \in Nat /\ BackoffSum(MaxAttempts - 1) \in Nat
        BY <1>0, <2>1, BackoffAdds
      <3> QED
        BY <1>0, <1>1, <2>1, <3>1 DEF RetryInv, RetryWindow
    <2>2. CASE i \notin DOMAIN rows
      BY <1>0, <1>2, <2>2, BackoffAdds
    <2> QED
      BY <2>1, <2>2
  <1> QED
    BY <1>4, <1>5, <1>6, <1>7 DEF RetryInv

(* A row that stays as it was keeps its window, whatever else a step of     *)
(* deliverDue does.                                                         *)
RowWaited(i) ==
    /\ rows[i].attempt <= MaxAttempts
    /\ rows[i].status = "pending" => rows[i].attempt < MaxAttempts
    /\ rows[i].attempt < MaxAttempts =>
            rows[i].nextAttemptAt >= born[i] + BackoffSum(rows[i].attempt)
    /\ rows[i].attempt = MaxAttempts =>
            clock >= born[i] + BackoffSum(MaxAttempts - 1)

LEMMA RowsWaited ==
  RetryInv <=> /\ ReadsHaveWaited /\ ReadsHaveRows
               /\ \A i \in DOMAIN rows : RowWaited(i)
  BY DEF RetryInv, AttemptsBounded, RetryWindow, RowWaited

(* Each statement of deliverDue: what it writes comes from what it read.    *)
LEMMA RetryDrainStep ==
  ASSUME DeliveryTypes, OneInHand, RetryInv, NEW t \in Ticks,
         DrainStep(t) \/ DrainCrash(t)
  PROVE  RetryInv'
  <1>0. /\ drain \in [Ticks -> DrainLocals]
        /\ clock \in Nat
        /\ MaxAttempts \in Nat \ {0}
        /\ born \in [RowIds -> Nat]
        /\ DOMAIN rows \subseteq RowIds
        /\ \A i \in DOMAIN rows : rows[i] \in Row
        /\ drain[t].now \in Nat
        /\ drain[t].cur \subseteq DOMAIN drain[t].due
        /\ \A i \in DOMAIN drain[t].due : i \in RowIds /\ drain[t].due[i] \in Row
    BY TablesAssumption, DeliveryAssumption, RowMapIs
    DEF DeliveryTypes, TablesTypeOK, DrainLocals, OneInHand
  <1>1. UNCHANGED <<clock, born>>
    BY DEF DrainStep, DrainCrash, ReadDue, PickDelivery, DrainDone, FailInactive, Post,
           RecordOk, RecordRetry, RecordExhausted, PauseAfterExhausted, tables
  <1>2. DOMAIN rows' = DOMAIN rows
    BY DEF DrainStep, DrainCrash, ReadDue, PickDelivery, DrainDone, FailInactive, Post,
           RecordOk, RecordRetry, RecordExhausted, PauseAfterExhausted, tables, UpdateRow
  <1>3. \A s \in Subs : subs[s] = "deleted" => subs'[s] = "deleted"
    <2>1. subs' = subs \/ PauseAfterExhausted(t)
      BY DEF DrainStep, DrainCrash, ReadDue, PickDelivery, DrainDone, FailInactive, Post,
             RecordOk, RecordRetry, RecordExhausted, tables
    <2> QED
      BY <2>1 DEF PauseAfterExhausted, DeliveryTypes, TablesTypeOK
  <1>4. /\ \A u \in Ticks \ {t} : drain'[u] = drain[u]
        /\ \/ ReadDue(t)
           \/ /\ drain'[t].now = drain[t].now
              /\ DOMAIN drain'[t].due \subseteq DOMAIN drain[t].due
              /\ \A i \in DOMAIN drain'[t].due : drain'[t].due[i] = drain[t].due[i]
           \/ DOMAIN drain'[t].due = {} /\ drain'[t].now = 0
    <2>1. CASE ReadDue(t)
      BY <2>1, ReadDueIs
    <2>2. CASE PickDelivery(t) \/ Post(t) \/ RecordExhausted(t)
      BY <2>2, TurnIs
    <2>3. CASE DrainDone(t) \/ DrainCrash(t)
      BY <2>3, EndIs
    <2>4. CASE FailInactive(t) \/ RecordOk(t) \/ RecordRetry(t) \/ PauseAfterExhausted(t)
      <3>1. PICK i \in drain[t].cur : NextTurn(t, i)
        BY <2>4 DEF FailInactive, RecordOk, RecordRetry, PauseAfterExhausted
      <3>2. i \in RowIds
        BY <1>0
      <3> QED
        BY <1>0, <3>1, <3>2, NextTurnIs
    <2> QED
      BY <2>1, <2>2, <2>3, <2>4 DEF DrainStep
  <1>5. ReadsHaveWaited'
    <2> DEFINE Waited == /\ drain'[t].now <= clock
                         /\ \A i \in DOMAIN drain'[t].due :
                              /\ drain'[t].due[i].attempt < MaxAttempts
                              /\ drain'[t].due[i].nextAttemptAt <= drain'[t].now
                              /\ drain'[t].due[i].nextAttemptAt
                                    >= born[i] + BackoffSum(drain'[t].due[i].attempt)
    <2>1. CASE ReadDue(t)
      <3>1. /\ drain'[t].now = clock
            /\ DOMAIN drain'[t].due \subseteq DueRows
            /\ \A i \in DOMAIN drain'[t].due : drain'[t].due[i] = rows[i]
        BY <2>1, ReadDueIs
      <3>2. \A i \in DueRows : /\ rows[i].attempt < MaxAttempts
                               /\ rows[i].nextAttemptAt <= clock
                               /\ rows[i].nextAttemptAt
                                    >= born[i] + BackoffSum(rows[i].attempt)
        BY DEF DueRows, RetryInv, AttemptsBounded, RetryWindow
      <3>3. Waited
        BY <1>0, <3>1, <3>2
      <3> QED
        BY <1>1, <1>4, <3>3 DEF RetryInv, ReadsHaveWaited
    <2>2. CASE ~ ReadDue(t)
      <3>1. Waited
        BY <1>0, <1>4, <2>2 DEF RetryInv, ReadsHaveWaited
      <3> QED
        BY <1>1, <1>4, <3>1 DEF RetryInv, ReadsHaveWaited
    <2> QED
      BY <2>1, <2>2
  <1>6. ReadsHaveRows'
    <2>1. \A u \in Ticks : \A i \in DOMAIN drain[u].due : i \in RowIds /\ i.sub \in Subs
      BY <1>0, RowMapIs DEF DrainLocals, RowIds
    <2>2. \A u \in Ticks : \A i \in DOMAIN drain[u].due :
              i \in DOMAIN rows' \/ subs'[i.sub] = "deleted"
      BY <1>2, <1>3, <2>1 DEF RetryInv, ReadsHaveRows
    <2>3. ReadDue(t) => DOMAIN drain'[t].due \subseteq DOMAIN rows'
      BY <1>2, ReadDueIs DEF DueRows
    <2>4. \A i \in DOMAIN drain'[t].due : i \in DOMAIN rows' \/ subs'[i.sub] = "deleted"
      BY <1>4, <2>2, <2>3
    <2> QED
      BY <1>4, <2>2, <2>4 DEF ReadsHaveRows
  <1>a. ASSUME NEW i, NEW r, UpdateRow(i, r),
               i \in DOMAIN rows =>
                    /\ r.attempt <= MaxAttempts
                    /\ r.status = "pending" => r.attempt < MaxAttempts
                    /\ r.attempt < MaxAttempts =>
                            r.nextAttemptAt >= born[i] + BackoffSum(r.attempt)
                    /\ r.attempt = MaxAttempts =>
                            clock >= born[i] + BackoffSum(MaxAttempts - 1)
        PROVE  \A j \in DOMAIN rows' : RowWaited(j)'
    <2>1. \A j \in DOMAIN rows : j # i => rows'[j] = rows[j]
      BY <1>a, UpdateIs
    <2>2. i \in DOMAIN rows => rows'[i] = r
      BY <1>a, UpdateIs
    <2>3. \A j \in DOMAIN rows : RowWaited(j)
      BY RowsWaited
    <2> QED
      BY <1>1, <1>2, <1>a, <2>1, <2>2, <2>3 DEF RowWaited
  <1>7. \A i \in DOMAIN rows' : RowWaited(i)'
    <2>0. \A i \in DOMAIN rows : RowWaited(i)
      BY RowsWaited
    <2>a. \A i \in DOMAIN drain[t].due :
              /\ drain[t].due[i].attempt < MaxAttempts
              /\ drain[t].due[i].nextAttemptAt <= drain[t].now
              /\ drain[t].due[i].nextAttemptAt >= born[i] + BackoffSum(drain[t].due[i].attempt)
              /\ drain[t].now <= clock
              /\ drain[t].due[i].attempt \in Nat
              /\ drain[t].due[i].nextAttemptAt \in Nat
      BY <1>0 DEF RetryInv, ReadsHaveWaited, Row
    <2>1. CASE UNCHANGED rows
      BY <1>1, <2>0, <2>1 DEF RowWaited
    <2>2. CASE FailInactive(t)
      <3>1. PICK i \in drain[t].cur : UpdateRow(i, [rows[i] EXCEPT !.status = "failed"])
        BY <2>2 DEF FailInactive
      <3> DEFINE r == [rows[i] EXCEPT !.status = "failed"]
      <3>2. i \in DOMAIN rows => /\ r.status = "failed" /\ r.attempt = rows[i].attempt
                                 /\ r.nextAttemptAt = rows[i].nextAttemptAt
        BY <1>0 DEF Row
      <3> HIDE DEF r
      <3>3. UpdateRow(i, r)
        BY <3>1 DEF r
      <3> QED
        BY <1>a, <2>0, <3>2, <3>3 DEF RowWaited
    <2>3. CASE RecordOk(t)
      <3>1. PICK i \in drain[t].cur : UpdateRow(i, [rows[i] EXCEPT !.status = "ok"])
        BY <2>3 DEF RecordOk
      <3> DEFINE r == [rows[i] EXCEPT !.status = "ok"]
      <3>2. i \in DOMAIN rows => /\ r.status = "ok" /\ r.attempt = rows[i].attempt
                                 /\ r.nextAttemptAt = rows[i].nextAttemptAt
        BY <1>0 DEF Row
      <3> HIDE DEF r
      <3>3. UpdateRow(i, r)
        BY <3>1 DEF r
      <3> QED
        BY <1>a, <2>0, <3>2, <3>3 DEF RowWaited
    <2>4. CASE RecordRetry(t)
      <3>1. PICK i \in drain[t].cur :
                /\ NextAttempt(t, i) < MaxAttempts
                /\ UpdateRow(i, [rows[i] EXCEPT
                        !.attempt = NextAttempt(t, i),
                        !.nextAttemptAt = drain[t].now + Backoff(NextAttempt(t, i))])
        BY <2>4 DEF RecordRetry
      <3> DEFINE a == drain[t].due[i].attempt
                 r == [rows[i] EXCEPT !.attempt = NextAttempt(t, i),
                            !.nextAttemptAt = drain[t].now + Backoff(NextAttempt(t, i))]
      <3>2. i \in DOMAIN drain[t].due /\ born[i] \in Nat /\ a \in Nat
        BY <1>0, <2>a
      <3>3. i \in DOMAIN rows => /\ r.attempt = a + 1
                                 /\ r.nextAttemptAt = drain[t].now + Backoff(a + 1)
        BY <1>0 DEF Row, NextAttempt
      <3>4. /\ BackoffSum(a) \in Nat /\ Backoff(a + 1) \in Nat
            /\ BackoffSum(a + 1) = BackoffSum(a) + Backoff(a + 1)
        BY <3>2, a + 1 \in Nat, BackoffAdds
      <3>5. a + 1 < MaxAttempts
        BY <3>1 DEF NextAttempt
      <3>6. /\ drain[t].due[i].nextAttemptAt <= drain[t].now
            /\ drain[t].due[i].nextAttemptAt >= born[i] + BackoffSum(a)
            /\ drain[t].due[i].nextAttemptAt \in Nat
        BY <2>a, <3>2
      <3>7. drain[t].now + Backoff(a + 1) >= born[i] + BackoffSum(a + 1)
        BY <1>0, <3>2, <3>4, <3>6
      <3>8. UpdateRow(i, r)
        BY <3>1
      <3> HIDE DEF r, a
      <3> QED
        BY <1>0, <1>a, <3>2, <3>3, <3>5, <3>7, <3>8
    <2>5. CASE RecordExhausted(t)
      <3>1. PICK i \in drain[t].cur :
                /\ NextAttempt(t, i) >= MaxAttempts
                /\ UpdateRow(i, [rows[i] EXCEPT !.status = "failed",
                                                !.attempt = NextAttempt(t, i)])
        BY <2>5 DEF RecordExhausted
      <3> DEFINE a == drain[t].due[i].attempt
                 r == [rows[i] EXCEPT !.status = "failed", !.attempt = NextAttempt(t, i)]
      <3>2. i \in DOMAIN drain[t].due /\ born[i] \in Nat /\ a \in Nat
        BY <1>0, <2>a
      <3>3. i \in DOMAIN rows => r.status = "failed" /\ r.attempt = a + 1
        BY <1>0 DEF Row, NextAttempt
      <3>4. BackoffSum(a) \in Nat
        BY <3>2, BackoffAdds
      <3>5. a + 1 = MaxAttempts /\ a = MaxAttempts - 1
        BY <1>0, <2>a, <3>1, <3>2 DEF NextAttempt
      <3>6. clock >= born[i] + BackoffSum(a)
        BY <1>0, <2>a, <3>2, <3>4
      <3>7. clock >= born[i] + BackoffSum(MaxAttempts - 1)
        BY <3>5, <3>6
      <3>8. UpdateRow(i, r)
        BY <3>1
      <3> HIDE DEF r, a
      <3> QED
        BY <1>0, <1>a, <3>2, <3>3, <3>5, <3>7, <3>8
    <2> QED
      BY <2>1, <2>2, <2>3, <2>4, <2>5
      DEF DrainStep, DrainCrash, ReadDue, PickDelivery, DrainDone, Post,
          PauseAfterExhausted, tables
  <1> QED
    BY <1>5, <1>6, <1>7 DEF RetryInv, AttemptsBounded, RetryWindow, RowWaited

LEMMA RetryNext ==
  ASSUME DeliveryTypes, OneInHand, RetryInv, [DeliveryNext]_deliveryVars
  PROVE  RetryInv'
  <1>1. CASE \E t \in Ticks : DrainStep(t) \/ DrainCrash(t)
    BY <1>1, RetryDrainStep
  <1>2. CASE ~ \E t \in Ticks : DrainStep(t) \/ DrainCrash(t)
    BY <1>2, DeliveryBeside, RetryBeside DEF DeliveryNext
  <1> QED
    BY <1>1, <1>2

(* RetriesWait: for any number of attempts, any base and any overlaps and   *)
(* crashes, a delivery is not tried again before the backoffs up to that    *)
(* attempt have passed, and not given up before all of them have.           *)
THEOREM RetriesWait == DeliverySpec => []RetryWindow
  <1>1. DeliveryInit => DeliveryTypes /\ OneInHand /\ RetryInv
    BY TypesDeliveryInit, RetryInit DEF DeliveryInit
  <1>2. DeliveryTypes /\ OneInHand /\ RetryInv /\ [DeliveryNext]_deliveryVars
            => (DeliveryTypes /\ OneInHand /\ RetryInv)'
    BY TypesDeliveryNext, RetryNext
  <1>3. RetryInv => RetryWindow
    BY DEF RetryInv
  <1> QED
    BY <1>1, <1>2, <1>3, PTL DEF DeliverySpec

-----------------------------------------------------------------------------
(* Delivery: every POST is accounted for.                                   *)

BusyTicks == {t \in Ticks : drain[t].pc # "idle"}

(* The ticks that may still write to delivery i: they have read it and not  *)
(* come past their update of it.                                            *)
Holders(i) == {t \in Ticks : /\ i \in DOMAIN drain[t].due
                             /\ ~ (drain[t].pc = "pause" /\ i \in drain[t].cur)}
Hands(i) == {t \in Ticks : InHand(t, i)}

(* Each holder after the first began while another was under way, so it has *)
(* an overlap to its account that it has not spent; the row has what its    *)
(* last writer left, and the holders' overlaps on top of that.              *)
PostsAt(i) ==
    LET h == Cardinality(Holders(i))
        spent == Cardinality(Hands(i)) + cuts + crossed
    IN /\ \A t \in Holders(i) : posts[i] + h <= drain[t].due[i].attempt + spent + 1
       /\ i \in DOMAIN rows =>
            /\ rows[i].status = "ok" => posts[i] + h <= rows[i].attempt + spent + 1
            /\ rows[i].status # "ok" => /\ posts[i] + h <= rows[i].attempt + spent + 1
                                        /\ posts[i] <= rows[i].attempt + spent
       /\ i \notin DOMAIN rows /\ subs[i.sub] # "deleted" => posts[i] = 0

(* With no overlap one tick works alone, and what it is about to send goes  *)
(* to a subscription that was active when it looked.                        *)
AloneWhilePosting ==
    crossed = 0 =>
        /\ \A t, u \in BusyTicks : t = u
        /\ \A t \in Ticks : drain[t].pc = "post" =>
                \A i \in drain[t].cur : subs[i.sub] # "paused"

PostsInv ==
    /\ IsFiniteSet(BusyTicks)
    /\ \A i \in RowIds : PostsAt(i)
    /\ AloneWhilePosting

(* NatSum: the sum of two counters is a counter.                            *)
LEMMA NatSum ==
  ASSUME NEW a \in Nat, NEW b \in Nat
  PROVE  a + b \in Nat
  OBVIOUS

(* SumOfThree: how a sum of three is grouped.                               *)
LEMMA SumOfThree ==
  ASSUME NEW a \in Nat, NEW b \in Nat, NEW c \in Nat
  PROVE  a + b + c = a + (b + c)
  OBVIOUS

(* HoldSets: only a tick under way holds a delivery, so the holders of one  *)
(* can be counted.                                                          *)
LEMMA HoldSets ==
  ASSUME DeliveryTypes, OneInHand, IsFiniteSet(BusyTicks), NEW i
  PROVE  /\ IsFiniteSet(Holders(i)) /\ IsFiniteSet(Hands(i))
         /\ Hands(i) \subseteq Holders(i)
         /\ Holders(i) \subseteq BusyTicks
         /\ Cardinality(Holders(i)) \in Nat /\ Cardinality(Hands(i)) \in Nat
         /\ Holders(i) # {} => Cardinality(Holders(i)) >= 1
  <1>1. Holders(i) \subseteq BusyTicks
    BY DEF Holders, BusyTicks, OneInHand
  <1>2. Hands(i) \subseteq Holders(i)
    BY DEF Hands, Holders, InHand, OneInHand
  <1>3. IsFiniteSet(Holders(i)) /\ IsFiniteSet(Hands(i))
    BY <1>1, <1>2, FS_Subset
  <1>4. /\ Cardinality(Holders(i)) \in Nat /\ Cardinality(Hands(i)) \in Nat
        /\ Cardinality(Holders(i)) = 0 => Holders(i) = {}
    BY <1>3, FS_CardinalityType, FS_EmptySet
  <1> QED
    BY <1>1, <1>2, <1>3, <1>4

(* PostsSame: a step that neither sends delivery i nor changes who holds it *)
(* keeps its account.                                                       *)
LEMMA PostsSame ==
  ASSUME DeliveryTypes, OneInHand, IsFiniteSet(BusyTicks), DeliveryTypes',
         NEW i \in RowIds, PostsAt(i),
         Holders(i)' = Holders(i), Hands(i)' = Hands(i),
         \A u \in Holders(i) : drain'[u].due[i].attempt = drain[u].due[i].attempt,
         posts'[i] = posts[i], cuts' + crossed' >= cuts + crossed,
         i \in DOMAIN rows' => /\ i \in DOMAIN rows
                               /\ rows'[i].attempt = rows[i].attempt
                               /\ rows'[i].status = rows[i].status,
         i \notin DOMAIN rows' /\ subs'[i.sub] # "deleted" =>
                i \notin DOMAIN rows /\ subs[i.sub] # "deleted"
  PROVE  PostsAt(i)'
  <1> DEFINE h == Cardinality(Holders(i))
             n == Cardinality(Hands(i))
  <1>1. /\ h \in Nat /\ n \in Nat
        /\ posts[i] \in Nat /\ cuts \in Nat /\ crossed \in Nat
        /\ cuts' \in Nat /\ crossed' \in Nat
        /\ i \in DOMAIN rows => rows[i].attempt \in Nat
    BY HoldSets DEF DeliveryTypes, TablesTypeOK, Row
  <1>2. \A u \in Holders(i) : drain[u].due[i].attempt \in Nat
    <2> SUFFICES ASSUME NEW u \in Holders(i) PROVE drain[u].due[i] \in Row
      BY DEF Row
    <2>1. u \in Ticks /\ i \in DOMAIN drain[u].due /\ drain[u].due \in RowMaps
      BY DEF Holders, DeliveryTypes, DrainLocals
    <2> QED
      BY <2>1, RowMapIs
  <1>3. Cardinality(Holders(i))' = h /\ Cardinality(Hands(i))' = n
    OBVIOUS
  <1> HIDE DEF h, n
  <1>4. /\ \A u \in Holders(i) : posts[i] + h <= drain[u].due[i].attempt + n + cuts + crossed + 1
        /\ i \in DOMAIN rows =>
            /\ posts[i] + h <= rows[i].attempt + n + cuts + crossed + 1
            /\ rows[i].status # "ok" => posts[i] <= rows[i].attempt + n + cuts + crossed
        /\ i \notin DOMAIN rows /\ subs[i.sub] # "deleted" => posts[i] = 0
    BY <1>1, <1>2 DEF PostsAt, h, n
  <1>5. \A u \in Holders(i)' : posts'[i] + h <= drain'[u].due[i].attempt + (n + cuts' + crossed') + 1
    BY <1>1, <1>2, <1>4
  <1>6. i \in DOMAIN rows' =>
            /\ posts'[i] + h <= rows'[i].attempt + (n + cuts' + crossed') + 1
            /\ rows'[i].status # "ok" => posts'[i] <= rows'[i].attempt + (n + cuts' + crossed')
    <2> SUFFICES ASSUME i \in DOMAIN rows'
                 PROVE  /\ posts'[i] + h <= rows'[i].attempt + (n + cuts' + crossed') + 1
                        /\ rows'[i].status # "ok" =>
                              posts'[i] <= rows'[i].attempt + (n + cuts' + crossed')
      OBVIOUS
    <2>1. /\ i \in DOMAIN rows
          /\ rows'[i].attempt = rows[i].attempt /\ rows'[i].status = rows[i].status
          /\ posts'[i] = posts[i] /\ cuts' + crossed' >= cuts + crossed
      OBVIOUS
    <2> DEFINE a == rows[i].attempt
               x == cuts + crossed
               y == cuts' + crossed'
    <2>a. /\ a \in Nat /\ x \in Nat /\ y \in Nat /\ y >= x
          /\ n + cuts + crossed = n + x /\ n + cuts' + crossed' = n + y
      <3>1. a \in Nat /\ n \in Nat
        BY <1>1
      <3>2. /\ cuts \in Nat /\ crossed \in Nat /\ cuts' \in Nat /\ crossed' \in Nat
        BY <1>1
      <3>3. x \in Nat /\ n + cuts + crossed = n + x
        BY <3>1, <3>2, NatSum, SumOfThree
      <3>4. y \in Nat /\ n + cuts' + crossed' = n + y
        BY <3>1, <3>2, NatSum, SumOfThree
      <3> QED
        BY <2>1, <3>1, <3>3, <3>4
    <2>b. /\ posts[i] + h <= a + n + cuts + crossed + 1
          /\ rows[i].status # "ok" => posts[i] <= a + n + cuts + crossed
      BY <1>4, <2>1
    <2>c. /\ posts[i] + h <= a + (n + x) + 1
          /\ rows[i].status # "ok" => posts[i] <= a + (n + x)
      BY <1>1, <2>b, a \in Nat, <2>a
    <2> HIDE DEF a, x, y
    <2>2. posts[i] + h <= a + (n + y) + 1
      BY <1>1, <2>a, <2>c
    <2>3. rows[i].status # "ok" => posts[i] <= a + (n + y)
      BY <1>1, <2>a, <2>c
    <2>4. a = rows[i].attempt /\ n + cuts' + crossed' = n + y
      BY <2>a DEF a
    <2> QED
      BY <2>1, <2>2, <2>3, <2>4
  <1> QED
    BY <1>3, <1>4, <1>5, <1>6 DEF PostsAt

(* Released: a tick lets go of delivery i, with its answer if it had one.   *)
LEMMA Released ==
  ASSUME DeliveryTypes, OneInHand, IsFiniteSet(BusyTicks), NEW i, NEW t \in Holders(i),
         Holders(i)' = Holders(i) \ {t}, Hands(i)' = Hands(i) \ {t}
  PROVE  /\ Cardinality(Holders(i)) \in Nat \ {0}
         /\ Cardinality(Hands(i)) \in Nat
         /\ Cardinality(Holders(i))' = Cardinality(Holders(i)) - 1
         /\ t \in Hands(i) => /\ Cardinality(Hands(i))' = Cardinality(Hands(i)) - 1
                              /\ Cardinality(Hands(i)) >= 1
         /\ t \notin Hands(i) => Cardinality(Hands(i))' = Cardinality(Hands(i))
  <1>1. /\ IsFiniteSet(Holders(i)) /\ IsFiniteSet(Hands(i))
        /\ Cardinality(Holders(i)) \in Nat /\ Cardinality(Hands(i)) \in Nat
        /\ Cardinality(Holders(i)) >= 1
    BY HoldSets
  <1>2. Cardinality(Holders(i) \ {t}) = Cardinality(Holders(i)) - 1
    BY <1>1, FS_RemoveElement
  <1>3. Cardinality(Hands(i) \ {t}) =
            IF t \in Hands(i) THEN Cardinality(Hands(i)) - 1 ELSE Cardinality(Hands(i))
    BY <1>1, FS_RemoveElement
  <1>4. t \in Hands(i) => Cardinality(Hands(i)) >= 1
    <2>1. t \in Hands(i) => Cardinality(Hands(i)) # 0
      BY <1>1, FS_EmptySet
    <2> QED
      BY <1>1, <2>1
  <1>5. /\ Cardinality(Holders(i))' = Cardinality(Holders(i) \ {t})
        /\ Cardinality(Hands(i))' = Cardinality(Hands(i) \ {t})
    OBVIOUS
  <1> QED
    BY <1>1, <1>2, <1>3, <1>4, <1>5

(* PostsReleased: what the tick writes as it lets go, or the cut it leaves, *)
(* settles the POST it had in hand and its overlap.                         *)
LEMMA PostsReleased ==
  ASSUME DeliveryTypes, OneInHand, IsFiniteSet(BusyTicks), DeliveryTypes',
         NEW i \in RowIds, PostsAt(i), NEW t \in Holders(i),
         Holders(i)' = Holders(i) \ {t}, Hands(i)' = Hands(i) \ {t},
         \A u \in Holders(i) \ {t} : drain'[u].due[i].attempt = drain[u].due[i].attempt,
         posts'[i] = posts[i], crossed' = crossed,
         i \in DOMAIN rows' <=> i \in DOMAIN rows, subs'[i.sub] = subs[i.sub],
         \/ /\ cuts' = cuts + 1
            /\ i \in DOMAIN rows => rows'[i] = rows[i]
         \/ /\ cuts' = cuts /\ t \in Hands(i)
            /\ i \in DOMAIN rows => /\ rows'[i].attempt = rows[i].attempt
                                    /\ rows'[i].status = "ok"
         \/ /\ cuts' = cuts /\ t \in Hands(i)
            /\ i \in DOMAIN rows => rows'[i].attempt = drain[t].due[i].attempt + 1
         \/ /\ cuts' = cuts /\ t \notin Hands(i)
            /\ i \in DOMAIN rows => /\ rows'[i].attempt = rows[i].attempt
                                    /\ rows'[i].status = "failed"
  PROVE  PostsAt(i)'
  <1> DEFINE h == Cardinality(Holders(i))
             n == Cardinality(Hands(i))
             m == Cardinality(Hands(i))'
  <1>1. /\ posts[i] \in Nat /\ cuts \in Nat /\ crossed \in Nat /\ cuts' \in Nat
        /\ i \in DOMAIN rows => rows[i].attempt \in Nat
        /\ i \in DOMAIN rows' => rows'[i].attempt \in Nat
    BY DEF DeliveryTypes, TablesTypeOK, Row
  <1>2. \A u \in Holders(i) : drain[u].due[i].attempt \in Nat
    <2> SUFFICES ASSUME NEW u \in Holders(i) PROVE drain[u].due[i] \in Row
      BY DEF Row
    <2>1. u \in Ticks /\ i \in DOMAIN drain[u].due /\ drain[u].due \in RowMaps
      BY DEF Holders, DeliveryTypes, DrainLocals
    <2> QED
      BY <2>1, RowMapIs
  <1>3. /\ h \in Nat \ {0} /\ n \in Nat
        /\ Cardinality(Holders(i))' = h - 1
        /\ t \in Hands(i) => m = n - 1 /\ n >= 1
        /\ t \notin Hands(i) => m = n
    BY Released
  <1>4. /\ \A u \in Holders(i) : posts[i] + h <= drain[u].due[i].attempt + n + cuts + crossed + 1
        /\ i \in DOMAIN rows =>
            /\ posts[i] + h <= rows[i].attempt + n + cuts + crossed + 1
            /\ rows[i].status # "ok" => posts[i] <= rows[i].attempt + n + cuts + crossed
        /\ i \notin DOMAIN rows /\ subs[i.sub] # "deleted" => posts[i] = 0
    BY <1>1, <1>2, <1>3 DEF PostsAt
  <1> HIDE DEF h, n, m
  <1>5. m \in Nat /\ m + cuts' >= n - 1 + cuts
    BY <1>1, <1>3
  <1>6. \A u \in Holders(i)' :
            posts'[i] + (h - 1) <= drain'[u].due[i].attempt + (m + cuts' + crossed') + 1
    <2> SUFFICES ASSUME NEW u \in Holders(i) \ {t}
                 PROVE  posts[i] + (h - 1) <= drain[u].due[i].attempt + (m + cuts' + crossed) + 1
      OBVIOUS
    <2>1. posts[i] + h <= drain[u].due[i].attempt + n + cuts + crossed + 1
      BY <1>4
    <2>2. drain[u].due[i].attempt \in Nat
      BY <1>2
    <2> QED
      BY <1>1, <1>3, <1>5, <2>1, <2>2
  <1>7. ASSUME i \in DOMAIN rows'
        PROVE  /\ posts'[i] + (h - 1) <= rows'[i].attempt + (m + cuts' + crossed') + 1
               /\ rows'[i].status # "ok" =>
                    posts'[i] <= rows'[i].attempt + (m + cuts' + crossed')
    <2> DEFINE a == drain[t].due[i].attempt
    <2>0. /\ i \in DOMAIN rows /\ rows[i].attempt \in Nat /\ rows'[i].attempt \in Nat
          /\ posts'[i] = posts[i] /\ crossed' = crossed
          /\ posts[i] + h <= rows[i].attempt + n + cuts + crossed + 1
          /\ rows[i].status # "ok" => posts[i] <= rows[i].attempt + n + cuts + crossed
          /\ a \in Nat /\ posts[i] + h <= a + n + cuts + crossed + 1
      BY <1>1, <1>2, <1>4, <1>7
    <2>1. CASE cuts' = cuts + 1 /\ rows'[i] = rows[i]
      <3>1. posts[i] + (h - 1) <= rows[i].attempt + (m + cuts' + crossed) + 1
        BY <1>1, <1>3, <1>5, <2>0
      <3>2. rows[i].status # "ok" => posts[i] <= rows[i].attempt + (m + cuts' + crossed)
        BY <1>1, <1>3, <1>5, <2>0, <2>1
      <3> QED
        BY <2>0, <2>1, <3>1, <3>2
    <2>2. CASE /\ cuts' = cuts /\ t \in Hands(i)
               /\ rows'[i].attempt = rows[i].attempt /\ rows'[i].status = "ok"
      BY <1>1, <1>3, <1>5, <2>0, <2>2
    <2>3. CASE cuts' = cuts /\ t \in Hands(i) /\ rows'[i].attempt = a + 1
      <3>1. posts[i] <= (a + 1) + (m + cuts + crossed)
        BY <1>1, <1>3, <1>5, <2>0, <2>3
      <3>2. posts[i] + (h - 1) <= (a + 1) + (m + cuts + crossed) + 1
        BY <1>1, <1>3, <1>5, <2>0, <2>3
      <3> QED
        BY <2>0, <2>3, <3>1, <3>2
    <2>4. CASE /\ cuts' = cuts /\ t \notin Hands(i)
               /\ rows'[i].attempt = rows[i].attempt /\ rows'[i].status = "failed"
      <3>1. posts[i] <= rows[i].attempt + (m + cuts + crossed)
        BY <1>1, <1>3, <1>5, <2>0, <2>4
      <3>2. posts[i] + (h - 1) <= rows[i].attempt + (m + cuts + crossed) + 1
        BY <1>1, <1>3, <1>5, <2>0, <2>4
      <3> QED
        BY <2>0, <2>4, <3>1, <3>2
    <2> QED
      BY <2>0, <2>1, <2>2, <2>3, <2>4
  <1>8. i \notin DOMAIN rows' /\ subs'[i.sub] # "deleted" => posts'[i] = 0
    BY <1>4
  <1> QED
    BY <1>3, <1>6, <1>7, <1>8 DEF PostsAt, m

(* OthersHold: a step of one tick leaves the other ticks' holds alone.      *)
LEMMA OthersHold ==
  ASSUME NEW t \in Ticks, \A u \in Ticks \ {t} : drain'[u] = drain[u]
  PROVE  /\ \A i : /\ Holders(i)' \ {t} = Holders(i) \ {t}
                   /\ Hands(i)' \ {t} = Hands(i) \ {t}
                   /\ t \in Holders(i)' <=>
                        /\ i \in DOMAIN drain'[t].due
                        /\ ~ (drain'[t].pc = "pause" /\ i \in drain'[t].cur)
                   /\ t \in Hands(i)' <=> i \in drain'[t].cur /\ drain'[t].pc = "record"
                   /\ t \in Holders(i) <=>
                        /\ i \in DOMAIN drain[t].due
                        /\ ~ (drain[t].pc = "pause" /\ i \in drain[t].cur)
                   /\ t \in Hands(i) <=> i \in drain[t].cur /\ drain[t].pc = "record"
                   /\ (t \in Holders(i)' <=> t \in Holders(i)) => Holders(i)' = Holders(i)
                   /\ (t \in Hands(i)' <=> t \in Hands(i)) => Hands(i)' = Hands(i)
         /\ BusyTicks' \subseteq BusyTicks \cup {t}
         /\ drain'[t].pc = "idle" => BusyTicks' \subseteq BusyTicks
         /\ drain[t].pc # "idle" => BusyTicks' \subseteq BusyTicks
  BY DEF Holders, Hands, InHand, BusyTicks

(* PostsRead: a tick that reads delivery i beside another pays for it with  *)
(* the overlap.                                                             *)
LEMMA PostsRead ==
  ASSUME DeliveryTypes, OneInHand, IsFiniteSet(BusyTicks), DeliveryTypes',
         NEW i \in RowIds, PostsAt(i), NEW t \in Ticks, t \notin Holders(i),
         Holders(i)' = Holders(i) \cup {t}, Hands(i)' = Hands(i),
         \A u \in Holders(i) : drain'[u].due[i] = drain[u].due[i],
         i \in DOMAIN rows, rows[i].status = "pending",
         drain'[t].due[i] = rows[i],
         UNCHANGED <<rows, subs, posts, cuts>>,
         crossed' = IF BusyTicks # {} THEN crossed + 1 ELSE crossed
  PROVE  PostsAt(i)'
  <1> DEFINE h == Cardinality(Holders(i))
             n == Cardinality(Hands(i))
             a == rows[i].attempt
  <1>1. /\ posts[i] \in Nat /\ cuts \in Nat /\ crossed \in Nat /\ a \in Nat
        /\ h \in Nat /\ n \in Nat /\ crossed' \in Nat /\ crossed' >= crossed
    BY HoldSets DEF DeliveryTypes, TablesTypeOK, Row
  <1>2. \A u \in Holders(i) : drain[u].due[i].attempt \in Nat
    <2> SUFFICES ASSUME NEW u \in Holders(i) PROVE drain[u].due[i] \in Row
      BY DEF Row
    <2>1. u \in Ticks /\ i \in DOMAIN drain[u].due /\ drain[u].due \in RowMaps
      BY DEF Holders, DeliveryTypes, DrainLocals
    <2> QED
      BY <2>1, RowMapIs
  <1>3. Cardinality(Holders(i))' = h + 1 /\ Cardinality(Hands(i))' = n
    <2>1. IsFiniteSet(Holders(i))
      BY HoldSets
    <2>2. Cardinality(Holders(i) \cup {t}) = h + 1
      BY <2>1, FS_AddElement
    <2> QED
      BY <2>2
  <1>4. h # 0 => crossed' = crossed + 1
    <2>1. Holders(i) \subseteq BusyTicks /\ IsFiniteSet(Holders(i))
      BY HoldSets
    <2>2. h # 0 => Holders(i) # {}
      BY FS_EmptySet
    <2> QED
      BY <2>1, <2>2
  <1>5. /\ \A u \in Holders(i) : posts[i] + h <= drain[u].due[i].attempt + n + cuts + crossed + 1
        /\ posts[i] + h <= a + n + cuts + crossed + 1
        /\ posts[i] <= a + n + cuts + crossed
        /\ Holders(i) = {} => h = 0
    <2>1. Holders(i) = {} => h = 0
      BY FS_EmptySet
    <2> QED
      BY <1>1, <1>2, <2>1 DEF PostsAt
  <1>6. Holders(i) # {} => h # 0
    <2>1. IsFiniteSet(Holders(i))
      BY HoldSets
    <2> QED
      BY <2>1, FS_EmptySet
  <1> HIDE DEF h, n, a
  <1>7. /\ posts[i] + (h + 1) <= a + (n + cuts + crossed') + 1
        /\ posts[i] <= a + (n + cuts + crossed')
    <2>1. CASE h = 0
      BY <1>1, <1>5, <2>1
    <2>2. CASE h # 0
      BY <1>1, <1>4, <1>5, <2>2
    <2> QED
      BY <2>1, <2>2
  <1>8. \A u \in Holders(i) :
            posts[i] + (h + 1) <= drain[u].due[i].attempt + (n + cuts + crossed') + 1
    BY <1>1, <1>2, <1>4, <1>5, <1>6
  <1>9. \A u \in Holders(i)' :
            posts'[i] + (h + 1) <= drain'[u].due[i].attempt + (n + cuts' + crossed') + 1
    <2> SUFFICES ASSUME NEW u \in Holders(i)'
                 PROVE  posts[i] + (h + 1) <= drain'[u].due[i].attempt + (n + cuts + crossed') + 1
      OBVIOUS
    <2>1. CASE u \in Holders(i)
      BY <1>8, <2>1
    <2>2. CASE u = t
      BY <1>7, <2>2 DEF a
    <2> QED
      BY <2>1, <2>2
  <1> QED
    BY <1>3, <1>7, <1>9 DEF PostsAt, a

(* PostsSent: the POST that is sent is the one now in hand.                 *)
LEMMA PostsSent ==
  ASSUME DeliveryTypes, OneInHand, IsFiniteSet(BusyTicks), DeliveryTypes',
         NEW i \in RowIds, PostsAt(i), NEW t \in Holders(i), t \notin Hands(i),
         ReadsHaveRows,
         Holders(i)' = Holders(i), Hands(i)' = Hands(i) \cup {t},
         \A u \in Holders(i) : drain'[u].due[i] = drain[u].due[i],
         posts'[i] = posts[i] + 1, UNCHANGED <<rows, subs, cuts, crossed>>
  PROVE  PostsAt(i)'
  <1> DEFINE h == Cardinality(Holders(i))
             n == Cardinality(Hands(i))
  <1>1. /\ posts[i] \in Nat /\ cuts \in Nat /\ crossed \in Nat
        /\ h \in Nat /\ n \in Nat
        /\ i \in DOMAIN rows => rows[i].attempt \in Nat
    BY HoldSets DEF DeliveryTypes, TablesTypeOK, Row
  <1>2. \A u \in Holders(i) : drain[u].due[i].attempt \in Nat
    <2> SUFFICES ASSUME NEW u \in Holders(i) PROVE drain[u].due[i] \in Row
      BY DEF Row
    <2>1. u \in Ticks /\ i \in DOMAIN drain[u].due /\ drain[u].due \in RowMaps
      BY DEF Holders, DeliveryTypes, DrainLocals
    <2> QED
      BY <2>1, RowMapIs
  <1>3. Cardinality(Holders(i))' = h /\ Cardinality(Hands(i))' = n + 1
    <2>1. IsFiniteSet(Hands(i))
      BY HoldSets
    <2>2. Cardinality(Hands(i) \cup {t}) = n + 1
      BY <2>1, FS_AddElement
    <2> QED
      BY <2>2
  <1>4. i \in DOMAIN rows \/ subs[i.sub] = "deleted"
    BY DEF Holders, ReadsHaveRows
  <1>5. /\ \A u \in Holders(i) : posts[i] + h <= drain[u].due[i].attempt + n + cuts + crossed + 1
        /\ i \in DOMAIN rows =>
            /\ posts[i] + h <= rows[i].attempt + n + cuts + crossed + 1
            /\ rows[i].status # "ok" => posts[i] <= rows[i].attempt + n + cuts + crossed
    BY <1>1, <1>2 DEF PostsAt
  <1> HIDE DEF h, n
  <1>6. \A u \in Holders(i)' :
            posts'[i] + h <= drain'[u].due[i].attempt + ((n + 1) + cuts' + crossed') + 1
    BY <1>1, <1>2, <1>5
  <1>7. i \in DOMAIN rows =>
            /\ (posts[i] + 1) + h <= rows[i].attempt + ((n + 1) + cuts + crossed) + 1
            /\ rows[i].status # "ok" =>
                    posts[i] + 1 <= rows[i].attempt + ((n + 1) + cuts + crossed)
    BY <1>1, <1>5
  <1>8. i \in DOMAIN rows' =>
            /\ posts'[i] + h <= rows'[i].attempt + ((n + 1) + cuts' + crossed') + 1
            /\ rows'[i].status # "ok" =>
                    posts'[i] <= rows'[i].attempt + ((n + 1) + cuts' + crossed')
    BY <1>7
  <1> QED
    BY <1>3, <1>4, <1>6, <1>8 DEF PostsAt

(* PostsTurnEnds: a turn that ends with a write, for the delivery it was    *)
(* about and for every other one.                                           *)
LEMMA PostsTurnEnds ==
  ASSUME DeliveryTypes, OneInHand, PostsInv, DeliveryTypes',
         NEW t \in Ticks, NEW i \in drain[t].cur,
         \A u \in Ticks \ {t} : drain'[u] = drain[u],
         \A j \in DOMAIN drain'[t].due :
            j \in DOMAIN drain[t].due /\ drain'[t].due[j] = drain[t].due[j],
         DOMAIN drain[t].due \ {i} \subseteq DOMAIN drain'[t].due,
         \/ drain'[t].cur = {} /\ i \notin DOMAIN drain'[t].due
         \/ drain'[t].cur = drain[t].cur /\ drain'[t].pc = "pause",
         drain'[t].pc \in {"pick", "pause"},
         drain[t].pc # "pause",
         UNCHANGED <<subs, posts, cuts, crossed>>,
         DOMAIN rows' = DOMAIN rows,
         \A j \in DOMAIN rows : j # i => rows'[j] = rows[j],
         \/ /\ drain[t].pc = "record"
            /\ i \in DOMAIN rows => /\ rows'[i].attempt = rows[i].attempt
                                    /\ rows'[i].status = "ok"
         \/ /\ drain[t].pc = "record"
            /\ i \in DOMAIN rows => rows'[i].attempt = drain[t].due[i].attempt + 1
         \/ /\ drain[t].pc # "record"
            /\ i \in DOMAIN rows => /\ rows'[i].attempt = rows[i].attempt
                                    /\ rows'[i].status = "failed"
  PROVE  \A j \in RowIds : PostsAt(j)'
  <1>0. /\ drain[t].cur = {i} /\ i \in DOMAIN drain[t].due
        /\ drain'[t].cur \subseteq {i}
        /\ IsFiniteSet(BusyTicks)
        /\ cuts \in Nat /\ crossed \in Nat
    BY DEF OneInHand, PostsInv, DeliveryTypes
  <1>1. ASSUME NEW j \in RowIds, j # i PROVE PostsAt(j)'
    <2>1. /\ t \in Holders(j)' <=> t \in Holders(j)
          /\ t \in Hands(j)' <=> t \in Hands(j)
      BY <1>0, <1>1, OthersHold
    <2>2. /\ Holders(j)' = Holders(j) /\ Hands(j)' = Hands(j)
      BY <2>1, OthersHold
    <2>3. \A u \in Holders(j) : drain'[u].due[j].attempt = drain[u].due[j].attempt
      BY <1>1 DEF Holders
    <2> QED
      BY <1>0, <1>1, <2>2, <2>3, PostsSame DEF PostsInv
  <1>2. PostsAt(i)'
    <2>1. /\ t \in Holders(i) /\ t \notin Holders(i)' /\ t \notin Hands(i)'
          /\ t \in Hands(i) <=> drain[t].pc = "record"
      BY <1>0, OthersHold
    <2>2. /\ Holders(i)' = Holders(i) \ {t} /\ Hands(i)' = Hands(i) \ {t}
      BY <2>1, OthersHold
    <2>3. \A u \in Holders(i) \ {t} : drain'[u].due[i].attempt = drain[u].due[i].attempt
      BY DEF Holders
    <2>4. i \in RowIds
      BY DEF DeliveryTypes, DrainLocals
    <2>5. \/ /\ t \in Hands(i)
             /\ i \in DOMAIN rows => /\ rows'[i].attempt = rows[i].attempt
                                     /\ rows'[i].status = "ok"
          \/ /\ t \in Hands(i)
             /\ i \in DOMAIN rows => rows'[i].attempt = drain[t].due[i].attempt + 1
          \/ /\ t \notin Hands(i)
             /\ i \in DOMAIN rows => /\ rows'[i].attempt = rows[i].attempt
                                     /\ rows'[i].status = "failed"
      BY <2>1
    <2> QED
      BY <1>0, <2>1, <2>2, <2>3, <2>4, <2>5, PostsReleased DEF PostsInv
  <1> QED
    BY <1>1, <1>2

(* Each statement of deliverDue keeps every delivery's account.             *)
LEMMA PostsDrainStep ==
  ASSUME DeliveryTypes, OneInHand, ReadsHaveRows, PostsInv, NEW t \in Ticks,
         DrainStep(t) \/ DrainCrash(t)
  PROVE  \A i \in RowIds : PostsAt(i)'
  <1>0. /\ DeliveryTypes'
        /\ drain \in [Ticks -> DrainLocals]
        /\ IsFiniteSet(BusyTicks)
        /\ cuts \in Nat /\ crossed \in Nat
        /\ \A i \in DOMAIN rows : rows[i] \in Row
        /\ drain[t].cur \subseteq DOMAIN drain[t].due
        /\ drain[t].cur \subseteq RowIds
    BY TypesDrainStep DEF DeliveryTypes, TablesTypeOK, PostsInv, OneInHand, DrainLocals
  <1>a. ASSUME \A u \in Ticks \ {t} : drain'[u] = drain[u], NEW i,
               t \in Holders(i)' <=> t \in Holders(i),
               t \in Hands(i)' <=> t \in Hands(i)
        PROVE  Holders(i)' = Holders(i) /\ Hands(i)' = Hands(i)
    BY <1>a, OthersHold
  <1>1. CASE ReadDue(t)
    <2>1. /\ \A u \in Ticks \ {t} : drain'[u] = drain[u]
          /\ drain[t].pc = "idle" /\ drain'[t].pc = "pick" /\ drain'[t].cur = {}
          /\ DOMAIN drain'[t].due \subseteq DueRows
          /\ \A i \in DOMAIN drain'[t].due : drain'[t].due[i] = rows[i]
      BY <1>1, ReadDueIs
    <2>2. DOMAIN drain[t].due = {} /\ drain[t].cur = {}
      BY <2>1 DEF OneInHand
    <2>3. /\ UNCHANGED <<rows, subs, posts, cuts>>
          /\ crossed' = IF BusyTicks # {} THEN crossed + 1 ELSE crossed
      BY <1>1 DEF ReadDue, BusyTicks, tables
    <2> SUFFICES ASSUME NEW i \in RowIds PROVE PostsAt(i)'
      OBVIOUS
    <2>4. t \notin Holders(i) /\ t \notin Hands(i) /\ t \notin Hands(i)'
      BY <2>1, <2>2, OthersHold
    <2>5. \A u \in Holders(i) : drain'[u].due[i] = drain[u].due[i]
      BY <2>1, <2>4 DEF Holders
    <2>6. Hands(i)' = Hands(i)
      BY <2>1, <2>4, OthersHold
    <2>7. CASE i \in DOMAIN drain'[t].due
      <3>1. t \in Holders(i)'
        BY <2>1, <2>7, OthersHold
      <3>2. Holders(i)' = Holders(i) \cup {t}
        BY <2>1, <3>1, OthersHold
      <3>3. i \in DOMAIN rows /\ rows[i].status = "pending"
        BY <2>1, <2>7 DEF DueRows
      <3> QED
        BY <1>0, <2>1, <2>3, <2>4, <2>5, <2>6, <2>7, <3>2, <3>3, PostsRead DEF PostsInv
    <2>8. CASE i \notin DOMAIN drain'[t].due
      <3>1. t \notin Holders(i)'
        BY <2>1, <2>8, OthersHold
      <3>2. Holders(i)' = Holders(i)
        BY <2>1, <2>4, <3>1, OthersHold
      <3>3. \A u \in Holders(i) : drain'[u].due[i].attempt = drain[u].due[i].attempt
        BY <2>5
      <3>4. cuts' + crossed' >= cuts + crossed
        BY <1>0, <2>3
      <3> QED
        BY <1>0, <2>3, <2>6, <3>2, <3>3, <3>4, PostsSame DEF PostsInv
    <2> QED
      BY <2>7, <2>8
  <1>2. CASE PickDelivery(t)
    <2>1. /\ \A u \in Ticks \ {t} : drain'[u] = drain[u]
          /\ drain'[t].due = drain[t].due
          /\ drain[t].pc = "pick" /\ drain'[t].pc \in {"post", "inactive"}
      BY <1>2, TurnIs
    <2>2. UNCHANGED <<rows, subs, posts, cuts, crossed>>
      BY <1>2 DEF PickDelivery, tables
    <2> SUFFICES ASSUME NEW i \in RowIds PROVE PostsAt(i)'
      OBVIOUS
    <2>3. /\ t \in Holders(i)' <=> t \in Holders(i)
          /\ t \in Hands(i)' <=> t \in Hands(i)
      BY <2>1, OthersHold
    <2>4. \A u \in Holders(i) : drain'[u].due[i].attempt = drain[u].due[i].attempt
      BY <2>1 DEF Holders
    <2> QED
      BY <1>0, <1>a, <2>1, <2>2, <2>3, <2>4, PostsSame DEF PostsInv
  <1>3. CASE DrainDone(t)
    <2>1. /\ \A u \in Ticks \ {t} : drain'[u] = drain[u]
          /\ drain'[t].cur = {} /\ DOMAIN drain'[t].due = {}
      BY <1>3, EndIs
    <2>2. UNCHANGED <<rows, subs, posts, cuts, crossed>>
          /\ drain[t].pc = "pick" /\ DOMAIN drain[t].due = {}
      BY <1>3 DEF DrainDone, tables
    <2> SUFFICES ASSUME NEW i \in RowIds PROVE PostsAt(i)'
      OBVIOUS
    <2>3. /\ t \in Holders(i)' <=> t \in Holders(i)
          /\ t \in Hands(i)' <=> t \in Hands(i)
      BY <1>0, <2>1, <2>2, OthersHold
    <2>4. \A u \in Holders(i) : drain'[u].due[i].attempt = drain[u].due[i].attempt
      BY <2>1, <2>2 DEF Holders
    <2> QED
      BY <1>0, <1>a, <2>1, <2>2, <2>3, <2>4, PostsSame DEF PostsInv
  <1>b. ASSUME NEW i \in drain[t].cur, NextTurn(t, i)
        PROVE  /\ \A u \in Ticks \ {t} : drain'[u] = drain[u]
               /\ \A j \in DOMAIN drain'[t].due :
                    j \in DOMAIN drain[t].due /\ drain'[t].due[j] = drain[t].due[j]
               /\ DOMAIN drain[t].due \ {i} \subseteq DOMAIN drain'[t].due
               /\ drain'[t].cur = {} /\ i \notin DOMAIN drain'[t].due
               /\ drain'[t].pc = "pick"
    BY <1>0, <1>b, NextTurnIs
  <1>4. CASE FailInactive(t)
    <2>1. PICK i \in drain[t].cur :
              UpdateRow(i, [rows[i] EXCEPT !.status = "failed"]) /\ NextTurn(t, i)
      BY <1>4 DEF FailInactive
    <2>2. /\ DOMAIN rows' = DOMAIN rows
          /\ \A j \in DOMAIN rows : j # i => rows'[j] = rows[j]
          /\ i \in DOMAIN rows => rows'[i] = [rows[i] EXCEPT !.status = "failed"]
      BY <2>1, UpdateIs
    <2>3. i \in DOMAIN rows => /\ rows'[i].attempt = rows[i].attempt
                               /\ rows'[i].status = "failed"
      BY <1>0, <2>2 DEF Row
    <2>4. UNCHANGED <<subs, posts, cuts, crossed>> /\ drain[t].pc = "inactive"
      BY <1>4 DEF FailInactive
    <2> QED
      BY <1>0, <1>b, <2>1, <2>2, <2>3, <2>4, PostsTurnEnds
  <1>5. CASE Post(t)
    <2>1. PICK i \in drain[t].cur : posts' = [posts EXCEPT ![i] = @ + 1]
      BY <1>5 DEF Post
    <2>2. /\ \A u \in Ticks \ {t} : drain'[u] = drain[u]
          /\ drain'[t].due = drain[t].due /\ drain'[t].cur = drain[t].cur
          /\ drain[t].pc = "post" /\ drain'[t].pc = "record"
      BY <1>5, TurnIs
    <2>3. UNCHANGED <<rows, subs, cuts, crossed>>
      BY <1>5 DEF Post, tables
    <2>4. drain[t].cur = {i} /\ i \in DOMAIN drain[t].due /\ i \in RowIds
      BY <1>0 DEF OneInHand
    <2> SUFFICES ASSUME NEW j \in RowIds PROVE PostsAt(j)'
      OBVIOUS
    <2>5. t \in Holders(j)' <=> t \in Holders(j)
      BY <2>2, OthersHold
    <2>6. Holders(j)' = Holders(j)
      BY <2>2, <2>5, OthersHold
    <2>7. \A u \in Holders(j) : drain'[u].due[j] = drain[u].due[j]
      BY <2>2 DEF Holders
    <2>8. posts \in [RowIds -> Nat]
      BY DEF DeliveryTypes
    <2>9. CASE j = i
      <3>1. t \in Holders(j) /\ t \notin Hands(j) /\ t \in Hands(j)'
        BY <2>2, <2>4, <2>9, OthersHold
      <3>2. Hands(j)' = Hands(j) \cup {t}
        BY <2>2, <3>1, OthersHold
      <3>3. posts'[j] = posts[j] + 1
        BY <2>1, <2>8, <2>9
      <3> QED
        BY <1>0, <2>3, <2>6, <2>7, <3>1, <3>2, <3>3, PostsSent DEF PostsInv
    <2>10. CASE j # i
      <3>1. t \notin Hands(j) /\ t \notin Hands(j)'
        BY <2>2, <2>4, <2>10, OthersHold
      <3>2. Hands(j)' = Hands(j)
        BY <2>2, <3>1, OthersHold
      <3>3. posts'[j] = posts[j]
        BY <2>1, <2>8, <2>10
      <3>4. \A u \in Holders(j) : drain'[u].due[j].attempt = drain[u].due[j].attempt
        BY <2>7
      <3> QED
        BY <1>0, <2>3, <2>6, <3>2, <3>3, <3>4, PostsSame DEF PostsInv
    <2> QED
      BY <2>9, <2>10
  <1>6. CASE RecordOk(t)
    <2>1. PICK i \in drain[t].cur :
              UpdateRow(i, [rows[i] EXCEPT !.status = "ok"]) /\ NextTurn(t, i)
      BY <1>6 DEF RecordOk
    <2>2. /\ DOMAIN rows' = DOMAIN rows
          /\ \A j \in DOMAIN rows : j # i => rows'[j] = rows[j]
          /\ i \in DOMAIN rows => rows'[i] = [rows[i] EXCEPT !.status = "ok"]
      BY <2>1, UpdateIs
    <2>3. i \in DOMAIN rows => /\ rows'[i].attempt = rows[i].attempt
                               /\ rows'[i].status = "ok"
      BY <1>0, <2>2 DEF Row
    <2>4. UNCHANGED <<subs, posts, cuts, crossed>> /\ drain[t].pc = "record"
      BY <1>6 DEF RecordOk
    <2> QED
      BY <1>0, <1>b, <2>1, <2>2, <2>3, <2>4, PostsTurnEnds
  <1>7. CASE RecordRetry(t)
    <2> DEFINE r(i) == [rows[i] EXCEPT
                            !.attempt = NextAttempt(t, i),
                            !.nextAttemptAt = drain[t].now + Backoff(NextAttempt(t, i))]
    <2>1. PICK i \in drain[t].cur : UpdateRow(i, r(i)) /\ NextTurn(t, i)
      BY <1>7 DEF RecordRetry
    <2>2. /\ DOMAIN rows' = DOMAIN rows
          /\ \A j \in DOMAIN rows : j # i => rows'[j] = rows[j]
          /\ i \in DOMAIN rows => rows'[i] = r(i)
      BY <2>1, UpdateIs
    <2>3. i \in DOMAIN rows => rows'[i].attempt = drain[t].due[i].attempt + 1
      BY <1>0, <2>2 DEF Row, NextAttempt
    <2>4. UNCHANGED <<subs, posts, cuts, crossed>> /\ drain[t].pc = "record"
      BY <1>7 DEF RecordRetry
    <2> QED
      BY <1>0, <1>b, <2>1, <2>2, <2>3, <2>4, PostsTurnEnds
  <1>8. CASE RecordExhausted(t)
    <2> DEFINE r(i) == [rows[i] EXCEPT !.status = "failed", !.attempt = NextAttempt(t, i)]
    <2>1. PICK i \in drain[t].cur : UpdateRow(i, r(i))
      BY <1>8 DEF RecordExhausted
    <2>2. /\ DOMAIN rows' = DOMAIN rows
          /\ \A j \in DOMAIN rows : j # i => rows'[j] = rows[j]
          /\ i \in DOMAIN rows => rows'[i] = r(i)
      BY <2>1, UpdateIs
    <2>3. i \in DOMAIN rows => rows'[i].attempt = drain[t].due[i].attempt + 1
      BY <1>0, <2>2 DEF Row, NextAttempt
    <2>4. UNCHANGED <<subs, posts, cuts, crossed>> /\ drain[t].pc = "record"
      BY <1>8 DEF RecordExhausted
    <2>5. /\ \A u \in Ticks \ {t} : drain'[u] = drain[u]
          /\ drain'[t].due = drain[t].due /\ drain'[t].cur = drain[t].cur
          /\ drain'[t].pc = "pause"
      BY <1>8, TurnIs
    <2> QED
      BY <1>0, <2>1, <2>2, <2>3, <2>4, <2>5, PostsTurnEnds
  <1>9. CASE PauseAfterExhausted(t)
    <2>1. PICK i \in drain[t].cur :
              /\ subs' = IF subs[i.sub] = "active"
                         THEN [subs EXCEPT ![i.sub] = "paused"] ELSE subs
              /\ NextTurn(t, i)
      BY <1>9 DEF PauseAfterExhausted
    <2>2. UNCHANGED <<rows, posts, cuts, crossed>> /\ drain[t].pc = "pause"
      BY <1>9 DEF PauseAfterExhausted
    <2>3. drain[t].cur = {i}
      BY DEF OneInHand
    <2>4. \A s \in Subs : subs'[s] # "deleted" => subs[s] # "deleted"
      BY <2>1 DEF DeliveryTypes, TablesTypeOK
    <2> SUFFICES ASSUME NEW j \in RowIds PROVE PostsAt(j)'
      OBVIOUS
    <2>5. /\ t \in Holders(j)' <=> t \in Holders(j)
          /\ t \in Hands(j)' <=> t \in Hands(j)
      <3>1. DOMAIN drain'[t].due = DOMAIN drain[t].due \ {i} /\ drain'[t].cur = {}
            /\ drain'[t].pc = "pick" /\ \A u \in Ticks \ {t} : drain'[u] = drain[u]
        BY <1>0, <2>1, NextTurnIs
      <3> QED
        BY <2>2, <2>3, <3>1, OthersHold
    <2>6. \A u \in Holders(j) : drain'[u].due[j].attempt = drain[u].due[j].attempt
      <3>1. j # i \/ t \notin Holders(j)
        BY <2>2, <2>3 DEF Holders
      <3>2. \A u \in Holders(j) \ {t} : drain'[u].due[j] = drain[u].due[j]
        BY <1>b, <2>1 DEF Holders
      <3>3. t \in Holders(j) => drain'[t].due[j] = drain[t].due[j]
        BY <1>b, <2>1, <3>1 DEF Holders
      <3> QED
        BY <3>2, <3>3
    <2>7. j.sub \in Subs
      BY DEF RowIds
    <2> QED
      BY <1>0, <1>a, <1>b, <2>1, <2>2, <2>4, <2>5, <2>6, <2>7, PostsSame DEF PostsInv
  <1>10. CASE DrainCrash(t)
    <2>1. /\ \A u \in Ticks \ {t} : drain'[u] = drain[u]
          /\ drain'[t].cur = {} /\ DOMAIN drain'[t].due = {}
      BY <1>10, EndIs
    <2>2. UNCHANGED <<rows, subs, posts, crossed>> /\ cuts' = cuts + 1
      BY <1>10 DEF DrainCrash, tables
    <2> SUFFICES ASSUME NEW i \in RowIds PROVE PostsAt(i)'
      OBVIOUS
    <2>3. t \notin Holders(i)' /\ t \notin Hands(i)'
      BY <2>1, OthersHold
    <2>4. \A u \in Holders(i) \ {t} : drain'[u].due[i].attempt = drain[u].due[i].attempt
      BY <2>1 DEF Holders
    <2>5. CASE t \in Holders(i)
      <3>1. Holders(i)' = Holders(i) \ {t} /\ Hands(i)' = Hands(i) \ {t}
        BY <2>1, <2>3, OthersHold
      <3> QED
        BY <1>0, <2>2, <2>4, <2>5, <3>1, PostsReleased DEF PostsInv
    <2>6. CASE t \notin Holders(i)
      <3>1. Hands(i) \subseteq Holders(i)
        BY <1>0, HoldSets
      <3>2. Holders(i)' = Holders(i) /\ Hands(i)' = Hands(i)
        BY <1>a, <2>1, <2>3, <2>6, <3>1
      <3>3. cuts' + crossed' >= cuts + crossed
        BY <1>0, <2>2
      <3>4. \A u \in Holders(i) : drain'[u].due[i].attempt = drain[u].due[i].attempt
        BY <2>4, <2>6
      <3> QED
        BY <1>0, <2>2, <3>2, <3>3, <3>4, PostsSame DEF PostsInv
    <2> QED
      BY <2>5, <2>6
  <1> QED
    BY <1>1, <1>2, <1>3, <1>4, <1>5, <1>6, <1>7, <1>8, <1>9, <1>10 DEF DrainStep

(* A tick that begins beside another counts as an overlap, and only the     *)
(* tick that has paused a subscription's delivery switches it off.          *)
LEMMA AloneDrainStep ==
  ASSUME DeliveryTypes, OneInHand, PostsInv, NEW t \in Ticks,
         DrainStep(t) \/ DrainCrash(t)
  PROVE  IsFiniteSet(BusyTicks)' /\ AloneWhilePosting'
  <1>0. /\ DeliveryTypes'
        /\ cuts \in Nat /\ crossed \in Nat
        /\ IsFiniteSet(BusyTicks)
        /\ drain[t].cur \subseteq RowIds
    BY TypesDrainStep DEF DeliveryTypes, PostsInv, DrainLocals
  <1>1. /\ \A u \in Ticks \ {t} : drain'[u] = drain[u]
        /\ drain[t].pc = "idle" => ReadDue(t)
        /\ drain'[t].pc = "post" =>
                /\ UNCHANGED subs
                /\ \A i \in drain'[t].cur : i.sub \in Subs => subs[i.sub] # "paused"
    <2>1. CASE ReadDue(t)
      BY <2>1, ReadDueIs
    <2>2. CASE PickDelivery(t)
      <3>1. UNCHANGED subs
        BY <2>2 DEF PickDelivery, tables
      <3> QED
        BY <2>2, <3>1, TurnIs
    <2>3. CASE Post(t) \/ RecordExhausted(t)
      <3>1. drain'[t].pc \in {"record", "pause"} /\ drain[t].pc # "idle"
        BY <2>3, TurnIs
      <3> QED
        BY <2>3, <3>1, TurnIs
    <2>4. CASE DrainDone(t) \/ DrainCrash(t)
      <3>1. drain[t].pc # "idle"
        BY <2>4 DEF DrainDone, DrainCrash
      <3> QED
        BY <2>4, <3>1, EndIs
    <2>5. CASE FailInactive(t) \/ RecordOk(t) \/ RecordRetry(t) \/ PauseAfterExhausted(t)
      <3>1. PICK i \in drain[t].cur : NextTurn(t, i)
        BY <2>5 DEF FailInactive, RecordOk, RecordRetry, PauseAfterExhausted
      <3>2. drain[t].pc # "idle"
        BY <2>5 DEF FailInactive, RecordOk, RecordRetry, PauseAfterExhausted
      <3>3. i \in RowIds
        BY <1>0
      <3>4. drain \in [Ticks -> DrainLocals]
        BY DEF DeliveryTypes
      <3>5. drain'[t].pc = "pick" /\ \A u \in Ticks \ {t} : drain'[u] = drain[u]
        BY <3>1, <3>3, <3>4, NextTurnIs
      <3> QED
        BY <3>2, <3>5
    <2> QED
      BY <2>1, <2>2, <2>3, <2>4, <2>5 DEF DrainStep
  <1>2. /\ BusyTicks' \subseteq BusyTicks \cup {t}
        /\ drain[t].pc # "idle" => BusyTicks' \subseteq BusyTicks
    BY <1>1, OthersHold
  <1>3. IsFiniteSet(BusyTicks)'
    <2>1. IsFiniteSet(BusyTicks \cup {t})
      BY <1>0, FS_AddElement
    <2> QED
      BY <1>2, <2>1, FS_Subset
  <1>4. ASSUME crossed' = 0
        PROVE  crossed = 0 /\ (ReadDue(t) => BusyTicks = {})
    <2>1. CASE ReadDue(t)
      <3>1. crossed' = IF BusyTicks # {} THEN crossed + 1 ELSE crossed
        BY <2>1 DEF ReadDue, BusyTicks
      <3> QED
        BY <1>0, <1>4, <3>1
    <2>2. CASE ~ ReadDue(t)
      <3>1. crossed' = crossed
        BY <2>2
        DEF DrainStep, DrainCrash, PickDelivery, DrainDone, FailInactive, Post,
            RecordOk, RecordRetry, RecordExhausted, PauseAfterExhausted
      <3> QED
        BY <1>4, <2>2, <3>1
    <2> QED
      BY <2>1, <2>2
  <1>5. ASSUME crossed' = 0 PROVE \A u, v \in BusyTicks' : u = v
    <2>1. crossed = 0 /\ (ReadDue(t) => BusyTicks = {})
      BY <1>4, <1>5
    <2>2. \A u, v \in BusyTicks : u = v
      BY <2>1 DEF PostsInv, AloneWhilePosting
    <2> QED
      BY <1>1, <1>2, <2>1, <2>2
  <1>6. ASSUME crossed' = 0, NEW u \in Ticks, drain'[u].pc = "post", NEW i \in drain'[u].cur
        PROVE  subs'[i.sub] # "paused"
    <2>1. i \in RowIds /\ i.sub \in Subs
      BY <1>0, <1>6 DEF DeliveryTypes, DrainLocals, RowIds
    <2>2. CASE u = t
      BY <1>1, <1>6, <2>1, <2>2
    <2>3. CASE u # t
      <3>1. drain[u].pc = "post" /\ i \in drain[u].cur
        BY <1>1, <1>6, <2>3
      <3>2. crossed = 0 /\ (ReadDue(t) => BusyTicks = {})
        BY <1>4, <1>6
      <3>3. u \in BusyTicks
        BY <3>1 DEF BusyTicks
      <3>4. t \notin BusyTicks
        BY <2>3, <3>2, <3>3 DEF PostsInv, AloneWhilePosting
      <3>5. ReadDue(t)
        BY <1>1, <3>4 DEF BusyTicks
      <3> QED
        BY <3>2, <3>3, <3>5
    <2> QED
      BY <2>2, <2>3
  <1> QED
    BY <1>3, <1>5, <1>6 DEF AloneWhilePosting

(* What is beside deliverDue sends nothing; a row it brings has never been  *)
(* sent.                                                                    *)
LEMMA PostsBeside ==
  ASSUME DeliveryTypes, OneInHand, ReadsHaveRows, PostsInv, Beside, DeliveryTypes'
  PROVE  PostsInv'
  <1>0. UNCHANGED <<drain, posts, cuts, crossed>>
    BY DEF Beside
  <1>1. /\ BusyTicks' = BusyTicks
        /\ \A i : Holders(i)' = Holders(i) /\ Hands(i)' = Hands(i)
    BY <1>0 DEF BusyTicks, Holders, Hands, InHand
  <1>2. IsFiniteSet(BusyTicks) /\ cuts \in Nat /\ crossed \in Nat
    BY DEF PostsInv, DeliveryTypes
  <1>3. ASSUME NEW i \in RowIds PROVE PostsAt(i)'
    <2>0. i.sub \in Subs
      BY DEF RowIds
    <2>1. CASE i \in DOMAIN rows' /\ i \notin DOMAIN rows
      <3>1. /\ subs[i.sub] # "deleted"
            /\ rows'[i] = NewRow(born'[i]) /\ rows'[i].attempt = 0
        BY <2>1 DEF Beside, NewRow
      <3>2. posts[i] = 0
        BY <2>1, <3>1 DEF PostsInv, PostsAt
      <3>3. Holders(i) = {}
        BY <2>1, <3>1 DEF ReadsHaveRows, Holders
      <3>4. Cardinality(Holders(i))' = 0 /\ Cardinality(Hands(i))' \in Nat
        <4>1. Cardinality(Holders(i)) = 0
          BY <3>3, FS_EmptySet
        <4>2. Cardinality(Hands(i)) \in Nat
          BY <1>2, HoldSets
        <4> QED
          BY <1>1, <4>1, <4>2
      <3>5. Holders(i)' = {}
        BY <1>1, <3>3
      <3> DEFINE n == Cardinality(Hands(i))'
      <3>6. n \in Nat
        BY <3>4
      <3> HIDE DEF n
      <3>7. 0 + 0 <= 0 + (n + cuts + crossed) + 1 /\ 0 <= 0 + (n + cuts + crossed)
        BY <1>2, <3>6
      <3> QED
        BY <1>0, <2>1, <3>1, <3>2, <3>4, <3>5, <3>7 DEF PostsAt, n
    <2>2. CASE i \in DOMAIN rows' => i \in DOMAIN rows
      <3>1. i \in DOMAIN rows' => /\ i \in DOMAIN rows
                                  /\ rows'[i].attempt = rows[i].attempt
                                  /\ rows'[i].status = rows[i].status
        BY <2>2 DEF Beside
      <3>2. i \notin DOMAIN rows' /\ subs'[i.sub] # "deleted" =>
                i \notin DOMAIN rows /\ subs[i.sub] # "deleted"
        BY <2>0 DEF Beside
      <3>3. \A u \in Holders(i) : drain'[u].due[i].attempt = drain[u].due[i].attempt
        BY <1>0
      <3>4. posts'[i] = posts[i] /\ cuts' + crossed' >= cuts + crossed
        BY <1>0, <1>2
      <3> QED
        BY <1>1, <1>2, <3>1, <3>2, <3>3, <3>4, PostsSame DEF PostsInv
    <2> QED
      BY <2>1, <2>2
  <1>4. AloneWhilePosting'
    <2>1. \A u \in Ticks : \A i \in drain[u].cur : i.sub \in Subs
      BY DEF DeliveryTypes, DrainLocals, RowIds
    <2> QED
      BY <1>0, <1>1, <2>1 DEF PostsInv, AloneWhilePosting, Beside
  <1> QED
    BY <1>1, <1>2, <1>3, <1>4 DEF PostsInv

LEMMA PostsInit == DeliveryTypes /\ DrainInit /\ DOMAIN rows = {} => PostsInv
  <1> SUFFICES ASSUME DeliveryTypes, DrainInit, DOMAIN rows = {} PROVE PostsInv
    OBVIOUS
  <1>1. \A t \in Ticks : drain[t].pc = "idle" /\ DOMAIN drain[t].due = {} /\ drain[t].cur = {}
    BY NoDrainTyped DEF DrainInit, NoDrain
  <1>2. BusyTicks = {} /\ \A i : Holders(i) = {}
    BY <1>1 DEF BusyTicks, Holders
  <1>3. IsFiniteSet(BusyTicks)
    BY <1>2, FS_EmptySet
  <1>4. \A i \in RowIds : posts[i] = 0
    BY DEF DrainInit
  <1>5. \A i \in RowIds : PostsAt(i)
    BY <1>2, <1>4 DEF PostsAt
  <1> QED
    BY <1>1, <1>2, <1>3, <1>5 DEF PostsInv, AloneWhilePosting

(* What the account says of a delivery that has a row, and of a step that   *)
(* sends one.                                                               *)
PostsBound ==
    \A i \in DOMAIN rows :
        posts[i] <= rows[i].attempt
                    + (IF rows[i].status = "ok" THEN 1 ELSE 0)
                    + Cardinality({t \in Ticks : InHand(t, i)})
                    + cuts + crossed

LEMMA PostsBounded == DeliveryTypes /\ OneInHand /\ PostsInv => PostsBound
  <1> SUFFICES ASSUME DeliveryTypes, OneInHand, PostsInv, NEW i \in DOMAIN rows
               PROVE  posts[i] <= rows[i].attempt
                                    + (IF rows[i].status = "ok" THEN 1 ELSE 0)
                                    + Cardinality(Hands(i)) + cuts + crossed
    BY DEF PostsBound, Hands
  <1> DEFINE h == Cardinality(Holders(i))
             n == Cardinality(Hands(i))
  <1>1. /\ posts[i] \in Nat /\ cuts \in Nat /\ crossed \in Nat
        /\ h \in Nat /\ n \in Nat /\ rows[i].attempt \in Nat /\ i \in RowIds
    BY HoldSets DEF PostsInv, DeliveryTypes, TablesTypeOK, Row
  <1>2. /\ posts[i] + h <= rows[i].attempt + (n + cuts + crossed) + 1
        /\ rows[i].status # "ok" => posts[i] <= rows[i].attempt + (n + cuts + crossed)
    BY <1>1 DEF PostsInv, PostsAt
  <1> HIDE DEF h, n
  <1>3. CASE rows[i].status = "ok"
    BY <1>1, <1>2, <1>3 DEF n
  <1>4. CASE rows[i].status # "ok"
    BY <1>1, <1>2, <1>4 DEF n
  <1> QED
    BY <1>3, <1>4

LEMMA PausedGetsNothing ==
  ASSUME DeliveryTypes, OneInHand, PostsInv,
         Beside \/ \E t \in Ticks : DrainStep(t) \/ DrainCrash(t)
  PROVE  crossed' = 0 => \A i \in RowIds : posts'[i] > posts[i] => subs[i.sub] # "paused"
  <1>0. posts \in [RowIds -> Nat]
    BY DEF DeliveryTypes
  <1>1. CASE posts' = posts
    BY <1>0, <1>1
  <1>2. CASE \E t \in Ticks : Post(t)
    <2>1. PICK t \in Ticks : Post(t)
      BY <1>2
    <2>2. PICK i \in drain[t].cur : posts' = [posts EXCEPT ![i] = @ + 1]
      BY <2>1 DEF Post
    <2>3. drain[t].pc = "post" /\ crossed' = crossed
      BY <2>1 DEF Post
    <2>4. drain[t].cur = {i}
      BY DEF OneInHand
    <2>5. \A j \in RowIds : posts'[j] > posts[j] => j = i
      BY <1>0, <2>2
    <2> QED
      BY <2>3, <2>4, <2>5 DEF PostsInv, AloneWhilePosting
  <1> QED
    BY <1>1, <1>2
    DEF Beside, DrainStep, DrainCrash, ReadDue, PickDelivery, DrainDone, FailInactive,
        RecordOk, RecordRetry, RecordExhausted, PauseAfterExhausted

(* PostsAllAccounted: for any number of ticks, overlaps and crashes, a      *)
(* receiver sees a delivery no more often than attempts were recorded, plus *)
(* once per crash and once per overlap; and while ticks do not overlap, a   *)
(* subscription that has been switched off is sent nothing.                 *)
THEOREM PostsAllAccounted == DeliverySpec => PostsAccounted
  <1> DEFINE Inv == DeliveryTypes /\ OneInHand /\ RetryInv /\ PostsInv
  <1>1. DeliveryInit => Inv
    BY TypesDeliveryInit, RetryInit, PostsInit DEF DeliveryInit
  <1>2. Inv /\ [DeliveryNext]_deliveryVars =>
            \/ Beside /\ TablesTypeOK' /\ born' \in [RowIds -> Nat]
            \/ \E t \in Ticks : DrainStep(t) \/ DrainCrash(t)
    BY DeliveryBeside DEF DeliveryNext
  <1>3. Inv /\ [DeliveryNext]_deliveryVars => Inv'
    <2> SUFFICES ASSUME Inv, [DeliveryNext]_deliveryVars PROVE Inv'
      OBVIOUS
    <2>1. DeliveryTypes' /\ OneInHand' /\ RetryInv'
      BY TypesDeliveryNext, RetryNext
    <2>2. ReadsHaveRows
      BY DEF RetryInv
    <2>3. CASE Beside
      BY <2>1, <2>2, <2>3, PostsBeside
    <2>4. CASE \E t \in Ticks : DrainStep(t) \/ DrainCrash(t)
      BY <2>1, <2>2, <2>4, PostsDrainStep, AloneDrainStep DEF PostsInv
    <2> QED
      BY <1>2, <2>1, <2>3, <2>4
  <1>4. Inv /\ [DeliveryNext]_deliveryVars =>
            (crossed' = 0 => \A i \in RowIds : posts'[i] > posts[i] => subs[i.sub] # "paused")
    BY <1>2, PausedGetsNothing
  <1>5. Inv => PostsBound
    BY PostsBounded
  <1> QED
    BY <1>1, <1>3, <1>4, <1>5, PTL DEF DeliverySpec, PostsAccounted, PostsBound

-----------------------------------------------------------------------------
(* Fan-out: duplicates.                                                     *)

Fanning == {t \in Ticks : fan[t].pc # "idle"}

(* The checkpoint has not passed change c: a tick that begins now would     *)
(* serve it.                                                                *)
Open(c) == createdAt[c] = 0 \/ checkpoint < createdAt[c]

(* The ticks under way that began with c still ahead of them ...            *)
Serving(c) == {t \in Fanning : createdAt[c] = 0 \/ fan[t].since < createdAt[c]}

(* ... of which some have c in their batch and nothing more to do for s ... *)
DoneWith(s, c) == {t \in Fanning : /\ fan[t].pc = "insert"
                                   /\ c \in fan[t].batch
                                   /\ <<c, s>> \notin fan[t].todo}

(* ... and the others may yet insert a row.                                 *)
MayInsert(s, c) == Serving(c) \ DoneWith(s, c)

RowsCommitted == \A i \in DOMAIN rows : createdAt[i.change] # 0

BatchAhead ==
    \A t \in Ticks :
        /\ HasBatch(t) => \A c \in fan[t].batch : createdAt[c] > fan[t].since
        /\ fan[t].pc = "insert" => fan[t].todo \subseteq fan[t].batch \X Subs

(* Rows there are and rows there may yet be.  While c is open to ticks that *)
(* have not begun and no tick is serving it, the one row that needs no      *)
(* abort and no overlap is still to come.                                   *)
DuplicatesAt(s, c) ==
    Cardinality(RowsOf(s, c)) + Cardinality(MayInsert(s, c))
        <= aborts + overlaps + (IF Open(c) /\ Serving(c) = {} THEN 0 ELSE 1)

DuplicatesInv ==
    /\ IsFiniteSet(Fanning)
    /\ IsFiniteSet(DOMAIN rows)
    /\ RowsCommitted
    /\ BatchAhead
    /\ \A s \in Subs, c \in Changes : DuplicatesAt(s, c)

(* DuplicateSets: the rows and the ticks that are counted can be counted.   *)
LEMMA DuplicateSets ==
  ASSUME IsFiniteSet(Fanning), IsFiniteSet(DOMAIN rows), NEW s, NEW c
  PROVE  /\ IsFiniteSet(RowsOf(s, c)) /\ IsFiniteSet(MayInsert(s, c))
         /\ Cardinality(RowsOf(s, c)) \in Nat /\ Cardinality(MayInsert(s, c)) \in Nat
         /\ MayInsert(s, c) \subseteq Serving(c) /\ Serving(c) \subseteq Fanning
  <1>1. RowsOf(s, c) \subseteq DOMAIN rows
    BY DEF RowsOf
  <1>2. MayInsert(s, c) \subseteq Serving(c) /\ Serving(c) \subseteq Fanning
    BY DEF MayInsert, Serving
  <1>3. MayInsert(s, c) \subseteq Fanning
    BY <1>2
  <1>4. IsFiniteSet(RowsOf(s, c)) /\ IsFiniteSet(MayInsert(s, c))
    BY <1>1, <1>3, FS_Subset
  <1> QED
    BY <1>2, <1>4, FS_CardinalityType

(* DuplicatesKept: no new row, no new tick that may insert one, and no less *)
(* to account for them.                                                     *)
LEMMA DuplicatesKept ==
  ASSUME NEW s, NEW c,
         IsFiniteSet(RowsOf(s, c)), IsFiniteSet(MayInsert(s, c)),
         aborts \in Nat, overlaps \in Nat, aborts' \in Nat, overlaps' \in Nat,
         DuplicatesAt(s, c),
         RowsOf(s, c)' \subseteq RowsOf(s, c),
         MayInsert(s, c)' \subseteq MayInsert(s, c),
         \/ /\ aborts' + overlaps' >= aborts + overlaps
            /\ Open(c)' /\ Serving(c)' = {} => Open(c) /\ Serving(c) = {}
         \/ aborts' + overlaps' >= aborts + overlaps + 1
  PROVE  DuplicatesAt(s, c)'
  <1> DEFINE n == Cardinality(RowsOf(s, c))
             m == Cardinality(MayInsert(s, c))
             n1 == Cardinality(RowsOf(s, c))'
             m1 == Cardinality(MayInsert(s, c))'
             e == IF Open(c) /\ Serving(c) = {} THEN 0 ELSE 1
             e1 == IF Open(c)' /\ Serving(c)' = {} THEN 0 ELSE 1
             x == aborts + overlaps
             y == aborts' + overlaps'
  <1>1. n \in Nat /\ m \in Nat
    BY FS_CardinalityType
  <1>2. n1 \in Nat /\ n1 <= n
    <2>1. IsFiniteSet(RowsOf(s, c)') /\ Cardinality(RowsOf(s, c)') <= n
      BY FS_Subset
    <2> QED
      BY <2>1, FS_CardinalityType
  <1>3. m1 \in Nat /\ m1 <= m
    <2>1. IsFiniteSet(MayInsert(s, c)') /\ Cardinality(MayInsert(s, c)') <= m
      BY FS_Subset
    <2> QED
      BY <2>1, FS_CardinalityType
  <1>4. n + m <= x + e
    BY DEF DuplicatesAt
  <1>5. e \in Nat /\ e <= 1 /\ e1 \in Nat /\ e1 <= 1
    OBVIOUS
  <1>6. x \in Nat /\ y \in Nat
    BY NatSum
  <1>7. (Open(c)' /\ Serving(c)' = {} => Open(c) /\ Serving(c) = {}) => e1 >= e
    OBVIOUS
  <1>9. \/ y >= x /\ e1 >= e
        \/ y >= x + 1
    BY <1>7, Zenon
  <1> HIDE DEF n, m, n1, m1, e, e1, x, y
  <1>8. n1 + m1 <= y + e1
    BY <1>1, <1>2, <1>3, <1>4, <1>5, <1>6, <1>9
  <1> QED
    BY <1>8 DEF DuplicatesAt, n1, m1, e1, y

(* FanSets: a step of one tick leaves the other ticks' part alone.          *)
LEMMA FanSets ==
  ASSUME NEW t \in Ticks, \A u \in Ticks \ {t} : fan'[u] = fan[u], createdAt' = createdAt
  PROVE  /\ \A c : /\ Serving(c)' \ {t} = Serving(c) \ {t}
                   /\ (t \in Serving(c)' <=> t \in Serving(c)) => Serving(c)' = Serving(c)
                   /\ t \in Serving(c) <=>
                        /\ fan[t].pc # "idle"
                        /\ createdAt[c] = 0 \/ fan[t].since < createdAt[c]
                   /\ t \in Serving(c)' <=>
                        /\ fan'[t].pc # "idle"
                        /\ createdAt[c] = 0 \/ fan'[t].since < createdAt[c]
         /\ \A s, c : /\ MayInsert(s, c)' \ {t} = MayInsert(s, c) \ {t}
                      /\ (t \in MayInsert(s, c)' <=> t \in MayInsert(s, c))
                            => MayInsert(s, c)' = MayInsert(s, c)
                      /\ t \in MayInsert(s, c) <=>
                            /\ t \in Serving(c)
                            /\ ~ (/\ fan[t].pc = "insert" /\ c \in fan[t].batch
                                  /\ <<c, s>> \notin fan[t].todo)
                      /\ t \in MayInsert(s, c)' <=>
                            /\ t \in Serving(c)'
                            /\ ~ (/\ fan'[t].pc = "insert" /\ c \in fan'[t].batch
                                  /\ <<c, s>> \notin fan'[t].todo)
         /\ Fanning' \subseteq Fanning \cup {t}
  BY DEF Serving, MayInsert, DoneWith, Fanning

(* What a step makes of the tick's locals, for all the steps of a tick.     *)
LEMMA FanStepIs ==
  ASSUME FanoutTypeOK, NEW t \in Ticks, FanStep(t) \/ FanCrash(t)
  PROVE  /\ \A u \in Ticks \ {t} : fan'[u] = fan[u]
         /\ UNCHANGED <<createdAt, subs>>
         /\ fan[t].pc = "idle" => ReadCheckpoint(t)
         /\ ReadCheckpoint(t) => /\ fan[t].pc = "idle" /\ fan'[t].pc = "changes"
                                 /\ fan'[t].since = checkpoint
         /\ ReadChanges(t) => /\ fan[t].pc = "changes"
                              /\ \/ fan'[t].pc = "idle" /\ NewChanges(t) = {}
                                 \/ /\ fan'[t].pc = "subs"
                                    /\ fan'[t].since = fan[t].since
                                    /\ fan'[t].batch = NewChanges(t)
         /\ ReadSubs(t) => /\ fan[t].pc = "subs" /\ fan'[t].pc = "insert"
                           /\ fan'[t].since = fan[t].since
                           /\ fan'[t].batch = fan[t].batch
                           /\ fan'[t].todo \subseteq fan[t].batch \X Subs
         /\ InsertDelivery(t) => /\ fan[t].pc = "insert" /\ fan'[t].pc = "insert"
                                 /\ fan'[t].since = fan[t].since
                                 /\ fan'[t].batch = fan[t].batch
         /\ InsertRejected(t) \/ WriteCheckpoint(t) \/ FanCrash(t) => fan'[t].pc = "idle"
  <1>1. fan \in [Ticks -> FanLocals] /\ fan[t] \in FanLocals
    BY DEF FanoutTypeOK, FanTypeOK
  <1>2. CASE ReadCheckpoint(t)
    <2>1. fan' = [fan EXCEPT ![t] = [NoFan EXCEPT !.pc = "changes", !.now = clock,
                                                  !.since = checkpoint]]
      BY <1>2 DEF ReadCheckpoint
    <2>2. /\ fan[t].pc = "idle" /\ UNCHANGED <<createdAt, subs>>
          /\ ~ ReadChanges(t) /\ ~ ReadSubs(t) /\ ~ InsertDelivery(t)
          /\ ~ InsertRejected(t) /\ ~ WriteCheckpoint(t) /\ ~ FanCrash(t)
      BY <1>2 DEF ReadCheckpoint, tables, ReadChanges, ReadSubs, InsertDelivery,
                  InsertRejected, WriteCheckpoint, FanCrash
    <2> QED
      BY <1>1, <1>2, <2>1, <2>2 DEF NoFan
  <1>3. CASE ReadChanges(t)
    <2>1. /\ fan[t].pc = "changes" /\ UNCHANGED <<createdAt, subs>>
          /\ ~ ReadCheckpoint(t) /\ ~ ReadSubs(t) /\ ~ InsertDelivery(t)
          /\ ~ InsertRejected(t) /\ ~ WriteCheckpoint(t)
      BY <1>3 DEF ReadCheckpoint, tables, ReadChanges, ReadSubs, InsertDelivery,
                  InsertRejected, WriteCheckpoint
    <2>2. CASE NewChanges(t) = {}
      <3>1. fan' = [fan EXCEPT ![t] = NoFan]
        BY <1>3, <2>2 DEF ReadChanges
      <3> QED
        BY <1>1, <1>3, <2>1, <2>2, <3>1 DEF NoFan
    <2>3. CASE NewChanges(t) # {}
      <3> DEFINE next == [fan[t] EXCEPT !.pc = "subs", !.batch = NewChanges(t)]
      <3>1. fan' = [fan EXCEPT ![t] = next]
        BY <1>3, <2>3 DEF ReadChanges
      <3>2. next.pc = "subs" /\ next.since = fan[t].since /\ next.batch = NewChanges(t)
        BY <1>1 DEF FanLocals
      <3>3. ~ FanCrash(t)
        <4>1. fan'[t].pc = "subs"
          BY <1>1, <3>1, <3>2
        <4> QED
          BY <1>1, <4>1 DEF FanCrash, NoFan
      <3> HIDE DEF next
      <3> QED
        BY <1>1, <1>3, <2>1, <3>1, <3>2, <3>3
    <2> QED
      BY <2>2, <2>3
  <1>4. CASE ReadSubs(t)
    <2> DEFINE P == {p \in fan[t].batch \X ActiveSubs : p[1] \in Wants[p[2]]}
               next == [fan[t] EXCEPT !.pc = "insert", !.todo = P]
    <2>1. fan' = [fan EXCEPT ![t] = next]
      BY <1>4 DEF ReadSubs
    <2>2. P \subseteq fan[t].batch \X Subs
      BY DEF ActiveSubs
    <2> HIDE DEF P
    <2>3. /\ next.pc = "insert" /\ next.since = fan[t].since /\ next.batch = fan[t].batch
          /\ next.todo = P
      BY <1>1 DEF FanLocals
    <2> HIDE DEF next
    <2>4. fan'[t] = next /\ \A u \in Ticks \ {t} : fan'[u] = fan[u]
      BY <1>1, <2>1
    <2>5. /\ fan[t].pc = "subs" /\ UNCHANGED <<createdAt, subs>>
          /\ ~ ReadCheckpoint(t) /\ ~ ReadChanges(t) /\ ~ InsertDelivery(t)
          /\ ~ InsertRejected(t) /\ ~ WriteCheckpoint(t)
      BY <1>4 DEF ReadCheckpoint, tables, ReadChanges, ReadSubs, InsertDelivery,
                  InsertRejected, WriteCheckpoint
    <2>6. ~ FanCrash(t)
      BY <1>1, <2>3, <2>4 DEF FanCrash, NoFan
    <2> QED
      BY <1>4, <2>2, <2>3, <2>4, <2>5, <2>6
  <1>5. CASE InsertDelivery(t)
    <2>1. PICK p \in NextPairs(t) : fan' = [fan EXCEPT ![t].todo = @ \ {p}]
      BY <1>5 DEF InsertDelivery
    <2> DEFINE next == [fan[t] EXCEPT !.todo = @ \ {p}]
    <2>2. fan' = [fan EXCEPT ![t] = next]
      BY <2>1
    <2>3. next.pc = fan[t].pc /\ next.since = fan[t].since /\ next.batch = fan[t].batch
      BY <1>1 DEF FanLocals
    <2> HIDE DEF next
    <2>4. fan'[t] = next /\ \A u \in Ticks \ {t} : fan'[u] = fan[u]
      BY <1>1, <2>2
    <2>5. /\ fan[t].pc = "insert" /\ UNCHANGED <<createdAt, subs>>
          /\ ~ ReadCheckpoint(t) /\ ~ ReadChanges(t) /\ ~ ReadSubs(t)
      BY <1>5 DEF ReadCheckpoint, ReadChanges, ReadSubs, InsertDelivery
    <2>6. fan'[t].pc # "idle"
      BY <2>3, <2>4, <2>5
    <2>7. ~ InsertRejected(t) /\ ~ WriteCheckpoint(t) /\ ~ FanCrash(t)
      BY <1>1, <2>6 DEF InsertRejected, WriteCheckpoint, FanCrash, NoFan
    <2> QED
      BY <1>5, <2>3, <2>4, <2>5, <2>7
  <1>6. CASE InsertRejected(t) \/ WriteCheckpoint(t) \/ FanCrash(t)
    <2>1. fan' = [fan EXCEPT ![t] = NoFan]
      BY <1>6 DEF InsertRejected, WriteCheckpoint, FanCrash
    <2>2. fan'[t].pc = "idle" /\ \A u \in Ticks \ {t} : fan'[u] = fan[u]
      BY <1>1, <2>1 DEF NoFan
    <2>3. fan[t].pc # "idle" /\ UNCHANGED <<createdAt, subs>> /\ ~ ReadCheckpoint(t)
      BY <1>6 DEF InsertRejected, WriteCheckpoint, FanCrash, tables, ReadCheckpoint
    <2>4. CASE ~ ReadChanges(t) /\ ~ ReadSubs(t) /\ ~ InsertDelivery(t)
      BY <2>2, <2>3, <2>4
    <2> QED
      BY <1>3, <1>4, <1>5, <2>4
  <1> QED
    BY <1>2, <1>3, <1>4, <1>5, <1>6 DEF FanStep

(* DuplicatesCount: the account, from the numbers a step leaves behind.     *)
LEMMA DuplicatesCount ==
  ASSUME NEW s, NEW c, NEW n1 \in Nat, NEW m1 \in Nat, NEW x1 \in Nat,
         Cardinality(RowsOf(s, c))' = n1, Cardinality(MayInsert(s, c))' = m1,
         aborts' + overlaps' = x1,
         \/ n1 + m1 <= x1
         \/ n1 + m1 <= x1 + 1 /\ ~ (Open(c)' /\ Serving(c)' = {})
  PROVE  DuplicatesAt(s, c)'
  <1> DEFINE e1 == IF Open(c)' /\ Serving(c)' = {} THEN 0 ELSE 1
  <1>1. n1 + m1 <= x1 + e1
    OBVIOUS
  <1> HIDE DEF e1
  <1> QED
    BY <1>1 DEF DuplicatesAt, e1

(* DuplicatesBound: what is known of the account before a step.             *)
LEMMA DuplicatesBound ==
  ASSUME FanoutTypeOK, DuplicatesInv, NEW s \in Subs, NEW c \in Changes
  PROVE  /\ IsFiniteSet(RowsOf(s, c)) /\ IsFiniteSet(MayInsert(s, c))
         /\ aborts \in Nat /\ overlaps \in Nat /\ aborts + overlaps \in Nat
         /\ Cardinality(RowsOf(s, c)) \in Nat /\ Cardinality(MayInsert(s, c)) \in Nat
         /\ Cardinality(RowsOf(s, c)) + Cardinality(MayInsert(s, c)) <= aborts + overlaps + 1
         /\ Open(c) /\ Serving(c) = {} =>
                Cardinality(RowsOf(s, c)) + Cardinality(MayInsert(s, c)) <= aborts + overlaps
  <1> DEFINE n == Cardinality(RowsOf(s, c))
             m == Cardinality(MayInsert(s, c))
             x == aborts + overlaps
             e == IF Open(c) /\ Serving(c) = {} THEN 0 ELSE 1
  <1>1. /\ IsFiniteSet(RowsOf(s, c)) /\ IsFiniteSet(MayInsert(s, c))
        /\ n \in Nat /\ m \in Nat
    BY DuplicateSets DEF DuplicatesInv
  <1>2. aborts \in Nat /\ overlaps \in Nat /\ x \in Nat
    BY DEF FanoutTypeOK, FanTypeOK
  <1>3. n + m <= x + e
    BY DEF DuplicatesInv, DuplicatesAt
  <1>4. e \in Nat /\ e <= 1 /\ (Open(c) /\ Serving(c) = {} => e = 0)
    OBVIOUS
  <1> HIDE DEF n, m, x, e
  <1>5. n + m <= x + 1 /\ (Open(c) /\ Serving(c) = {} => n + m <= x)
    BY <1>1, <1>2, <1>3, <1>4
  <1> QED
    BY <1>1, <1>2, <1>5 DEF n, m, x

(* DuplicatesBeside: steps that touch neither the fan-out nor its changes.  *)
LEMMA DuplicatesBeside ==
  ASSUME FanoutTypeOK, DuplicatesInv,
         UNCHANGED <<fan, createdAt, checkpoint, aborts, overlaps>>,
         DOMAIN rows' \subseteq DOMAIN rows
  PROVE  DuplicatesInv'
  <1>1. IsFiniteSet(Fanning)' /\ IsFiniteSet(DOMAIN rows)'
    BY FS_Subset DEF DuplicatesInv, Fanning
  <1>2. RowsCommitted' /\ BatchAhead'
    BY DEF DuplicatesInv, RowsCommitted, BatchAhead, HasBatch
  <1>3. ASSUME NEW s \in Subs, NEW c \in Changes PROVE DuplicatesAt(s, c)'
    <2>1. /\ RowsOf(s, c)' \subseteq RowsOf(s, c)
          /\ MayInsert(s, c)' = MayInsert(s, c)
          /\ Serving(c)' = Serving(c) /\ (Open(c)' <=> Open(c))
      BY DEF RowsOf, MayInsert, Serving, DoneWith, Fanning, Open
    <2>2. /\ IsFiniteSet(RowsOf(s, c)) /\ IsFiniteSet(MayInsert(s, c))
          /\ aborts \in Nat /\ overlaps \in Nat /\ aborts + overlaps \in Nat
      BY DuplicatesBound
    <2>3. aborts' \in Nat /\ overlaps' \in Nat
      BY <2>2
    <2>4. aborts' + overlaps' = aborts + overlaps
      OBVIOUS
    <2>5. aborts' + overlaps' >= aborts + overlaps
      BY <2>2, <2>4
    <2>6. DuplicatesAt(s, c)
      BY DEF DuplicatesInv
    <2> QED
      BY <2>1, <2>2, <2>3, <2>5, <2>6, DuplicatesKept
  <1> QED
    BY <1>1, <1>2, <1>3 DEF DuplicatesInv

(* A tick that begins may insert a row for every change still open to it:   *)
(* it is the one tick entitled to, or it overlaps another.                  *)
LEMMA DuplicatesRead ==
  ASSUME FanoutTypeOK, DuplicatesInv, NEW t \in Ticks, ReadCheckpoint(t),
         NEW s \in Subs, NEW c \in Changes
  PROVE  DuplicatesAt(s, c)'
  <1> DEFINE n == Cardinality(RowsOf(s, c))
             m == Cardinality(MayInsert(s, c))
             x == aborts + overlaps
  <1>1. /\ fan[t].pc = "idle" /\ fan'[t].pc = "changes" /\ fan'[t].since = checkpoint
        /\ \A u \in Ticks \ {t} : fan'[u] = fan[u]
    BY FanStepIs DEF FanStep
  <1>2. /\ rows' = rows /\ createdAt' = createdAt /\ checkpoint' = checkpoint
        /\ aborts' = aborts
        /\ overlaps' = IF \E u \in Ticks : fan[u].pc # "idle" THEN overlaps + 1 ELSE overlaps
    BY DEF ReadCheckpoint, tables
  <1>3. /\ IsFiniteSet(RowsOf(s, c)) /\ IsFiniteSet(MayInsert(s, c))
        /\ aborts \in Nat /\ overlaps \in Nat /\ x \in Nat /\ n \in Nat /\ m \in Nat
        /\ n + m <= x + 1
        /\ Open(c) /\ Serving(c) = {} => n + m <= x
    BY DuplicatesBound
  <1>4. RowsOf(s, c)' = RowsOf(s, c) /\ (Open(c)' <=> Open(c))
    BY <1>2 DEF RowsOf, Open
  <1>5. /\ Serving(c)' \ {t} = Serving(c) \ {t}
        /\ (t \in Serving(c)' <=> t \in Serving(c)) => Serving(c)' = Serving(c)
        /\ t \in Serving(c) <=>
             fan[t].pc # "idle" /\ (createdAt[c] = 0 \/ fan[t].since < createdAt[c])
        /\ t \in Serving(c)' <=>
             fan'[t].pc # "idle" /\ (createdAt[c] = 0 \/ fan'[t].since < createdAt[c])
        /\ MayInsert(s, c)' \ {t} = MayInsert(s, c) \ {t}
        /\ (t \in MayInsert(s, c)' <=> t \in MayInsert(s, c))
                => MayInsert(s, c)' = MayInsert(s, c)
        /\ t \in MayInsert(s, c) <=>
             /\ t \in Serving(c)
             /\ ~ (fan[t].pc = "insert" /\ c \in fan[t].batch /\ <<c, s>> \notin fan[t].todo)
        /\ t \in MayInsert(s, c)' <=>
             /\ t \in Serving(c)'
             /\ ~ (fan'[t].pc = "insert" /\ c \in fan'[t].batch /\ <<c, s>> \notin fan'[t].todo)
    BY <1>1, <1>2, FanSets
  <1>6. t \notin Serving(c) /\ t \notin MayInsert(s, c)
    BY <1>1, <1>5
  <1>7. t \in Serving(c)' <=> Open(c)
    BY <1>1, <1>5 DEF Open
  <1>8. t \in MayInsert(s, c)' <=> Open(c)
    BY <1>1, <1>5, <1>7
  <1>9. DuplicatesAt(s, c)
    BY DEF DuplicatesInv
  <1>10. /\ overlaps' = overlaps \/ overlaps' = overlaps + 1
         /\ (\E u \in Ticks : fan[u].pc # "idle") => overlaps' = overlaps + 1
    BY <1>2
  <1>11. CASE ~ Open(c)
    <2>1. MayInsert(s, c)' \subseteq MayInsert(s, c) /\ ~ Open(c)'
      BY <1>4, <1>5, <1>6, <1>8, <1>11
    <2>2. aborts' + overlaps' = x \/ aborts' + overlaps' = aborts + (overlaps + 1)
      BY <1>2, <1>10
    <2>3. aborts + (overlaps + 1) >= x /\ x >= x
      BY <1>3
    <2>4. aborts' + overlaps' >= x
      BY <2>2, <2>3
    <2>5. aborts' \in Nat /\ overlaps' \in Nat
      BY <1>2, <1>3, <1>10
    <2> QED
      BY <1>3, <1>4, <1>9, <2>1, <2>4, <2>5, DuplicatesKept
  <1>12. CASE Open(c)
    <2>1. MayInsert(s, c)' = MayInsert(s, c) \cup {t} /\ Serving(c)' # {}
      BY <1>5, <1>6, <1>7, <1>8, <1>12
    <2>2. Cardinality(MayInsert(s, c))' = m + 1
      <3>1. Cardinality(MayInsert(s, c) \cup {t}) = m + 1
        BY <1>3, <1>6, FS_AddElement
      <3> QED
        BY <2>1, <3>1
    <2>3. Cardinality(RowsOf(s, c))' = n
      BY <1>4
    <2>4. CASE Serving(c) = {} /\ overlaps' = overlaps
      <3>1. aborts' + overlaps' = x
        BY <1>2, <2>4
      <3>2. n + (m + 1) <= x + 1 /\ m + 1 \in Nat
        <4>1. n + m <= x
          BY <1>3, <1>12, <2>4
        <4> HIDE DEF n, m, x
        <4> QED
          BY <1>3, <4>1
      <3> HIDE DEF n, m, x
      <3> QED
        BY <1>3, <2>1, <2>2, <2>3, <3>1, <3>2, DuplicatesCount
    <2>5. CASE overlaps' = overlaps + 1
      <3>1. aborts' + overlaps' = aborts + (overlaps + 1)
        BY <1>2, <2>5
      <3>2. aborts + (overlaps + 1) = x + 1
        BY <1>3
      <3>3. n + (m + 1) <= (x + 1) + 1 /\ m + 1 \in Nat /\ x + 1 \in Nat
        <4> HIDE DEF n, m, x
        <4> QED
          BY <1>3
      <3> HIDE DEF n, m, x
      <3> QED
        BY <1>3, <2>1, <2>2, <2>3, <3>1, <3>2, <3>3, DuplicatesCount
    <2>6. Serving(c) # {} => \E u \in Ticks : fan[u].pc # "idle"
      BY DEF Serving, Fanning
    <2> QED
      BY <1>10, <2>4, <2>5, <2>6
  <1> QED
    BY <1>11, <1>12

(* A row that goes in takes the place of the tick that may insert it.       *)
LEMMA DuplicatesInsert ==
  ASSUME FanoutTypeOK, BatchCommitted, DuplicatesInv, NEW t \in Ticks, InsertDelivery(t)
  PROVE  /\ IsFiniteSet(DOMAIN rows') /\ RowsCommitted' /\ BatchAhead'
         /\ \A s \in Subs, c \in Changes : DuplicatesAt(s, c)'
  <1>1. /\ fan[t].pc = "insert" /\ fan'[t].pc = "insert"
        /\ fan'[t].since = fan[t].since /\ fan'[t].batch = fan[t].batch
        /\ \A u \in Ticks \ {t} : fan'[u] = fan[u]
    BY FanStepIs DEF FanStep
  <1>2. PICK p \in NextPairs(t) : /\ InsertRow(p[2], p[1], fan[t].now)
                                  /\ fan' = [fan EXCEPT ![t].todo = @ \ {p}]
    BY DEF InsertDelivery
  <1>3. /\ createdAt' = createdAt /\ checkpoint' = checkpoint
        /\ aborts' = aborts /\ overlaps' = overlaps
    BY DEF InsertDelivery
  <1>4. /\ fan'[t].todo = fan[t].todo \ {p}
        /\ p \in fan[t].todo
        /\ p \in fan[t].batch \X Subs /\ fan[t].batch \subseteq Changes
    <2>1. fan \in [Ticks -> FanLocals] /\ fan[t] \in FanLocals
      BY DEF FanoutTypeOK, FanTypeOK
    <2>2. p \in fan[t].todo
      BY DEF NextPairs
    <2>3. fan[t].batch \subseteq Changes
      BY <2>1 DEF FanLocals
    <2>4. fan'[t].todo = fan[t].todo \ {p}
      BY <1>2, <2>1 DEF FanLocals
    <2> QED
      BY <1>1, <2>2, <2>3, <2>4 DEF DuplicatesInv, BatchAhead
  <1> DEFINE x == p[1]
             d == p[2]
  <1>5. /\ x \in Changes /\ x \in fan[t].batch /\ d \in Subs /\ p = <<x, d>>
        /\ createdAt[x] # 0 /\ fan[t].since < createdAt[x]
    <2>1. x \in Changes /\ x \in fan[t].batch /\ d \in Subs /\ p = <<x, d>>
      BY <1>4
    <2>2. fan[t].since < createdAt[x]
      <3>1. createdAt[x] > fan[t].since
        BY <1>1, <2>1 DEF DuplicatesInv, BatchAhead, HasBatch
      <3>2. createdAt[x] \in Nat /\ fan[t].since \in Nat
        BY <2>1, TablesAssumption DEF FanoutTypeOK, TablesTypeOK, FanTypeOK, FanLocals
      <3> QED
        BY <3>1, <3>2
    <2>3. createdAt[x] # 0
      BY <1>1, <2>1 DEF BatchCommitted, HasBatch, Committed
    <2> QED
      BY <2>1, <2>2, <2>3
  <1>6. PICK k \in Copies :
            LET id == [sub |-> d, change |-> x, copy |-> k]
            IN  /\ id \notin DOMAIN rows
                /\ rows' = [i \in DOMAIN rows \cup {id} |->
                                IF i = id THEN NewRow(fan[t].now) ELSE rows[i]]
    BY <1>2 DEF InsertRow
  <1> DEFINE id == [sub |-> d, change |-> x, copy |-> k]
  <1>7. /\ id \notin DOMAIN rows /\ DOMAIN rows' = DOMAIN rows \cup {id}
        /\ id.sub = d /\ id.change = x
    BY <1>6
  <1> HIDE DEF x, d, id
  <1>8. IsFiniteSet(DOMAIN rows')
    BY <1>7, FS_AddElement DEF DuplicatesInv
  <1>9. RowsCommitted'
    BY <1>3, <1>5, <1>7 DEF DuplicatesInv, RowsCommitted
  <1>10. BatchAhead'
    <2>1. ASSUME NEW u \in Ticks
          PROVE  /\ HasBatch(u)' => \A c \in fan'[u].batch : createdAt'[c] > fan'[u].since
                 /\ fan'[u].pc = "insert" => fan'[u].todo \subseteq fan'[u].batch \X Subs
      <3>1. fan'[u].pc = fan[u].pc /\ fan'[u].batch = fan[u].batch
            /\ fan'[u].since = fan[u].since /\ fan'[u].todo \subseteq fan[u].todo
        BY <1>1, <1>4
      <3> QED
        BY <1>3, <3>1 DEF DuplicatesInv, BatchAhead, HasBatch
    <2> QED
      BY <2>1 DEF BatchAhead
  <1>11. ASSUME NEW s \in Subs, NEW c \in Changes PROVE DuplicatesAt(s, c)'
    <2> DEFINE n == Cardinality(RowsOf(s, c))
               m == Cardinality(MayInsert(s, c))
               a == aborts + overlaps
    <2>1. /\ IsFiniteSet(RowsOf(s, c)) /\ IsFiniteSet(MayInsert(s, c))
          /\ aborts \in Nat /\ overlaps \in Nat /\ a \in Nat /\ n \in Nat /\ m \in Nat
          /\ n + m <= a + 1
      BY DuplicatesBound
    <2>2. /\ (t \in Serving(c)' <=> t \in Serving(c)) => Serving(c)' = Serving(c)
          /\ t \in Serving(c) <=>
               fan[t].pc # "idle" /\ (createdAt[c] = 0 \/ fan[t].since < createdAt[c])
          /\ t \in Serving(c)' <=>
               fan'[t].pc # "idle" /\ (createdAt[c] = 0 \/ fan'[t].since < createdAt[c])
          /\ MayInsert(s, c)' \ {t} = MayInsert(s, c) \ {t}
          /\ (t \in MayInsert(s, c)' <=> t \in MayInsert(s, c))
                  => MayInsert(s, c)' = MayInsert(s, c)
          /\ t \in MayInsert(s, c) <=>
               /\ t \in Serving(c)
               /\ ~ (fan[t].pc = "insert" /\ c \in fan[t].batch /\ <<c, s>> \notin fan[t].todo)
          /\ t \in MayInsert(s, c)' <=>
               /\ t \in Serving(c)'
               /\ ~ (fan'[t].pc = "insert" /\ c \in fan'[t].batch /\ <<c, s>> \notin fan'[t].todo)
      BY <1>1, <1>3, FanSets
    <2>3. Serving(c)' = Serving(c) /\ (Open(c)' <=> Open(c))
      BY <1>1, <1>3, <2>2 DEF Open
    <2>4. aborts' + overlaps' = a
      BY <1>3
    <2>5. CASE c = x /\ s = d
      <3>1. t \in Serving(c) /\ t \in MayInsert(s, c) /\ t \notin MayInsert(s, c)'
        BY <1>1, <1>4, <1>5, <2>2, <2>5
      <3>2. MayInsert(s, c)' = MayInsert(s, c) \ {t}
        BY <2>2, <3>1
      <3>3. Cardinality(MayInsert(s, c))' = m - 1 /\ m >= 1
        <4>1. Cardinality(MayInsert(s, c) \ {t}) = m - 1
          BY <2>1, <3>1, FS_RemoveElement
        <4>2. m # 0
          BY <2>1, <3>1, FS_EmptySet
        <4> HIDE DEF m
        <4> QED
          BY <2>1, <3>2, <4>1, <4>2 DEF m
      <3>4. RowsOf(s, c)' = RowsOf(s, c) \cup {id} /\ id \notin RowsOf(s, c)
        BY <1>7, <2>5 DEF RowsOf
      <3>5. Cardinality(RowsOf(s, c))' = n + 1
        <4>1. Cardinality(RowsOf(s, c) \cup {id}) = n + 1
          BY <2>1, <3>4, FS_AddElement
        <4> QED
          BY <3>4, <4>1
      <3>6. Serving(c)' # {}
        BY <2>3, <3>1
      <3> HIDE DEF n, m, a
      <3>7. (n + 1) + (m - 1) <= a + 1 /\ n + 1 \in Nat /\ m - 1 \in Nat
        BY <2>1, <3>3
      <3> QED
        BY <2>1, <2>4, <3>3, <3>5, <3>6, <3>7, DuplicatesCount
    <2>6. CASE ~ (c = x /\ s = d)
      <3>1. RowsOf(s, c)' = RowsOf(s, c)
        BY <1>7, <2>6 DEF RowsOf
      <3>2. <<c, s>> # p
        BY <1>5, <2>6
      <3>3. MayInsert(s, c)' = MayInsert(s, c)
        BY <1>1, <1>4, <2>2, <2>3, <3>2
      <3>4. aborts' \in Nat /\ overlaps' \in Nat
        BY <1>3, <2>1
      <3>5. aborts' + overlaps' >= a
        BY <2>1, <2>4
      <3>6. DuplicatesAt(s, c)
        BY DEF DuplicatesInv
      <3> QED
        BY <2>1, <2>3, <3>1, <3>3, <3>4, <3>5, <3>6, DuplicatesKept
    <2> QED
      BY <2>5, <2>6
  <1> QED
    BY <1>8, <1>9, <1>10, <1>11

(* The steps of a tick that insert no row and open no change to it.         *)
LEMMA DuplicatesStep ==
  ASSUME FanoutTypeOK, BatchCommitted, DuplicatesInv, NEW t \in Ticks,
         \/ ReadChanges(t) \/ ReadSubs(t) \/ InsertRejected(t)
         \/ WriteCheckpoint(t) \/ FanCrash(t),
         NEW s \in Subs, NEW c \in Changes
  PROVE  DuplicatesAt(s, c)'
  <1> DEFINE n == Cardinality(RowsOf(s, c))
             m == Cardinality(MayInsert(s, c))
             x == aborts + overlaps
  <1>1. /\ \A u \in Ticks \ {t} : fan'[u] = fan[u]
        /\ createdAt' = createdAt
    BY FanStepIs DEF FanStep
  <1>2. rows' = rows /\ overlaps' = overlaps
    BY DEF ReadChanges, ReadSubs, InsertRejected, WriteCheckpoint, FanCrash, tables
  <1>3. /\ IsFiniteSet(RowsOf(s, c)) /\ IsFiniteSet(MayInsert(s, c))
        /\ aborts \in Nat /\ overlaps \in Nat /\ x \in Nat /\ n \in Nat /\ m \in Nat
        /\ n + m <= x + 1
    BY DuplicatesBound
  <1>4. RowsOf(s, c)' = RowsOf(s, c) /\ DuplicatesAt(s, c)
    BY <1>2 DEF RowsOf, DuplicatesInv
  <1>5. /\ Serving(c)' \ {t} = Serving(c) \ {t}
        /\ (t \in Serving(c)' <=> t \in Serving(c)) => Serving(c)' = Serving(c)
        /\ t \in Serving(c) <=>
             fan[t].pc # "idle" /\ (createdAt[c] = 0 \/ fan[t].since < createdAt[c])
        /\ t \in Serving(c)' <=>
             fan'[t].pc # "idle" /\ (createdAt[c] = 0 \/ fan'[t].since < createdAt[c])
        /\ MayInsert(s, c)' \ {t} = MayInsert(s, c) \ {t}
        /\ (t \in MayInsert(s, c)' <=> t \in MayInsert(s, c))
                => MayInsert(s, c)' = MayInsert(s, c)
        /\ t \in MayInsert(s, c) <=>
             /\ t \in Serving(c)
             /\ ~ (fan[t].pc = "insert" /\ c \in fan[t].batch /\ <<c, s>> \notin fan[t].todo)
        /\ t \in MayInsert(s, c)' <=>
             /\ t \in Serving(c)'
             /\ ~ (fan'[t].pc = "insert" /\ c \in fan'[t].batch /\ <<c, s>> \notin fan'[t].todo)
    BY <1>1, FanSets
  <1>a. ASSUME aborts' = aborts, MayInsert(s, c)' \subseteq MayInsert(s, c),
               Open(c)' /\ Serving(c)' = {} => Open(c) /\ Serving(c) = {}
        PROVE  DuplicatesAt(s, c)'
    <2>1. aborts' \in Nat /\ overlaps' \in Nat
      BY <1>2, <1>3, <1>a
    <2>2. aborts' + overlaps' = x
      BY <1>2, <1>a
    <2>3. aborts' + overlaps' >= x
      BY <1>3, <2>2
    <2> QED
      BY <1>3, <1>4, <1>a, <2>1, <2>3, DuplicatesKept
  <1>6. CASE InsertRejected(t) \/ FanCrash(t)
    <2>1. fan'[t].pc = "idle"
      BY <1>6, FanStepIs DEF FanStep
    <2>2. MayInsert(s, c)' \subseteq MayInsert(s, c)
      BY <1>5, <2>1
    <2>3. aborts' = aborts + 1
      BY <1>6 DEF InsertRejected, FanCrash
    <2>4. aborts' \in Nat /\ overlaps' \in Nat
      BY <1>2, <1>3, <2>3
    <2>5. (aborts + 1) + overlaps >= x + 1
      BY <1>3
    <2>6. aborts' + overlaps' = (aborts + 1) + overlaps
      BY <1>2, <2>3
    <2>7. aborts' + overlaps' >= x + 1
      BY <2>5, <2>6
    <2> QED
      BY <1>3, <1>4, <2>2, <2>4, <2>7, DuplicatesKept
  <1>7. CASE ReadSubs(t)
    <2>1. /\ fan[t].pc = "subs" /\ fan'[t].pc = "insert" /\ fan'[t].since = fan[t].since
      BY <1>7, FanStepIs DEF FanStep
    <2>2. aborts' = aborts /\ checkpoint' = checkpoint
      BY <1>7 DEF ReadSubs
    <2>3. Serving(c)' = Serving(c) /\ (Open(c)' <=> Open(c))
      BY <1>1, <1>5, <2>1, <2>2 DEF Open
    <2>4. MayInsert(s, c)' \subseteq MayInsert(s, c)
      BY <1>5, <2>1, <2>3
    <2> QED
      BY <1>a, <2>2, <2>3, <2>4
  <1>8. CASE ReadChanges(t)
    <2>1. /\ fan[t].pc = "changes"
          /\ \/ fan'[t].pc = "idle" /\ NewChanges(t) = {}
             \/ fan'[t].pc = "subs" /\ fan'[t].since = fan[t].since
      BY <1>8, FanStepIs DEF FanStep
    <2>2. aborts' = aborts /\ checkpoint' = checkpoint
      BY <1>8 DEF ReadChanges
    <2>3. Open(c)' <=> Open(c)
      BY <1>1, <2>2 DEF Open
    <2>4. CASE fan'[t].pc = "subs" /\ fan'[t].since = fan[t].since
      <3>1. Serving(c)' = Serving(c)
        BY <1>5, <2>1, <2>4
      <3>2. MayInsert(s, c)' = MayInsert(s, c)
        BY <1>5, <2>1, <2>4, <3>1
      <3> QED
        BY <1>a, <2>2, <2>3, <3>1, <3>2
    <2>5. CASE fan'[t].pc = "idle" /\ NewChanges(t) = {}
      <3>1. MayInsert(s, c)' \subseteq MayInsert(s, c) /\ t \notin Serving(c)'
        BY <1>5, <2>5
      <3>2. CASE t \notin Serving(c) \/ Serving(c)' # {}
        <4>1. Open(c)' /\ Serving(c)' = {} => Open(c) /\ Serving(c) = {}
          BY <1>5, <2>3, <3>1, <3>2
        <4> QED
          BY <1>a, <2>2, <3>1, <4>1
      <3>3. CASE t \in Serving(c) /\ Serving(c)' = {}
        <4>1. createdAt[c] = 0
          <5>1. createdAt[c] \in Nat /\ fan[t].since \in Nat
            BY TablesAssumption DEF FanoutTypeOK, TablesTypeOK, FanTypeOK, FanLocals
          <5>2. SUFFICES ASSUME createdAt[c] # 0 PROVE FALSE
            OBVIOUS
          <5>3. fan[t].since < createdAt[c]
            BY <1>5, <3>3, <5>2
          <5>4. createdAt[c] > fan[t].since
            BY <5>1, <5>3
          <5>5. c \in NewChanges(t)
            BY <5>2, <5>4 DEF NewChanges, Committed
          <5> QED
            BY <2>5, <5>5
        <4>2. RowsOf(s, c)' = {}
          BY <1>4, <4>1 DEF DuplicatesInv, RowsCommitted, RowsOf
        <4>3. MayInsert(s, c)' = {}
          BY <3>3 DEF MayInsert
        <4>4. Cardinality(RowsOf(s, c))' = 0 /\ Cardinality(MayInsert(s, c))' = 0
          BY <4>2, <4>3, FS_EmptySet
        <4>5. aborts' + overlaps' = x
          BY <1>2, <2>2
        <4>6. 0 + 0 <= x
          BY <1>3
        <4> HIDE DEF x
        <4> QED
          BY <1>3, <4>4, <4>5, <4>6, DuplicatesCount
      <3> QED
        BY <3>2, <3>3
    <2> QED
      BY <2>1, <2>4, <2>5
  <1>9. CASE WriteCheckpoint(t)
    <2>1. fan'[t].pc = "idle" /\ aborts' = aborts
      BY <1>9, FanStepIs DEF FanStep, WriteCheckpoint
    <2>2. MayInsert(s, c)' = MayInsert(s, c) \ {t} /\ t \notin Serving(c)'
      BY <1>5, <2>1
    <2>3. CASE ~ Open(c)'
      BY <1>a, <2>1, <2>2, <2>3
    <2>4. CASE Open(c)'
      <3>1. PICK last \in fan[t].batch : /\ \A b \in fan[t].batch : createdAt[b] <= createdAt[last]
                                         /\ checkpoint' = createdAt[last]
        BY <1>9 DEF WriteCheckpoint
      <3>2. fan[t].pc = "insert" /\ HasBatch(t) /\ fan[t].batch \subseteq Changes
        <4>1. fan[t] \in FanLocals
          BY DEF FanoutTypeOK, FanTypeOK
        <4> QED
          BY <1>9, <4>1 DEF WriteCheckpoint, HasBatch, FanLocals
      <3>3. createdAt[last] > fan[t].since
        BY <3>1, <3>2 DEF DuplicatesInv, BatchAhead
      <3>4. createdAt[c] = 0 \/ createdAt[last] < createdAt[c]
        BY <1>1, <2>4, <3>1 DEF Open
      <3>5. createdAt[c] \in Nat /\ createdAt[last] \in Nat /\ fan[t].since \in Nat
        BY <3>1, <3>2, TablesAssumption DEF FanoutTypeOK, TablesTypeOK, FanTypeOK, FanLocals
      <3>6. t \in Serving(c)
        BY <1>5, <3>2, <3>3, <3>4, <3>5
      <3>7. c \notin fan[t].batch
        <4>1. c \in fan[t].batch => createdAt[c] # 0
          BY <3>2 DEF BatchCommitted, Committed
        <4> QED
          BY <3>1, <3>4, <3>5, <4>1
      <3>8. t \in MayInsert(s, c)
        BY <1>5, <3>6, <3>7
      <3>9. Cardinality(MayInsert(s, c))' = m - 1 /\ m >= 1
        <4>1. Cardinality(MayInsert(s, c) \ {t}) = m - 1
          BY <1>3, <3>8, FS_RemoveElement
        <4>2. m # 0
          BY <1>3, <3>8, FS_EmptySet
        <4> HIDE DEF m
        <4> QED
          BY <1>3, <2>2, <4>1, <4>2 DEF m
      <3>10. Cardinality(RowsOf(s, c))' = n /\ aborts' + overlaps' = x
        BY <1>2, <1>4, <2>1
      <3> HIDE DEF n, m, x
      <3>11. n + (m - 1) <= x /\ m - 1 \in Nat
        BY <1>3, <3>9
      <3> QED
        BY <1>3, <3>9, <3>10, <3>11, DuplicatesCount
    <2> QED
      BY <2>3, <2>4
  <1> QED
    BY <1>6, <1>7, <1>8, <1>9

LEMMA DuplicatesFanStep ==
  ASSUME FanoutTypeOK, BatchCommitted, DuplicatesInv, NEW t \in Ticks,
         FanStep(t) \/ FanCrash(t)
  PROVE  DuplicatesInv'
  <1>1. IsFiniteSet(Fanning')
    <2>1. Fanning' \subseteq Fanning \cup {t}
      BY FanStepIs, FanSets
    <2>2. IsFiniteSet(Fanning \cup {t})
      BY FS_AddElement DEF DuplicatesInv
    <2> QED
      BY <2>1, <2>2, FS_Subset
  <1>2. CASE InsertDelivery(t)
    BY <1>1, <1>2, DuplicatesInsert DEF DuplicatesInv
  <1>3. CASE ~ InsertDelivery(t)
    <2>1. rows' = rows /\ createdAt' = createdAt
      BY <1>3 DEF FanStep, ReadCheckpoint, ReadChanges, ReadSubs, InsertRejected,
                  WriteCheckpoint, FanCrash, tables
    <2>2. IsFiniteSet(DOMAIN rows') /\ RowsCommitted'
      BY <2>1 DEF DuplicatesInv, RowsCommitted
    <2>3. BatchAhead'
      <3>1. /\ \A u \in Ticks \ {t} : fan'[u] = fan[u]
            /\ \/ fan'[t].pc \in {"idle", "changes"}
               \/ fan'[t].pc = "subs" /\ fan'[t].since = fan[t].since
                    /\ fan'[t].batch = NewChanges(t)
               \/ /\ fan[t].pc = "subs" /\ fan'[t].pc = "insert"
                  /\ fan'[t].since = fan[t].since /\ fan'[t].batch = fan[t].batch
                  /\ fan'[t].todo \subseteq fan[t].batch \X Subs
        <4>1. /\ \A u \in Ticks \ {t} : fan'[u] = fan[u]
              /\ ReadCheckpoint(t) => fan'[t].pc = "changes"
              /\ ReadChanges(t) =>
                    \/ fan'[t].pc = "idle"
                    \/ /\ fan'[t].pc = "subs" /\ fan'[t].since = fan[t].since
                       /\ fan'[t].batch = NewChanges(t)
              /\ ReadSubs(t) =>
                    /\ fan[t].pc = "subs" /\ fan'[t].pc = "insert"
                    /\ fan'[t].since = fan[t].since /\ fan'[t].batch = fan[t].batch
                    /\ fan'[t].todo \subseteq fan[t].batch \X Subs
              /\ InsertRejected(t) \/ WriteCheckpoint(t) \/ FanCrash(t) => fan'[t].pc = "idle"
          BY FanStepIs
        <4> QED
          BY <1>3, <4>1 DEF FanStep
      <3>2. ASSUME NEW u \in Ticks \ {t}
            PROVE  /\ HasBatch(u)' => \A c \in fan'[u].batch : createdAt'[c] > fan'[u].since
                   /\ fan'[u].pc = "insert" => fan'[u].todo \subseteq fan'[u].batch \X Subs
        BY <2>1, <3>1 DEF DuplicatesInv, BatchAhead, HasBatch
      <3>3. /\ HasBatch(t)' => \A c \in fan'[t].batch : createdAt'[c] > fan'[t].since
            /\ fan'[t].pc = "insert" => fan'[t].todo \subseteq fan'[t].batch \X Subs
        <4>1. CASE fan'[t].pc \in {"idle", "changes"}
          BY <4>1 DEF HasBatch
        <4>2. CASE fan'[t].pc = "subs" /\ fan'[t].since = fan[t].since
                    /\ fan'[t].batch = NewChanges(t)
          BY <2>1, <4>2 DEF NewChanges
        <4>3. CASE /\ fan[t].pc = "subs" /\ fan'[t].pc = "insert"
                   /\ fan'[t].since = fan[t].since /\ fan'[t].batch = fan[t].batch
                   /\ fan'[t].todo \subseteq fan[t].batch \X Subs
          BY <2>1, <4>3 DEF DuplicatesInv, BatchAhead, HasBatch
        <4> QED
          BY <3>1, <4>1, <4>2, <4>3
      <3> QED
        BY <3>2, <3>3 DEF BatchAhead
    <2>4. ASSUME NEW s \in Subs, NEW c \in Changes PROVE DuplicatesAt(s, c)'
      BY <1>3, DuplicatesRead, DuplicatesStep DEF FanStep
    <2> QED
      BY <1>1, <2>2, <2>3, <2>4 DEF DuplicatesInv
  <1> QED
    BY <1>2, <1>3

(* A change that is committed has no row yet, and every tick under way may  *)
(* serve it or has read past it.                                            *)
LEMMA DuplicatesIngest ==
  ASSUME FanoutTypeOK, BatchCommitted, DuplicatesInv,
         NEW r \in Runs, NEW d \in Changes, IngestCommit(r, d)
  PROVE  DuplicatesInv'
  <1>1. /\ createdAt[d] = 0 /\ runNow[r] # 0
        /\ createdAt' = [createdAt EXCEPT ![d] = runNow[r]]
        /\ rows' = rows /\ fan' = fan /\ checkpoint' = checkpoint
        /\ aborts' = aborts /\ overlaps' = overlaps
    BY DEF IngestCommit, CommitChange
  <1>2. createdAt'[d] # 0 /\ \A c \in Changes \ {d} : createdAt'[c] = createdAt[c]
    BY <1>1 DEF FanoutTypeOK, TablesTypeOK
  <1>3. IsFiniteSet(Fanning') /\ IsFiniteSet(DOMAIN rows')
    BY <1>1 DEF DuplicatesInv, Fanning
  <1>4. \A i \in DOMAIN rows : i.change \in Changes
    BY DEF FanoutTypeOK, TablesTypeOK, RowIds
  <1>5. RowsCommitted'
    BY <1>1, <1>2, <1>4 DEF DuplicatesInv, RowsCommitted
  <1>6. \A t \in Ticks : HasBatch(t) => fan[t].batch \subseteq Changes \ {d}
    BY <1>1 DEF BatchCommitted, Committed
  <1>7. BatchAhead'
    <2>1. ASSUME NEW t \in Ticks
          PROVE  /\ HasBatch(t)' => \A c \in fan'[t].batch : createdAt'[c] > fan'[t].since
                 /\ fan'[t].pc = "insert" => fan'[t].todo \subseteq fan'[t].batch \X Subs
      BY <1>1, <1>2, <1>6 DEF DuplicatesInv, BatchAhead, HasBatch
    <2> QED
      BY <2>1 DEF BatchAhead
  <1>8. ASSUME NEW s \in Subs, NEW c \in Changes PROVE DuplicatesAt(s, c)'
    <2> DEFINE n == Cardinality(RowsOf(s, c))
               m == Cardinality(MayInsert(s, c))
               x == aborts + overlaps
    <2>1. /\ IsFiniteSet(RowsOf(s, c)) /\ IsFiniteSet(MayInsert(s, c))
          /\ aborts \in Nat /\ overlaps \in Nat /\ x \in Nat /\ n \in Nat /\ m \in Nat
          /\ n + m <= x + 1
      BY DuplicatesBound
    <2>2. aborts' + overlaps' = x
      BY <1>1
    <2>a. aborts' \in Nat /\ overlaps' \in Nat
      BY <1>1, <2>1
    <2>3. RowsOf(s, c)' = RowsOf(s, c)
      BY <1>1 DEF RowsOf
    <2>4. CASE c # d
      <3>1. createdAt'[c] = createdAt[c]
        BY <1>2, <2>4
      <3>2. /\ MayInsert(s, c)' = MayInsert(s, c)
            /\ Serving(c)' = Serving(c) /\ (Open(c)' <=> Open(c))
        BY <1>1, <3>1 DEF MayInsert, Serving, DoneWith, Fanning, Open
      <3>3. aborts' + overlaps' >= x
        BY <2>1, <2>2
      <3>4. DuplicatesAt(s, c)
        BY DEF DuplicatesInv
      <3> QED
        BY <2>1, <2>a, <2>3, <3>2, <3>3, <3>4, DuplicatesKept
    <2>5. CASE c = d
      <3>1. RowsOf(s, c)' = {}
        BY <1>1, <2>3, <2>5 DEF DuplicatesInv, RowsCommitted, RowsOf
      <3>2. MayInsert(s, c) = Fanning
        <4>1. \A t \in Fanning : ~ (fan[t].pc = "insert" /\ c \in fan[t].batch)
          BY <1>6, <2>5 DEF HasBatch, Fanning
        <4> QED
          BY <1>1, <2>5, <4>1 DEF MayInsert, Serving, DoneWith
      <3>3. MayInsert(s, c)' \subseteq Serving(c)' /\ Serving(c)' \subseteq Fanning
        BY <1>1 DEF MayInsert, Serving, Fanning
      <3>4. MayInsert(s, c)' \subseteq MayInsert(s, c)
        BY <3>2, <3>3
      <3> DEFINE m1 == Cardinality(MayInsert(s, c))'
      <3>5. m1 \in Nat /\ m1 <= m
        <4>1. IsFiniteSet(MayInsert(s, c)') /\ Cardinality(MayInsert(s, c)') <= m
          BY <2>1, <3>4, FS_Subset
        <4> QED
          BY <4>1, FS_CardinalityType
      <3>6. Cardinality(RowsOf(s, c))' = 0
        BY <3>1, FS_EmptySet
      <3>7. Serving(c)' = {} => m1 = 0
        BY <3>3, FS_EmptySet
      <3>8. Cardinality(MayInsert(s, c))' = m1
        OBVIOUS
      <3> HIDE DEF n, m, x, m1
      <3>9. 0 + m1 <= x + 1 /\ (m1 = 0 => 0 + m1 <= x)
        BY <2>1, <3>5
      <3> QED
        BY <2>1, <2>2, <3>5, <3>6, <3>7, <3>8, <3>9, DuplicatesCount
    <2> QED
      BY <2>4, <2>5
  <1> QED
    BY <1>3, <1>5, <1>7, <1>8 DEF DuplicatesInv

LEMMA DuplicatesInit == FanoutInit => DuplicatesInv
  <1> SUFFICES ASSUME FanoutInit PROVE DuplicatesInv
    OBVIOUS
  <1>1. /\ Fanning = {} /\ DOMAIN rows = {} /\ aborts = 0 /\ overlaps = 0
        /\ \A c \in Changes : createdAt[c] = 0
    BY DEF FanoutInit, TablesInit, FanInit, NoFan, Fanning
  <1>2. IsFiniteSet(Fanning) /\ IsFiniteSet(DOMAIN rows) /\ RowsCommitted
    BY <1>1, FS_EmptySet DEF RowsCommitted
  <1>3. BatchAhead
    BY DEF FanoutInit, FanInit, NoFan, BatchAhead, HasBatch
  <1>4. ASSUME NEW s \in Subs, NEW c \in Changes PROVE DuplicatesAt(s, c)
    <2>1. RowsOf(s, c) = {} /\ MayInsert(s, c) = {} /\ Serving(c) = {} /\ Open(c)
      BY <1>1 DEF RowsOf, MayInsert, Serving, Open
    <2>2. Cardinality(RowsOf(s, c)) = 0 /\ Cardinality(MayInsert(s, c)) = 0
      BY <2>1, FS_EmptySet
    <2> QED
      BY <1>1, <2>1, <2>2 DEF DuplicatesAt
  <1> QED
    BY <1>2, <1>3, <1>4 DEF DuplicatesInv

LEMMA DuplicatesOthers ==
  ASSUME FanoutTypeOK, BatchCommitted, DuplicatesInv, FanoutOthers
  PROVE  DuplicatesInv'
  <1>1. CASE \E r \in Runs, c \in Changes : IngestCommit(r, c)
    BY <1>1, DuplicatesIngest
  <1>2. CASE ~ \E r \in Runs, c \in Changes : IngestCommit(r, c)
    <2>1. UNCHANGED <<fan, createdAt, checkpoint, aborts, overlaps>>
      BY <1>2 DEF FanoutOthers, fanVars, ClockTick, BeginRun, EndRun,
                  CreateSubscription, DeleteSubscription
    <2>2. DOMAIN rows' \subseteq DOMAIN rows
      BY <1>2 DEF FanoutOthers, ClockTick, BeginRun, EndRun,
                  CreateSubscription, DeleteSubscription, CascadeRows
    <2> QED
      BY <2>1, <2>2, DuplicatesBeside
  <1> QED
    BY <1>1, <1>2

LEMMA DuplicatesNext ==
  ASSUME FanoutTypeOK, BatchCommitted, DuplicatesInv, [FanoutNext]_fanoutVars
  PROVE  DuplicatesInv'
  <1>1. CASE \E t \in Ticks : FanStep(t) \/ FanCrash(t)
    BY <1>1, DuplicatesFanStep
  <1>2. CASE \E s \in Subs : PauseSubscription(s)
    BY <1>2, DuplicatesBeside DEF PauseSubscription, fanVars
  <1>3. CASE FanoutOthers
    BY <1>3, DuplicatesOthers
  <1>4. CASE UNCHANGED fanoutVars
    BY <1>4, DuplicatesBeside DEF fanoutVars, tables, fanVars
  <1> QED
    BY <1>1, <1>2, <1>3, <1>4 DEF FanoutNext

LEMMA DuplicatesBounded ==
  ASSUME FanoutTypeOK, DuplicatesInv
  PROVE  DuplicatesNeedAborts
  <1> SUFFICES ASSUME NEW s \in Subs, NEW c \in Changes
               PROVE  Cardinality(RowsOf(s, c)) <= 1 + aborts + overlaps
    BY DEF DuplicatesNeedAborts
  <1> DEFINE n == Cardinality(RowsOf(s, c))
             m == Cardinality(MayInsert(s, c))
             x == aborts + overlaps
  <1>1. /\ x \in Nat /\ n \in Nat /\ m \in Nat /\ n + m <= x + 1
        /\ aborts \in Nat /\ overlaps \in Nat
    BY DuplicatesBound
  <1>2. 1 + aborts + overlaps = x + 1
    BY <1>1
  <1> HIDE DEF n, m, x
  <1>3. n <= x + 1
    BY <1>1
  <1> QED
    BY <1>2, <1>3 DEF n

(* Re-running enqueueNewChanges adds no row for a change and a subscription *)
(* but the one it is there for, save once per call that was cut off or      *)
(* overlapped another: whatever the number of ticks and of changes.         *)
THEOREM DuplicatesAccounted == FanoutSpec => []DuplicatesNeedAborts
  <1> DEFINE Inv == FanoutInv /\ DuplicatesInv
  <1>1. FanoutInit => Inv
    BY FanoutInvInit, DuplicatesInit
  <1>2. Inv /\ [FanoutNext]_fanoutVars => Inv'
    BY FanoutNextInv, DuplicatesNext DEF FanoutInv
  <1>3. Inv => DuplicatesNeedAborts
    BY DuplicatesBounded DEF FanoutInv
  <1> QED
    BY <1>1, <1>2, <1>3, PTL DEF FanoutSpec

-----------------------------------------------------------------------------
(* The whole tick: what is proved of its halves holds of both together.     *)

WebhooksInv ==
    /\ FanoutInv /\ DuplicatesInv
    /\ DeliveryTypes /\ OneInHand /\ RetryInv /\ PostsInv

(* For deliverDue, enqueueNewChanges and all that is beside the tick is     *)
(* rows that are born, subscriptions that are deleted, and time.            *)
LEMMA FanStepBeside ==
  ASSUME FanoutTypeOK, born \in [RowIds -> Nat], NEW t \in Ticks, FanStep(t), RecordBirth,
         UNCHANGED <<drain, posts, cuts, crossed>>
  PROVE  Beside /\ TablesTypeOK' /\ born' \in [RowIds -> Nat]
  <1>0. TablesTypeOK /\ TablesTypeOK' /\ clock \in Nat /\ fan \in [Ticks -> FanLocals]
    <2>1. FanoutTypeOK'
      BY TypeFanStep
    <2> QED
      BY <2>1, TablesAssumption DEF FanoutTypeOK, TablesTypeOK, FanTypeOK
  <1>1. CASE InsertDelivery(t)
    <2>1. PICK p \in NextPairs(t) :
              subs[p[2]] # "deleted" /\ InsertRow(p[2], p[1], fan[t].now)
      BY <1>1 DEF InsertDelivery
    <2>2. p[2] \in Subs /\ p[1] \in Changes /\ fan[t].now \in Nat
      BY <1>0, <2>1, TablesAssumption DEF NextPairs, FanLocals
    <2>3. UNCHANGED <<clock, createdAt, runNow, subs>>
      BY <1>1 DEF InsertDelivery
    <2> QED
      BY <1>0, <2>1, <2>2, <2>3, BirthIsBeside
  <1>2. CASE ~ InsertDelivery(t)
    <2>1. UNCHANGED tables
      BY <1>2 DEF FanStep, ReadCheckpoint, ReadChanges, ReadSubs, InsertRejected,
                  WriteCheckpoint
    <2>2. /\ born' \in [RowIds -> Nat]
          /\ \A i \in RowIds : i \in DOMAIN rows => born'[i] = born[i]
          /\ \A i \in RowIds : i \notin DOMAIN rows' => born'[i] = born[i]
      BY <1>0, BirthTyped
    <2>3. UNCHANGED <<rows, subs, clock>>
      BY <2>1 DEF tables
    <2>4. \A i \in RowIds : born'[i] = born[i]
      BY <2>2, <2>3
    <2>5. born' = born
      BY <2>2, <2>4
    <2> QED
      BY <1>0, <2>2, <2>3, <2>5, QuietIsBeside
  <1> QED
    BY <1>1, <1>2

LEMMA FanoutOthersBeside ==
  ASSUME FanoutTypeOK, born \in [RowIds -> Nat], FanoutOthers, UNCHANGED drainVars
  PROVE  Beside /\ TablesTypeOK' /\ born' \in [RowIds -> Nat]
  <1>0. /\ TablesTypeOK /\ TablesTypeOK' /\ clock \in Nat
        /\ subs \in [Subs -> {"none", "active", "paused", "deleted"}]
        /\ UNCHANGED <<drain, posts, born, cuts, crossed>>
    <2>1. FanoutTypeOK'
      BY TypeOthers
    <2> QED
      BY <2>1, TablesAssumption DEF FanoutTypeOK, TablesTypeOK, drainVars
  <1>1. CASE ClockTick
    <2>1. clock' >= clock /\ UNCHANGED <<subs, rows>>
      BY <1>0, <1>1 DEF ClockTick
    <2> QED
      BY <1>0, <2>1, QuietIsBeside
  <1>2. CASE \E r \in Runs : BeginRun(r) \/ EndRun(r) \/ \E c \in Changes : IngestCommit(r, c)
    <2>1. clock' >= clock /\ UNCHANGED <<subs, rows>>
      BY <1>0, <1>2 DEF BeginRun, EndRun, IngestCommit, CommitChange
    <2> QED
      BY <1>0, <2>1, QuietIsBeside
  <1>3. CASE \E s \in Subs : CreateSubscription(s)
    <2>1. PICK s \in Subs : CreateSubscription(s)
      BY <1>3
    <2>2. /\ UNCHANGED <<clock, rows>> /\ subs[s] = "none"
          /\ subs' = [subs EXCEPT ![s] = "active"]
      BY <2>1 DEF CreateSubscription
    <2> QED
      BY <1>0, <2>2 DEF Beside
  <1>4. CASE \E s \in Subs : DeleteSubscription(s)
    BY <1>0, <1>4, DeleteIsBeside
  <1> QED
    BY <1>1, <1>2, <1>3, <1>4 DEF FanoutOthers

(* For enqueueNewChanges, deliverDue takes no row away and wakes nobody.    *)
LEMMA DrainKeepsFanout ==
  ASSUME FanoutInv, DuplicatesInv, DeliveryTypes, OneInHand, NEW t \in Ticks,
         DrainStep(t) \/ DrainCrash(t), UNCHANGED fanVars
  PROVE  FanoutInv' /\ DuplicatesInv'
  <1>1. FanoutTypeOK'
    <2>1. TablesTypeOK'
      BY TypesDrainStep DEF DeliveryTypes
    <2> QED
      BY <2>1 DEF FanoutInv, FanoutTypeOK, FanTypeOK, fanVars
  <1>2. UNCHANGED <<createdAt, checkpoint, fan, owed, late>>
    BY DEF DrainStep, DrainCrash, ReadDue, PickDelivery, DrainDone, FailInactive, Post,
           RecordOk, RecordRetry, RecordExhausted, PauseAfterExhausted, tables, fanVars
  <1>3. DOMAIN rows' = DOMAIN rows
    BY DEF DrainStep, DrainCrash, ReadDue, PickDelivery, DrainDone, FailInactive, Post,
           RecordOk, RecordRetry, RecordExhausted, PauseAfterExhausted, tables, UpdateRow
  <1>4. \A s \in Subs : subs'[s] = subs[s] \/ (subs[s] = "active" /\ subs'[s] = "paused")
    <2>1. subs' = subs \/ PauseAfterExhausted(t)
      BY DEF DrainStep, DrainCrash, ReadDue, PickDelivery, DrainDone, FailInactive, Post,
             RecordOk, RecordRetry, RecordExhausted, tables
    <2>2. CASE PauseAfterExhausted(t)
      <3>1. PICK i \in drain[t].cur :
                subs' = IF subs[i.sub] = "active"
                        THEN [subs EXCEPT ![i.sub] = "paused"] ELSE subs
        BY <2>2 DEF PauseAfterExhausted
      <3>2. subs \in [Subs -> {"none", "active", "paused", "deleted"}]
        BY DEF DeliveryTypes, TablesTypeOK
      <3> QED
        BY <3>1, <3>2
    <2> QED
      BY <2>1, <2>2
  <1>5. DuplicatesInv'
    BY <1>2, <1>3, DuplicatesBeside DEF FanoutInv, fanVars
  <1> QED
    BY <1>1, <1>2, <1>3, <1>4, <1>5, OthersInv

(* What the delivery half promises is kept by what is beside it.            *)
LEMMA BesideKeeps ==
  ASSUME DeliveryTypes, OneInHand, RetryInv, PostsInv,
         Beside, TablesTypeOK', born' \in [RowIds -> Nat]
  PROVE  DeliveryTypes' /\ OneInHand' /\ RetryInv' /\ PostsInv'
  <1>1. DeliveryTypes' /\ OneInHand'
    BY TypesBeside
  <1>2. ReadsHaveRows
    BY DEF RetryInv
  <1> QED
    BY <1>1, <1>2, RetryBeside, PostsBeside

LEMMA DrainKeeps ==
  ASSUME DeliveryTypes, OneInHand, RetryInv, PostsInv, NEW t \in Ticks,
         DrainStep(t) \/ DrainCrash(t)
  PROVE  DeliveryTypes' /\ OneInHand' /\ RetryInv' /\ PostsInv'
  <1>1. DeliveryTypes' /\ OneInHand' /\ RetryInv'
    BY TypesDrainStep, RetryDrainStep
  <1>2. ReadsHaveRows
    BY DEF RetryInv
  <1> QED
    BY <1>1, <1>2, PostsDrainStep, AloneDrainStep DEF PostsInv

LEMMA WebhooksInvInit == WebhooksInit => WebhooksInv
  <1> SUFFICES ASSUME WebhooksInit PROVE WebhooksInv
    OBVIOUS
  <1>1. FanoutInv /\ DuplicatesInv
    BY FanoutInvInit, DuplicatesInit DEF WebhooksInit, FanoutInit
  <1>2. DeliveryTypes /\ OneInHand
    <2>1. TablesTypeOK
      BY <1>1 DEF FanoutInv, FanoutTypeOK
    <2>2. DrainInit
      BY DEF WebhooksInit
    <2>3. /\ drain \in [Ticks -> DrainLocals]
          /\ posts \in [RowIds -> Nat] /\ born \in [RowIds -> Nat]
          /\ cuts \in Nat /\ crossed \in Nat
      BY <2>2, NoDrainTyped DEF DrainInit
    <2>4. OneInHand
      BY <2>2, NoDrainTyped DEF DrainInit, OneInHand, NoDrain
    <2> QED
      BY <2>1, <2>3, <2>4 DEF DeliveryTypes
  <1>3. clock = 1 /\ DOMAIN rows = {} /\ DrainInit
    BY DEF WebhooksInit, TablesInit
  <1> QED
    BY <1>1, <1>2, <1>3, RetryInit, PostsInit DEF WebhooksInv

LEMMA WebhooksNextInv ==
  ASSUME WebhooksInv, [WebhooksNext]_webhookVars
  PROVE  WebhooksInv'
  <1> USE DEF WebhooksInv
  <1>0. FanoutTypeOK /\ born \in [RowIds -> Nat] /\ TablesTypeOK /\ clock \in Nat
    BY TablesAssumption DEF FanoutInv, FanoutTypeOK, TablesTypeOK, DeliveryTypes
  <1>1. ASSUME NEW t \in Ticks, TickEnqueue(t)
        PROVE  WebhooksInv'
    <2>1. FanStep(t) /\ RecordBirth /\ UNCHANGED <<drain, posts, cuts, crossed>>
      BY <1>1 DEF TickEnqueue
    <2>2. FanoutInv' /\ DuplicatesInv'
      BY <2>1, FanStepInv, DuplicatesFanStep DEF FanoutInv
    <2>3. Beside /\ TablesTypeOK' /\ born' \in [RowIds -> Nat]
      BY <1>0, <2>1, FanStepBeside
    <2> QED
      BY <2>2, <2>3, BesideKeeps
  <1>2. ASSUME NEW t \in Ticks, DrainStep(t) \/ DrainCrash(t), UNCHANGED fanVars
        PROVE  WebhooksInv'
    BY <1>2, DrainKeepsFanout, DrainKeeps
  <1>3. ASSUME NEW t \in Ticks, FanCrash(t), UNCHANGED drainVars
        PROVE  WebhooksInv'
    <2>1. FanoutInv' /\ DuplicatesInv'
      BY <1>3, FanStepInv, DuplicatesFanStep DEF FanoutInv
    <2>2. UNCHANGED <<clock, subs, rows, drain, posts, born, cuts, crossed>>
      BY <1>3 DEF FanCrash, tables, drainVars
    <2>3. Beside /\ TablesTypeOK' /\ born' \in [RowIds -> Nat]
      BY <1>0, <2>1, <2>2, QuietIsBeside DEF FanoutInv, FanoutTypeOK
    <2> QED
      BY <2>1, <2>3, BesideKeeps
  <1>4. CASE FanoutOthers /\ UNCHANGED drainVars
    <2>1. FanoutInv' /\ DuplicatesInv'
      BY <1>4, FanoutNextInv, DuplicatesOthers DEF FanoutNext, FanoutInv
    <2> QED
      BY <1>0, <1>4, <2>1, FanoutOthersBeside, BesideKeeps
  <1>5. CASE UNCHANGED webhookVars
    <2>1. UNCHANGED fanoutVars
      BY <1>5 DEF webhookVars, fanoutVars
    <2>2. FanoutInv' /\ DuplicatesInv'
      BY <2>1, FanoutNextInv, DuplicatesNext DEF FanoutInv
    <2>3. UNCHANGED <<clock, subs, rows, drain, posts, born, cuts, crossed>>
      BY <1>5 DEF webhookVars, tables, drainVars
    <2>4. Beside /\ TablesTypeOK' /\ born' \in [RowIds -> Nat]
      BY <1>0, <2>2, <2>3, QuietIsBeside DEF FanoutInv, FanoutTypeOK
    <2> QED
      BY <2>2, <2>4, BesideKeeps
  <1> HIDE DEF WebhooksInv
  <1> QED
    BY <1>1, <1>2, <1>3, <1>4, <1>5 DEF WebhooksNext, TickStep, TickDeliver, TickCrash

(* TicksKeepPromises: fan-out and delivery together, in one tick or in      *)
(* overlapping ones, lose no timely change, add no row that no abort or     *)
(* overlap accounts for, and keep the retry window and the account of       *)
(* POSTs, which the runs check on each half by itself.                      *)
THEOREM TicksKeepPromises ==
  WebhooksSpec => [](/\ NoTimelyChangeLost /\ DuplicatesNeedAborts
                     /\ RetryWindow /\ PostsBound)
  <1>1. WebhooksInv => /\ NoTimelyChangeLost /\ DuplicatesNeedAborts
                       /\ RetryWindow /\ PostsBound
    BY PostsBounded, DuplicatesBounded DEF WebhooksInv, FanoutInv, RetryInv
  <1> QED
    BY WebhooksInvInit, WebhooksNextInv, <1>1, PTL DEF WebhooksSpec

-----------------------------------------------------------------------------
(* Refinement: without the delivery columns, a tick is a fan-out.           *)

(* Bare: the rows as the fan-out sees them depend on which there are and on *)
(* when each was born, and on nothing a delivery writes.                    *)
LEMMA Bare ==
  ASSUME DOMAIN rows' = DOMAIN rows, \A i \in DOMAIN rows : born'[i] = born[i]
  PROVE  Undelivered' = Undelivered
  BY DEF Undelivered

(* The operators of the fan-out that do not look at the rows.               *)
LEMMA BareOperators ==
  /\ FanoutOnly!NoFan = NoFan
  /\ FanoutOnly!Committed = Committed /\ FanoutOnly!ActiveSubs = ActiveSubs
  /\ \A t \in Ticks : /\ FanoutOnly!NewChanges(t) = NewChanges(t)
                      /\ FanoutOnly!NextPairs(t) = NextPairs(t)
  /\ \A n : FanoutOnly!LookedPast(n) <=> LookedPast(n)
  /\ \A n : FanoutOnly!NewRow(n) = NewRow(n)
  BY DEF FanoutOnly!NoFan, NoFan, FanoutOnly!Committed, Committed, FanoutOnly!ActiveSubs,
         ActiveSubs, FanoutOnly!NewChanges, NewChanges, FanoutOnly!NextPairs, NextPairs,
         FanoutOnly!LookedPast, LookedPast, FanoutOnly!NewRow, NewRow

LEMMA BareFanStep ==
  ASSUME FanoutTypeOK, born \in [RowIds -> Nat], NEW t \in Ticks, FanStep(t), RecordBirth
  PROVE  FanoutOnly!FanStep(t)
  <1>1. /\ born' \in [RowIds -> Nat]
        /\ \A i \in RowIds : i \notin DOMAIN rows' \ DOMAIN rows => born'[i] = born[i]
        /\ \A i \in RowIds : i \in DOMAIN rows' \ DOMAIN rows =>
                                born'[i] = rows'[i].nextAttemptAt
    <2>1. \A i \in RowIds :
              born'[i] = IF i \in DOMAIN rows' \ DOMAIN rows
                         THEN rows'[i].nextAttemptAt ELSE born[i]
      BY DEF RecordBirth
    <2>2. TablesTypeOK'
      BY TypeFanStep DEF FanoutTypeOK
    <2> QED
      BY <2>1, <2>2, BirthTyped DEF FanoutTypeOK
  <1>2. DOMAIN rows \subseteq RowIds
    BY DEF FanoutTypeOK, TablesTypeOK
  <1>3. ASSUME UNCHANGED tables
        PROVE  UNCHANGED FanoutOnly!tables
    BY <1>1, <1>2, <1>3, Bare DEF tables, FanoutOnly!tables
  <1>4. CASE ReadCheckpoint(t)
    <2>1. UNCHANGED FanoutOnly!tables
      BY <1>3, <1>4 DEF ReadCheckpoint
    <2>2. FanoutOnly!ReadCheckpoint(t)
      BY <1>4, <2>1, BareOperators DEF ReadCheckpoint, FanoutOnly!ReadCheckpoint
    <2> QED
      BY <2>2 DEF FanoutOnly!FanStep
  <1>5. CASE ReadChanges(t)
    <2>1. UNCHANGED FanoutOnly!tables
      BY <1>3, <1>5 DEF ReadChanges
    <2>2. FanoutOnly!ReadChanges(t)
      BY <1>5, <2>1, BareOperators DEF ReadChanges, FanoutOnly!ReadChanges
    <2> QED
      BY <2>2 DEF FanoutOnly!FanStep
  <1>6. CASE ReadSubs(t)
    <2>1. UNCHANGED FanoutOnly!tables
      BY <1>3, <1>6 DEF ReadSubs
    <2>2. FanoutOnly!ReadSubs(t)
      BY <1>6, <2>1, BareOperators DEF ReadSubs, FanoutOnly!ReadSubs
    <2> QED
      BY <2>2 DEF FanoutOnly!FanStep
  <1>7. CASE InsertDelivery(t)
    <2>1. PICK p \in NextPairs(t) : /\ subs[p[2]] # "deleted"
                                    /\ InsertRow(p[2], p[1], fan[t].now)
                                    /\ fan' = [fan EXCEPT ![t].todo = @ \ {p}]
      BY <1>7 DEF InsertDelivery
    <2>2. PICK n \in Copies :
              LET id == [sub |-> p[2], change |-> p[1], copy |-> n]
              IN  /\ id \notin DOMAIN rows
                  /\ rows' = [i \in DOMAIN rows \cup {id} |->
                                  IF i = id THEN NewRow(fan[t].now) ELSE rows[i]]
      BY <2>1 DEF InsertRow
    <2> DEFINE id == [sub |-> p[2], change |-> p[1], copy |-> n]
               now == fan[t].now
    <2>3. id \notin DOMAIN rows /\ DOMAIN rows' = DOMAIN rows \cup {id}
          /\ rows'[id] = NewRow(now)
      BY <2>2
    <2>4. id \in RowIds
      <3>1. TablesTypeOK'
        BY TypeFanStep DEF FanoutTypeOK
      <3> HIDE DEF id
      <3> QED
        BY <2>3, <3>1 DEF TablesTypeOK
    <2> HIDE DEF id, now
    <2>5. born'[id] = now
      BY <1>1, <2>3, <2>4 DEF NewRow
    <2>6. \A i \in DOMAIN rows : born'[i] = born[i]
      BY <1>1, <1>2
    <2>7. Undelivered' = [i \in DOMAIN Undelivered \cup {id} |->
                              IF i = id THEN NewRow(now) ELSE Undelivered[i]]
      BY <2>3, <2>5, <2>6 DEF Undelivered
    <2>8. DOMAIN Undelivered = DOMAIN rows
      BY DEF Undelivered
    <2>9. FanoutOnly!InsertRow(p[2], p[1], fan[t].now)
      BY <2>3, <2>7, <2>8, BareOperators DEF FanoutOnly!InsertRow, id, now
    <2>10. FanoutOnly!InsertDelivery(t)
      BY <1>7, <2>1, <2>9, BareOperators DEF InsertDelivery, FanoutOnly!InsertDelivery
    <2> QED
      BY <2>10 DEF FanoutOnly!FanStep
  <1>8. CASE InsertRejected(t)
    <2>1. UNCHANGED FanoutOnly!tables
      BY <1>3, <1>8 DEF InsertRejected
    <2>2. FanoutOnly!InsertRejected(t)
      BY <1>8, <2>1, BareOperators DEF InsertRejected, FanoutOnly!InsertRejected
    <2> QED
      BY <2>2 DEF FanoutOnly!FanStep
  <1>9. CASE WriteCheckpoint(t)
    <2>1. UNCHANGED FanoutOnly!tables
      BY <1>3, <1>9 DEF WriteCheckpoint
    <2>2. FanoutOnly!WriteCheckpoint(t)
      BY <1>9, <2>1, BareOperators DEF WriteCheckpoint, FanoutOnly!WriteCheckpoint
    <2> QED
      BY <2>2 DEF FanoutOnly!FanStep
  <1> QED
    BY <1>4, <1>5, <1>6, <1>7, <1>8, <1>9 DEF FanStep

LEMMA BareOthers ==
  ASSUME FanoutTypeOK, born' = born, FanoutOthers
  PROVE  FanoutOnly!FanoutOthers
  <1>1. rows' = rows => Undelivered' = Undelivered
    BY Bare
  <1>2. UNCHANGED fanVars => UNCHANGED FanoutOnly!fanVars
    BY DEF fanVars, FanoutOnly!fanVars
  <1>3. CASE ClockTick /\ UNCHANGED fanVars
    BY <1>1, <1>2, <1>3 DEF ClockTick, FanoutOnly!ClockTick, FanoutOnly!FanoutOthers
  <1>4. ASSUME NEW r \in Runs, BeginRun(r) \/ EndRun(r), UNCHANGED fanVars
        PROVE  FanoutOnly!FanoutOthers
    BY <1>1, <1>2, <1>4 DEF BeginRun, EndRun, FanoutOnly!BeginRun, FanoutOnly!EndRun,
                            FanoutOnly!FanoutOthers
  <1>5. ASSUME NEW r \in Runs, NEW c \in Changes, IngestCommit(r, c)
        PROVE  FanoutOnly!FanoutOthers
    <2>1. FanoutOnly!CommitChange(r, c)
      BY <1>1, <1>5 DEF IngestCommit, CommitChange, FanoutOnly!CommitChange
    <2>2. FanoutOnly!IngestCommit(r, c)
      BY <1>5, <2>1, BareOperators DEF IngestCommit, FanoutOnly!IngestCommit
    <2> QED
      BY <2>2 DEF FanoutOnly!FanoutOthers
  <1>6. ASSUME NEW s \in Subs, CreateSubscription(s), UNCHANGED fanVars
        PROVE  FanoutOnly!FanoutOthers
    BY <1>1, <1>2, <1>6 DEF CreateSubscription, FanoutOnly!CreateSubscription,
                            FanoutOnly!FanoutOthers
  <1>7. ASSUME NEW s \in Subs, DeleteSubscription(s), UNCHANGED fanVars
        PROVE  FanoutOnly!FanoutOthers
    <2>1. rows' = [i \in {j \in DOMAIN rows : j.sub # s} |-> rows[i]]
      BY <1>7 DEF DeleteSubscription, CascadeRows
    <2>2. Undelivered' = [i \in {j \in DOMAIN Undelivered : j.sub # s} |-> Undelivered[i]]
      BY <2>1 DEF Undelivered
    <2>3. FanoutOnly!DeleteSubscription(s)
      BY <1>7, <2>2 DEF DeleteSubscription, FanoutOnly!DeleteSubscription, FanoutOnly!CascadeRows
    <2> QED
      BY <1>2, <1>7, <2>3 DEF FanoutOnly!FanoutOthers
  <1> QED
    BY <1>3, <1>4, <1>5, <1>6, <1>7 DEF FanoutOthers

(* deliverDue pauses a subscription, or does nothing a fan-out would see.   *)
LEMMA BareDrain ==
  ASSUME DeliveryTypes, NEW t \in Ticks, DrainStep(t) \/ DrainCrash(t), UNCHANGED fanVars
  PROVE  \/ \E s \in Subs : FanoutOnly!PauseSubscription(s)
         \/ UNCHANGED FanoutOnly!fanoutVars
  <1>1. DOMAIN rows' = DOMAIN rows /\ born' = born /\ UNCHANGED <<clock, createdAt, runNow>>
    BY DEF DrainStep, DrainCrash, ReadDue, PickDelivery, DrainDone, FailInactive, Post,
           RecordOk, RecordRetry, RecordExhausted, PauseAfterExhausted, tables, UpdateRow
  <1>2. Undelivered' = Undelivered
    BY <1>1, Bare
  <1>3. UNCHANGED FanoutOnly!fanVars
    BY DEF fanVars, FanoutOnly!fanVars
  <1>4. CASE subs' = subs
    BY <1>1, <1>2, <1>3, <1>4 DEF FanoutOnly!fanoutVars, FanoutOnly!tables
  <1>5. CASE PauseAfterExhausted(t)
    <2>1. PICK i \in drain[t].cur :
              subs' = IF subs[i.sub] = "active"
                      THEN [subs EXCEPT ![i.sub] = "paused"] ELSE subs
      BY <1>5 DEF PauseAfterExhausted
    <2>2. i.sub \in Subs
      <3>1. i \in RowIds
        BY <2>1 DEF DeliveryTypes, DrainLocals
      <3> QED
        BY <3>1 DEF RowIds
    <2>3. CASE subs[i.sub] = "active"
      <3>1. FanoutOnly!PauseSubscription(i.sub)
        BY <1>1, <1>2, <1>3, <2>1, <2>3 DEF FanoutOnly!PauseSubscription
      <3> QED
        BY <2>2, <3>1
    <2>4. CASE subs[i.sub] # "active"
      BY <1>4, <2>1, <2>4
    <2> QED
      BY <2>3, <2>4
  <1>6. subs' = subs \/ PauseAfterExhausted(t)
    BY DEF DrainStep, DrainCrash, ReadDue, PickDelivery, DrainDone, FailInactive, Post,
           RecordOk, RecordRetry, RecordExhausted, tables
  <1> QED
    BY <1>4, <1>5, <1>6

(* DeliveryNeverDisturbsFanout: with the delivery columns of every row put  *)
(* back to what they were at the insert, every step of the two halves of    *)
(* overlapping ticks is a step of enqueueNewChanges, of something beside    *)
(* it, or none.                                                             *)
THEOREM DeliveryNeverDisturbsFanout == WebhooksSpec => ImplementsFanout
  <1>1. WebhooksInit => FanoutOnly!FanoutInit
    <2> SUFFICES ASSUME WebhooksInit PROVE FanoutOnly!FanoutInit
      OBVIOUS
    <2>1. rows = [i \in {} |-> i]
      BY DEF WebhooksInit, TablesInit
    <2>2. Undelivered = [i \in {} |-> i]
      BY <2>1 DEF Undelivered
    <2>3. FanoutOnly!TablesInit
      BY <2>2 DEF WebhooksInit, TablesInit, FanoutOnly!TablesInit
    <2>4. FanoutOnly!FanInit
      BY BareOperators DEF WebhooksInit, FanInit, FanoutOnly!FanInit
    <2> QED
      BY <2>3, <2>4 DEF FanoutOnly!FanoutInit
  <1>2. WebhooksInv /\ [WebhooksNext]_webhookVars
            => [FanoutOnly!FanoutNext]_(FanoutOnly!fanoutVars)
    <2> SUFFICES ASSUME WebhooksInv, [WebhooksNext]_webhookVars
                 PROVE  FanoutOnly!FanoutNext \/ UNCHANGED FanoutOnly!fanoutVars
      OBVIOUS
    <2>0. FanoutTypeOK /\ DeliveryTypes /\ born \in [RowIds -> Nat]
      BY DEF WebhooksInv, FanoutInv, DeliveryTypes
    <2>1. CASE \E t \in Ticks : TickEnqueue(t)
      BY <2>0, <2>1, BareFanStep DEF TickEnqueue, FanoutOnly!FanoutNext
    <2>2. CASE \E t \in Ticks : (DrainStep(t) \/ DrainCrash(t)) /\ UNCHANGED fanVars
      BY <2>0, <2>2, BareDrain DEF FanoutOnly!FanoutNext
    <2>3. CASE \E t \in Ticks : FanCrash(t) /\ UNCHANGED drainVars
      <3>1. PICK t \in Ticks : FanCrash(t) /\ UNCHANGED drainVars
        BY <2>3
      <3>2. UNCHANGED FanoutOnly!tables
        <4>1. rows' = rows /\ born' = born
          BY <3>1 DEF FanCrash, tables, drainVars
        <4>2. Undelivered' = Undelivered
          BY <4>1, Bare
        <4> QED
          BY <3>1, <4>2 DEF FanCrash, tables, FanoutOnly!tables
      <3>3. FanoutOnly!FanCrash(t)
        BY <3>1, <3>2, BareOperators DEF FanCrash, FanoutOnly!FanCrash
      <3> QED
        BY <3>3 DEF FanoutOnly!FanoutNext
    <2>4. CASE FanoutOthers /\ UNCHANGED drainVars
      BY <2>0, <2>4, BareOthers DEF drainVars, FanoutOnly!FanoutNext
    <2>5. CASE UNCHANGED webhookVars
      <3>1. rows' = rows /\ born' = born
        BY <2>5 DEF webhookVars, tables, drainVars
      <3>2. Undelivered' = Undelivered
        BY <3>1, Bare
      <3> QED
        BY <2>5, <3>2 DEF webhookVars, tables, fanVars, FanoutOnly!fanoutVars,
                          FanoutOnly!tables, FanoutOnly!fanVars
    <2> QED
      BY <2>1, <2>2, <2>3, <2>4, <2>5 DEF WebhooksNext, TickStep, TickDeliver, TickCrash
  <1> QED
    BY <1>1, <1>2, WebhooksInvInit, WebhooksNextInv, PTL
       DEF WebhooksSpec, ImplementsFanout, FanoutOnly!FanoutSpec

=============================================================================
