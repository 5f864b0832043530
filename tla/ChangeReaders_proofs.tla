------------------------- MODULE ChangeReaders_proofs -------------------------
(* Theorems about ChangeReaders.                                           *)
EXTENDS ChangeReaders, FiniteSetTheorems, WellFoundedInduction, TLAPS

Change == [id : Ids, at : Nat]

(* A set of numbers has a least one. *)
LEMMA LeastNat ==
    ASSUME NEW T, T \subseteq Nat, T # {}
    PROVE  \E x \in T : \A y \in T : x <= y
<1>1. PICK x \in T : \A y \in T : <<y, x>> \notin OpToRel(<, Nat)
  BY NatLessThanWellFounded, WFMin
<1>2. ASSUME NEW y \in T, y < x PROVE FALSE
  <2>1. <<y, x>> \in Nat \X Nat /\ <<y, x>>[1] < <<y, x>>[2]
    BY <1>2
  <2>2. <<y, x>> \in OpToRel(<, Nat)
    BY <2>1 DEF OpToRel
  <2> QED BY <1>1, <2>2
<1> QED BY <1>2

(* A bounded set of numbers has a greatest one, which Max picks. *)
LEMMA MaxPicks ==
    ASSUME NEW S, S \subseteq Nat, S # {}, NEW b \in Nat, \A x \in S : x <= b
    PROVE  Max(S) \in S /\ \A x \in S : x <= Max(S)
<1> DEFINE Bounds == {n \in Nat : \A x \in S : x <= n}
<1>1. PICK m \in Bounds : \A n \in Bounds : m <= n
  <2>1. b \in Bounds
    OBVIOUS
  <2> QED BY <2>1, LeastNat
<1>2. m \in S
  <2>1. SUFFICES ASSUME m \notin S PROVE FALSE
    OBVIOUS
  <2>2. \A x \in S : x < m
    BY <1>1, <2>1
  <2>3. m \in Nat /\ m # 0
    <3>1. PICK x \in S : x \in Nat
      OBVIOUS
    <3>2. m \in Nat
      BY <1>1
    <3> HIDE DEF Bounds
    <3> QED BY <2>2, <3>1, <3>2
  <2>4. m - 1 \in Bounds
    BY <2>2, <2>3
  <2> QED BY <1>1, <2>3, <2>4
<1>3. m \in S /\ \A x \in S : m >= x
  BY <1>1, <1>2
<1> QED BY <1>3 DEF Max

(* A change is its id and its stamp. *)
LEMMA ChangeIs ==
    ASSUME NEW a \in Change
    PROVE  /\ a.id \in Nat /\ a.at \in Nat
           /\ \A b \in Change : a.id = b.id /\ a.at = b.at => a = b
<1>1. Ids \subseteq Nat
  BY ReadersAssumption DEF ReadersAssumption
<1>2. \A b \in Change : b = [id |-> b.id, at |-> b.at]
  BY DEF Change
<1>3. \A b \in Change : a.id = b.id /\ a.at = b.at => a = b
  BY <1>2
<1>4. a.id \in Nat /\ a.at \in Nat
  BY <1>1 DEF Change
<1> QED BY <1>3, <1>4

(* The order of the feed is total. *)
LEMMA AfterIsTotal ==
    ASSUME NEW a \in Change, NEW b \in Change
    PROVE  /\ a # b => After(a, b) \/ After(b, a)
           /\ ~ (After(a, b) /\ After(b, a))
           /\ \A c \in Change : After(a, b) /\ After(b, c) => After(a, c)
  BY ChangeIs DEF After

(* A set of changes has an oldest one. *)
LEMMA OldestExists ==
    ASSUME NEW C, C \subseteq Change, C # {}
    PROVE  \E c \in C : \A d \in C \ {c} : After(d, c)
<1>1. PICK t \in {c.at : c \in C} : \A u \in {c.at : c \in C} : t <= u
  <2>1. {c.at : c \in C} \subseteq Nat /\ {c.at : c \in C} # {}
    BY ChangeIs
  <2> QED BY <2>1, LeastNat
<1> DEFINE D == {c \in C : c.at = t}
<1>2. PICK i \in {c.id : c \in D} : \A j \in {c.id : c \in D} : i <= j
  <2>1. {c.id : c \in D} \subseteq Nat
    BY ChangeIs
  <2>2. {c.id : c \in D} # {}
    BY <1>1
  <2> QED BY <2>1, <2>2, LeastNat
<1>3. PICK c \in D : c.id = i
  BY <1>2
<1>4. \A d \in C \ {c} : After(d, c)
  <2> SUFFICES ASSUME NEW d \in C \ {c} PROVE After(d, c)
    OBVIOUS
  <2>1. d.at >= c.at /\ d \in Change /\ c \in Change
    BY <1>1, <1>3, ChangeIs
  <2>2. ASSUME d.at = c.at PROVE d.id >= c.id
    BY <1>2, <1>3, <2>2, ChangeIs
  <2> QED BY <2>1, <2>2, ChangeIs DEF After
<1> QED BY <1>3, <1>4

(* A finite set of changes has a newest one: the one that the fewest follow. *)
LEMMA NewestExists ==
    ASSUME NEW C, C \subseteq Change, C # {}, IsFiniteSet(C)
    PROVE  \E c \in C : {d \in C : After(d, c)} = {}
<1> DEFINE Newer(c) == {d \in C : After(d, c)}
<1>1. \A c \in C : IsFiniteSet(Newer(c)) /\ Cardinality(Newer(c)) \in Nat
  BY FS_Subset, FS_CardinalityType
<1>2. PICK n \in {Cardinality(Newer(c)) : c \in C} :
            \A k \in {Cardinality(Newer(c)) : c \in C} : n <= k
  <2>1. {Cardinality(Newer(c)) : c \in C} \subseteq Nat
    BY <1>1
  <2>2. {Cardinality(Newer(c)) : c \in C} # {}
    OBVIOUS
  <2> HIDE DEF Newer
  <2> QED BY <2>1, <2>2, LeastNat
<1>3. PICK c \in C : Cardinality(Newer(c)) = n
  BY <1>2
<1>4. Newer(c) = {}
  <2>1. SUFFICES ASSUME NEW d \in Newer(c) PROVE FALSE
    OBVIOUS
  <2>2. Newer(d) \subseteq Newer(c) /\ d \in Newer(c) /\ d \notin Newer(d)
    BY <2>1, AfterIsTotal
  <2>3. Cardinality(Newer(d)) < Cardinality(Newer(c))
    <3> HIDE DEF Newer
    <3>1. d \in C
      BY <2>1 DEF Newer
    <3> QED BY <1>1, <2>2, <3>1, FS_Subset
  <2> HIDE DEF Newer
  <2>4. d \in C
    BY <2>1 DEF Newer
  <2>5. n <= Cardinality(Newer(d))
    BY <1>2, <2>4
  <2> QED BY <1>1, <1>3, <2>3, <2>4, <2>5
<1> QED BY <1>4

(* A page is the newest Limit rows: all of them, or those down to the       *)
(* cursor, and every row left out is older than it.                         *)
LEMMA PageIs ==
    ASSUME NEW C, C \subseteq Change, IsFiniteSet(C)
    PROVE  /\ PageOf(C) \subseteq C
           /\ NextCursor(C) = {} => PageOf(C) = C
           /\ NextCursor(C) # {} =>
                \E b \in PageOf(C) : /\ NextCursor(C) = {b}
                                     /\ \A c \in C \ PageOf(C) : After(b, c)
<1> DEFINE Newer(c) == {d \in C : After(d, c)}
<1>1. PageOf(C) = {c \in C : Cardinality(Newer(c)) < Limit}
  BY DEF PageOf
<1>2. \A c \in C : /\ IsFiniteSet(Newer(c)) /\ Cardinality(Newer(c)) \in Nat
                   /\ Newer(c) \subseteq C
  BY FS_Subset, FS_CardinalityType
<1>3. Limit \in Nat /\ Limit > 0 /\ Cardinality(C) \in Nat
  BY ReadersAssumption, FS_CardinalityType DEF ReadersAssumption
<1>4. ASSUME NEW c \in C, c \notin PageOf(C), NEW p \in PageOf(C) PROVE After(p, c)
  <2>1. SUFFICES ASSUME ~ After(p, c) PROVE FALSE
    OBVIOUS
  <2>2. After(c, p)
    BY <1>1, <1>4, <2>1, AfterIsTotal
  <2>3. Newer(c) \subseteq Newer(p)
    BY <1>1, <1>4, <2>2, AfterIsTotal
  <2>4. p \in C
    BY <1>1, <1>4
  <2> HIDE DEF Newer
  <2>5. Cardinality(Newer(c)) <= Cardinality(Newer(p))
    BY <1>2, <2>3, <2>4, FS_Subset
  <2> QED BY <1>1, <1>2, <1>3, <1>4, <2>4, <2>5
<1>5. CASE Cardinality(C) <= Limit
  <2>1. ASSUME NEW c \in C PROVE c \in PageOf(C)
    <3>1. Newer(c) # C
      BY <2>1, AfterIsTotal
    <3> HIDE DEF Newer
    <3>2. Cardinality(Newer(c)) < Cardinality(C)
      <4>1. Newer(c) \subseteq C
        BY <1>2, <2>1
      <4> QED BY <1>2, <1>3, <2>1, <3>1, <4>1, FS_Subset
    <3> QED BY <1>1, <1>2, <1>3, <1>5, <2>1, <3>2
  <2>2. NextCursor(C) = {}
    BY <1>5 DEF NextCursor
  <2> QED BY <1>1, <2>1, <2>2
<1>6. CASE ~ (Cardinality(C) <= Limit)
  <2>1. NextCursor(C) = {c \in PageOf(C) : \A d \in PageOf(C) \ {c} : After(d, c)}
    BY <1>6 DEF NextCursor
  <2>2. C # {}
    BY <1>3, <1>6, FS_EmptySet
  <2>3. PICK n \in C : Newer(n) = {}
    BY <2>2, NewestExists
  <2>4. n \in PageOf(C)
    BY <1>1, <1>3, <2>3, FS_EmptySet
  <2>5. PICK b \in PageOf(C) : \A d \in PageOf(C) \ {b} : After(d, b)
    BY <1>1, <2>4, OldestExists
  <2>6. NextCursor(C) = {b}
    BY <1>1, <2>1, <2>5, AfterIsTotal
  <2> QED BY <1>1, <1>4, <2>5, <2>6
<1> QED BY <1>5, <1>6

(* The newest stamp of some changes, none younger than now. *)
LEMMA NewestAtIs ==
    ASSUME NEW C, C \subseteq Change, NEW now \in Nat, \A c \in C : c.at <= now
    PROVE  /\ NewestAt(C) \in 0 .. now
           /\ \A c \in C : c.at <= NewestAt(C)
           /\ NewestAt(C) = 0 \/ \E c \in C : c.at = NewestAt(C)
<1> DEFINE S == {0} \cup {c.at : c \in C}
<1>1. S \subseteq Nat /\ S # {} /\ \A x \in S : x <= now
  BY ChangeIs
<1>2. Max(S) \in S /\ \A x \in S : x <= Max(S)
  <2> HIDE DEF S
  <2> QED BY <1>1, MaxPicks
<1>3. NewestAt(C) \in S /\ \A x \in S : x <= NewestAt(C)
  BY <1>2 DEF NewestAt
<1> HIDE DEF NewestAt
<1>4. NewestAt(C) \in 0 .. now
  BY <1>1, <1>3
<1> QED BY <1>3, <1>4

(* At most one change is the newest. *)
LEMMA NewestIsOne ==
    ASSUME NEW C, C \subseteq Change
    PROVE  Newest(C) \subseteq C /\ Cardinality(Newest(C)) <= 1
<1>1. \A a, b \in Newest(C) : a = b
  BY AfterIsTotal DEF Newest
<1>2. CASE Newest(C) = {}
  BY <1>2, FS_EmptySet
<1>3. ASSUME NEW a \in Newest(C) PROVE Cardinality(Newest(C)) = 1
  <2>1. Newest(C) = {a}
    BY <1>1, <1>3
  <2> QED BY <2>1, FS_Singleton
<1> QED BY <1>2, <1>3 DEF Newest

-----------------------------------------------------------------------------
(* The service.                                                            *)

(* Ids are not drawn twice, a change is stamped no later than now, and a    *)
(* job that has written its row still has its change to come.               *)
ServiceInv ==
    /\ clock \in Start .. MaxTime
    /\ rows \in [SectionSet -> SUBSET Ids]
    /\ run \in [Runs -> SUBSET [id : Ids, now : Nat]]
    /\ feed \subseteq Change /\ IsFiniteSet(feed)
    /\ \A c \in feed : c.at \in Start .. clock
    /\ \A c, d \in feed : c.id = d.id => c = d
    /\ IdsOf(feed) \subseteq Used
    /\ \A r \in Runs : \A w \in run[r] :
            w.now \in Start .. clock /\ w.id \in Used \ IdsOf(feed)
    /\ \A r, q \in Runs : \A w \in run[r], v \in run[q] : w.id = v.id => r = q

(* A change the feed gains: a new one, of a job that began not too long ago. *)
Commits(c) ==
    /\ feed' = feed \cup {c}
    /\ c.id \notin IdsOf(feed)
    /\ c.at \in Start .. clock /\ clock <= c.at + Lookback

JobStep ==
    \/ \E r \in Runs :
        \/ WriteChange(r) \/ KillRun(r)
        \/ \E id \in Ids, s \in SectionSet, now \in Start..clock : WriteRow(r, id, s, now)
    \/ Tick

MirrorStep ==
    \/ StartMirror \/ ReadLatest \/ ReadSection
    \/ StartFeed \/ ReadPage \/ CommitMirror \/ FailMirror

HoldStep == StartHold \/ AnswerHold \/ \E news \in BOOLEAN : Look(news)

(* The bounds are numbers, and the sections a sequence. *)
LEMMA Bounds ==
    /\ Start \in Nat /\ Start > 0 /\ Start <= MaxTime /\ Lookback \in Nat
    /\ Start = Lookback + 1
    /\ MaxRun \in Nat /\ MaxTime \in Nat /\ Wait \in Nat /\ MaxRun <= Lookback
    /\ Sections \in Seq(SectionSet)
  BY ReadersAssumption DEF ReadersAssumption, Start, SectionSet

(* Every step is a job's, the mirror's or the held request's. *)
LEMMA WhoSteps ==
    ASSUME [ReadersNext]_vars
    PROVE  \/ UNCHANGED vars
           \/ JobStep /\ UNCHANGED <<mirror, poll>>
           \/ MirrorStep /\ UNCHANGED <<service, poll>>
           \/ HoldStep /\ UNCHANGED <<service, mirror>>
  BY DEF ReadersNext, JobStep, MirrorStep, HoldStep, service, mirror, poll, vars, Tick,
         WriteRow, WriteChange, KillRun, StartMirror, ReadLatest, ReadSection, StartFeed,
         ReadPage, CommitMirror, FailMirror, StartHold, Look, AnswerHold

(* At first nothing is written. *)
LEMMA ServiceInvInit == ReadersInit => ServiceInv
<1> SUFFICES ASSUME ReadersInit PROVE ServiceInv
  OBVIOUS
<1>1. IdsOf({}) = {}
  BY DEF IdsOf
<1> QED BY <1>1, Bounds, FS_EmptySet DEF ReadersInit, ServiceInv

(* Jobs write rows before changes, with ids of their own. *)
LEMMA ServiceInvNext ==
    ASSUME ServiceInv, [ReadersNext]_vars
    PROVE  /\ ServiceInv'
           /\ clock <= clock' /\ \A s \in SectionSet : rows[s] \subseteq rows'[s]
           /\ feed' = feed \/ \E c \in Change : Commits(c) /\ UNCHANGED <<clock, rows, mirror, poll>>
<1> USE DEF ServiceInv
<1>1. CASE UNCHANGED service
  BY <1>1 DEF service, Used, IdsOf
<1>2. CASE Tick
  <2>1. clock' = clock + 1 /\ clock' \in Start .. MaxTime /\ UNCHANGED <<rows, feed, run>>
    BY <1>2, Bounds DEF Tick
  <2>2. \A n \in Start .. clock : n \in Start .. clock'
    BY <2>1, Bounds
  <2>3. Used' = Used /\ IdsOf(feed)' = IdsOf(feed)
    BY <2>1 DEF Used, IdsOf
  <2>4. ServiceInv'
    BY <2>1, <2>2, <2>3
  <2> QED BY <2>1, <2>4, Bounds
<1>3. ASSUME NEW r \in Runs, KillRun(r)
      PROVE  ServiceInv' /\ UNCHANGED <<clock, rows, feed>>
  BY <1>3 DEF KillRun, Used, IdsOf
<1>4. ASSUME NEW r \in Runs, NEW id \in Ids, NEW s \in SectionSet, NEW now \in Start .. clock,
             WriteRow(r, id, s, now)
      PROVE  /\ ServiceInv' /\ UNCHANGED <<clock, feed>>
             /\ \A q \in SectionSet : rows[q] \subseteq rows'[q]
  <2>1. /\ rows' \in [SectionSet -> SUBSET Ids]
        /\ \A q \in SectionSet : rows[q] \subseteq rows'[q]
        /\ rows'[s] = rows[s] \cup {id}
    BY <1>4 DEF WriteRow
  <2>2. Used \subseteq Used' /\ id \in Used' /\ id \notin Used
    BY <1>4, <2>1 DEF WriteRow, Used
  <2>3. run' \in [Runs -> SUBSET [id : Ids, now : Nat]]
    BY <1>4, Bounds DEF WriteRow
  <2>4. /\ run'[r] = {[id |-> id, now |-> now]}
        /\ \A q \in Runs \ {r} : run'[q] = run[q]
    BY <1>4 DEF WriteRow
  <2>5. \A q \in Runs : \A w \in run'[q] :
            w.now \in Start .. clock /\ w.id \in Used' \ IdsOf(feed)
    BY <2>2, <2>4
  <2>6. \A p, q \in Runs : \A w \in run'[p], v \in run'[q] : w.id = v.id => p = q
    BY <2>2, <2>4
  <2>7. UNCHANGED <<clock, feed>> /\ IdsOf(feed)' = IdsOf(feed)
    BY <1>4 DEF WriteRow, IdsOf
  <2> QED BY <2>1, <2>2, <2>3, <2>5, <2>6, <2>7
<1>5. ASSUME NEW r \in Runs, WriteChange(r)
      PROVE  /\ ServiceInv' /\ \E c \in Change : Commits(c) /\ UNCHANGED <<clock, rows, mirror, poll>>
  <2>1. PICK w \in run[r] : /\ w.now + MaxRun >= clock
                            /\ feed' = feed \cup {[id |-> w.id, at |-> w.now]}
    BY <1>5 DEF WriteChange
  <2>2. UNCHANGED <<clock, rows, mirror, poll>> /\ run' = [run EXCEPT ![r] = {}]
    BY <1>5 DEF WriteChange
  <2> DEFINE c == [id |-> w.id, at |-> w.now]
  <2>3. c \in Change /\ c.id = w.id /\ c.at = w.now /\ w.id \in Used \ IdsOf(feed)
    BY <2>1 DEF Change
  <2>4. Commits(c)
    BY <2>1, <2>3, Bounds DEF Commits
  <2> HIDE DEF c
  <2>5. Used' = Used /\ IdsOf(feed)' = IdsOf(feed) \cup {w.id}
    BY <2>2, <2>3, <2>4 DEF Used, IdsOf, Commits
  <2>6. feed' \subseteq Change /\ IsFiniteSet(feed')
    BY <2>3, <2>4, FS_AddElement DEF Commits
  <2>7. \A a \in feed' : a.at \in Start .. clock
    BY <2>4 DEF Commits
  <2>8. \A a, b \in feed' : a.id = b.id => a = b
    BY <2>4 DEF Commits, IdsOf
  <2>9. /\ run' \in [Runs -> SUBSET [id : Ids, now : Nat]]
        /\ run'[r] = {} /\ \A q \in Runs \ {r} : run'[q] = run[q]
    BY <2>2
  <2>10. \A q \in Runs : \A v \in run'[q] :
            v.now \in Start .. clock /\ v.id \in Used \ IdsOf(feed)'
    BY <2>1, <2>5, <2>9
  <2>11. \A p, q \in Runs : \A u \in run'[p], v \in run'[q] : u.id = v.id => p = q
    BY <2>9
  <2> QED BY <2>2, <2>3, <2>4, <2>5, <2>6, <2>7, <2>8, <2>9, <2>10, <2>11
<1> QED
  <2>1. CASE JobStep
    BY <2>1, <1>2, <1>3, <1>4, <1>5, Bounds DEF JobStep, Tick
  <2> QED BY <2>1, <1>1, WhoSteps, Bounds DEF vars, service

-----------------------------------------------------------------------------
(* The export.                                                             *)

Jobs == [pc : {"idle", "export", "rows", "feed", "commit"}, latest : SUBSET Change,
         known : SUBSET Ids, todo : Seq(SectionSet), files : SUBSET Ids, since : Nat,
         cursor : SUBSET Change, window : SUBSET Change, floor : SUBSET Ids]

Repos == [seeded : BOOLEAN, latest : SUBSET Change, highWater : Nat,
          listed : SUBSET Change, files : SUBSET Ids, known : SUBSET Ids,
          floor : SUBSET Ids]

(* What a mirror run works from: what the repo has seen is in the past, and *)
(* the pages it has are rows of the feed from since on.                     *)
MirrorInv ==
    /\ job \in Jobs /\ repo \in Repos
    /\ repo.highWater = 0 \/ repo.highWater \in Start .. clock
    /\ job.latest \subseteq feed /\ job.window \subseteq feed /\ repo.listed \subseteq feed
    /\ job.floor \subseteq IdsOf(feed)
    /\ job.cursor = {} \/ \E b \in job.window : job.cursor = {b}
    /\ job.pc \in {"idle", "export", "rows"} => job.window = {}
    /\ job.pc = "feed" /\ job.cursor = {} => job.window = {}
    /\ \A c \in job.window : c.at >= job.since
    /\ job.pc \in {"feed", "commit"} /\ repo.highWater > 0 =>
            job.since = repo.highWater - Lookback
    /\ repo.highWater > 0 => repo.seeded
    /\ Cardinality(job.latest) <= 1

(* The empty locals have their types. *)
LEMMA NoJobIs ==
    /\ NoJob \in Jobs /\ NoJob.pc = "idle" /\ NoJob.window = {} /\ NoJob.cursor = {}
    /\ NoJob.floor = {} /\ NoJob.known = {} /\ NoJob.latest = {}
  BY DEF NoJob, Jobs

(* The newest stamp the repo has seen, after a run. *)
LEMMA HighWaterIs ==
    ASSUME ServiceInv, MirrorInv
    PROVE  /\ HighWater \in Nat /\ repo.highWater <= HighWater
           /\ \A c \in job.window : c.at <= HighWater
           /\ HighWater = repo.highWater \/ \E c \in job.window : c.at = HighWater
           /\ HighWater = 0 \/ HighWater \in Start .. clock
<1>1. job.window \subseteq Change /\ clock \in Nat /\ \A c \in job.window : c.at <= clock
  BY Bounds DEF ServiceInv, MirrorInv
<1>2. /\ NewestAt(job.window) \in 0 .. clock
      /\ \A c \in job.window : c.at <= NewestAt(job.window)
      /\ NewestAt(job.window) = 0 \/ \E c \in job.window : c.at = NewestAt(job.window)
  BY <1>1, NewestAtIs
<1> DEFINE S == {repo.highWater, NewestAt(job.window)}
<1>3. S \subseteq Nat /\ S # {} /\ \A x \in S : x <= clock
  BY <1>1, <1>2, Bounds DEF MirrorInv, Repos
<1>4. HighWater \in S /\ \A x \in S : x <= HighWater
  <2> HIDE DEF S
  <2>1. Max(S) \in S /\ \A x \in S : x <= Max(S)
    BY <1>1, <1>3, MaxPicks
  <2> QED BY <2>1 DEF HighWater, S
<1> HIDE DEF HighWater
<1>5. HighWater \in Nat /\ repo.highWater <= HighWater /\ NewestAt(job.window) <= HighWater
  BY <1>3, <1>4
<1>6. \A c \in job.window : c.at <= HighWater
  BY <1>1, <1>2, <1>5, ChangeIs
<1>7. HighWater = repo.highWater \/ HighWater = NewestAt(job.window)
  BY <1>4
<1>8. \A c \in job.window : c.at \in Start .. clock
  BY DEF ServiceInv, MirrorInv
<1>9. repo.highWater = 0 \/ repo.highWater \in Start .. clock
  BY DEF MirrorInv
<1>10. HighWater = repo.highWater \/ \E c \in job.window : c.at = HighWater
  <2>1. CASE NewestAt(job.window) = 0
    BY <1>5, <1>7, <1>9, <2>1, Bounds
  <2> QED BY <1>2, <1>7, <2>1
<1>11. HighWater = 0 \/ HighWater \in Start .. clock
  BY <1>8, <1>9, <1>10
<1> QED BY <1>5, <1>6, <1>10, <1>11

(* Where the window starts. *)
LEMMA SinceIs ==
    ASSUME ServiceInv, MirrorInv
    PROVE  /\ Since \in Nat
           /\ repo.highWater > 0 => Since = repo.highWater - Lookback /\ Since > 0
<1>1. CASE repo.highWater = 0
  <2>1. job.latest \subseteq Change /\ clock \in Nat /\ \A c \in job.latest : c.at <= clock
    BY Bounds DEF ServiceInv, MirrorInv
  <2>2. NewestAt(job.latest) \in Nat
    BY <2>1, NewestAtIs
  <2> QED BY <1>1, <2>2 DEF Since
<1>2. CASE repo.highWater \in Start .. clock
  BY <1>2, Bounds DEF Since, ServiceInv
<1> QED BY <1>1, <1>2 DEF MirrorInv

(* The next page: a cursor names its last row, and nothing it leaves out of *)
(* the window is newer than that row.                                       *)
LEMMA PageRead ==
    ASSUME ServiceInv, MirrorInv, job.pc = "feed"
    PROVE  LET C == Matching(job.since, job.cursor) IN
           /\ C \subseteq feed /\ PageOf(C) \subseteq C
           /\ \A c \in C : c.at >= job.since
           /\ NextCursor(C) = {} => PageOf(C) = C
           /\ NextCursor(C) # {} =>
                \E b \in PageOf(C) : /\ NextCursor(C) = {b}
                                     /\ \A c \in C \ PageOf(C) : After(b, c)
<1> DEFINE C == Matching(job.since, job.cursor)
<1>1. C \subseteq feed /\ \A c \in C : c.at >= job.since
  BY DEF Matching
<1>2. C \subseteq Change /\ IsFiniteSet(C)
  BY <1>1, FS_Subset DEF ServiceInv
<1> HIDE DEF C
<1>3. /\ PageOf(C) \subseteq C
      /\ NextCursor(C) = {} => PageOf(C) = C
      /\ NextCursor(C) # {} =>
            \E b \in PageOf(C) : /\ NextCursor(C) = {b}
                                 /\ \A c \in C \ PageOf(C) : After(b, c)
  BY <1>2, PageIs
<1> QED BY <1>1, <1>3 DEF C

(* The jobs and the held request leave the mirror's locals right. *)
LEMMA MirrorWaits ==
    ASSUME ServiceInv, MirrorInv, [ReadersNext]_vars, UNCHANGED mirror
    PROVE  MirrorInv'
<1>1. job' = job /\ repo' = repo
  BY DEF mirror
<1>2. feed \subseteq feed' /\ clock <= clock' /\ clock' \in Nat
  BY ServiceInvNext, Bounds DEF Commits, ServiceInv
<1>3. IdsOf(feed) \subseteq IdsOf(feed)'
  BY <1>2 DEF IdsOf
<1>4. Start .. clock \subseteq Start .. clock'
  BY <1>2, Bounds DEF ServiceInv
<1> QED BY <1>1, <1>2, <1>3, <1>4 DEF MirrorInv

(* The mirror's steps keep them. *)
LEMMA MirrorActs ==
    ASSUME ServiceInv, MirrorInv, MirrorStep, UNCHANGED service
    PROVE  MirrorInv'
<1>1. /\ UNCHANGED <<clock, rows, feed, run>> /\ IdsOf(feed)' = IdsOf(feed)
  BY DEF service, IdsOf
<1>2. CASE StartMirror
  <2>1. job' = [NoJob EXCEPT !.pc = "export", !.todo = Sections] /\ repo' = repo
    BY <1>2 DEF StartMirror
  <2>2. /\ job' \in Jobs /\ job'.pc = "export" /\ job'.window = {} /\ job'.cursor = {}
        /\ job'.floor = {} /\ job'.latest = {}
    BY <2>1, Bounds DEF Jobs, NoJob
  <2> QED BY <1>1, <2>1, <2>2, FS_EmptySet DEF MirrorInv
<1>3. CASE ReadLatest
  <2>1. Newest(feed) \subseteq feed /\ Cardinality(Newest(feed)) <= 1
    BY NewestIsOne DEF ServiceInv
  <2>2. IdsOf(feed) \subseteq Ids /\ feed \subseteq Change
    BY DEF IdsOf, ServiceInv, Change
  <2> QED BY <1>1, <1>3, <2>1, <2>2 DEF ReadLatest, MirrorInv, Jobs
<1>4. CASE ReadSection
  <2>1. rows[Head(job.todo)] \subseteq Ids /\ Tail(job.todo) \in Seq(SectionSet)
    <3>1. job.todo \in Seq(SectionSet) /\ job.todo # <<>>
      BY <1>4 DEF ReadSection, MirrorInv, Jobs
    <3>2. Head(job.todo) \in SectionSet /\ Tail(job.todo) \in Seq(SectionSet)
      BY <3>1
    <3> QED BY <3>2 DEF ServiceInv
  <2> QED BY <1>1, <1>4, <2>1 DEF ReadSection, MirrorInv, Jobs
<1>5. CASE StartFeed
  <2>1. IdsOf(feed) \subseteq Ids
    BY DEF IdsOf, ServiceInv, Change
  <2>2. /\ job' = [job EXCEPT !.pc = IF Since = 0 THEN "commit" ELSE "feed",
                          !.since = Since, !.floor = IdsOf(feed)]
        /\ repo' = repo /\ job.pc = "rows"
    BY <1>5 DEF StartFeed
  <2>3. Since \in Nat /\ (repo.highWater > 0 => Since = repo.highWater - Lookback)
    BY SinceIs
  <2> HIDE DEF Since
  <2>4. job' \in Jobs
    BY <2>1, <2>2, <2>3 DEF MirrorInv, Jobs
  <2>5. /\ job'.window = {} /\ job'.cursor = {} /\ job'.since = Since
        /\ job'.pc \in {"feed", "commit"} /\ job'.floor = IdsOf(feed)
        /\ job'.latest = job.latest
    BY <2>2 DEF MirrorInv, Jobs
  <2> QED BY <1>1, <2>2, <2>3, <2>4, <2>5 DEF MirrorInv
<1>6. CASE ReadPage
  <2> DEFINE C == Matching(job.since, job.cursor)
  <2>1. /\ job.pc = "feed" /\ repo' = repo
        /\ job' = [job EXCEPT !.window = @ \cup PageOf(C),
                           !.cursor = NextCursor(C),
                           !.pc = IF NextCursor(C) = {} THEN "commit" ELSE "feed"]
    BY <1>6 DEF ReadPage
  <2>2. /\ C \subseteq feed /\ PageOf(C) \subseteq C /\ \A c \in C : c.at >= job.since
        /\ NextCursor(C) # {} => \E b \in PageOf(C) : NextCursor(C) = {b}
    BY <2>1, PageRead
  <2> HIDE DEF C
  <2>3. /\ job'.window = job.window \cup PageOf(C) /\ job'.cursor = NextCursor(C)
        /\ job'.since = job.since /\ job'.floor = job.floor /\ job'.latest = job.latest
        /\ job'.pc = IF NextCursor(C) = {} THEN "commit" ELSE "feed"
    BY <2>1 DEF MirrorInv, Jobs
  <2>4. job' \in Jobs
    <3>1. NextCursor(C) \subseteq Change /\ job.window \cup PageOf(C) \subseteq Change
      BY <2>2 DEF MirrorInv, Jobs, ServiceInv
    <3> QED BY <2>1, <3>1 DEF MirrorInv, Jobs
  <2> QED BY <1>1, <2>1, <2>2, <2>3, <2>4 DEF MirrorInv
<1>7. CASE CommitMirror
  <2>1. /\ HighWater \in Nat /\ repo.highWater <= HighWater
        /\ HighWater = 0 \/ HighWater \in Start .. clock
    BY HighWaterIs
  <2>2. Keep \subseteq feed
    BY DEF Keep, Listed, MirrorInv
  <2>3. job' = NoJob /\ repo' \in Repos /\ repo'.highWater = HighWater /\ repo'.listed = Keep
        /\ repo'.seeded = TRUE
    BY <1>7, <2>1, <2>2 DEF CommitMirror, Repos, MirrorInv, Jobs, ServiceInv
  <2> HIDE DEF HighWater
  <2> QED BY <1>1, <2>1, <2>2, <2>3, NoJobIs, FS_EmptySet DEF MirrorInv
<1>8. CASE FailMirror
  BY <1>1, <1>8, NoJobIs, FS_EmptySet DEF FailMirror, MirrorInv
<1> QED BY <1>2, <1>3, <1>4, <1>5, <1>6, <1>7, <1>8 DEF MirrorStep

(* At first nothing is mirrored. *)
LEMMA MirrorInvInit == ReadersInit => MirrorInv
  BY NoJobIs, FS_EmptySet DEF ReadersInit, MirrorInv, Repos, IdsOf

(* Every step keeps them. *)
LEMMA MirrorInvNext ==
    ASSUME ServiceInv, MirrorInv, [ReadersNext]_vars
    PROVE  MirrorInv'
<1>1. UNCHANGED mirror \/ (MirrorStep /\ UNCHANGED <<service, poll>>)
  BY WhoSteps DEF vars, mirror
<1> QED BY <1>1, MirrorWaits, MirrorActs

(* Between latestChange and the last section, what is known to be committed *)
(* is in the files or in a section still to be read.                        *)
CoverInv ==
    /\ job.pc = "export" => job.todo = Sections
    /\ job.pc = "rows" =>
            \A id \in job.known :
                id \in job.files \/ \E i \in DOMAIN job.todo : id \in rows[job.todo[i]]
    /\ job.pc \in {"feed", "commit"} => job.known \subseteq job.files
    /\ ExportCovers

(* Rows come before changes, and a section read has what was in it before. *)
LEMMA CoverInvNext ==
    ASSUME ServiceInv, MirrorInv, CoverInv, [ReadersNext]_vars
    PROVE  CoverInv'
<1> USE DEF CoverInv, ExportCovers
<1>1. job \in Jobs /\ job.todo \in Seq(SectionSet)
  BY DEF MirrorInv, Jobs
<1>2. CASE UNCHANGED mirror
  <2>1. \A i \in DOMAIN job.todo : job.todo[i] \in SectionSet
    BY <1>1
  <2>2. \A s \in SectionSet : rows[s] \subseteq rows'[s]
    BY ServiceInvNext
  <2> QED BY <1>2, <2>1, <2>2 DEF mirror
<1>3. ASSUME MirrorStep, UNCHANGED <<service, poll>> PROVE CoverInv'
  <2>1. rows' = rows
    BY <1>3 DEF service
  <2>2. CASE StartMirror
    BY <2>2 DEF StartMirror, NoJob
  <2>3. CASE ReadLatest
    <3>1. /\ job' = [job EXCEPT !.pc = "rows", !.latest = Newest(feed), !.known = IdsOf(feed)]
          /\ job.todo = Sections /\ repo' = repo
      BY <2>3 DEF ReadLatest
    <3>2. job'.todo = Sections /\ job'.known = IdsOf(feed) /\ job'.pc = "rows"
      BY <1>1, <3>1 DEF Jobs
    <3>3. \A id \in IdsOf(feed) : \E i \in DOMAIN Sections : id \in rows[Sections[i]]
      BY DEF ServiceInv, Used, SectionSet
    <3> QED BY <2>1, <3>1, <3>2, <3>3
  <2>4. CASE ReadSection
    <3>1. /\ job' = [job EXCEPT !.todo = Tail(@), !.files = @ \cup rows[Head(job.todo)]]
          /\ job.todo # <<>> /\ repo' = repo /\ job.pc = "rows"
      BY <2>4 DEF ReadSection
    <3>2. /\ job'.pc = "rows" /\ job'.known = job.known /\ job'.todo = Tail(job.todo)
          /\ job'.files = job.files \cup rows[Head(job.todo)]
      BY <1>1, <3>1 DEF Jobs
    <3>3. ASSUME NEW i \in DOMAIN job.todo
          PROVE  \/ job.todo[i] = Head(job.todo)
                 \/ \E j \in DOMAIN Tail(job.todo) : Tail(job.todo)[j] = job.todo[i]
      <4>1. CASE i = 1
        BY <1>1, <3>1, <4>1
      <4>2. CASE i # 1
        <5>1. i - 1 \in DOMAIN Tail(job.todo) /\ Tail(job.todo)[i - 1] = job.todo[i]
          BY <1>1, <3>1, <3>3, <4>2
        <5> QED BY <5>1
      <4> QED BY <4>1, <4>2
    <3> QED BY <2>1, <3>1, <3>2, <3>3
  <2>5. CASE StartFeed
    <3>1. DOMAIN job.todo = {}
      BY <2>5 DEF StartFeed
    <3>2. /\ job.pc = "rows" /\ repo' = repo /\ job'.pc \in {"feed", "commit"}
          /\ job'.known = job.known /\ job'.files = job.files
      BY <1>1, <2>5 DEF StartFeed, Jobs
    <3> QED BY <3>1, <3>2
  <2>6. CASE ReadPage
    BY <1>1, <2>6 DEF ReadPage, Jobs
  <2>7. CASE CommitMirror
    BY <2>7 DEF CommitMirror, NoJob
  <2>8. CASE FailMirror
    BY <2>8 DEF FailMirror, NoJob
  <2> QED BY <1>3, <2>2, <2>3, <2>4, <2>5, <2>6, <2>7, <2>8 DEF MirrorStep
<1> QED BY <1>2, <1>3, WhoSteps DEF vars, mirror

(* Every change committed when the export read latestChange is in the files *)
(* of the commit that follows.                                              *)
THEOREM FilesCoverFeed == ReadersSpec => []ExportCovers
<1>1. ReadersInit => ServiceInv /\ MirrorInv /\ CoverInv
  <2>1. ReadersInit => CoverInv
    BY DEF ReadersInit, CoverInv, ExportCovers, NoJob
  <2> QED BY <2>1, ServiceInvInit, MirrorInvInit
<1>2. ServiceInv /\ MirrorInv /\ CoverInv /\ [ReadersNext]_vars
            => (ServiceInv /\ MirrorInv /\ CoverInv)'
  BY ServiceInvNext, MirrorInvNext, CoverInvNext
<1>3. CoverInv => ExportCovers
  BY DEF CoverInv
<1> QED BY <1>1, <1>2, <1>3, PTL DEF ReadersSpec

-----------------------------------------------------------------------------
(* The messages.                                                           *)

Told(c) == c.id \in named \cup silent

(* What the repo remembers: whatever lies behind every window to come has   *)
(* been told, and what was named is remembered while a window reaches it.   *)
ListInv ==
    /\ named \subseteq IdsOf(feed)
    /\ \A c \in repo.listed : Told(c)
    /\ repo.highWater > 0 =>
            \A c \in feed : c.at + Lookback < repo.highWater => Told(c)
    /\ \A c \in feed :
            c.id \in named => c \in repo.listed \/ c.at + Lookback < repo.highWater
    /\ EveryChangeListed

(* A row the pages to come will hold.                                      *)
Ahead(c) == job.pc = "feed" /\ \A b \in job.cursor : After(b, c)

(* While the feed is read, a row it has is in the window, too old for it,   *)
(* still to come, or was committed behind the page being read; and then no  *)
(* page has a row so new that the next window starts after it.              *)
ScanInv ==
    (job.pc \in {"feed", "commit"} /\ repo.highWater > 0) =>
        /\ \A c \in feed : \/ c \in job.window \/ c.at < job.since \/ Ahead(c)
                           \/ \A d \in job.window : d.at <= c.at + Lookback
        /\ \A c \in feed : c.id \in job.floor =>
                c \in job.window \/ c.at < job.since \/ Ahead(c)

(* A job's commit is no older than Lookback, so it is in reach of the next  *)
(* window, wherever the pages are.                                          *)
LEMMA ListsWait ==
    ASSUME ServiceInv, MirrorInv, ListInv, ScanInv, [ReadersNext]_vars, UNCHANGED mirror
    PROVE  ListInv' /\ ScanInv'
<1>1. job' = job /\ repo' = repo /\ named' = named /\ silent' = silent
  BY DEF mirror
<1>2. CASE feed' = feed
  BY <1>1, <1>2 DEF ListInv, ScanInv, Told, Ahead, EveryChangeListed, IdsOf
<1>3. ASSUME NEW c \in Change, Commits(c) PROVE ListInv' /\ ScanInv'
  <2>1. /\ feed' = feed \cup {c} /\ c.id \notin IdsOf(feed)
        /\ c.at \in Nat /\ clock \in Nat /\ clock <= c.at + Lookback /\ Lookback \in Nat
    BY <1>3, Bounds DEF Commits, ServiceInv
  <2>2. repo.highWater <= clock /\ \A d \in job.window : d.at <= c.at + Lookback
    <3>1. \A d \in job.window : d.at \in Start .. clock
      BY DEF MirrorInv, ServiceInv
    <3> QED BY <2>1, <3>1, Bounds DEF MirrorInv
  <2>3. IdsOf(feed)' = IdsOf(feed) \cup {c.id}
    BY <2>1 DEF IdsOf
  <2>4. ~ (c.at + Lookback < repo.highWater) /\ repo.highWater \in Nat
    BY <2>1, <2>2 DEF MirrorInv, Repos
  <2>5. c.id \notin job.floor /\ c.id \notin named
    BY <2>1 DEF MirrorInv, ListInv
  <2>6. ListInv'
    BY <1>1, <2>1, <2>3, <2>4, <2>5 DEF ListInv, Told, EveryChangeListed
  <2>7. ScanInv'
    BY <1>1, <2>1, <2>2, <2>5 DEF ScanInv, Ahead
  <2> QED BY <2>6, <2>7
<1> QED BY <1>2, <1>3, ServiceInvNext

(* A page takes the newest of the rows still to come. *)
LEMMA ScanGoesOn ==
    ASSUME ServiceInv, MirrorInv, ScanInv, ReadPage, UNCHANGED service
    PROVE  ScanInv'
<1> DEFINE C == Matching(job.since, job.cursor)
<1>1. /\ job.pc = "feed" /\ repo' = repo
      /\ job' = [job EXCEPT !.window = @ \cup PageOf(C),
                         !.cursor = NextCursor(C),
                         !.pc = IF NextCursor(C) = {} THEN "commit" ELSE "feed"]
  BY DEF ReadPage
<1>2. /\ C \subseteq feed /\ PageOf(C) \subseteq C
      /\ NextCursor(C) = {} => PageOf(C) = C
      /\ NextCursor(C) # {} =>
            \E b \in PageOf(C) : /\ NextCursor(C) = {b}
                                 /\ \A c \in C \ PageOf(C) : After(b, c)
  BY <1>1, PageRead
<1>3. C = {c \in feed : c.at >= job.since /\ \A b \in job.cursor : After(b, c)}
  BY DEF Matching
<1> HIDE DEF C
<1>4. /\ job'.window = job.window \cup PageOf(C) /\ job'.cursor = NextCursor(C)
      /\ job'.since = job.since /\ job'.floor = job.floor
      /\ job'.pc = IF NextCursor(C) = {} THEN "commit" ELSE "feed"
  BY <1>1 DEF MirrorInv, Jobs
<1>5. feed' = feed
  BY DEF service
<1>6. ASSUME NEW c \in feed, Ahead(c)
      PROVE  c \in job'.window \/ c.at < job'.since \/ Ahead(c)'
  <2>1. c.at \in Nat /\ job.since \in Nat
    BY ChangeIs DEF ServiceInv, MirrorInv, Jobs
  <2>2. CASE c.at >= job.since
    <3>1. c \in C
      BY <1>3, <1>6, <2>2 DEF Ahead
    <3> QED BY <1>2, <1>4, <3>1 DEF Ahead
  <2> QED BY <1>4, <2>1, <2>2
<1>7. ASSUME NEW c \in feed, \A d \in job.window : d.at <= c.at + Lookback
      PROVE  \/ c \in job'.window \/ c.at < job'.since \/ Ahead(c)'
             \/ \A d \in job'.window : d.at <= c.at + Lookback
  <2>1. CASE job.cursor = {}
    BY <1>1, <1>6, <2>1 DEF Ahead
  <2>2. ASSUME NEW b \in job.window, job.cursor = {b}
        PROVE  \A d \in job'.window : d.at <= c.at + Lookback
    <3>1. \A d \in PageOf(C) : After(b, d)
      BY <1>2, <1>3, <2>2
    <3>2. c \in Change /\ b \in Change /\ PageOf(C) \subseteq Change
      BY <1>2, <2>2 DEF ServiceInv, MirrorInv
    <3>3. \A d \in PageOf(C) : d.at <= b.at
      BY <3>1, <3>2, ChangeIs DEF After
    <3>4. b.at <= c.at + Lookback
      BY <1>7, <2>2
    <3>5. \A d \in PageOf(C) : d.at <= c.at + Lookback
      BY <3>2, <3>3, <3>4, ChangeIs, Bounds
    <3> QED BY <1>4, <1>7, <3>5
  <2> QED BY <2>1, <2>2 DEF MirrorInv
<1>8. ASSUME repo.highWater > 0, NEW c \in feed
      PROVE  /\ \/ c \in job'.window \/ c.at < job'.since \/ Ahead(c)'
                \/ \A d \in job'.window : d.at <= c.at + Lookback
             /\ c.id \in job'.floor =>
                    c \in job'.window \/ c.at < job'.since \/ Ahead(c)'
  <2>1. /\ \/ c \in job.window \/ c.at < job.since \/ Ahead(c)
           \/ \A d \in job.window : d.at <= c.at + Lookback
        /\ c.id \in job.floor => c \in job.window \/ c.at < job.since \/ Ahead(c)
    BY <1>1, <1>8 DEF ScanInv
  <2> QED BY <1>4, <1>6, <1>7, <2>1
<1> QED BY <1>1, <1>5, <1>8 DEF ScanInv

(* A commit tells what the window held, and what it forgets lies behind     *)
(* every window to come.                                                    *)
LEMMA CommitTells ==
    ASSUME ServiceInv, MirrorInv, ListInv, ScanInv, CommitMirror, UNCHANGED service
    PROVE  ListInv'
<1> DEFINE hw == repo.highWater
<1>1. /\ repo' = [seeded |-> TRUE, latest |-> job.latest, highWater |-> HighWater,
                listed |-> Keep, files |-> job.files, known |-> job.known,
                floor |-> IF hw = 0 THEN {} ELSE job.floor]
      /\ named' = IF repo.seeded THEN named \cup IdsOf(Listed) ELSE named
      /\ silent' = IF hw > 0 THEN silent
                 ELSE silent \cup {c.id : c \in Passed}
                             \cup IF repo.seeded THEN {} ELSE job.known \cup IdsOf(job.window)
      /\ job.pc = "commit" /\ feed' = feed
  BY DEF CommitMirror, service
<1>2. /\ repo'.highWater = HighWater /\ repo'.listed = Keep
      /\ repo'.floor = IF hw = 0 THEN {} ELSE job.floor
  BY <1>1
<1>3. /\ HighWater \in Nat /\ hw \in Nat /\ hw <= HighWater /\ Lookback \in Nat
      /\ HighWater = hw \/ \E d \in job.window : d.at = HighWater
  BY HighWaterIs, Bounds DEF MirrorInv, Repos
<1>4. /\ hw > 0 => repo.seeded /\ job.since = hw - Lookback
      /\ job.window \subseteq feed /\ repo.listed \subseteq feed
      /\ \A c \in feed : c.at \in Nat
  BY <1>1, ChangeIs DEF MirrorInv, ServiceInv
<1>5. Listed = job.window \ repo.listed
  BY DEF Listed
<1>6. /\ \A c \in repo.listed \cup Listed : c.at >= HighWater - Lookback => c \in Keep
      /\ Keep \subseteq repo.listed \cup Listed
  BY DEF Keep
<1>7. Passed = {c \in feed : c.at + Lookback < HighWater}
  BY DEF Passed
<1> HIDE DEF HighWater, Listed, Keep, Passed
<1>8. named \subseteq named' /\ silent \subseteq silent'
  BY <1>1
<1>9. \A c \in Listed : c.id \in named' \cup silent'
  <2>1. CASE repo.seeded
    BY <1>1, <2>1 DEF IdsOf
  <2>2. CASE ~ repo.seeded
    <3>1. ~ (hw > 0)
      BY <1>4, <2>2
    <3> QED BY <1>1, <1>5, <2>2, <3>1 DEF IdsOf
  <2> QED BY <2>1, <2>2
<1>10. \A c \in repo.listed \cup job.window : Told(c)'
  BY <1>5, <1>8, <1>9 DEF ListInv, Told
<1>11. ASSUME NEW c \in feed, c.at + Lookback < HighWater PROVE Told(c)'
  <2>1. CASE hw = 0
    BY <1>1, <1>7, <1>11, <2>1 DEF Told
  <2>2. CASE hw > 0 /\ c.at + Lookback < hw
    BY <1>8, <2>2 DEF ListInv, Told
  <2>3. CASE hw > 0 /\ ~ (c.at + Lookback < hw)
    <3>1. ~ (c.at < job.since) /\ ~ Ahead(c)
      BY <1>1, <1>3, <1>4, <2>3 DEF Ahead
    <3>2. \E d \in job.window : ~ (d.at <= c.at + Lookback)
      BY <1>3, <1>4, <1>11, <2>3
    <3>3. c \in job.window
      BY <1>1, <2>3, <3>1, <3>2 DEF ScanInv
    <3> QED BY <1>10, <3>3
  <2> QED BY <1>3, <2>1, <2>2, <2>3
<1>12. ASSUME NEW c \in feed, c.id \in named'
       PROVE  c \in Keep \/ c.at + Lookback < HighWater
  <2>1. CASE c.id \in named
    BY <1>3, <1>4, <1>6, <2>1 DEF ListInv
  <2>2. CASE c.id \in IdsOf(Listed)
    <3>1. c \in Listed
      BY <1>4, <1>5, <2>2 DEF IdsOf, ServiceInv
    <3> QED BY <1>3, <1>4, <1>6, <3>1
  <2> QED BY <1>1, <1>12, <2>1, <2>2
<1>13. ASSUME NEW id \in repo'.floor PROVE id \in named' \cup silent'
  <2>1. hw > 0 /\ id \in job.floor
    BY <1>2, <1>3, <1>13
  <2>2. PICK c \in feed : c.id = id
    BY <2>1 DEF MirrorInv, IdsOf
  <2>3. c \in job.window \/ c.at < job.since
    BY <1>1, <2>1, <2>2 DEF ScanInv, Ahead
  <2>4. CASE c.at < job.since
    <3>1. c.at + Lookback < hw
      BY <1>3, <1>4, <2>1, <2>4
    <3> QED BY <1>8, <2>1, <2>2, <3>1 DEF ListInv, Told
  <2> QED BY <1>10, <2>2, <2>3, <2>4 DEF Told
<1>14. named' \subseteq IdsOf(feed)'
  BY <1>1, <1>4, <1>5 DEF ListInv, IdsOf
<1>15. \A c \in repo'.listed : Told(c)'
  BY <1>2, <1>5, <1>6, <1>10
<1> QED BY <1>1, <1>2, <1>11, <1>12, <1>13, <1>14, <1>15 DEF ListInv, EveryChangeListed

(* Every step of the mirror keeps what the repo and the window have.        *)
LEMMA ListsAct ==
    ASSUME ServiceInv, MirrorInv, ListInv, ScanInv, MirrorStep, UNCHANGED service
    PROVE  ListInv' /\ ScanInv'
<1>1. feed' = feed
  BY DEF service
<1>2. CASE ReadPage
  <2>1. UNCHANGED <<repo, named, silent>>
    BY <1>2 DEF ReadPage
  <2>2. ListInv'
    BY <1>1, <2>1 DEF ListInv, Told, EveryChangeListed, IdsOf
  <2> QED BY <1>2, <2>2, ScanGoesOn
<1>3. CASE CommitMirror
  <2>1. job'.pc = "idle"
    BY <1>3 DEF CommitMirror, NoJob
  <2> QED BY <1>3, <2>1, CommitTells DEF ScanInv
<1>4. CASE StartFeed
  <2>1. /\ UNCHANGED <<repo, named, silent>>
        /\ job' = [job EXCEPT !.pc = IF Since = 0 THEN "commit" ELSE "feed",
                          !.since = Since, !.floor = IdsOf(feed)]
    BY <1>4 DEF StartFeed
  <2>2. repo.highWater > 0 => Since # 0
    BY SinceIs
  <2>3. job.window = {} /\ job.cursor = {}
    BY <1>4 DEF StartFeed, MirrorInv
  <2> HIDE DEF Since
  <2>4. job'.cursor = {} /\ (repo.highWater > 0 => job'.pc = "feed")
    BY <2>1, <2>2, <2>3 DEF MirrorInv, Jobs
  <2>5. repo.highWater > 0 => \A c \in feed : Ahead(c)'
    BY <2>4 DEF Ahead
  <2>6. ScanInv'
    BY <1>1, <2>1, <2>5 DEF ScanInv
  <2>7. ListInv'
    BY <1>1, <2>1 DEF ListInv, Told, EveryChangeListed, IdsOf
  <2> QED BY <2>6, <2>7
<1>5. CASE StartMirror \/ ReadLatest \/ ReadSection \/ FailMirror
  <2>1. UNCHANGED <<repo, named, silent>> /\ job'.pc \notin {"feed", "commit"}
    <3>1. job \in Jobs
      BY DEF MirrorInv
    <3>2. CASE FailMirror
      BY <3>2, NoJobIs DEF FailMirror
    <3>5. CASE StartMirror
      <4>1. job' = [NoJob EXCEPT !.pc = "export", !.todo = Sections]
        BY <3>5 DEF StartMirror
      <4>2. job'.pc = "export"
        BY <4>1 DEF NoJob
      <4> QED BY <3>5, <4>2 DEF StartMirror
    <3>3. CASE ReadLatest
      BY <3>1, <3>3 DEF ReadLatest, Jobs
    <3>4. CASE ReadSection
      BY <3>1, <3>4 DEF ReadSection, Jobs
    <3> QED BY <1>5, <3>2, <3>3, <3>4, <3>5
  <2> QED BY <1>1, <2>1 DEF ListInv, ScanInv, Told, EveryChangeListed, IdsOf
<1> QED BY <1>2, <1>3, <1>4, <1>5 DEF MirrorStep

(* All that the messages rest on. *)
LEMMA ListsKept ==
    /\ ReadersInit => ServiceInv /\ MirrorInv /\ ListInv /\ ScanInv
    /\ ServiceInv /\ MirrorInv /\ ListInv /\ ScanInv /\ [ReadersNext]_vars
            => (ServiceInv /\ MirrorInv /\ ListInv /\ ScanInv)'
<1>1. ReadersInit => ListInv /\ ScanInv
  BY DEF ReadersInit, ListInv, ScanInv, EveryChangeListed, IdsOf, NoJob, Told
<1>2. ASSUME ServiceInv, MirrorInv, ListInv, ScanInv, [ReadersNext]_vars
      PROVE  ListInv' /\ ScanInv'
  <2>1. UNCHANGED mirror \/ (MirrorStep /\ UNCHANGED service)
    BY <1>2, WhoSteps DEF vars, mirror
  <2> QED BY <1>2, <2>1, ListsWait, ListsAct
<1> QED BY <1>1, <1>2, ServiceInvInit, MirrorInvInit, ServiceInvNext, MirrorInvNext

(* Whatever the feed had when a run began to read it is listed by that      *)
(* commit or an earlier one, or was taken in by a first run.                *)
THEOREM NothingUnlisted == ReadersSpec => []EveryChangeListed
<1>1. ListInv => EveryChangeListed
  BY DEF ListInv
<1> QED BY <1>1, ListsKept, PTL DEF ReadersSpec

(* No commit lists a change that an earlier one has listed. *)
THEOREM NothingListedTwice == ReadersSpec => ListedOnce
<1> DEFINE New == (job.pc = "commit" /\ repo' # repo /\ repo.seeded) =>
                        IdsOf(job.window \ repo.listed) \cap named = {}
<1>1. ServiceInv /\ MirrorInv /\ ListInv /\ [ReadersNext]_vars => [New]_vars
  <2> SUFFICES ASSUME ServiceInv, MirrorInv, ListInv, job.pc = "commit",
                      NEW c \in job.window \ repo.listed, c.id \in named
               PROVE  FALSE
    BY DEF IdsOf
  <2>1. /\ c \in feed /\ c.at \in Nat /\ c.at >= job.since
        /\ Lookback \in Nat /\ repo.highWater \in Nat
    BY ChangeIs, Bounds DEF MirrorInv, ServiceInv, Repos
  <2>2. c.at + Lookback < repo.highWater
    BY <2>1 DEF ListInv
  <2>3. job.since = repo.highWater - Lookback
    BY <2>1, <2>2 DEF MirrorInv
  <2> QED BY <2>1, <2>2, <2>3
<1> QED BY <1>1, ListsKept, PTL DEF ReadersSpec, ListedOnce

-----------------------------------------------------------------------------
(* The held request.                                                       *)

HoldInv ==
    /\ held \in [pc : {"idle", "hold", "news", "expired"}, baseline : Nat,
                 deadline : Nat, known : SUBSET Change]
    /\ held.known \subseteq feed
    /\ held.pc # "idle" => held.baseline = NewestAt(held.known)

(* The baseline stays the newest stamp of what was there at the start. *)
LEMMA HoldInvNext ==
    ASSUME ServiceInv, HoldInv, [ReadersNext]_vars
    PROVE  HoldInv'
<1>1. feed \subseteq feed'
  BY ServiceInvNext DEF Commits
<1>2. CASE held' = held
  BY <1>1, <1>2 DEF HoldInv
<1>3. CASE StartHold
  <2>1. NewestAt(feed) \in Nat /\ clock + Wait \in Nat
    BY NewestAtIs, Bounds DEF ServiceInv
  <2>2. held' = [pc |-> "hold", baseline |-> NewestAt(feed), deadline |-> clock + Wait,
                 known |-> feed]
    BY <1>3 DEF StartHold
  <2> QED BY <1>1, <2>1, <2>2 DEF HoldInv, ServiceInv
<1>4. CASE AnswerHold
  BY <1>4 DEF AnswerHold, NoHold, HoldInv
<1>5. ASSUME NEW news \in BOOLEAN, Look(news) PROVE HoldInv'
  BY <1>1, <1>5 DEF Look, HoldInv
<1> QED BY <1>2, <1>3, <1>4, <1>5, WhoSteps DEF vars, poll, HoldStep

(* At first nothing is held. *)
LEMMA HoldInvInit == ReadersInit => HoldInv
  BY DEF ReadersInit, HoldInv, NoHold

(* A request held to its end missed only changes of jobs begun no later     *)
(* than the newest change there was when it came.                           *)
THEOREM HoldsMissNoNews == ReadersSpec => HeldPastLateOnly
<1> DEFINE Missed == (held.pc = "hold" /\ held'.pc = "expired") =>
                        \A c \in feed \ held.known : c.at <= NewestAt(held.known)
<1>1. ServiceInv /\ HoldInv /\ [ReadersNext]_vars => [Missed]_vars
  <2> SUFFICES ASSUME ServiceInv, HoldInv, [ReadersNext]_vars,
                      held.pc = "hold", held'.pc = "expired", NEW c \in feed
               PROVE  c.at <= NewestAt(held.known)
    OBVIOUS
  <2>1. Look(FALSE)
    <3>1. HoldStep
      BY WhoSteps DEF vars, poll
    <3>2. ~ StartHold /\ ~ AnswerHold
      BY DEF StartHold, AnswerHold
    <3>3. ~ Look(TRUE)
      BY DEF Look, HoldInv
    <3> QED BY <3>1, <3>2, <3>3 DEF HoldStep
  <2>2. ~ (NewestAt(feed) > NewestAt(held.known))
    BY <2>1 DEF Look, HoldInv
  <2>3. c.at <= NewestAt(feed) /\ NewestAt(feed) \in Nat
    BY NewestAtIs, Bounds DEF ServiceInv
  <2>4. NewestAt(held.known) \in Nat /\ c.at \in Nat
    BY NewestAtIs, ChangeIs, Bounds DEF ServiceInv, HoldInv
  <2> QED BY <2>2, <2>3, <2>4
<1>2. ReadersInit => ServiceInv /\ HoldInv
  BY ServiceInvInit, HoldInvInit
<1>3. ServiceInv /\ HoldInv /\ [ReadersNext]_vars => (ServiceInv /\ HoldInv)'
  BY ServiceInvNext, HoldInvNext
<1> QED BY <1>1, <1>2, <1>3, PTL DEF ReadersSpec, HeldPastLateOnly

(* Feed, rows, the mirror's locals and the held request keep their types:   *)
(* no id is used twice, and no pages or lists hold what the feed has not.   *)
THEOREM ReadersTyped == ReadersSpec => []ReadersTypeOK
<1>1. ASSUME ServiceInv, MirrorInv, HoldInv PROVE ReadersTypeOK
  <2>1. Cardinality(IdsOf(feed)) = Cardinality(feed)
    <3> DEFINE f == [c \in feed |-> c.id]
    <3>1. f \in Bijection(feed, IdsOf(feed))
      BY <1>1 DEF Bijection, Injection, Surjection, IsInjective, ServiceInv, IdsOf
    <3>2. ExistsBijection(feed, IdsOf(feed))
      BY <3>1 DEF ExistsBijection
    <3> QED BY <1>1, <3>2, FS_Bijection DEF ServiceInv
  <2>2. Cardinality(job.cursor) <= 1
    <3>1. CASE job.cursor = {}
      BY <3>1, FS_EmptySet
    <3>2. ASSUME NEW b, job.cursor = {b} PROVE Cardinality(job.cursor) = 1
      BY <3>2, FS_Singleton
    <3> QED BY <1>1, <3>1, <3>2 DEF MirrorInv
  <2>3. clock \in 1 .. MaxTime /\ repo.highWater \in 0 .. clock
    BY <1>1, Bounds DEF ServiceInv, MirrorInv, Repos
  <2>4. held.pc \in {"idle", "hold", "news", "expired"}
    BY <1>1 DEF HoldInv
  <2>5. job.pc \in {"idle", "export", "rows", "feed", "commit"}
    BY <1>1 DEF MirrorInv, Jobs
  <2> QED BY <1>1, <2>1, <2>2, <2>3, <2>4, <2>5 DEF ReadersTypeOK, ServiceInv, MirrorInv
<1>2. ReadersInit => ServiceInv /\ MirrorInv /\ HoldInv
  BY ServiceInvInit, MirrorInvInit, HoldInvInit
<1>3. ServiceInv /\ MirrorInv /\ HoldInv /\ [ReadersNext]_vars
            => (ServiceInv /\ MirrorInv /\ HoldInv)'
  BY ServiceInvNext, MirrorInvNext, HoldInvNext
<1> QED BY <1>1, <1>2, <1>3, PTL DEF ReadersSpec

=============================================================================
