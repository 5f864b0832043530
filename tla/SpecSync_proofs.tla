--------------------------- MODULE SpecSync_proofs --------------------------
(***************************************************************************)
(* Theorems about SpecSync, from SyncAssumption: what the feed tells of an  *)
(* endpoint's birth whatever runs overlap, and, until two do, that the      *)
(* table holds one version of each document, that a completed run leaves    *)
(* what its spec said, and that SpecSync implements SchemaHistory.          *)
(***************************************************************************)
EXTENDS SpecSync, TLAPS

FetchedSpecs == Specs \cup {NoSpec}
PartialHashes == UNION {[D -> Hashes] : D \in SUBSET Docs}
Locals == [pc: Stages, spec: FetchedSpecs, known: SUBSET Endpoints,
           seen: PartialHashes, todo: SUBSET Endpoints, docs: SUBSET Docs,
           drop: SUBSET (Docs \X Hashes), skipped: BOOLEAN]
Event == [type: {"endpoint.added", "endpoint.removed",
                 "schema.added", "schema.updated"},
          kind: Kinds \cup {"none"},
          hash: Hashes \cup {NoHash}, previousHash: Hashes \cup {NoHash}]
VersionTable == [Docs -> [Hashes -> {"absent", "current", "superseded"}]]

TypeInv ==
    /\ endpoints \subseteq Endpoints
    /\ versions \in VersionTable
    /\ feed \in [Endpoints -> Seq(Event)]
    /\ status \in {"active", "degraded"}
    /\ runs \in 0..MaxRuns
    /\ overlapped \in BOOLEAN
    /\ synced \subseteq FetchedSpecs
    /\ sync \in [Syncs -> Locals]
    /\ \A r \in Syncs : sync[r].docs \subseteq DOMAIN sync[r].spec.hash

(* What a run still has to write is about endpoints that have their row.    *)
AboutRows(r) ==
    /\ sync[r].known \subseteq endpoints
    /\ \A d \in sync[r].docs : d[1] \in endpoints
    /\ sync[r].pc = "removed" => sync[r].todo \subseteq endpoints

(* The feed knows nothing of an endpoint without a row.                     *)
BirthInv ==
    /\ AddedExactlyOnce
    /\ \A e \in Endpoints \ endpoints : feed[e] = <<>>
    /\ \A r \in Syncs : AboutRows(r)

-----------------------------------------------------------------------------
(* A run that is by itself.                                                *)

Busy == {r \in Syncs : sync[r].pc # "idle"}

OneCurrent == \A d \in Docs : \A g, h \in CurrentHashes(d) : g = h

SeenHashes(r, d) == IF d \in DOMAIN sync[r].seen THEN {sync[r].seen[d]} ELSE {}

Pending(r, d) == d[1] \in sync[r].todo \/ d \in sync[r].docs

(* In the walk over the spec: what is still to be looked at is as it was    *)
(* read, the rest is as the spec says.                                      *)
WalkInv(r) ==
    sync[r].pc = "endpoints" =>
        /\ sync[r].todo \subseteq sync[r].spec.endpoints
        /\ sync[r].spec.endpoints \ sync[r].todo \subseteq endpoints
        /\ \A d \in sync[r].docs :
            /\ d \in DOMAIN sync[r].spec.hash
            /\ d[1] \notin sync[r].todo
            /\ sync[r].spec.hash[d] \notin SeenHashes(r, d)
        /\ \A d \in DOMAIN sync[r].spec.hash :
            CurrentHashes(d) = IF Pending(r, d) THEN SeenHashes(r, d)
                               ELSE {sync[r].spec.hash[d]}

(* After the walk: the table is as the spec says, and what has gone is told *)
(* or about to be.                                                          *)
RemovedInv(r) ==
    sync[r].pc = "removed" =>
        /\ sync[r].spec.endpoints \subseteq endpoints
        /\ \A d \in DOMAIN sync[r].spec.hash :
                CurrentHashes(d) = {sync[r].spec.hash[d]}
        /\ \A e \in sync[r].known \ sync[r].spec.endpoints :
                HasEvent(e, "endpoint.removed") <=> e \notin sync[r].todo
        /\ sync[r].todo \subseteq sync[r].known \ sync[r].spec.endpoints

(* The run's map of the endpoints lacks none but those of its spec, and it  *)
(* is walking over them only when it is past its withdrawals.               *)
KnownInv(r) ==
    /\ sync[r].pc \in {"current", "endpoints", "removed"} =>
            endpoints \ sync[r].spec.endpoints \subseteq sync[r].known
    /\ sync[r].pc # "endpoints" => sync[r].docs = {}

SoloInv(r) == WalkInv(r) /\ RemovedInv(r) /\ KnownInv(r)

AloneInv ==
    ~ overlapped =>
        /\ \A q, r \in Busy : q = r
        /\ OneCurrent
        /\ \A r \in Busy : SoloInv(r)

-----------------------------------------------------------------------------
(* Types.                                                                  *)

(* What publishing document d writes.                                       *)
Published(r, d) ==
    /\ versions' = [versions EXCEPT ![d] = [h \in Hashes |->
            CASE h = sync[r].spec.hash[d] -> "current"
              [] h = SeenHash(r, d)       -> "superseded"
              [] OTHER                    -> versions[d][h]]]
    /\ feed' = IF d[2] \in Announced
               THEN [feed EXCEPT ![d[1]] = Append(@,
                        SchemaEvent(d[2], sync[r].spec.hash[d], SeenHash(r, d)))]
               ELSE feed
    /\ sync' = [sync EXCEPT ![r].docs = @ \ {d}]

(* Every spec a run may hold has hashes for documents of its own endpoints. *)
LEMMA SpecsAreSpecs ==
    ASSUME NEW spec \in FetchedSpecs
    PROVE  IsSpec(spec)
BY SyncAssumption DEF FetchedSpecs, NoSpec, EmptyMap, IsSpec

(* The locals of a run that has ended.                                      *)
LEMMA NoSyncTyped == NoSync \in Locals
<1>1. EmptyMap \in [{} -> Hashes]
    BY DEF EmptyMap
<1>2. EmptyMap \in PartialHashes
    BY <1>1 DEF PartialHashes
<1> QED BY <1>2 DEF NoSync, Locals, FetchedSpecs, Stages

(* The map a run reads the current versions into.                           *)
LEMMA SeenTyped ==
    ASSUME NEW seen \in [{d \in Docs : CurrentHashes(d) # {}} -> Hashes]
    PROVE  seen \in PartialHashes
BY DEF PartialHashes

(* The documents whose schema differs are documents of the endpoint that    *)
(* the spec states.                                                         *)
LEMMA DifferingTyped ==
    ASSUME TypeInv, NEW r \in Syncs, NEW e
    PROVE  /\ Differing(r, e) \subseteq DOMAIN sync[r].spec.hash
           /\ DOMAIN sync[r].spec.hash \subseteq Docs
<1>1. IsSpec(sync[r].spec)
    BY SpecsAreSpecs DEF TypeInv, Locals
<1> QED BY <1>1 DEF Differing, IsSpec, Docs

(* Events are events.                                                       *)
LEMMA EventsTyped ==
    /\ \A type \in {"endpoint.added", "endpoint.removed"} :
            EndpointEvent(type) \in Event
    /\ \A kind \in Kinds, new \in Hashes, old \in Hashes \cup {NoHash} :
            SchemaEvent(kind, new, old) \in Event
BY DEF EndpointEvent, SchemaEvent, Event

(* One more event about an endpoint.                                        *)
LEMMA FeedGrows ==
    ASSUME TypeInv, NEW e \in Endpoints, NEW x \in Event
    PROVE  [feed EXCEPT ![e] = Append(@, x)] \in [Endpoints -> Seq(Event)]
BY DEF TypeInv

(* A hash a run read, or the absence of one.                                *)
LEMMA SeenHashTyped ==
    ASSUME TypeInv, NEW r \in Syncs, NEW d
    PROVE  /\ SeenHash(r, d) \in Hashes \cup {NoHash}
           /\ SeenHashes(r, d) = IF SeenHash(r, d) = NoHash THEN {} ELSE {SeenHash(r, d)}
<1>1. sync[r].seen \in PartialHashes
    BY DEF TypeInv, Locals
<1>2. PICK D \in SUBSET Docs : sync[r].seen \in [D -> Hashes]
    BY <1>1 DEF PartialHashes
<1> QED BY <1>2, SyncAssumption DEF SeenHash, SeenHashes

(* The initial state has the types.                                         *)
LEMMA TypeInit == SyncInit => TypeInv
<1> SUFFICES ASSUME SyncInit PROVE TypeInv
    OBVIOUS
<1>1. versions \in VersionTable
    BY DEF SyncInit, VersionTable
<1>2. feed \in [Endpoints -> Seq(Event)]
    BY DEF SyncInit
<1>3. sync \in [Syncs -> Locals]
    BY NoSyncTyped DEF SyncInit
<1>4. \A r \in Syncs : sync[r].docs = {}
    BY DEF SyncInit, NoSync
<1>5. runs \in 0..MaxRuns
    BY SyncAssumption DEF SyncInit
<1>6. /\ endpoints = {} /\ synced = {} /\ status = "active" /\ overlapped = FALSE
    BY DEF SyncInit
<1> QED BY <1>1, <1>2, <1>3, <1>4, <1>5, <1>6 DEF TypeInv

(* A step that changes the locals of run r alone, to "locals".              *)
LEMMA LocalsTyped ==
    ASSUME TypeInv, NEW r \in Syncs, NEW locals \in Locals,
           locals.docs \subseteq DOMAIN locals.spec.hash,
           sync' = [sync EXCEPT ![r] = locals]
    PROVE  /\ sync' \in [Syncs -> Locals]
           /\ \A q \in Syncs : sync'[q].docs \subseteq DOMAIN sync'[q].spec.hash
BY DEF TypeInv

(* Only the run that takes the step changes its locals.                     *)
LEMMA TypeStep ==
    ASSUME TypeInv, NEW r \in Syncs, SyncStep(r) \/ Die(r)
    PROVE  TypeInv'
<1> DEFINE SyncTyped == /\ sync \in [Syncs -> Locals]
                        /\ \A q \in Syncs : sync[q].docs \subseteq DOMAIN sync[q].spec.hash
<1> USE DEF TypeInv
<1>0. /\ sync \in [Syncs -> Locals] /\ sync[r] \in Locals
      /\ sync[r].docs \subseteq DOMAIN sync[r].spec.hash
    OBVIOUS
<1>a. ASSUME sync' = [sync EXCEPT ![r] = NoSync] PROVE SyncTyped'
    BY <1>a, NoSyncTyped, LocalsTyped DEF NoSync
<1>1. CASE FetchSpec(r)
    <2>1. PICK spec \in Specs, W \in SUBSET CurrentVersions, skipped \in BOOLEAN :
            sync' = [sync EXCEPT ![r] = [NoSync EXCEPT !.pc = "withdraw",
                        !.spec = spec, !.drop = W, !.skipped = skipped]]
        BY <1>1 DEF FetchSpec
    <2> DEFINE f == [NoSync EXCEPT !.pc = "withdraw", !.spec = spec,
                                   !.drop = W, !.skipped = skipped]
    <2>2. W \subseteq Docs \X Hashes
        BY DEF CurrentVersions
    <2>3. f \in Locals /\ f.docs = {}
        BY <2>2, NoSyncTyped DEF Locals, FetchedSpecs, Stages, NoSync
    <2>4. SyncTyped'
        BY <2>1, <2>3, LocalsTyped
    <2>5. runs' \in 0..MaxRuns /\ overlapped' \in BOOLEAN
        BY <1>1, SyncAssumption DEF FetchSpec
    <2> QED BY <1>1, <2>4, <2>5 DEF FetchSpec, tables
<1>2. CASE WithdrawSlice(r)
    <2>1. PICK slice \in SUBSET sync[r].drop : sync' = [sync EXCEPT ![r].drop = @ \ slice]
        BY <1>2 DEF WithdrawSlice
    <2>2. SyncTyped'
        BY <1>0, <2>1 DEF Locals
    <2>3. versions' \in VersionTable
        BY <1>2 DEF WithdrawSlice, VersionTable
    <2> QED BY <1>2, <2>2, <2>3 DEF WithdrawSlice
<1>3. CASE Skip(r)
    BY <1>a, <1>3 DEF Skip
<1>4. CASE ReadEndpoints(r)
    <2>1. SyncTyped'
        BY <1>0, <1>4 DEF ReadEndpoints, Locals, Stages
    <2> QED BY <1>4, <2>1 DEF ReadEndpoints, tables
<1>5. CASE ReadCurrent(r)
    <2>1. PICK seen \in PartialHashes :
            sync' = [sync EXCEPT ![r].pc = "endpoints", ![r].seen = seen,
                                 ![r].todo = sync[r].spec.endpoints]
        BY <1>5, SeenTyped DEF ReadCurrent
    <2>2. sync[r].spec.endpoints \subseteq Endpoints
        BY <1>0, SpecsAreSpecs DEF Locals, IsSpec
    <2>3. SyncTyped'
        BY <1>0, <2>1, <2>2 DEF Locals, Stages
    <2> QED BY <1>5, <2>3 DEF ReadCurrent, tables
<1>6. CASE KnownEndpoint(r)
    <2>1. PICK e \in sync[r].todo :
            sync' = [sync EXCEPT ![r].todo = @ \ {e}, ![r].docs = Differing(r, e)]
        BY <1>6 DEF KnownEndpoint
    <2>2. SyncTyped'
        BY <1>0, <2>1, DifferingTyped DEF Locals
    <2> QED BY <1>6, <2>2 DEF KnownEndpoint, tables
<1>7. CASE InsertEndpoint(r)
    <2>1. PICK e \in sync[r].todo :
            /\ endpoints' = endpoints \cup {e}
            /\ feed' = [feed EXCEPT ![e] = Append(@, EndpointEvent("endpoint.added"))]
            /\ sync' = [sync EXCEPT ![r].todo = @ \ {e}, ![r].docs = Differing(r, e)]
        BY <1>7 DEF InsertEndpoint
    <2>2. e \in Endpoints
        BY <1>0 DEF Locals
    <2>3. SyncTyped'
        BY <1>0, <2>1, DifferingTyped DEF Locals
    <2>4. feed' \in [Endpoints -> Seq(Event)]
        BY <2>1, <2>2, FeedGrows, EventsTyped
    <2> QED BY <1>7, <2>1, <2>2, <2>3, <2>4 DEF InsertEndpoint
<1>8. CASE InsertConflict(r)
    BY <1>a, <1>8 DEF InsertConflict
<1>9. CASE PublishVersion(r)
    <2>1. PICK d \in sync[r].docs : Published(r, d)
        BY <1>9 DEF PublishVersion, Published
    <2>2. /\ d \in Docs /\ d[1] \in Endpoints /\ d[2] \in Kinds
          /\ sync[r].spec.hash[d] \in Hashes
        BY <1>0, SpecsAreSpecs DEF Locals, IsSpec, Docs
    <2>3. SyncTyped'
        BY <1>0, <2>1 DEF Published, Locals
    <2>4. versions' \in VersionTable
        BY <2>1, <2>2 DEF Published, VersionTable
    <2>5. feed' \in [Endpoints -> Seq(Event)]
        BY <2>1, <2>2, SeenHashTyped, FeedGrows, EventsTyped DEF Published
    <2> QED BY <1>9, <2>3, <2>4, <2>5 DEF PublishVersion
<1>10. CASE ReadRemoved(r)
    <2>1. SyncTyped'
        BY <1>0, <1>10 DEF ReadRemoved, Locals, Stages
    <2> QED BY <1>10, <2>1 DEF ReadRemoved, tables
<1>11. CASE AnnounceRemoved(r)
    <2>1. PICK e \in sync[r].todo :
            /\ feed' = [feed EXCEPT ![e] = Append(@, EndpointEvent("endpoint.removed"))]
            /\ sync' = [sync EXCEPT ![r].todo = @ \ {e}]
        BY <1>11 DEF AnnounceRemoved
    <2>2. e \in Endpoints
        BY <1>0 DEF Locals
    <2>3. SyncTyped'
        BY <1>0, <2>1 DEF Locals
    <2>4. feed' \in [Endpoints -> Seq(Event)]
        BY <2>1, <2>2, FeedGrows, EventsTyped
    <2> QED BY <1>11, <2>3, <2>4 DEF AnnounceRemoved
<1>12. CASE Finish(r)
    <2>1. sync[r].spec \in FetchedSpecs
        BY <1>0 DEF Locals
    <2> QED BY <1>a, <1>12, <2>1 DEF Finish
<1>13. CASE Die(r)
    BY <1>a, <1>13 DEF Die
<1> QED BY <1>1, <1>2, <1>3, <1>4, <1>5, <1>6, <1>7, <1>8, <1>9, <1>10, <1>11,
           <1>12, <1>13 DEF SyncStep

(* TypeInv is kept by every step, and says what SyncTypeOK says.            *)
LEMMA TypeKept == TypeInv /\ [SyncNext]_vars => TypeInv'
<1> SUFFICES ASSUME TypeInv, [SyncNext]_vars PROVE TypeInv'
    OBVIOUS
<1>1. CASE UNCHANGED vars
    BY <1>1 DEF vars, tables, TypeInv
<1> QED BY <1>1, TypeStep DEF SyncNext

LEMMA TypeInvImplies == TypeInv => SyncTypeOK
<1> SUFFICES ASSUME TypeInv PROVE SyncTypeOK
    OBVIOUS
<1>1. ASSUME NEW r \in Syncs
      PROVE  /\ sync[r] \in Locals
             /\ IsSpec(sync[r].spec)
             /\ DOMAIN sync[r].seen \subseteq Docs
    <2>1. sync[r] \in Locals
        BY DEF TypeInv
    <2>2. sync[r].seen \in PartialHashes
        BY <2>1 DEF Locals
    <2> QED BY <2>1, <2>2, SpecsAreSpecs DEF Locals, PartialHashes
<1> QED BY <1>1 DEF TypeInv, SyncTypeOK, Locals, VersionTable

(* The tables, the feed and every run's locals keep their types, however    *)
(* many runs of syncProvider overlap or die.                                *)
THEOREM SyncTyped == SyncSpec => []SyncTypeOK
<1>1. SyncSpec => []TypeInv
    BY TypeInit, TypeKept, PTL DEF SyncSpec
<1> QED BY <1>1, TypeInvImplies, PTL

-----------------------------------------------------------------------------
(* Births.                                                                 *)

Added(e) == {i \in DOMAIN feed[e] : feed[e][i].type = "endpoint.added"}

(* An event of another type leaves the births told as they are.             *)
LEMMA OtherEvents ==
    ASSUME TypeInv, NEW e \in Endpoints, NEW x \in Event, x.type # "endpoint.added",
           feed' = [feed EXCEPT ![e] = Append(@, x)]
    PROVE  \A f \in Endpoints : Added(f)' = Added(f)
<1> SUFFICES ASSUME NEW f \in Endpoints PROVE Added(f)' = Added(f)
    OBVIOUS
<1>1. CASE f # e
    BY <1>1 DEF Added, TypeInv
<1>2. CASE f = e
    <2>1. feed[e] \in Seq(Event) /\ feed'[e] = Append(feed[e], x)
        BY DEF TypeInv
    <2>2. /\ DOMAIN feed'[e] = DOMAIN feed[e] \cup {Len(feed[e]) + 1}
          /\ \A i \in DOMAIN feed[e] : feed'[e][i] = feed[e][i]
          /\ feed'[e][Len(feed[e]) + 1] = x
        BY <2>1
    <2> QED BY <1>2, <2>1, <2>2 DEF Added
<1> QED BY <1>1, <1>2

(* The first event about an endpoint.                                       *)
LEMMA FirstEvent ==
    ASSUME TypeInv, NEW e \in Endpoints, feed[e] = <<>>,
           feed' = [feed EXCEPT ![e] = Append(@, EndpointEvent("endpoint.added"))]
    PROVE  /\ Added(e)' = {1}
           /\ \A f \in Endpoints \ {e} : feed'[f] = feed[f]
<1>1. feed'[e] = <<EndpointEvent("endpoint.added")>>
    BY DEF TypeInv
<1> QED BY <1>1 DEF Added, EndpointEvent, TypeInv

LEMMA BirthInit == SyncInit => BirthInv
BY DEF SyncInit, NoSync, BirthInv, AboutRows, AddedExactlyOnce

(* Steps that write neither endpoints nor feed.                             *)
LEMMA BirthUnwritten ==
    ASSUME TypeInv, BirthInv, UNCHANGED <<endpoints, feed>>,
           \A r \in Syncs : AboutRows(r)'
    PROVE  BirthInv'
BY DEF BirthInv, AddedExactlyOnce

LEMMA BirthStep ==
    ASSUME TypeInv, BirthInv, NEW r \in Syncs, SyncStep(r) \/ Die(r)
    PROVE  BirthInv'
<1>0. sync \in [Syncs -> Locals]
    BY DEF TypeInv
<1>a. ASSUME NEW locals, sync' = [sync EXCEPT ![r] = locals], endpoints \subseteq endpoints',
             locals.known \subseteq endpoints',
             \A d \in locals.docs : d[1] \in endpoints',
             locals.pc = "removed" => locals.todo \subseteq endpoints'
      PROVE  \A q \in Syncs : AboutRows(q)'
    BY <1>0, <1>a DEF BirthInv, AboutRows
<1>b. ASSUME sync' = [sync EXCEPT ![r] = NoSync], UNCHANGED <<endpoints, feed>>
      PROVE  BirthInv'
    <2>1. NoSync.known = {} /\ NoSync.docs = {} /\ NoSync.pc = "idle"
        BY DEF NoSync
    <2>2. \A q \in Syncs : AboutRows(q)'
        BY <1>a, <1>b, <2>1
    <2> QED BY <1>b, <2>2, BirthUnwritten
<1>1. CASE FetchSpec(r)
    <2>1. PICK spec \in Specs, W \in SUBSET CurrentVersions, skipped \in BOOLEAN :
            sync' = [sync EXCEPT ![r] = [NoSync EXCEPT !.pc = "withdraw",
                        !.spec = spec, !.drop = W, !.skipped = skipped]]
        BY <1>1 DEF FetchSpec
    <2>2. \A q \in Syncs : AboutRows(q)'
        BY <1>0, <1>1, <2>1 DEF FetchSpec, tables, NoSync, BirthInv, AboutRows
    <2> QED BY <1>1, <2>2, BirthUnwritten DEF FetchSpec, tables
<1>2. CASE WithdrawSlice(r)
    <2>1. \A q \in Syncs : AboutRows(q)'
        BY <1>0, <1>2 DEF WithdrawSlice, BirthInv, AboutRows, Locals
    <2> QED BY <1>2, <2>1, BirthUnwritten DEF WithdrawSlice
<1>3. CASE Skip(r)
    BY <1>b, <1>3 DEF Skip
<1>4. CASE ReadEndpoints(r)
    <2>1. \A q \in Syncs : AboutRows(q)'
        BY <1>0, <1>4 DEF ReadEndpoints, tables, BirthInv, AboutRows, Locals
    <2> QED BY <1>4, <2>1, BirthUnwritten DEF ReadEndpoints, tables
<1>5. CASE ReadCurrent(r)
    <2>1. PICK seen :
            sync' = [sync EXCEPT ![r].pc = "endpoints", ![r].seen = seen,
                                 ![r].todo = sync[r].spec.endpoints]
        BY <1>5 DEF ReadCurrent
    <2>2. \A q \in Syncs : AboutRows(q)'
        BY <1>0, <1>5, <2>1 DEF ReadCurrent, tables, BirthInv, AboutRows, Locals
    <2> QED BY <1>5, <2>2, BirthUnwritten DEF ReadCurrent, tables
<1>6. CASE KnownEndpoint(r)
    <2>1. PICK e \in sync[r].todo \cap sync[r].known :
            sync' = [sync EXCEPT ![r].todo = @ \ {e}, ![r].docs = Differing(r, e)]
        BY <1>6 DEF KnownEndpoint
    <2>2. e \in endpoints /\ \A d \in Differing(r, e) : d[1] = e
        BY DEF BirthInv, AboutRows, Differing
    <2>3. \A q \in Syncs : AboutRows(q)'
        BY <1>0, <1>6, <2>1, <2>2 DEF KnownEndpoint, tables, BirthInv, AboutRows, Locals
    <2> QED BY <1>6, <2>3, BirthUnwritten DEF KnownEndpoint, tables
<1>7. CASE InsertEndpoint(r)
    <2>1. PICK e \in sync[r].todo \ sync[r].known :
            /\ e \notin endpoints
            /\ endpoints' = endpoints \cup {e}
            /\ feed' = [feed EXCEPT ![e] = Append(@, EndpointEvent("endpoint.added"))]
            /\ sync' = [sync EXCEPT ![r].todo = @ \ {e}, ![r].docs = Differing(r, e)]
        BY <1>7 DEF InsertEndpoint
    <2>2. e \in Endpoints /\ feed[e] = <<>>
        BY <1>0, <2>1 DEF Locals, BirthInv
    <2>3. \A d \in Differing(r, e) : d[1] = e
        BY DEF Differing
    <2>4. \A q \in Syncs : AboutRows(q)'
        BY <1>0, <1>7, <2>1, <2>3 DEF InsertEndpoint, BirthInv, AboutRows, Locals
    <2>5. Added(e)' = {1} /\ \A f \in Endpoints \ {e} : feed'[f] = feed[f]
        BY <2>1, <2>2, FirstEvent
    <2>6. AddedExactlyOnce'
        BY <2>1, <2>5 DEF BirthInv, AddedExactlyOnce, Added
    <2> QED BY <2>1, <2>4, <2>5, <2>6 DEF BirthInv
<1>8. CASE InsertConflict(r)
    BY <1>b, <1>8 DEF InsertConflict
<1>9. CASE PublishVersion(r)
    <2>1. PICK d \in sync[r].docs : Published(r, d)
        BY <1>9 DEF PublishVersion, Published
    <2>2. /\ d[1] \in Endpoints /\ d[2] \in Kinds /\ d[1] \in endpoints
          /\ sync[r].spec.hash[d] \in Hashes
        <3>1. d \in DOMAIN sync[r].spec.hash /\ IsSpec(sync[r].spec)
            BY <1>0, SpecsAreSpecs DEF TypeInv, Locals
        <3> QED BY <3>1 DEF IsSpec, BirthInv, AboutRows, Docs
    <2>3. \A q \in Syncs : AboutRows(q)'
        BY <1>0, <1>9, <2>1 DEF PublishVersion, Published, BirthInv, AboutRows, Locals
    <2> DEFINE x == SchemaEvent(d[2], sync[r].spec.hash[d], SeenHash(r, d))
    <2>4. x \in Event /\ x.type # "endpoint.added"
        BY <2>2, SeenHashTyped, EventsTyped DEF SchemaEvent
    <2>5. \A f \in Endpoints : Added(f)' = Added(f)
        BY <2>1, <2>2, <2>4, OtherEvents DEF Published, Added
    <2>6. \A f \in Endpoints \ endpoints : feed'[f] = feed[f]
        BY <2>1, <2>2 DEF Published, TypeInv
    <2> QED BY <1>9, <2>3, <2>5, <2>6
            DEF PublishVersion, BirthInv, AddedExactlyOnce, Added
<1>10. CASE ReadRemoved(r)
    <2>1. \A q \in Syncs : AboutRows(q)'
        BY <1>0, <1>10 DEF ReadRemoved, tables, BirthInv, AboutRows, Locals
    <2> QED BY <1>10, <2>1, BirthUnwritten DEF ReadRemoved, tables
<1>11. CASE AnnounceRemoved(r)
    <2>1. PICK e \in sync[r].todo :
            /\ feed' = [feed EXCEPT ![e] = Append(@, EndpointEvent("endpoint.removed"))]
            /\ sync' = [sync EXCEPT ![r].todo = @ \ {e}]
        BY <1>11 DEF AnnounceRemoved
    <2>2. e \in Endpoints /\ e \in endpoints
        BY <1>0, <1>11 DEF AnnounceRemoved, Locals, BirthInv, AboutRows
    <2>3. \A q \in Syncs : AboutRows(q)'
        BY <1>0, <1>11, <2>1 DEF AnnounceRemoved, BirthInv, AboutRows, Locals
    <2>4. \A f \in Endpoints : Added(f)' = Added(f)
        BY <2>1, <2>2, OtherEvents, EventsTyped DEF EndpointEvent
    <2>5. \A f \in Endpoints \ endpoints : feed'[f] = feed[f]
        BY <2>1, <2>2 DEF TypeInv
    <2> QED BY <1>11, <2>3, <2>4, <2>5
            DEF AnnounceRemoved, BirthInv, AddedExactlyOnce, Added
<1>12. CASE Finish(r)
    BY <1>b, <1>12 DEF Finish
<1>13. CASE Die(r)
    BY <1>b, <1>13 DEF Die
<1> QED BY <1>1, <1>2, <1>3, <1>4, <1>5, <1>6, <1>7, <1>8, <1>9, <1>10, <1>11,
           <1>12, <1>13 DEF SyncStep

LEMMA BirthKept == TypeInv /\ BirthInv /\ [SyncNext]_vars => BirthInv'
<1> SUFFICES ASSUME TypeInv, BirthInv, [SyncNext]_vars PROVE BirthInv'
    OBVIOUS
<1>1. CASE UNCHANGED vars
    BY <1>1 DEF vars, tables, BirthInv, AddedExactlyOnce, AboutRows
<1> QED BY <1>1, BirthStep DEF SyncNext

(* Each row's endpoint.added is told once and before anything else about    *)
(* it, also when any number of runs race to insert it.                      *)
THEOREM BirthsToldOnce == SyncSpec => []AddedExactlyOnce
<1>1. BirthInv => AddedExactlyOnce
    BY DEF BirthInv
<1> QED BY <1>1, TypeInit, TypeKept, BirthInit, BirthKept, PTL DEF SyncSpec

-----------------------------------------------------------------------------
(* Runs that do not overlap.                                               *)

LEMMA AloneInit == SyncInit => AloneInv /\ SyncedMatchesSpec
BY DEF SyncInit, NoSync, AloneInv, Busy, OneCurrent, SyncedMatchesSpec, CurrentHashes

(* What a step of the only run r has to show.                               *)
LEMMA OnlyRun ==
    ASSUME TypeInv, NEW r \in Syncs, Busy \subseteq {r},
           NEW locals, sync' = [sync EXCEPT ![r] = locals],
           OneCurrent', locals.pc # "idle" => SoloInv(r)'
    PROVE  AloneInv'
<1>1. sync \in [Syncs -> Locals]
    BY DEF TypeInv
<1>2. Busy' \subseteq {r} /\ (r \in Busy' => locals.pc # "idle")
    BY <1>1 DEF Busy
<1> QED BY <1>2 DEF AloneInv

(* Steps that leave the tables as they are.                                 *)
LEMMA TablesStay ==
    ASSUME TypeInv, UNCHANGED tables
    PROVE  /\ OneCurrent' <=> OneCurrent
           /\ \A d : CurrentHashes(d)' = CurrentHashes(d)
           /\ \A e, type : HasEvent(e, type)' <=> HasEvent(e, type)
BY DEF tables, OneCurrent, CurrentHashes, HasEvent

LEMMA SyncedStays ==
    ASSUME TypeInv, SyncedMatchesSpec, UNCHANGED <<tables, synced>>, ~ overlapped
    PROVE  SyncedMatchesSpec'
BY TablesStay DEF tables, SyncedMatchesSpec, OneCurrent

(* Nothing is claimed of the table after a write that leaves one current    *)
(* version of each document.                                                *)
LEMMA SyncedForgotten ==
    ASSUME OneCurrent', synced' = {}
    PROVE  SyncedMatchesSpec'
BY DEF SyncedMatchesSpec, OneCurrent

(* The next endpoint of the spec: its row is there, the documents that       *)
(* differ are its to publish, the others are as the spec says already.       *)
LEMMA NextEndpoint ==
    ASSUME TypeInv, NEW r \in Syncs, SoloInv(r), sync[r].pc = "endpoints",
           sync[r].docs = {}, NEW e \in sync[r].todo,
           sync' = [sync EXCEPT ![r].todo = @ \ {e}, ![r].docs = Differing(r, e)],
           endpoints' = endpoints \cup {e}, UNCHANGED versions
    PROVE  SoloInv(r)'
<1>0. /\ sync[r] \in Locals /\ IsSpec(sync[r].spec) /\ e \in sync[r].spec.endpoints
      /\ sync \in [Syncs -> Locals]
    BY SpecsAreSpecs DEF TypeInv, Locals, SoloInv, WalkInv
<1>1. /\ sync'[r].pc = "endpoints" /\ sync'[r].docs = Differing(r, e)
      /\ sync'[r].spec = sync[r].spec /\ sync'[r].known = sync[r].known
      /\ sync'[r].seen = sync[r].seen /\ sync'[r].todo = sync[r].todo \ {e}
    BY <1>0 DEF Locals
<1>2. \A d : SeenHashes(r, d)' = SeenHashes(r, d) /\ CurrentHashes(d)' = CurrentHashes(d)
    BY <1>1 DEF SeenHashes, CurrentHashes
<1>3. \A d \in Differing(r, e) :
        /\ d \in DOMAIN sync[r].spec.hash
        /\ d[1] = e
        /\ sync[r].spec.hash[d] \notin SeenHashes(r, d)
    BY DEF Differing, SeenHashes
<1>4. ASSUME NEW d \in DOMAIN sync[r].spec.hash
      PROVE  CurrentHashes(d)' = IF Pending(r, d)' THEN SeenHashes(r, d)'
                                 ELSE {sync[r].spec.hash[d]}
    <2>1. CASE d[1] # e
        BY <1>1, <1>2, <1>3, <2>1 DEF Pending, SoloInv, WalkInv
    <2>2. CASE d[1] = e
        <3>1. Pending(r, d) /\ CurrentHashes(d) = SeenHashes(r, d)
            BY <2>2 DEF Pending, SoloInv, WalkInv
        <3>2. CASE d \in Differing(r, e)
            BY <1>1, <1>2, <3>1, <3>2 DEF Pending
        <3>3. CASE d \notin Differing(r, e)
            <4>1. SeenHashes(r, d) = {sync[r].spec.hash[d]}
                BY <2>2, <3>3 DEF Differing, SeenHashes
            <4> QED BY <1>1, <1>2, <2>2, <3>1, <3>3, <4>1 DEF Pending
        <3> QED BY <3>2, <3>3
    <2> QED BY <2>1, <2>2
<1>5. WalkInv(r)'
    BY <1>0, <1>1, <1>2, <1>3, <1>4 DEF WalkInv, SoloInv
<1>6. RemovedInv(r)' /\ KnownInv(r)'
    BY <1>0, <1>1 DEF RemovedInv, KnownInv, SoloInv
<1> QED BY <1>5, <1>6 DEF SoloInv

(* Publishing a document leaves its new version as its only current one.    *)
LEMMA PublishedIs ==
    ASSUME TypeInv, NEW r \in Syncs, SoloInv(r), sync[r].pc = "endpoints",
           NEW d \in sync[r].docs, Published(r, d)
    PROVE  /\ d \in Docs /\ sync[r].spec.hash[d] \in Hashes
           /\ CurrentHashes(d) = SeenHashes(r, d)
           /\ CurrentHashes(d)' = {sync[r].spec.hash[d]}
           /\ \A f \in Docs \ {d} : CurrentHashes(f)' = CurrentHashes(f)
<1>1. /\ d \in Docs /\ d \in DOMAIN sync[r].spec.hash
      /\ sync[r].spec.hash[d] \in Hashes /\ versions \in VersionTable
    BY SpecsAreSpecs DEF TypeInv, Locals, IsSpec
<1>2. CurrentHashes(d) = SeenHashes(r, d)
    BY <1>1 DEF SoloInv, WalkInv, Pending
<1>3. \A h \in Hashes : versions[d][h] = "current" => h = SeenHash(r, d)
    BY <1>2 DEF CurrentHashes, SeenHashes, SeenHash
<1>4. /\ versions'[d] = [h \in Hashes |->
            CASE h = sync[r].spec.hash[d] -> "current"
              [] h = SeenHash(r, d)       -> "superseded"
              [] OTHER                    -> versions[d][h]]
      /\ \A f \in Docs \ {d} : versions'[f] = versions[f]
    BY <1>1 DEF Published, VersionTable
<1>5. CurrentHashes(d)' = {sync[r].spec.hash[d]}
    <2>0. sync[r].spec.hash[d] # SeenHash(r, d)
        BY <1>1, SeenHashTyped, SyncAssumption DEF SoloInv, WalkInv
    <2>1. versions'[d][sync[r].spec.hash[d]] = "current"
        BY <1>1, <1>4, <2>0
    <2>2. ASSUME NEW h \in Hashes, h # sync[r].spec.hash[d]
          PROVE  versions'[d][h] # "current"
        <3>1. CASE h = SeenHash(r, d)
            BY <1>4, <2>2, <3>1
        <3>2. CASE h # SeenHash(r, d)
            BY <1>3, <1>4, <2>2, <3>2
        <3> QED BY <3>1, <3>2
    <2> QED BY <1>1, <2>1, <2>2 DEF CurrentHashes
<1>6. \A f \in Docs \ {d} : CurrentHashes(f)' = CurrentHashes(f)
    BY <1>4 DEF CurrentHashes
<1> QED BY <1>1, <1>2, <1>5, <1>6

(* A removal told about one endpoint is told about no other.                *)
LEMMA RemovalTold ==
    ASSUME TypeInv, NEW e \in Endpoints,
           feed' = [feed EXCEPT ![e] = Append(@, EndpointEvent("endpoint.removed"))]
    PROVE  /\ HasEvent(e, "endpoint.removed")'
           /\ \A f \in Endpoints \ {e} : HasEvent(f, "endpoint.removed")'
                                             <=> HasEvent(f, "endpoint.removed")
<1>1. /\ feed'[e] = Append(feed[e], EndpointEvent("endpoint.removed"))
      /\ feed[e] \in Seq(Event)
      /\ \A f \in Endpoints \ {e} : feed'[f] = feed[f]
    BY DEF TypeInv
<1>2. /\ Len(feed[e]) + 1 \in DOMAIN feed'[e]
      /\ feed'[e][Len(feed[e]) + 1] = EndpointEvent("endpoint.removed")
    BY <1>1, EventsTyped
<1> QED BY <1>1, <1>2 DEF HasEvent, EndpointEvent

LEMMA AloneStep ==
    ASSUME TypeInv, BirthInv, AloneInv, SyncedMatchesSpec, TypeInv',
           NEW r \in Syncs, SyncStep(r) \/ Die(r)
    PROVE  AloneInv' /\ SyncedMatchesSpec'
<1> SUFFICES ASSUME ~ overlapped' PROVE AloneInv' /\ SyncedMatchesSpec'
    BY DEF AloneInv, SyncedMatchesSpec
<1>0. /\ sync \in [Syncs -> Locals] /\ sync[r] \in Locals
      /\ sync' \in [Syncs -> Locals] /\ sync'[r] \in Locals
      /\ ~ overlapped /\ OneCurrent
    BY DEF TypeInv, AloneInv, SyncStep, FetchSpec, WithdrawSlice, Skip, ReadEndpoints,
           ReadCurrent, KnownEndpoint, InsertEndpoint, InsertConflict, PublishVersion,
           ReadRemoved, AnnounceRemoved, Finish, Die
<1>b. ASSUME sync[r].pc # "idle" PROVE Busy \subseteq {r} /\ SoloInv(r)
    BY <1>0, <1>b DEF AloneInv, Busy
<1>e. ASSUME sync' = [sync EXCEPT ![r] = NoSync], sync[r].pc # "idle",
             UNCHANGED <<endpoints, versions, feed>>, synced' = synced
      PROVE  AloneInv' /\ SyncedMatchesSpec'
    <2>1. OneCurrent'
        BY <1>0, <1>e DEF OneCurrent, CurrentHashes
    <2>2. AloneInv'
        BY <1>b, <1>e, <2>1, OnlyRun DEF NoSync
    <2>3. SyncedMatchesSpec'
        BY <1>0, <1>e DEF SyncedMatchesSpec, CurrentHashes, HasEvent
    <2> QED BY <2>2, <2>3
<1>1. CASE FetchSpec(r)
    <2>1. PICK spec \in Specs, W \in SUBSET CurrentVersions, skipped \in BOOLEAN :
            sync' = [sync EXCEPT ![r] = [NoSync EXCEPT !.pc = "withdraw",
                        !.spec = spec, !.drop = W, !.skipped = skipped]]
        BY <1>1 DEF FetchSpec
    <2> DEFINE f == [NoSync EXCEPT !.pc = "withdraw", !.spec = spec,
                                   !.drop = W, !.skipped = skipped]
    <2>2. Busy \subseteq {r}
        BY <1>1 DEF FetchSpec, Busy
    <2>3. sync'[r].pc = "withdraw" /\ sync'[r].docs = {}
        BY <1>0, <2>1 DEF NoSync
    <2>4. SoloInv(r)'
        BY <2>3 DEF SoloInv, WalkInv, RemovedInv, KnownInv
    <2>5. OneCurrent' /\ SyncedMatchesSpec'
        BY <1>0, <1>1, TablesStay, SyncedStays DEF FetchSpec
    <2> QED BY <2>1, <2>2, <2>4, <2>5, OnlyRun
<1>2. CASE WithdrawSlice(r)
    <2>1. PICK slice \in SUBSET sync[r].drop :
            /\ versions' = [d \in Docs |-> [h \in Hashes |->
                    IF <<d, h>> \in slice THEN "superseded" ELSE versions[d][h]]]
            /\ sync' = [sync EXCEPT ![r].drop = @ \ slice]
        BY <1>2 DEF WithdrawSlice
    <2>2. \A d \in Docs : CurrentHashes(d)' \subseteq CurrentHashes(d)
        BY <2>1 DEF CurrentHashes
    <2>3. OneCurrent'
        BY <1>0, <2>2 DEF OneCurrent
    <2>4. sync'[r].pc = "withdraw" /\ sync'[r].docs = sync[r].docs
        BY <1>0, <1>2, <2>1 DEF WithdrawSlice, Locals
    <2>5. SoloInv(r)'
        BY <1>b, <1>2, <2>4 DEF WithdrawSlice, SoloInv, WalkInv, RemovedInv, KnownInv
    <2>6. SyncedMatchesSpec'
        BY <1>2, <2>3, SyncedForgotten DEF WithdrawSlice
    <2>7. Busy \subseteq {r}
        BY <1>b, <1>2 DEF WithdrawSlice
    <2> QED BY <2>1, <2>3, <2>5, <2>6, <2>7, OnlyRun
<1>3. CASE Skip(r)
    BY <1>e, <1>3 DEF Skip
<1>4. CASE ReadEndpoints(r)
    <2>1. Busy \subseteq {r} /\ SoloInv(r)
        BY <1>b, <1>4 DEF ReadEndpoints
    <2>2. /\ sync'[r].pc = "current" /\ sync'[r].docs = sync[r].docs
          /\ sync'[r].known = endpoints
        BY <1>0, <1>4 DEF ReadEndpoints, Locals
    <2>3. SoloInv(r)'
        BY <1>4, <2>1, <2>2 DEF ReadEndpoints, tables, SoloInv, WalkInv, RemovedInv, KnownInv
    <2>4. OneCurrent' /\ SyncedMatchesSpec'
        BY <1>0, <1>4, TablesStay, SyncedStays DEF ReadEndpoints
    <2> QED BY <1>4, <2>1, <2>3, <2>4, OnlyRun DEF ReadEndpoints
<1>5. CASE ReadCurrent(r)
    <2>0. OneCurrent' /\ SyncedMatchesSpec'
        BY <1>0, <1>5, TablesStay, SyncedStays DEF ReadCurrent
    <2>1. PICK seen :
            /\ DOMAIN seen = {d \in Docs : CurrentHashes(d) # {}}
            /\ \A d \in DOMAIN seen : seen[d] \in CurrentHashes(d)
            /\ sync' = [sync EXCEPT ![r].pc = "endpoints", ![r].seen = seen,
                                    ![r].todo = sync[r].spec.endpoints]
        BY <1>5 DEF ReadCurrent
    <2>2. Busy \subseteq {r} /\ SoloInv(r) /\ sync[r].docs = {}
        BY <1>b, <1>5 DEF ReadCurrent, SoloInv, KnownInv
    <2>3. /\ sync'[r].pc = "endpoints" /\ sync'[r].docs = {}
          /\ sync'[r].spec = sync[r].spec /\ sync'[r].known = sync[r].known
          /\ sync'[r].seen = seen /\ sync'[r].todo = sync[r].spec.endpoints
        BY <1>0, <2>1, <2>2 DEF Locals
    <2>4. IsSpec(sync[r].spec)
        BY <1>0, SpecsAreSpecs DEF Locals
    <2>5. ASSUME NEW d \in DOMAIN sync[r].spec.hash
          PROVE  Pending(r, d)' /\ CurrentHashes(d)' = SeenHashes(r, d)'
        <3>1. d \in Docs /\ d[1] \in sync[r].spec.endpoints
            BY <2>4 DEF IsSpec, Docs
        <3>2. Pending(r, d)'
            BY <2>3, <3>1 DEF Pending
        <3>3. CurrentHashes(d) = IF d \in DOMAIN seen THEN {seen[d]} ELSE {}
            BY <1>0, <2>1, <3>1 DEF OneCurrent
        <3> QED BY <1>5, <2>3, <3>2, <3>3, TablesStay DEF ReadCurrent, SeenHashes
    <2>6. SoloInv(r)'
        BY <1>5, <2>2, <2>3, <2>5 DEF ReadCurrent, tables, SoloInv, WalkInv, RemovedInv, KnownInv
    <2>7. sync' = [sync EXCEPT ![r] = sync'[r]]
        BY <1>0, <2>1
    <2> QED BY <2>0, <2>2, <2>6, <2>7, OnlyRun
<1>6. CASE KnownEndpoint(r)
    <2>1. PICK e \in sync[r].todo \cap sync[r].known :
            sync' = [sync EXCEPT ![r].todo = @ \ {e}, ![r].docs = Differing(r, e)]
        BY <1>6 DEF KnownEndpoint
    <2>2. Busy \subseteq {r} /\ SoloInv(r)
        BY <1>b, <1>6 DEF KnownEndpoint
    <2>3. endpoints' = endpoints /\ e \in endpoints /\ UNCHANGED versions
        BY <1>6, <2>1 DEF KnownEndpoint, tables, BirthInv, AboutRows
    <2>4. SoloInv(r)'
        BY <1>6, <2>1, <2>2, <2>3, NextEndpoint DEF KnownEndpoint
    <2>5. OneCurrent' /\ SyncedMatchesSpec'
        BY <1>0, <1>6, TablesStay, SyncedStays DEF KnownEndpoint
    <2> QED BY <2>1, <2>2, <2>4, <2>5, OnlyRun
<1>7. CASE InsertEndpoint(r)
    <2>1. PICK e \in sync[r].todo \ sync[r].known :
            /\ endpoints' = endpoints \cup {e}
            /\ sync' = [sync EXCEPT ![r].todo = @ \ {e}, ![r].docs = Differing(r, e)]
        BY <1>7 DEF InsertEndpoint
    <2>2. Busy \subseteq {r} /\ SoloInv(r)
        BY <1>b, <1>7 DEF InsertEndpoint
    <2>3. SoloInv(r)'
        BY <1>7, <2>1, <2>2, NextEndpoint DEF InsertEndpoint
    <2>4. OneCurrent'
        BY <1>0, <1>7 DEF InsertEndpoint, OneCurrent, CurrentHashes
    <2>5. SyncedMatchesSpec'
        BY <1>7, <2>4, SyncedForgotten DEF InsertEndpoint
    <2> QED BY <2>1, <2>2, <2>3, <2>4, <2>5, OnlyRun
<1>8. CASE InsertConflict(r)
    BY <1>e, <1>8 DEF InsertConflict
<1>9. CASE PublishVersion(r)
    <2>1. PICK d \in sync[r].docs : Published(r, d)
        BY <1>9 DEF PublishVersion, Published
    <2>2. /\ Busy \subseteq {r} /\ SoloInv(r) /\ sync[r].pc = "endpoints"
          /\ endpoints' = endpoints /\ synced' = {}
        BY <1>b, <1>9 DEF PublishVersion
    <2>3. /\ CurrentHashes(d)' = {sync[r].spec.hash[d]}
          /\ \A f \in Docs \ {d} : CurrentHashes(f)' = CurrentHashes(f)
        BY <2>1, <2>2, PublishedIs
    <2>4. OneCurrent'
        BY <1>0, <2>3 DEF OneCurrent
    <2>5. /\ sync'[r].pc = "endpoints" /\ sync'[r].docs = sync[r].docs \ {d}
          /\ sync'[r].spec = sync[r].spec /\ sync'[r].known = sync[r].known
          /\ sync'[r].seen = sync[r].seen /\ sync'[r].todo = sync[r].todo
        BY <1>0, <2>1, <2>2 DEF Published, Locals
    <2>6. DOMAIN sync[r].spec.hash \subseteq Docs
        BY DifferingTyped
    <2>7. \A f \in Docs : /\ SeenHashes(r, f)' = SeenHashes(r, f)
                         /\ Pending(r, f)' <=> (Pending(r, f) /\ f # d)
        BY <2>1, <2>2, <2>5 DEF SeenHashes, Pending, SoloInv, WalkInv
    <2>8. SoloInv(r)'
        <3>1. RemovedInv(r)' /\ KnownInv(r)'
            BY <2>2, <2>5 DEF SoloInv, RemovedInv, KnownInv
        <3>2. ~ Pending(r, d)'
            BY <2>2, <2>5 DEF Pending, SoloInv, WalkInv
        <3>3. ASSUME NEW f \in DOMAIN sync[r].spec.hash
              PROVE  CurrentHashes(f)' = IF Pending(r, f)' THEN SeenHashes(r, f)'
                                         ELSE {sync[r].spec.hash[f]}
            <4>1. CASE f = d
                BY <2>3, <3>2, <4>1
            <4>2. CASE f # d
                BY <2>2, <2>3, <2>5, <2>6, <2>7, <4>2 DEF Pending, SoloInv, WalkInv
            <4> QED BY <4>1, <4>2
        <3>4. \A f \in sync[r].docs \ {d} : SeenHashes(r, f)' = SeenHashes(r, f)
            BY <2>5 DEF SeenHashes
        <3>5. WalkInv(r)'
            BY <2>2, <2>5, <3>3, <3>4 DEF SoloInv, WalkInv
        <3> QED BY <3>1, <3>5 DEF SoloInv
    <2>9. SyncedMatchesSpec'
        BY <2>2, <2>4, SyncedForgotten
    <2> QED BY <2>1, <2>2, <2>4, <2>8, <2>9, OnlyRun DEF Published
<1>10. CASE ReadRemoved(r)
    <2>1. Busy \subseteq {r} /\ SoloInv(r)
        BY <1>b, <1>10 DEF ReadRemoved
    <2>2. /\ sync'[r].pc = "removed" /\ sync'[r].docs = {}
          /\ sync'[r].spec = sync[r].spec /\ sync'[r].known = sync[r].known
          /\ sync'[r].todo = {e \in sync[r].known \ sync[r].spec.endpoints :
                                ~ HasEvent(e, "endpoint.removed")}
        BY <1>0, <1>10 DEF ReadRemoved, Locals
    <2>3. SoloInv(r)'
        BY <1>10, <2>1, <2>2, TablesStay
        DEF ReadRemoved, tables, SoloInv, WalkInv, RemovedInv, KnownInv, Pending
    <2>4. OneCurrent' /\ SyncedMatchesSpec'
        BY <1>0, <1>10, TablesStay, SyncedStays DEF ReadRemoved
    <2> QED BY <1>10, <2>1, <2>3, <2>4, OnlyRun DEF ReadRemoved
<1>11. CASE AnnounceRemoved(r)
    <2>1. PICK e \in sync[r].todo :
            /\ feed' = [feed EXCEPT ![e] = Append(@, EndpointEvent("endpoint.removed"))]
            /\ sync' = [sync EXCEPT ![r].todo = @ \ {e}]
        BY <1>11 DEF AnnounceRemoved
    <2>2. /\ Busy \subseteq {r} /\ SoloInv(r) /\ sync[r].pc = "removed"
          /\ UNCHANGED <<endpoints, versions>> /\ synced' = {}
        BY <1>b, <1>11 DEF AnnounceRemoved
    <2>3. /\ sync'[r].pc = "removed" /\ sync'[r].docs = sync[r].docs
          /\ sync'[r].spec = sync[r].spec /\ sync'[r].known = sync[r].known
          /\ sync'[r].todo = sync[r].todo \ {e}
        BY <1>0, <2>1, <2>2 DEF Locals
    <2>4. /\ HasEvent(e, "endpoint.removed")'
          /\ \A f \in Endpoints \ {e} : HasEvent(f, "endpoint.removed")'
                                            <=> HasEvent(f, "endpoint.removed")
        BY <1>0, <2>1, RemovalTold DEF Locals
    <2>5. SoloInv(r)'
        BY <1>0, <2>2, <2>3, <2>4 DEF SoloInv, WalkInv, RemovedInv, KnownInv, CurrentHashes, Locals
    <2>6. OneCurrent'
        BY <1>0, <2>2 DEF OneCurrent, CurrentHashes
    <2>7. SyncedMatchesSpec'
        BY <2>2, <2>6, SyncedForgotten
    <2> QED BY <2>1, <2>2, <2>5, <2>6, <2>7, OnlyRun
<1>12. CASE Finish(r)
    <2>1. /\ Busy \subseteq {r} /\ SoloInv(r) /\ sync[r].pc = "removed" /\ sync[r].todo = {}
          /\ UNCHANGED <<endpoints, versions, feed>> /\ synced' = {sync[r].spec}
          /\ sync' = [sync EXCEPT ![r] = NoSync]
        BY <1>b, <1>12 DEF Finish
    <2>2. OneCurrent'
        BY <1>0, <2>1 DEF OneCurrent, CurrentHashes
    <2>3. AloneInv'
        BY <2>1, <2>2, OnlyRun DEF NoSync
    <2>4. /\ sync[r].spec.endpoints \subseteq endpoints
          /\ \A d \in DOMAIN sync[r].spec.hash : CurrentHashes(d) = {sync[r].spec.hash[d]}
          /\ \A e \in endpoints \ sync[r].spec.endpoints : HasEvent(e, "endpoint.removed")
        BY <2>1 DEF SoloInv, RemovedInv, KnownInv
    <2>5. SyncedMatchesSpec'
        BY <2>1, <2>2, <2>4 DEF SyncedMatchesSpec, OneCurrent, CurrentHashes, HasEvent
    <2> QED BY <2>3, <2>5
<1>13. CASE Die(r)
    BY <1>e, <1>13 DEF Die
<1> QED BY <1>1, <1>2, <1>3, <1>4, <1>5, <1>6, <1>7, <1>8, <1>9, <1>10, <1>11,
           <1>12, <1>13 DEF SyncStep

LEMMA AloneKept ==
    TypeInv /\ BirthInv /\ AloneInv /\ SyncedMatchesSpec /\ [SyncNext]_vars
        => AloneInv' /\ SyncedMatchesSpec'
<1> SUFFICES ASSUME TypeInv, BirthInv, AloneInv, SyncedMatchesSpec, [SyncNext]_vars
             PROVE  AloneInv' /\ SyncedMatchesSpec'
    OBVIOUS
<1>1. CASE UNCHANGED vars
    BY <1>1 DEF vars, tables, AloneInv, Busy, OneCurrent, SoloInv, WalkInv, RemovedInv,
                KnownInv, Pending, SeenHashes, SyncedMatchesSpec, CurrentHashes, HasEvent
<1> QED BY <1>1, AloneStep, TypeKept DEF SyncNext

(* Until two runs overlap a document has one current version at most, and   *)
(* after a run that completed the table and the feed say what its spec      *)
(* said, whatever runs before it left half done.                            *)
THEOREM SyncRepairs == SyncSpec => []SyncedMatchesSpec
BY TypeInit, TypeKept, BirthInit, BirthKept, AloneInit, AloneKept, PTL DEF SyncSpec

-----------------------------------------------------------------------------
(* Refinement: the abstract current schema of a document is the one version *)
(* it has, if any.                                                          *)

LEMMA CurrentHashIs ==
    /\ \A d, h : CurrentHashes(d) = {h} => CurrentHash(d) = h
    /\ \A d : CurrentHashes(d) = {} => CurrentHash(d) = NoHash
BY DEF CurrentHash

LEMMA CurrentHashIsNext ==
    /\ \A d, h : CurrentHashes(d)' = {h} => CurrentHash(d)' = h
    /\ \A d : CurrentHashes(d)' = {} => CurrentHash(d)' = NoHash
BY DEF CurrentHash

LEMMA SameVersions ==
    ASSUME UNCHANGED versions
    PROVE  CurrentMap' = CurrentMap
BY DEF CurrentMap, CurrentHash, CurrentHashes

LEMMA HistoryStarts == SyncInit => History!HistoryInit
<1> SUFFICES ASSUME SyncInit PROVE History!HistoryInit
    OBVIOUS
<1>1. \A d \in Docs : CurrentHashes(d) = {}
    BY DEF SyncInit, CurrentHashes
<1>2. CurrentMap = [d \in Docs |-> NoHash]
    BY <1>1, CurrentHashIs DEF CurrentMap
<1> QED BY <1>2 DEF SyncInit, History!HistoryInit, History!Docs, Docs

LEMMA HistoryStep ==
    ASSUME TypeInv, BirthInv, AloneInv, AloneInv', ~ overlapped',
           NEW r \in Syncs, SyncStep(r) \/ Die(r)
    PROVE  [History!HistoryNext]_History!historyVars
<1>0. /\ sync \in [Syncs -> Locals] /\ sync[r] \in Locals
      /\ ~ overlapped /\ OneCurrent /\ OneCurrent'
    BY DEF TypeInv, AloneInv, SyncStep, FetchSpec, WithdrawSlice, Skip, ReadEndpoints,
           ReadCurrent, KnownEndpoint, InsertEndpoint, InsertConflict, PublishVersion,
           ReadRemoved, AnnounceRemoved, Finish, Die
<1>b. ASSUME sync[r].pc # "idle" PROVE SoloInv(r)
    BY <1>0, <1>b DEF AloneInv, Busy
<1>u. ASSUME UNCHANGED <<endpoints, versions, feed>> PROVE UNCHANGED History!historyVars
    BY <1>u, SameVersions DEF History!historyVars
<1>1. CASE FetchSpec(r) \/ Skip(r) \/ ReadEndpoints(r) \/ ReadCurrent(r) \/ KnownEndpoint(r)
           \/ InsertConflict(r) \/ ReadRemoved(r) \/ Finish(r) \/ Die(r)
    <2>1. UNCHANGED <<endpoints, versions, feed>>
        BY <1>1 DEF FetchSpec, Skip, ReadEndpoints, ReadCurrent, KnownEndpoint,
                    InsertConflict, ReadRemoved, Finish, Die, tables
    <2> QED BY <1>u, <2>1
<1>2. CASE WithdrawSlice(r)
    <2>1. PICK slice \in SUBSET sync[r].drop :
            versions' = [d \in Docs |-> [h \in Hashes |->
                    IF <<d, h>> \in slice THEN "superseded" ELSE versions[d][h]]]
        BY <1>2 DEF WithdrawSlice
    <2> DEFINE D == {d \in Docs : <<d, CurrentHash(d)>> \in slice}
    <2>2. ASSUME NEW d \in Docs
          PROVE  CurrentHash(d)' = IF d \in D THEN NoHash ELSE CurrentHash(d)
        <3>1. CurrentHashes(d)' = {h \in CurrentHashes(d) : <<d, h>> \notin slice}
            BY <2>1 DEF CurrentHashes
        <3>2. CASE CurrentHashes(d) = {}
            <4>1. <<d, NoHash>> \notin slice
                BY <1>0, SyncAssumption DEF Locals
            <4> QED BY <3>1, <3>2, <4>1, CurrentHashIs, CurrentHashIsNext
        <3>3. CASE CurrentHashes(d) # {}
            <4>1. PICK h : CurrentHashes(d) = {h}
                BY <1>0, <3>3 DEF OneCurrent
            <4>2. CurrentHash(d) = h
                BY <4>1, CurrentHashIs
            <4>3. CASE d \in D
                BY <3>1, <4>1, <4>2, <4>3, CurrentHashIsNext
            <4>4. CASE d \notin D
                BY <3>1, <4>1, <4>2, <4>4, CurrentHashIsNext
            <4> QED BY <4>3, <4>4
        <3> QED BY <3>2, <3>3
    <2>3. CurrentMap' = [d \in Docs |-> IF d \in D THEN NoHash ELSE CurrentMap[d]]
        BY <2>2 DEF CurrentMap
    <2>4. History!Withdraw(D)
        BY <1>2, <2>3 DEF WithdrawSlice, History!Withdraw, History!Docs, Docs
    <2>5. D \in SUBSET History!Docs
        BY DEF History!Docs, Docs
    <2> QED BY <2>4, <2>5 DEF History!HistoryNext
<1>3. CASE InsertEndpoint(r)
    <2>1. PICK e \in sync[r].todo :
            /\ e \notin endpoints
            /\ endpoints' = endpoints \cup {e}
            /\ feed' = [feed EXCEPT ![e] = Append(@, EndpointEvent("endpoint.added"))]
            /\ UNCHANGED versions
        BY <1>3 DEF InsertEndpoint
    <2>2. History!AddEndpoint(e)
        BY <2>1, SameVersions
        DEF History!AddEndpoint, History!EndpointEvent, EndpointEvent
    <2>3. e \in Endpoints
        BY <1>0 DEF Locals
    <2> QED BY <2>2, <2>3 DEF History!HistoryNext
<1>4. CASE PublishVersion(r)
    <2>1. PICK d \in sync[r].docs : Published(r, d)
        BY <1>4 DEF PublishVersion, Published
    <2>2. SoloInv(r) /\ sync[r].pc = "endpoints" /\ endpoints' = endpoints
        BY <1>b, <1>4 DEF PublishVersion
    <2> DEFINE new == sync[r].spec.hash[d]
    <2>3. /\ d \in Docs /\ new \in Hashes
          /\ CurrentHashes(d) = SeenHashes(r, d)
          /\ CurrentHashes(d)' = {new}
          /\ \A f \in Docs \ {d} : CurrentHashes(f)' = CurrentHashes(f)
        BY <2>1, <2>2, PublishedIs
    <2>4. CurrentHash(d) = SeenHash(r, d)
        BY <2>3, SeenHashTyped, CurrentHashIs
    <2>5. new # CurrentHash(d)
        <3>1. new \notin SeenHashes(r, d)
            BY <2>2 DEF SoloInv, WalkInv
        <3> QED BY <2>3, <2>4, <3>1, SeenHashTyped, SyncAssumption
    <2>6. CurrentMap' = [CurrentMap EXCEPT ![d] = new]
        <3>1. ASSUME NEW f \in Docs \ {d} PROVE CurrentHash(f)' = CurrentHash(f)
            <4>1. CurrentHashes(f)' = CurrentHashes(f)
                BY <2>3
            <4>2. CASE CurrentHashes(f) = {}
                BY <4>1, <4>2, CurrentHashIs, CurrentHashIsNext
            <4>3. CASE CurrentHashes(f) # {}
                <5>1. PICK h : CurrentHashes(f) = {h}
                    BY <1>0, <4>3 DEF OneCurrent
                <5> QED BY <4>1, <5>1, CurrentHashIs, CurrentHashIsNext
            <4> QED BY <4>2, <4>3
        <3> QED BY <2>3, <3>1, CurrentHashIsNext DEF CurrentMap
    <2>7. CurrentMap[d] = SeenHash(r, d) /\ d[1] \in endpoints
        BY <2>3, <2>4 DEF CurrentMap, BirthInv, AboutRows
    <2>8. History!Publish(d, new)
        BY <2>1, <2>2, <2>4, <2>5, <2>6, <2>7
        DEF History!Publish, History!SchemaEvent, SchemaEvent, Published
    <2>9. d \in History!Docs
        BY <2>3 DEF History!Docs, Docs
    <2> QED BY <2>3, <2>8, <2>9 DEF History!HistoryNext
<1>5. CASE AnnounceRemoved(r)
    <2>1. PICK e \in sync[r].todo :
            feed' = [feed EXCEPT ![e] = Append(@, EndpointEvent("endpoint.removed"))]
        BY <1>5 DEF AnnounceRemoved
    <2>2. SoloInv(r) /\ sync[r].pc = "removed" /\ UNCHANGED <<endpoints, versions>>
        BY <1>b, <1>5 DEF AnnounceRemoved
    <2>3. e \in Endpoints /\ e \in endpoints /\ ~ HasEvent(e, "endpoint.removed")
        BY <1>0, <2>2 DEF Locals, BirthInv, AboutRows, SoloInv, RemovedInv
    <2>4. History!RemoveEndpoint(e)
        BY <2>1, <2>2, <2>3, SameVersions
        DEF History!RemoveEndpoint, History!EndpointEvent, EndpointEvent,
            History!HasEvent, HasEvent
    <2> QED BY <2>3, <2>4 DEF History!HistoryNext
<1> QED BY <1>1, <1>2, <1>3, <1>4, <1>5 DEF SyncStep

LEMMA HistoryKept ==
    TypeInv /\ BirthInv /\ AloneInv /\ AloneInv' /\ [SyncNext]_vars
        => [~ overlapped' => [History!HistoryNext]_History!historyVars]_vars
BY HistoryStep DEF SyncNext

(* Until two runs overlap, syncProvider implements the schema history:      *)
(* whatever it skips, repeats or leaves half done, each of its batches adds *)
(* an endpoint, tells a removal for the first time, replaces the one current *)
(* schema of a document and says so, withdraws schemas, or changes nothing.  *)
THEOREM SyncImplementsHistory == SyncSpec => ImplementsHistory
<1>1. SyncSpec => [](TypeInv /\ BirthInv /\ AloneInv /\ SyncedMatchesSpec)
    BY TypeInit, TypeKept, BirthInit, BirthKept, AloneInit, AloneKept, PTL DEF SyncSpec
<1> QED BY <1>1, HistoryStarts, HistoryKept, PTL DEF SyncSpec, ImplementsHistory
=============================================================================
