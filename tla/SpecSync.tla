------------------------------ MODULE SpecSync ------------------------------
(***************************************************************************)
(* syncProvider of src/server/ingest/sync.ts for one provider: fetch the   *)
(* upstream spec, read what the database holds, then walk the spec's       *)
(* endpoints and write the differences, each as one D1 batch; last, tell   *)
(* the feed which endpoints vanished.  Everything is compared with what    *)
(* was read once at the start.                                             *)
(*                                                                         *)
(* A run may be started by the nightly shard cron or by the admin route,   *)
(* so two runs of one provider can overlap; any run can be cut off between *)
(* two statements.                                                         *)
(***************************************************************************)
EXTENDS Naturals, Sequences, FiniteSets

CONSTANTS
    Endpoints, Kinds, Announced, Hashes, NoHash,    \* as in SchemaHistory
    Syncs,      \* invocations of syncProvider that may be under way at once
    Specs,      \* the specs upstream may serve
    MaxRuns     \* bound: runs started

VARIABLES
    endpoints,  \* rows of the endpoints table
    versions,   \* versions[d][h]: absent, current, or superseded
    feed,       \* feed[e]: the changes rows about endpoint e, oldest first
    status,     \* providers.status
    sync,       \* sync[r]: the locals of run r
    runs,       \* history: runs started
    overlapped, \* history: has a run begun while another was under way?
    synced      \* history: the spec of the last completed run, while nothing
                \* has been written since

tables == <<endpoints, versions, feed, status>>
vars == <<tables, sync, runs, overlapped, synced>>

Docs == Endpoints \X Kinds

(* A fetched spec: which endpoints it has, and the hash of each schema it   *)
(* states (an endpoint may lack a kind).                                    *)
IsSpec(spec) ==
    /\ spec.endpoints \subseteq Endpoints
    /\ DOMAIN spec.hash \subseteq spec.endpoints \X Kinds
    /\ \A d \in DOMAIN spec.hash : spec.hash[d] \in Hashes

ASSUME SyncAssumption ==
    /\ Announced \subseteq Kinds
    /\ NoHash \notin Hashes
    /\ \A spec \in Specs : IsSpec(spec)
    /\ MaxRuns \in Nat

EmptyMap == [d \in {} |-> NoHash]
NoSpec == [endpoints |-> {}, hash |-> EmptyMap]

NoSync == [pc |-> "idle", spec |-> NoSpec, known |-> {}, seen |-> EmptyMap,
           todo |-> {}, docs |-> {}, drop |-> {}, skipped |-> FALSE]

CurrentHashes(d) == {h \in Hashes : versions[d][h] = "current"}
CurrentVersions == {v \in Docs \X Hashes : versions[v[1]][v[2]] = "current"}

EndpointEvent(type) ==
    [type |-> type, kind |-> "none", hash |-> NoHash, previousHash |-> NoHash]

SchemaEvent(kind, new, old) ==
    [type |-> IF old = NoHash THEN "schema.added" ELSE "schema.updated",
     kind |-> kind, hash |-> new, previousHash |-> old]

HasEvent(e, type) == \E i \in DOMAIN feed[e] : feed[e][i].type = type

SyncInit ==
    /\ endpoints = {}
    /\ versions = [d \in Docs |-> [h \in Hashes |-> "absent"]]
    /\ feed = [e \in Endpoints |-> <<>>]
    /\ status = "active"
    /\ sync = [r \in Syncs |-> NoSync]
    /\ runs = 0
    /\ overlapped = FALSE
    /\ synced = {}

-----------------------------------------------------------------------------
(* The statements of syncProvider, in order.                               *)

(* fetchSpec answers with a spec, or says why it skipped; either way it may *)
(* name sources whose current versions are to be withdrawn (W).             *)
FetchSpec(r) ==
    /\ sync[r].pc = "idle"
    /\ runs < MaxRuns
    /\ runs' = runs + 1
    /\ overlapped' = (overlapped \/ \E q \in Syncs : sync[q].pc # "idle")
    /\ \E spec \in Specs, W \in SUBSET CurrentVersions, skipped \in BOOLEAN :
        sync' = [sync EXCEPT ![r] =
            [NoSync EXCEPT !.pc = "withdraw", !.spec = spec, !.drop = W,
                           !.skipped = skipped]]
    /\ UNCHANGED <<tables, synced>>

(* One UPDATE ... SET superseded_at for each slice of the withdrawn ids.    *)
WithdrawSlice(r) ==
    /\ sync[r].pc = "withdraw"
    /\ \E slice \in SUBSET sync[r].drop :
        /\ slice # {}
        /\ versions' = [d \in Docs |-> [h \in Hashes |->
                IF <<d, h>> \in slice THEN "superseded" ELSE versions[d][h]]]
        /\ sync' = [sync EXCEPT ![r].drop = @ \ slice]
    /\ synced' = {}
    /\ UNCHANGED <<endpoints, feed, status, runs, overlapped>>

(* A skip ends the run; one that is by design also makes the provider       *)
(* active again, a missing secret does not.                                 *)
Skip(r) ==
    /\ sync[r].pc = "withdraw" /\ sync[r].drop = {} /\ sync[r].skipped
    /\ status' \in {status, "active"}
    /\ sync' = [sync EXCEPT ![r] = NoSync]
    /\ UNCHANGED <<endpoints, versions, feed, runs, overlapped, synced>>

ReadEndpoints(r) ==
    /\ sync[r].pc = "withdraw" /\ sync[r].drop = {} /\ ~ sync[r].skipped
    /\ sync' = [sync EXCEPT ![r].pc = "current", ![r].known = endpoints]
    /\ UNCHANGED <<tables, runs, overlapped, synced>>

(* One current version per document; where the table has two, the map built *)
(* from the rows keeps whichever came last.                                 *)
ReadCurrent(r) ==
    /\ sync[r].pc = "current"
    /\ \E seen \in [{d \in Docs : CurrentHashes(d) # {}} -> Hashes] :
        /\ \A d \in DOMAIN seen : seen[d] \in CurrentHashes(d)
        /\ sync' = [sync EXCEPT ![r].pc = "endpoints", ![r].seen = seen,
                                ![r].todo = sync[r].spec.endpoints]
    /\ UNCHANGED <<tables, runs, overlapped, synced>>

(* The documents of e whose schema differs from the version read as current. *)
Differing(r, e) ==
    {d \in DOMAIN sync[r].spec.hash :
        /\ d[1] = e
        /\ d \in DOMAIN sync[r].seen => sync[r].seen[d] # sync[r].spec.hash[d]}

(* The next endpoint of the spec: known ones have no row to write.          *)
KnownEndpoint(r) ==
    /\ sync[r].pc = "endpoints" /\ sync[r].docs = {}
    /\ \E e \in sync[r].todo \cap sync[r].known :
        sync' = [sync EXCEPT ![r].todo = @ \ {e}, ![r].docs = Differing(r, e)]
    /\ UNCHANGED <<tables, runs, overlapped, synced>>

(* Mutant: the insert ignores a conflict, the event is written all the same. *)
InsertEndpointIgnore(r) ==
    /\ sync[r].pc = "endpoints" /\ sync[r].docs = {}
    /\ \E e \in sync[r].todo \ sync[r].known :
        /\ endpoints' = endpoints \cup {e}
        /\ feed' = [feed EXCEPT ![e] = Append(@, EndpointEvent("endpoint.added"))]
        /\ sync' = [sync EXCEPT ![r].todo = @ \ {e}, ![r].docs = Differing(r, e)]
    /\ synced' = {}
    /\ UNCHANGED <<versions, status, runs, overlapped>>

(* A new one gets its row and its event in one batch.                       *)
InsertEndpoint(r) ==
    /\ sync[r].pc = "endpoints" /\ sync[r].docs = {}
    /\ \E e \in sync[r].todo \ sync[r].known :
        /\ e \notin endpoints
        /\ endpoints' = endpoints \cup {e}
        /\ feed' = [feed EXCEPT ![e] = Append(@, EndpointEvent("endpoint.added"))]
        /\ sync' = [sync EXCEPT ![r].todo = @ \ {e}, ![r].docs = Differing(r, e)]
    /\ synced' = {}
    /\ UNCHANGED <<versions, status, runs, overlapped>>

(* Another run inserted it first: the primary key refuses the batch, the    *)
(* run throws and the provider is marked degraded.                          *)
InsertConflict(r) ==
    /\ sync[r].pc = "endpoints" /\ sync[r].docs = {}
    /\ \E e \in sync[r].todo \ sync[r].known : e \in endpoints
    /\ status' = "degraded"
    /\ sync' = [sync EXCEPT ![r] = NoSync]
    /\ UNCHANGED <<endpoints, versions, feed, runs, overlapped, synced>>

SeenHash(r, d) == IF d \in DOMAIN sync[r].seen THEN sync[r].seen[d] ELSE NoHash

(* Mutant: the version it replaces is left current.                         *)
PublishBeside(r) ==
    /\ sync[r].pc = "endpoints"
    /\ \E d \in sync[r].docs :
        LET new == sync[r].spec.hash[d]
            old == SeenHash(r, d)
        IN
        /\ versions' = [versions EXCEPT ![d][new] = "current"]
        /\ feed' = IF d[2] \in Announced
                   THEN [feed EXCEPT ![d[1]] =
                            Append(@, SchemaEvent(d[2], new, old))]
                   ELSE feed
        /\ sync' = [sync EXCEPT ![r].docs = @ \ {d}]
    /\ synced' = {}
    /\ UNCHANGED <<endpoints, status, runs, overlapped>>

(* Supersede the version read as current, insert or revive the new one, and *)
(* write the event, in one batch.                                           *)
PublishVersion(r) ==
    /\ sync[r].pc = "endpoints"
    /\ \E d \in sync[r].docs :
        LET new == sync[r].spec.hash[d]
            old == SeenHash(r, d)
        IN
        /\ versions' = [versions EXCEPT ![d] = [h \in Hashes |->
                CASE h = new -> "current"
                  [] h = old -> "superseded"
                  [] OTHER   -> versions[d][h]]]
        /\ feed' = IF d[2] \in Announced
                   THEN [feed EXCEPT ![d[1]] =
                            Append(@, SchemaEvent(d[2], new, old))]
                   ELSE feed
        /\ sync' = [sync EXCEPT ![r].docs = @ \ {d}]
    /\ synced' = {}
    /\ UNCHANGED <<endpoints, status, runs, overlapped>>

(* Mutant: a removal is told again by every run.                            *)
ReadRemovedAll(r) ==
    /\ sync[r].pc = "endpoints" /\ sync[r].docs = {} /\ sync[r].todo = {}
    /\ sync' = [sync EXCEPT ![r].pc = "removed",
                            ![r].todo = sync[r].known \ sync[r].spec.endpoints]
    /\ UNCHANGED <<tables, runs, overlapped, synced>>

(* Endpoints that were in the table and are not in the spec, unless some    *)
(* earlier run already told the feed.                                       *)
ReadRemoved(r) ==
    /\ sync[r].pc = "endpoints" /\ sync[r].docs = {} /\ sync[r].todo = {}
    /\ sync' = [sync EXCEPT ![r].pc = "removed",
            ![r].todo = {e \in sync[r].known \ sync[r].spec.endpoints :
                            ~ HasEvent(e, "endpoint.removed")}]
    /\ UNCHANGED <<tables, runs, overlapped, synced>>

AnnounceRemoved(r) ==
    /\ sync[r].pc = "removed"
    /\ \E e \in sync[r].todo :
        /\ feed' = [feed EXCEPT ![e] = Append(@, EndpointEvent("endpoint.removed"))]
        /\ sync' = [sync EXCEPT ![r].todo = @ \ {e}]
    /\ synced' = {}
    /\ UNCHANGED <<endpoints, versions, status, runs, overlapped>>

Finish(r) ==
    /\ sync[r].pc = "removed" /\ sync[r].todo = {}
    /\ status' = "active"
    /\ synced' = {sync[r].spec}
    /\ sync' = [sync EXCEPT ![r] = NoSync]
    /\ UNCHANGED <<endpoints, versions, feed, runs, overlapped>>

(* Mutant: the provider gets a status the schema does not have.             *)
DieFailed(r) ==
    /\ sync[r].pc # "idle"
    /\ status' \in {status, "failed"}
    /\ sync' = [sync EXCEPT ![r] = NoSync]
    /\ UNCHANGED <<endpoints, versions, feed, runs, overlapped, synced>>

(* The run throws and is marked degraded, or is cut off without a trace.    *)
Die(r) ==
    /\ sync[r].pc # "idle"
    /\ status' \in {status, "degraded"}
    /\ sync' = [sync EXCEPT ![r] = NoSync]
    /\ UNCHANGED <<endpoints, versions, feed, runs, overlapped, synced>>

SyncStep(r) ==
    \/ FetchSpec(r) \/ WithdrawSlice(r) \/ Skip(r) \/ ReadEndpoints(r)
    \/ ReadCurrent(r) \/ KnownEndpoint(r) \/ InsertEndpoint(r)
    \/ InsertConflict(r) \/ PublishVersion(r) \/ ReadRemoved(r)
    \/ AnnounceRemoved(r) \/ Finish(r)

SyncNext == \E r \in Syncs : SyncStep(r) \/ Die(r)

SyncSpec == SyncInit /\ [][SyncNext]_vars

-----------------------------------------------------------------------------
(* Properties.                                                             *)

Stages == {"idle", "withdraw", "current", "endpoints", "removed"}

SyncTypeOK ==
    /\ endpoints \subseteq Endpoints
    /\ versions \in [Docs -> [Hashes -> {"absent", "current", "superseded"}]]
    /\ DOMAIN feed = Endpoints
    /\ status \in {"active", "degraded"}
    /\ runs \in 0..MaxRuns
    /\ overlapped \in BOOLEAN
    /\ \A r \in Syncs :
        /\ sync[r].pc \in Stages
        /\ IsSpec(sync[r].spec)
        /\ sync[r].known \subseteq Endpoints
        /\ DOMAIN sync[r].seen \subseteq Docs
        /\ sync[r].todo \subseteq Endpoints
        /\ sync[r].docs \subseteq Docs
        /\ sync[r].drop \subseteq Docs \X Hashes

(* A row of the endpoints table has exactly one endpoint.added in the feed, *)
(* before anything else about it, also when runs overlap and race to insert *)
(* it.                                                                      *)
AddedExactlyOnce ==
    \A e \in Endpoints :
        {i \in DOMAIN feed[e] : feed[e][i].type = "endpoint.added"}
            = IF e \in endpoints THEN {1} ELSE {}

(* sync.ts: "One batch, so a run that dies here never leaves two current    *)
(* rows" - and export.ts throws "has more than one current version" when it *)
(* meets two.  Once a run completed and until the next write, the table     *)
(* says what its spec said, and every endpoint the spec lacks has its       *)
(* removal in the feed.  Both whatever earlier runs left half done, as long *)
(* as none overlapped.                                                      *)
SyncedMatchesSpec ==
    ~ overlapped =>
        /\ \A d \in Docs : \A g, h \in CurrentHashes(d) : g = h
        /\ \A spec \in synced :
            /\ spec.endpoints \subseteq endpoints
            /\ \A d \in DOMAIN spec.hash : CurrentHashes(d) = {spec.hash[d]}
            /\ \A e \in endpoints \ spec.endpoints : HasEvent(e, "endpoint.removed")

(* Until two runs overlap, every step is one of the abstract schema history *)
(* or changes nothing it can see.                                           *)
CurrentHash(d) == IF CurrentHashes(d) = {} THEN NoHash
                  ELSE CHOOSE h \in CurrentHashes(d) : TRUE
CurrentMap == [d \in Docs |-> CurrentHash(d)]
History == INSTANCE SchemaHistory WITH listed <- endpoints, current <- CurrentMap
ImplementsHistory ==
    /\ History!HistoryInit
    /\ [][~ overlapped' => [History!HistoryNext]_History!historyVars]_vars

=============================================================================
