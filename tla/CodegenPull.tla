---------------------------- MODULE CodegenPull ----------------------------
(***************************************************************************)
(* pull, verify and checkUpdates of packages/codegen/src/pull.ts, as the   *)
(* Vite plugin (packages/vite/src/index.ts) and the CLI's `pull` and       *)
(* `update` run them on one checkout: generated files, each replaced       *)
(* atomically, and a lockfile, .manifest.json, written last.               *)
(*                                                                         *)
(* The service is the environment: a spec sync publishes and withdraws     *)
(* schemas; each version published has a change stamped with the second    *)
(* the sync began in, schema.updated or, where there was no current        *)
(* version, schema.added.  A schema read may be answered by an edge copy   *)
(* up to EdgeWindow old.  The keys are targets of one provider.            *)
(* A generated module is the content hash of the schema it was made from.  *)
(***************************************************************************)
EXTENDS Naturals, Sequences, FiniteSets

CONSTANTS
    Keys,           \* the targets the plugin's selections expand to
    Hashes,         \* content hashes of schemas
    Absent,         \* no file, no current version
    PageLimit,      \* changes one page of the feed holds: 200 in the code
    EdgeWindow,     \* max-age and stale-while-revalidate, in clock ticks
    MaxTime,        \* bound: the last second
    MaxMoves,       \* bound: schemas published and withdrawn
    MaxPulls,       \* bound: pulls started
    MaxDeletes,     \* bound: generated files deleted by hand
    MaxCrashes      \* bound: pulls killed

ASSUME CodegenAssumption ==
    /\ Absent \notin Hashes
    /\ {PageLimit, EdgeWindow, MaxTime, MaxMoves, MaxPulls, MaxDeletes,
            MaxCrashes} \subseteq Nat
    /\ MaxTime > 0

VARIABLES
    clock,
    served,     \* served[k]: the current version of k's schema, or Absent
    feed,       \* schema changes, in the order they were committed
    copies,     \* versions replaced or withdrawn, and when: edge copies of them
    file,       \* file[k]: what the generated module was made from, or Absent
    lock,       \* the lockfile: {} or the set of the one manifest
    pull,       \* the locals of the pull, or dev boot, under way
    report,     \* {} or what the last checkUpdates said, and of what
    deletes,
    pulls,
    crashes,
    withdraws,
    unpinned,   \* history: keys whose file outlived its lockfile entry
    torn,       \* history: keys whose file was last written by a killed pull
    blind       \* history: keys whose move no check with this lockfile asks for

service == <<clock, served, feed, copies, withdraws>>
checkout == <<file, lock, report>>
histories == <<deletes, pulls, crashes, unpinned, torn, blind>>
vars == <<service, checkout, pull, histories>>

Empty == [k \in {} |-> k]
NoPull == [pc |-> "idle", mode |-> "none", sel |-> {}, prior |-> {},
           todo |-> {}, entries |-> Empty, wrote |-> {}, confirmed |-> {}, got |-> {}]

CodegenInit ==
    /\ clock = 1
    /\ served \in [Keys -> Hashes]
    /\ feed = <<>>
    /\ copies = {}
    /\ file = [k \in Keys |-> Absent]
    /\ lock = {}
    /\ pull = NoPull
    /\ report = {}
    /\ deletes = 0 /\ pulls = 0 /\ crashes = 0 /\ withdraws = 0
    /\ unpinned = {} /\ torn = {} /\ blind = {}

-----------------------------------------------------------------------------
(* The service.                                                            *)

Tick ==
    /\ clock < MaxTime
    /\ clock' = clock + 1
    /\ UNCHANGED <<served, feed, copies, withdraws, checkout, pull, histories>>

FetchedAt == IF lock = {} THEN 0 ELSE (CHOOSE m \in lock : TRUE).fetchedAt

Replaced(k) == IF served[k] = Absent THEN copies
               ELSE copies \cup {[key |-> k, hash |-> served[k], done |-> clock]}

(* A new version and its change, one batch, stamped with the second the     *)
(* sync began in.  Syncs of a provider do not overlap here, and one lasts   *)
(* into a later second than the one before it (SpecSync has the overlaps).  *)
Publish(k, h, at) ==
    /\ Len(feed) + withdraws < MaxMoves
    /\ h # served[k]
    /\ \A i \in DOMAIN feed : feed[i].at <= at /\ (feed[i].key = k => feed[i].at < at)
    /\ served' = [served EXCEPT ![k] = h]
    /\ feed' = Append(feed, [key |-> k, hash |-> h, at |-> at,
                    type |-> IF served[k] = Absent THEN "added" ELSE "updated"])
    /\ copies' = Replaced(k)
    /\ blind' = IF served[k] = Absent \/ at < FetchedAt
                 THEN blind \cup {k} ELSE blind \ {k}
    /\ UNCHANGED <<clock, withdraws, checkout, pull, deletes, pulls, crashes,
                   unpinned, torn>>

(* A sync supersedes the version of a source it now rejects; no change says *)
(* so.                                                                      *)
Withdraw(k) ==
    /\ Len(feed) + withdraws < MaxMoves
    /\ served[k] # Absent
    /\ served' = [served EXCEPT ![k] = Absent]
    /\ copies' = Replaced(k)
    /\ withdraws' = withdraws + 1
    /\ UNCHANGED <<clock, feed, checkout, pull, histories>>

(* The versions a GET of k's schema may be answered with: the current one,  *)
(* or one an edge location stored before it was replaced.                   *)
Answers(k) ==
    ({served[k]} \ {Absent}) \cup
        {c.hash : c \in {d \in copies : d.key = k /\ clock < d.done + EdgeWindow}}

-----------------------------------------------------------------------------
(* pull().                                                                 *)

Pinned(manifests, k) == \E m \in manifests : k \in DOMAIN m.entries
Pin(manifests, k) == (CHOOSE m \in manifests : TRUE).entries[k]

With(f, k, v) == [x \in DOMAIN f \cup {k} |-> IF x = k THEN v ELSE f[x]]

(* Mutant: the new manifest starts from the entries of the one before.      *)
StartPullEntries(mode, S) ==
    /\ pull.pc = "idle"
    /\ pulls < MaxPulls
    /\ S # {} /\ (mode = "boot" => S = Keys)
    /\ pulls' = pulls + 1
    /\ pull' = [NoPull EXCEPT !.pc = "target", !.mode = mode,
                    !.entries = IF lock = {} THEN Empty
                                ELSE (CHOOSE m \in lock : TRUE).entries,
                    !.sel = S, !.prior = lock, !.todo = S]
    /\ report' = {}
    /\ UNCHANGED <<service, file, lock, deletes, crashes, unpinned, torn, blind>>

(* The manifest is read and the selections expanded: the plugin's own on a  *)
(* dev boot; on the command line those named, or the manifest's (update).   *)
StartPull(mode, S) ==
    /\ pull.pc = "idle"
    /\ pulls < MaxPulls
    /\ S # {} /\ (mode = "boot" => S = Keys)
    /\ pulls' = pulls + 1
    /\ pull' = [NoPull EXCEPT !.pc = "target", !.mode = mode,
                    !.sel = S, !.prior = lock, !.todo = S]
    /\ report' = {}
    /\ UNCHANGED <<service, file, lock, deletes, crashes, unpinned, torn, blind>>

(* The targets are taken one by one, in the order of the selections, which  *)
(* may be any.                                                              *)
AtTarget(k) == pull.pc = "target" /\ k \in pull.todo

(* Mutant: a lockfile entry is enough, whether or not the file is there.    *)
HeldPinned(k) == Pinned(pull.prior, k)

Held(k) == Pinned(pull.prior, k) /\ file[k] # Absent

(* Mutant: a dev boot refreshes what it has.                                *)
KeptNever(k) == pull.mode = "none" /\ Held(k)

(* missingOnly: a dev boot asks nothing about what it has.                  *)
Kept(k) == pull.mode = "boot" /\ Held(k)

KeepTarget(k) ==
    /\ AtTarget(k)
    /\ Kept(k)
    /\ pull' = [pull EXCEPT !.todo = @ \ {k},
                            !.entries = With(@, k, Pin(pull.prior, k))]
    /\ UNCHANGED <<service, checkout, histories>>

(* 304: the answer still has the ETag the manifest recorded.                *)
NotModified(k) ==
    /\ AtTarget(k)
    /\ Held(k) /\ ~ Kept(k)
    /\ Pin(pull.prior, k) \in Answers(k)
    /\ pull' = [pull EXCEPT !.todo = @ \ {k}, !.confirmed = @ \cup {k},
                            !.entries = With(@, k, Pin(pull.prior, k))]
    /\ UNCHANGED <<service, checkout, histories>>

(* 404, any other status, or no answer: the target gets no entry, although  *)
(* its file may stay.                                                       *)
FailTarget(k) ==
    /\ AtTarget(k)
    /\ ~ Kept(k)
    /\ pull' = [pull EXCEPT !.todo = @ \ {k}]
    /\ UNCHANGED <<service, checkout, histories>>

(* 200, with content that is not what an If-None-Match named.               *)
FetchTarget(k) ==
    /\ AtTarget(k)
    /\ ~ Kept(k)
    /\ \E h \in Answers(k) :
        /\ Held(k) => h # Pin(pull.prior, k)
        /\ pull' = [pull EXCEPT !.pc = "write", !.got = {[key |-> k, hash |-> h]}]
    /\ UNCHANGED <<service, checkout, histories>>

(* atomicWrite: a sibling file renamed over the target.                     *)
WriteTarget ==
    /\ pull.pc = "write"
    /\ \E g \in pull.got :
        /\ file' = [file EXCEPT ![g.key] = g.hash]
        /\ pull' = [pull EXCEPT !.pc = "target", !.todo = @ \ {g.key},
                !.got = {}, !.wrote = @ \cup {g.key},
                !.entries = With(@, g.key, g.hash)]
        /\ torn' = torn \ {g.key}
    /\ UNCHANGED <<service, lock, report, deletes, pulls, crashes, unpinned, blind>>

(* Mutant: entries of the manifest before win over what was fetched.        *)
ManifestPriorWins ==
    [sel |-> pull.sel,
     entries |-> [k \in DOMAIN pull.entries |->
                    IF Pinned(pull.prior, k) THEN Pin(pull.prior, k) ELSE pull.entries[k]],
     fetchedAt |-> IF pull.wrote # {} \/ pull.prior = {} THEN clock
                   ELSE (CHOOSE m \in pull.prior : TRUE).fetchedAt]

Manifest ==
    [sel |-> pull.sel, entries |-> pull.entries,
     fetchedAt |-> IF pull.wrote # {} \/ pull.prior = {} THEN clock
                   ELSE (CHOOSE m \in pull.prior : TRUE).fetchedAt]

(* The lockfile, unless nothing in it would change; entries of targets that *)
(* failed or were not selected are gone from it.  A dev boot then looks for *)
(* drift.                                                                   *)
WriteManifest ==
    /\ pull.pc = "target" /\ pull.todo = {}
    /\ LET m == Manifest IN
        IF pull.prior = {m} /\ pull.wrote = {}
        THEN UNCHANGED <<lock, unpinned, blind>>
        ELSE /\ lock' = {m}
             /\ unpinned' = (unpinned \cup {k \in Keys : file[k] # Absent})
                                \ DOMAIN m.entries
             /\ blind' = IF m.fetchedAt = FetchedAt /\ pull.wrote = {} THEN blind
                         ELSE {k \in DOMAIN m.entries : m.entries[k] # served[k]}
    /\ pull' = IF pull.mode = "boot"
                    THEN [NoPull EXCEPT !.pc = "check"] ELSE NoPull
    /\ UNCHANGED <<service, file, report, deletes, pulls, crashes, torn>>

-----------------------------------------------------------------------------
(* checkUpdates().                                                         *)

(* Mutant: changes of the second fetchedAt names are not asked for.         *)
AskedAfter(m) ==
    {i \in DOMAIN feed : feed[i].type = "updated" /\ feed[i].at > m.fetchedAt}

(* The changes of ?type=schema.updated&since=fetchedAt.                     *)
Asked(m) ==
    {i \in DOMAIN feed : feed[i].type = "updated" /\ feed[i].at >= m.fetchedAt}

(* One page of them, the newest; changes of one second are in any order.    *)
Pages(m) ==
    IF Cardinality(Asked(m)) <= PageLimit THEN {Asked(m)}
    ELSE {P \in SUBSET Asked(m) :
            /\ Cardinality(P) = PageLimit
            /\ \A i \in P, j \in Asked(m) \ P : feed[j].at <= feed[i].at}

(* The changes of k on a page that differ from what is pinned.              *)
Hits(m, P, k) == {i \in P : feed[i].key = k /\ feed[i].hash # m.entries[k]}

Newest(I) == CHOOSE i \in I : \A j \in I : feed[j].at <= feed[i].at

(* One page is read, newest first, and the first hit of a key reported; a   *)
(* log line tells if there is more.                                         *)
CheckAnswer ==
    /\ pull.pc = "check"
    /\ IF lock = {} THEN report' = {}
       ELSE \E m \in lock : \E P \in Pages(m) :
                report' = {[pins |-> m.entries, upstream |-> served, blind |-> blind,
                    page |-> P, more |-> Cardinality(Asked(m)) > PageLimit,
                    said |-> [k \in {x \in DOMAIN m.entries : Hits(m, P, x) # {}} |->
                                feed[Newest(Hits(m, P, k))].hash]]}
    /\ pull' = NoPull
    /\ UNCHANGED <<service, file, lock, histories>>

(* verify(), which a production build runs.                                 *)
VerifyOk ==
    \E m \in lock : /\ Keys \subseteq m.sel
                    /\ \A k \in DOMAIN m.entries : file[k] # Absent

-----------------------------------------------------------------------------

(* The process dies, or an expansion or a write throws.                     *)
KillPull ==
    /\ pull.pc # "idle" /\ crashes < MaxCrashes
    /\ crashes' = crashes + 1
    /\ unpinned' = unpinned \cup {k \in Keys : file[k] # Absent /\ ~ Pinned(lock, k)}
    /\ torn' = torn \cup pull.wrote
    /\ pull' = NoPull
    /\ UNCHANGED <<service, checkout, deletes, pulls, blind>>

(* A generated file is deleted by hand, between pulls.                      *)
DeleteFile(k) ==
    /\ pull.pc = "idle"
    /\ file[k] # Absent /\ deletes < MaxDeletes
    /\ deletes' = deletes + 1
    /\ file' = [file EXCEPT ![k] = Absent]
    /\ torn' = torn \ {k}
    /\ UNCHANGED <<service, lock, report, pull, pulls, crashes, unpinned, blind>>

CodegenNext ==
    \/ Tick
    \/ \E k \in Keys : \/ DeleteFile(k) \/ Withdraw(k)
                       \/ \E h \in Hashes, at \in 1..clock : Publish(k, h, at)
    \/ \E mode \in {"boot", "pull"}, S \in SUBSET Keys : StartPull(mode, S)
    \/ \E k \in Keys : KeepTarget(k) \/ NotModified(k) \/ FailTarget(k) \/ FetchTarget(k)
    \/ WriteTarget \/ WriteManifest \/ CheckAnswer \/ KillPull

CodegenSpec == CodegenInit /\ [][CodegenNext]_vars

-----------------------------------------------------------------------------
(* Properties.                                                             *)

Maps(S) == UNION {[D -> Hashes] : D \in SUBSET S}

CodegenTypeOK ==
    /\ served \in [Keys -> Hashes \cup {Absent}]
    /\ file \in [Keys -> Hashes \cup {Absent}]
    /\ \A m \in lock : /\ m.sel \subseteq Keys /\ m.entries \in Maps(m.sel)
                      /\ m.fetchedAt \in 1..clock
    /\ pull.pc \in {"idle", "target", "write", "check"}
    /\ pull.entries \in Maps(pull.sel)
    /\ pull.wrote \cup pull.confirmed \subseteq DOMAIN pull.entries
    /\ pull.pc = "write" <=> pull.got # {}
    /\ clock \in 1..MaxTime

(* What verify() lets a production build compile.  It looks for each file,  *)
(* not into it, although the vite README has it verify that "files match    *)
(* the .manifest.json lockfile": a file is what the lockfile pins, unless a *)
(* killed pull wrote it last, which verify() does not see.                  *)
VerifiedFilesMatch ==
    (pull.pc = "idle" /\ VerifyOk) =>
        \A m \in lock : \A k \in DOMAIN m.entries : file[k] = m.entries[k] \/ k \in torn

Completes == /\ pull.pc = "target" /\ pull'.pc \in {"idle", "check"}
             /\ crashes' = crashes

(* A pull that completes repairs what a killed one left: every entry it     *)
(* writes has its file, and the file is what the entry says.  Two ways a    *)
(* killed pull's file outlives it: the service still answered 304 to the    *)
(* entry from before that pull, or a dev boot, which asks nothing about a   *)
(* file and entry it finds, kept the two as they were.                      *)
PullHeals ==
    [][Completes => \A k \in DOMAIN pull.entries :
            \/ file[k] = pull.entries[k]
            \/ /\ k \in torn \ pull.wrote /\ file[k] # Absent
               /\ Pinned(pull.prior, k) /\ pull.entries[k] = Pin(pull.prior, k)
               /\ k \in pull.confirmed \/ pull.mode = "boot"
      ]_vars

Rewrites(k) ==
    /\ pull.pc = "write" /\ \E g \in pull.got : g.key = k
    /\ file[k] # Absent /\ file'[k] # file[k]

(* vite/src/index.ts: "never rewrite existing files".  A dev boot replaces  *)
(* a file only when an earlier pull lost its lockfile entry: the target     *)
(* failed or was not selected, or the pull was killed.                      *)
BootKeepsFiles ==
    [][\A k \in Keys : (pull.mode = "boot" /\ Rewrites(k)) => k \in unpinned]_vars

(* pull.ts: checkUpdates "reports entries whose upstream schema hash moved  *)
(* past the manifest".  A pinned schema that has moved is reported, unless  *)
(* - it is withdrawn, or came back as schema.added, which is not asked for; *)
(* - it had moved already when a pull last moved fetchedAt (an edge copy    *)
(*   was fetched, or it was kept while a missing file was fetched), or a    *)
(*   sync begun before fetchedAt published it after (these are blind);      *)
(* - the check said that there is more than one page, and the page is full  *)
(*   of changes at least as new as the move.                                *)
DriftReported ==
    \A r \in report : \A k \in DOMAIN r.pins :
        r.upstream[k] \notin {r.pins[k], Absent} =>
            \/ k \in DOMAIN r.said \cup r.blind
            \/ /\ r.more
               /\ \E i \in DOMAIN feed \ r.page :
                    /\ feed[i].key = k /\ feed[i].hash = r.upstream[k]
                    /\ \A j \in r.page : feed[j].at >= feed[i].at

=============================================================================
