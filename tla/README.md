# modelschemas in TLA+

TLA+ modules, TLC configurations and TLAPS proofs for the service in this
repository and what its users run: the cron jobs that watch AI providers'
schemas, models and prices, the database they write, the webhooks and the feed
that carry the changes out, the requests that write, and the generated files of
a client's checkout.

One modelling choice runs through all modules. The service is a set of short
Worker invocations (cron firings and HTTP requests) over one D1 database.
A single statement, or one `db.batch`, is atomic; nothing larger is. So **one
awaited statement is one action**, statements of different invocations
interleave freely, values read earlier are kept in the invocation's locals and
used as they were, and an invocation may be cut off between any two statements
(the platform's limits, an eviction, an exception).

## 1. The system

| component | state | operations | talks to |
|---|---|---|---|
| spec sync (`src/server/ingest/sync.ts`) | `endpoints`, `schema_versions`, `changes`, `providers` | `syncProvider`, nightly in four shards and from `POST /v1/admin/sync/{provider}` | provider adapters, changes feed |
| models poll (`ingest/poll-models.ts`, `deprecations.ts`) | `models`, `changes` | `pollProviderModels` every 15 minutes, `applyDeprecations` | listings, deprecation pages |
| records of a poll (`model-identity.ts`, `docs-failing.ts`, `row-shape.ts`) | same-as links, `ingest_log`, `cache_meta` | reconcile links, report sources that keep failing, announce a new row shape | the models poll runs them |
| FAL pricing (`extract-fal-pricing.ts`, `providers/fal.ts`) | rate cards and their sources in `models`, cursor and held row in `cache_meta`, pages in KV | six extract firings a night and `POST /v1/admin/extract/fal`; the poll for chat rows | fal.ai pages, an extract model |
| Vercel pricing (`extract-vercel-pricing.ts`) | rate cards | one firing a night | an extract model |
| webhook fan-out and delivery (`webhooks.ts`) | `webhook_deliveries`, checkpoint in `cache_meta`, `subscriptions.status` | `runWebhookTick` at the end of every poll invocation: `enqueueNewChanges`, then `deliverDue` | changes feed, receivers |
| subscriptions API | `subscriptions` | create (at most ten an owner), list, delete (cascades to deliveries) | webhooks |
| agents, API keys, rate limiter | users, keys; KV counters | register, verify; count requests by window | every request |
| read API, changes feed, long poll, edge cache, export | the tables, read only; cached copies | pages, `?since=`, `?wait=`, purge after an admin sync | clients |
| catalog mirror (`scripts/mirror-catalog.ts`) | a git repository: files and `feed.json` | hourly workflow | export, changes feed |
| schema bundling, rate cards, validation, typegen, OpenAPI | none | pure functions | syncs, polls, reads |
| codegen pull, vite plugin, CLI, client (`packages/`) | generated files and a manifest | pull, verify, update | the read API |
| web pages (`src/routes`) | none | rendering | the read API |

`PROJECT.json` lists each of them with its files and its status.

**How they meet.** Only through the tables. Ingest runs append to `changes`;
webhook ticks, the changes feed and long polls read it by `created_at`. The
poll and the extract jobs write the same `models` rows. No job takes a lock
(`worker.ts:237`): cron and admin routes run the same job twice at once, and a
slow poll runs beside the next one. A subscription may be deleted between the
statements of a tick.

**What is hard.** (a) A run stamps all it writes with the second it started in,
so rows appear in the feed behind what readers have already passed. (b) Work
is cut off part-way, and the next run must finish it without saying it twice
or never. (c) Jobs compare with what they read at their start. (d) Retries,
backoff, auto-pause and cascaded deletes meet in `deliverDue`. (e) A cursor
walk must make progress past failing pages without leaving rows out. (f) The
request handlers check and then write, in two statements. (g) A checkout holds
copies of upstream state whose age only a lockfile tells.

**What makes each part correct.** *Fan-out:* every matching active subscription
gets a delivery for each change, in spite of (a) and (b). *Delivery:* bounded
POSTs, backoff respected, every delivery settles, a paused receiver is left
alone. *Spec sync:* one current version of each document, a feed that tells its
history exactly once, repair by the next run. *Poll:* rows agree with listing
and deprecations page, dates are stable, each appearance and disappearance is
told, and told once unless polls overlap. *Walk:* no row is passed over, none waits for ever. *Prices:* a
row the extract skips is priced as its page says, and the feed tells each move.
*Readers:* a reader that goes back an hour misses nothing and repeats nothing.
*Requests:* limits are exceeded by no more than what really ran at once, and
a half-done registration is the only account without a key. *Pull:* files that
verify passes are what the lockfile pins, completed pulls repair what killed ones
left, boots leave files alone, drift is reported. *Links:* they follow what providers state of
their models, and each move is told once. *To be modelled:* bundles are closed under reference; card
evaluation picks one price.

## 2. The modules

| module | models | notes |
|---|---|---|
| `WebhookTables` | `changes`, `subscriptions`, `webhook_deliveries`; clock, ingest runs, subscriptions API | shared by the next three |
| `Fanout` | `enqueueNewChanges` | one action per statement; `fan[t]` holds tick t's locals |
| `Delivery` | `deliverDue` | `drain[t]` holds the batch as first read |
| `Webhooks` | `runWebhookTick`: both halves over the shared tables | refines `Fanout` |
| `Webhooks_proofs` | theorems about `Fanout`, `Delivery` and `Webhooks` | section 5 |
| `SchemaHistory` | what the schema store promises its readers | abstract |
| `SpecSync` | `syncProvider` for one provider | implements `SchemaHistory` |
| `SpecSync_proofs` | theorems about `SpecSync` | section 5 |
| `FalWalk` | the cursor walk of `extractFalPricing` | rows are numbered in id order |
| `ModelPoll` | `pollProviderModels` and `applyDeprecations` | a listing's facts are one value |
| `ModelPoll_proofs` | theorems about `ModelPoll` | section 5 |
| `SameAs` | `pollAllProviders` as far as links go, `reconcileSameAs` | of a row: aliases, evidence, link |
| `SameAs_proofs` | theorems about `SameAs` | section 5 |
| `PriceCards` | the poll and the FAL extract writing the same rows | a card is the text it was read from and the price it gives |
| `FalPricing_proofs` | theorems about `PriceCards` and `FalWalk` | section 5 |
| `ChangeReaders` | the mirror job, the export, feed pages, the long poll | ingest jobs are its environment |
| `ChangeReaders_proofs` | theorems about `ChangeReaders` | section 5 |
| `Requests` | rate limit, subscription create and delete, key registration | one action per statement |
| `Requests_proofs` | theorems about `Requests` | section 5 |
| `CodegenPull` | pull, verify, checkUpdates; the dev server's boot | the service is its environment |
| `CodegenPull_proofs` | theorems about `CodegenPull` | section 5 |
| `MC*` | instances for TLC | |

### Fanout
`ReadCheckpoint`, `ReadChanges`, `ReadSubs`, `InsertDelivery` (one row each),
`WriteCheckpoint` are the statements in the code's order. `InsertRejected` is
the foreign key failing because the subscription was deleted after `ReadSubs`:
the exception ends the tick. `FanCrash` is a cut-off. `BeginRun`,
`CommitChange` are an ingest run taking `now` and, any time later, inserting a
change with that stamp. Event lists and provider filters are the relation
`Wants`. History variables: `owed` (pairs active and matching when the change
was committed), `late` (changes whose second some fan-out had already looked
past when they were committed), `aborts`, `overlaps`.

### Delivery
`ReadDue` takes at most `Limit` due rows, oldest first, with their columns;
`PickDelivery` re-reads one subscription; then `FailInactive`, or `Post` and one
of `RecordOk`, `RecordRetry`, `RecordExhausted` + `PauseAfterExhausted` (two
statements). Attempt and backoff are computed from the row as first read, as in
the code. The signed body is left out; the answer is 2xx or not.

### Webhooks
`stage[t]` sequences the two halves; an exception or cut-off in either starts
the next firing afresh.

### SpecSync and SchemaHistory
A spec is the set of its endpoints and a hash for each schema it states.
`FetchSpec` chooses any spec and any set of current versions whose sources are
withdrawn; then come the slices of withdrawals, a skip or the two reads,
`InsertEndpoint` (row and event in one batch; `InsertConflict` when another run
was first), `PublishVersion` (supersede, insert or revive, event: one batch),
and the removals, each told once ever. Kinds outside `Announced` are stored
without an event. In `SchemaHistory` the whole table of versions is one
function from documents to a current hash.

### FalWalk
`WalkSettled`, `WalkLeftover`, `WalkPastCap` and `WalkFailed` are the ways the loop
deals with a row; what a page says is a choice. `Extract` lets any queued row
fail; `SaveHeld` rewinds onto the first that was not held already; `SaveCursor`
ends the run. `Turnover` is the models poll changing the roster.

### ModelPoll
`poll[p]` holds the locals of invocation p's poll; several may run side by side.
`StartPoll` chooses a listing and perhaps a deprecations page and reads the rows;
row and change are two steps (`InsertModel`, `UpdateModel` or `RemoveModel`, then
`Tell`); `ReadDeprecations` reads the rows again and `ApplyDeprecations` commits
slices of (row, change) pairs. `FailInsert` is an insert that meets a row another poll
has inserted meanwhile: the poll throws. Histories: `overlapped`; `alone` in a poll's
locals, and in the changes it tells of entries (no other poll ran while it did);
`polled`, the listing and page of a poll that completed alone, until a row or the
feed is written again.

### SameAs
A run polls the providers in any order, then reconciles. A poll is
`EnsureProvider` (the claims of the deployed configuration), `FetchListing`,
`ReadRows`, the writes of rows (`InsertModel` throws when another run was first),
and `PersistEvidence`, in slices, of what differs from the rows it read. `FailPoll` is
a provider that throws or is skipped. `ReadDiffs` is the query: `Owners`,
`Candidates`, `Tier` and `Resolved` are its subqueries. `CommitLinks` is one batch of
links and changes. Names matter only through equality and through `Hyphened`.

### PriceCards
`ListModels` is what the poll learns of chat pages, from KV or upstream, a page it
could not read included; `ReadRows` its snapshot; `PollRow` the pricing decision
(`ListedCard`; `refused` is a listed card the write gate refuses, stored as none)
and the whole-row write. The extract goes as the code does: `StartExtract` is its
snapshot of the rows and of the clock (`over`: the promos that have ended);
`FetchPage` reads a page, ahead of the walk; `LeaveRow` passes a row over,
`WriteWalked` writes a stub or a card that is known or compiled, `QueueRow` leaves a
section to the extract model. After the walk each leftover is one of `WriteLeftover`,
`StampLeftover` (`stampPricingHash`) and `KeepLeftover`. `EndPromo` ends a promo without
touching its page: `ShouldSkip` looks at the stored card's `expiresAt`, and what a
text asks for, `PriceNow`, depends on what has ended. A text and its hash are one
value, while a row's card and its source hash are two columns, so that "the hash is
the page's" and "the card is the page's" can come apart as they do in the code.
Three history variables hold the excuses of section 3. Taken on trust: the extract
model states `expiresAt` for a running promo. A section with one amount and a unit
rate compiles without one, whatever it says of a promo, so it is no promo here.

### ChangeReaders
`WriteRow` and `WriteChange` are an ingest job's two commits, with a stamp no later
than the clock and a random id. The mirror runs `StartMirror`, `ReadLatest`, one
`ReadSection` per statement of the export, `StartFeed`, `ReadPage` per page,
`CommitMirror`; `FailMirror` stands for any failure, after which nothing of the run
stays. `StartHold`, `Look`, `AnswerHold` are `?wait=`.

### Requests
A slot of `Reqs` holds one request: bucket, kind, the window of its arrival. Get
and put of the counter are two steps; then the handler's statements in order. `Fail`
is an exception or a cut-off between any two. History variables count grants per
window, and for each the grants a writer did not see (`overtaken`).

### CodegenPull
`StartPull` reads the lockfile; each target, in any order, is kept, answered 304, failed or
fetched (perhaps from an edge copy) and written; `WriteManifest` is last and, on a
boot, the update check follows (`CheckAnswer`). `KillPull` stops it anywhere. A file is
what it was made from; `VerifyOk` looks only whether it is there, as `verify()` does.
The service publishes (`Publish`: schema.updated, or schema.added where nothing is
current) and withdraws schemas without a change (`Withdraw`); a check reads one page,
`PageLimit` changes, of schema.updated since `fetchedAt` (`Asked`, `Pages`). Histories:
`torn` (keys whose file a killed pull wrote last), `unpinned` (a file without an
entry), `blind` (a move the check does not ask for).

## 3. What is checked

Runs that pass:

* **fanout** - two overlapping ticks, one cut-off. `NoTimelyChangeLost`: a change
  committed before any fan-out looked past its second is never skipped for a
  subscription that stays active, even when a slow tick moves the checkpoint
  back. `DuplicatesNeedAborts`: each duplicate row takes a death or an overlap.
* **delivery** - two overlapping ticks, two deliveries, one cut-off.
  `PostsAccounted` and `RetryWindow` (no attempt, and no giving up, before the
  backoffs have passed) hold under overlap although overlapping ticks
  overwrite each other's attempt count; until ticks overlap, `PostsAccounted` adds
  that a paused subscription gets no further POST.
* **webhooks** - the whole tick. `ImplementsFanout`: delivery writes only columns
  fan-out never reads. `EventuallyDelivered` is the liveness end to end: what is owed
  gets its row, and all rows of a pair settle.
* **sync** - three runs, two of which may overlap, over two endpoints and two
  kinds, any spec each time. `ImplementsHistory` and `SyncedMatchesSpec` (one
  current row of a document; a completed run repairs what died before it) until
  two runs overlap; `AddedExactlyOnce` in spite of overlaps.
* **fal_walk** - `NoLeapfrog`: the cursor never passes a row that is not settled.
  `EveryRowWalked`: every row of the roster is walked again and again.
* **poll** - two invocations whose polls may overlap, one cut-off. `DeprecationChain`:
  the last change tells the entry a row has, and each replaces one told before; a
  poll that ran alone tells nothing twice. `PolledMatchesListing`: a poll that
  completed alone heals what earlier ones left half done or wrote over each other.
  `BirthAnnounced`: no model is told added twice, and as long as no poll is cut off
  every row's birth is told.
* **same_as** - two overlapping runs, one failing poll or cut-off, one move upstream.
  `LinksToldOnce`: a row's link is the one the feed last told, and until runs
  overlap nothing is told again, whatever died half-way. `LinksSettle`: once
  listings and claims stay put, every row's evidence and link agree with them.
* **prices** - `SkipIsSafe`: a row the extract would skip has the price its page
  asks for now, also when a promo has ended on an unchanged page.
  `FeedTellsCards`: the price in a row is the one the feed last told.
  `ProvenanceKept`: a row's sources are those of its facts. `LostForAReason`: a
  card goes only with a page that names no price, a refusal of the write gate, or
  an older row put back.
* **readers** - `ExportCovers`: the files hold every change the export's
  `latestChange` stands for. `EveryChangeListed`, `ListedOnce`: the commit
  messages name each change exactly once, however late it is committed within
  the hour. `HeldPastLateOnly`: a request held to its end misses only changes
  stamped no later than those it started from.
* **requests** - `RateBound`: never refused before the limit is granted, and
  exceeded only by grants some writer did not see. `CapBound`: an owner has at
  most `Cap + Cardinality(Reqs) - 1` subscriptions, however often requests race.
  `OneKeyPerAccount`: racing registrations of one e-mail make one account and
  ask for one key.
* **pull** - `VerifiedFilesMatch`: a file verify passes is what is pinned, although
  verify reads no content, unless a killed pull wrote it last. `PullHeals`: the
  entries of a completed pull have their files, and these are as the entries say.
  `BootKeepsFiles`: a dev boot rewrites no file with an intact lockfile entry.
  `DriftReported`: a pinned schema that moved is reported. Each has exceptions,
  listed below.

One run in which TLC finds what the repository says of the code violated, a finding
in `PROJECT.json`:

* **fanout_late** - `NoChangeLost`, what `webhooks.ts:2` says of every change: one
  stamped with its run's start and committed after a tick has moved the
  checkpoint that far is never fanned out.

Several properties hold only under a condition, and the condition is where the code
is weaker than what the repository says of it:

* "Idempotent via the checkpoint" (`webhooks.ts:47`) takes
  `DuplicatesNeedAborts`'s `1 + aborts + overlaps`.
* "After MAX_ATTEMPTS the subscription is auto-paused" (`webhooks.ts:7`) is two
  statements; a cut-off between them leaves the subscription active for good.
* Two syncs that overlap read the same current version and leave two current rows
  (`SyncedMatchesSpec` until `overlapped`; `sync.ts:556`, `export.ts:112`).
* A poll cut off between a row and its change leaves the model untold
  (`BirthAnnounced`), one cut off before it applies the page loses a stated date for as
  long as the page keeps the entry, since an unchanged one is not written again
  (`PolledMatchesListing`). Both have `crashes = 0`.
* Two polls that overlap tell one `model.removed`, `model.updated` or `model.deprecated`
  twice, although `deprecations.ts:8` has one change for each change of an entry
  (`DeprecationChain` claims it of polls that ran `alone`); the one that read first
  may put its older listing, or no date, over the newer one's. The next poll that
  runs alone sets the row right (`PolledMatchesListing` has no condition on earlier
  overlaps), but a stated date may stay lost. What a model is told first need not
  be its birth after an overlap (`BirthAnnounced`).
* A page that answers 408, 429 or 5xx for ever pins the walk's cursor:
  `EveryRowWalked` has finitely many such answers.
* `SkipIsSafe` excepts rows on which an extract stamped the page's hash beside
  another card: one a poll put back after the extract read the row, or one whose
  page's price did not verify. Such a row is skipped until its page changes.
* `LostForAReason` allows a listed card that the write gate refuses: the poll stores
  NULL over the card there was, and its source (`ingest-signals.ts:119`).
* `FeedTellsCards` and `ProvenanceKept` except rows that a poll, or an extract,
  wrote whole from before the other job's write. A poll that puts an older card
  back for the sake of another fact writes no change for it.
* `EveryChangeListed` excepts what the first run took in. A mirror seeded from an
  empty feed starts its window at the newest change of its second run, and what
  is older than that window then goes unlisted too.
* Two overlapping runs may tell one link twice, or put an older link back for a while
  (`LinksToldOnce` has `overlaps = 0`; `LinksSettle` has not).
* `BootKeepsFiles` excepts files whose lockfile entry an earlier pull dropped (the
  target failed or was not selected) or never wrote (it was killed): the boot then
  rewrites them, though `vite/src/index.ts` says it never does. So the property
  speaks of files that have their entry, and of no others.
* `VerifiedFilesMatch` excepts a file that a killed pull was the last to write. "In
  production mode the build verifies that files match the `.manifest.json` lockfile"
  (vite `README.md:36`, and `vite/src/index.ts:6`), but `verify()` asks only whether
  each file is there: a killed pull's file passes beside the entry of an older version.
* `DriftReported` says that a moved schema is reported, not that every report is one:
  when upstream goes back to the pinned version, the newest change is no hit and
  the one it replaced is reported, although `pull.ts:419` calls the first hit "the
  current upstream hash".
* `DriftReported` excepts schemas that had moved when a pull last moved
  `fetchedAt`, or whose sync began before that second: they are not asked for. Nor
  are schemas withdrawn, which no change tells, or withdrawn and published again,
  which is schema.added (`sync.ts:568`). And it excepts a move behind the one page of
  200 changes that is read, when all of the page is at least as new: the check then
  only logs that there is more (`pull.ts:400`).
* `PullHeals` excepts a file a killed pull wrote over a pinned one in two cases: upstream
  answers 304 to the entry from before (it went back, or an edge copy did), or
  a dev boot finds file and entry and keeps both unasked. Either way the wrong file
  stays beside the entry.

Every property of a passing run has a *mutant*: an operator (marked "Mutant:" in
the modules) that changes one definition as a plausible slip in the code would,
and under which TLC finds the property violated.

### Bounds, and why they are enough
`MaxTime`, `MaxCrashes`, `MaxOverlaps`, `MaxRuns`, `MaxPolls`, `MaxFailures`,
`MaxTurnover`, `MaxMoves`, `MaxFaults`, `MaxExtracts`, `MaxEdits`, `MaxJobs`, `MaxWaits`, `MaxWindow`,
`MaxArrivals`, `MaxPulls` and `MaxDeletes` bound clocks, histories and
environment; `Copies` and `Ids` bound the fresh ids; `PageLimit` is the page of the
update check, where one change stands for 200.

* Webhooks: two seconds suffice for "behind" and "ahead of" the checkpoint, two
  changes for a batch that is part served. Three seconds let both attempts
  (backoff 2) happen in `Webhooks`; `Delivery` has five and two deliveries of one
  subscription, so that exhausting one must stop the other. `MaxAttempts = 2`
  stands for the code's 8: retry and exhaustion both occur. There is one
  subscription, since no statement relates two.
* `SpecSync`: three runs make a schema revert (A, B, A), an endpoint leave and come
  back, and a third run meet what two overlapping ones left.
* `FalWalk`: five rows, two of one Pricing section, two fetches a run, so that a lap
  takes three runs and wraps inside one; rows may leave and return.
* `ModelPoll`: three polls, so that one meets what two overlapping ones left; two
  facts, an entry with a stated date and one without, one cut-off. A model may
  appear, go and return. One model: models do not interact in the code except
  through the order of statements.
* `SameAs`: two rows that state upstreams, so that a batch of one leaves the other
  undone; the maker's two rows match exactly, by an alias, with dots as hyphens,
  or both alike, and the host may claim the maker's name as well.
* `PriceCards`: one row, since no statement relates two; a stub, a cheap and a dear
  text and two texts of one promo, one of which states the dear price as its
  regular one, so that the text may change with and without the price, and the
  price without the text; two polls and two extracts, so that each can meet a row
  the other wrote between its read and its write; three edits.
* `ChangeReaders`: three ids in any order of commits and stamps, pages of one row, a
  lookback of one tick and jobs that last as long, four seconds: the window of
  the third mirror run then begins after some change the first one listed.
  One ingest job at a time stands between its two commits; each takes any
  stamp that lies at most an hour back.
* `Requests`: three slots, so that two writers may pass a third; an API key (limit
  two) and an address (limit one), two windows, four arrivals.
* `CodegenPull`: two targets, two hashes, two moves, so that a schema can move and
  move back, or be withdrawn and return, and two changes overflow a page of one;
  three pulls, of which one is killed; a file deleted; an edge copy of one tick.

`CHECK_DEADLOCK FALSE` stands in the configurations of `SpecSync`, `ModelPoll`,
`PriceCards`, `ChangeReaders`, `Requests` and `CodegenPull`: there the bounds on runs,
requests or pulls stop the model. Symmetry is over delivery ids, changes, ticks,
hashes, targets, syncs, polls and request slots, in runs without liveness properties.

### Fairness
`Webhooks`: weak fairness of each tick's next statement and of the clock. The
cron fires every 15 minutes for ever and cut-offs are finitely many
(`MaxCrashes`). Two things are outside the assumption. The tick runs at the end
of the poll's invocation, so a poll that is cut off *every* time would starve it.
And the POST has no timeout (`webhooks.ts:182`): `Post` takes every receiver to
answer or to fail, while one that holds the connection open would hold the tick
until its invocation is cut off, and again in the next, since its row stays the
oldest due. `FalWalk`: weak fairness of the run's next step, with finitely many
cut-offs and passing failures; extract failures are unlimited. `SameAs`: weak
fairness of each run's next step, the start of a new run included, with finitely
many faults; a provider whose polls fail for ever keeps its old rows. The other
modules claim safety only.

## 4. Conventions
Locals of an invocation are a record per invocation with a `pc`. History
variables, marked so where they are declared, never enable or disable an
action except as bounds. `rows` is a partial function; a delivery id is the
pair it is for and a copy number, standing for the random UUID.

## 5. What is proved

`Webhooks_proofs`, for any changes, subscriptions, ingest runs, ticks, backoffs and
bounds, from `TablesAssumption` and `DeliveryAssumption`:

* `FanoutTyped`, `DeliveryTyped`: `[]FanoutTypeOK`, `[]DeliveryTypeOK`.
* `FanoutKeepsTimely`: `FanoutSpec => []NoTimelyChangeLost`, which is not inductive: it
  says nothing about a tick that is about to write the checkpoint. `FanoutInv`
  follows a tick's locals. What is owed up to `since` has its row
  (`SinceServed`: at `ReadCheckpoint` this is `NoTimelyChangeLost` itself, and it
  survives another tick moving the checkpoint back); what is owed up to any
  change of the batch is served or in the batch (`BatchComplete`, kept by
  `IngestCommit` because a change committed behind a batch is `late` by
  definition); what is owed of the batch is served or on the list
  (`TodoComplete`). With an empty list, writing the newest change of the batch
  gives `NoTimelyChangeLost` again.
* `DuplicatesAccounted`: `FanoutSpec => []DuplicatesNeedAborts`. Rows alone do not bound
  anything, since a tick under way may still insert: `DuplicatesAt` counts the rows
  of a pair together with the ticks that may yet insert one, against `aborts`,
  `overlaps` and one more, which belongs to the tick still to come while the
  checkpoint has not passed the change and nobody serves it.
* `RetriesWait`: `DeliverySpec => []RetryWindow`. What a tick writes it computes from the
  row as it read it, so the window must hold of every snapshot, too
  (`ReadsHaveWaited`), whatever overlapping ticks do to the row meanwhile.
* `PostsAllAccounted`: `DeliverySpec => PostsAccounted`. In `PostsAt` each tick that holds
  a delivery (`Holders`) has, from the second on, an overlap to its account that
  it has not spent; `AloneWhilePosting` gives the clause on paused subscriptions.
* `TicksKeepPromises`: the invariants above hold of whole ticks (`WebhooksSpec`). To
  either half the other is rows born, subscriptions paused or deleted, and time.
* `DeliveryNeverDisturbsFanout`: `WebhooksSpec => ImplementsFanout`. Every step maps to a
  step of `FanoutSpec` or a stutter, because `Undelivered`, the rows with their
  delivery columns put back, depends on no column a delivery writes.

`SpecSync_proofs`, for any endpoints, kinds, hashes, syncs and bounds, from `SyncAssumption`:

* `SyncTyped`: `SyncSpec => []SyncTypeOK`.
* `BirthsToldOnce`: `SyncSpec => []AddedExactlyOnce`, overlaps included. `BirthInv` adds
  that the feed knows nothing of an endpoint without a row, and that what a run
  still has to write is about endpoints that have theirs.
* `SyncRepairs`: `SyncSpec => []SyncedMatchesSpec`. `AloneInv` follows the run that works
  alone: in its walk a document still to be looked at is as the run read it and
  every other as the spec says (`WalkInv`); after it the table is as the spec
  says, and what has gone is told or on the list (`RemovedInv`).
* `SyncImplementsHistory`: `SyncSpec => ImplementsHistory`, by the same invariants: each
  batch is one step of `SchemaHistory`, or a stutter.

`ModelPoll_proofs`, for any pollers, models, facts, entries, stated dates and bounds,
from `PollAssumption`:

* `PollTyped`: `PollSpec => []PollTypeOK`.
* `PollsSettle`: `PollSpec => []PolledMatchesListing`, a claim about the last statement of
  a poll that ran alone. `AloneInv`: while such a poll is under way no other is.
  `Progress` says of it how far it has come: `ListingInv` (rows the walk has passed
  are as listed, the others as read), `MissingInv`, `EntryInv` (until the page is
  applied the entries are those the poll read), `PageInv` (its list is exactly the
  rows whose entry is not the page's). The clause on stated dates is `DateInv` in a
  poll and `RestInv` between polls.
* `DeprecationsChain`: `PollSpec => []DeprecationChain`, cut-offs and overlaps included,
  since row and change are one batch here. In `ChainInv` each set of changes has a
  latest one, which spares an induction; `ToldInv` says that every entry a poll holds
  as read, and so may tell as replaced, has been told. That only an
  `ApplyDeprecations` moves an entry holds of every step (`EntriesKept`), because
  an insert fails when the row is there.
* `BirthsAnnounced`: `PollSpec => []BirthAnnounced`. `AddedInv`: whoever inserted a row is
  the only one to tell it added, since the second insert fails. `BirthInv` is the part
  without overlaps: a row is told unless its change is the next statement of the poll,
  and a row told gone has a date or its `model.updated` is that statement, so
  `RemoveModel`, which takes only rows without a date, never tells it gone again.

`Requests_proofs`, for any callers, limits, cap, e-mails and finite set of slots,
from `RequestsAssumption`:

* `RequestsTypes`: `RequestsSpec => []RequestsTypeOK`, the foreign key included. The
  inductive invariant adds what a request has `Behind` it: a creator that counts
  or inserts has its owner's row, a registration that asks for a key its account.
* `RateBounded`: `RequestsSpec => []RateBound`. In `RateInv` a stored count is within
  the limit and short of the grants by at most `overtaken` (`Stored`), and so is
  each writer's count in hand, with what has `passed` it since (`Holds`): a put
  that overwrites newer counts hands to `overtaken` what it takes off the counter.
* `KeysAreSingle`: `RequestsSpec => []OneKeyPerAccount`, from `AccountInv`: between the
  sign-up and the key, the account belongs to one request.
* `CapHolds`: `RequestsSpec => []CapBound`. Rows plus inserts past the count grow only
  at `CountSubs`, and it lets a request through only below the cap, when at most
  the other requests stand at the insert; `InsertSub` turns an insert into a row;
  `CapKept` is every other step, which adds to neither.

`FalPricing_proofs`, about `PriceCards`, for any rows, texts, prices and bounds, from
`PricesAssumption`:

* `PricesTyped`: `PricesSpec => []PricesTypeOK`. `TypeInv` adds both jobs' locals, and
  that in the table and in the poll's snapshot a card has a source hash.
* `FeedFollowsCards`, `ProvenanceHolds`: `[]FeedTellsCards`, `[]ProvenanceKept`, each
  inductive with `TypeInv`.
* `LossesExplained`: `PricesSpec => LostForAReason`, step by step.
* `SkippingIsSafe`: `PricesSpec => []SkipIsSafe`. The table alone is not inductive: a
  poll writes rows it read long before. `SkipInv` says the snapshot `poll.old` is
  as safe as the table was when it was read, with the doubts of that moment, and
  with the promos that have ended since: `SafeAfterEnd` is the end of a promo, which
  makes the hash of every card at its price worthless. An extract's clock is not
  ahead of the promos (`ExtractFits`), so a card it writes late is no exception.

These five go through `PollRowWrites` and `ExtractWritesRow`, which say what either job
makes of a row; `QuietSteps` is every other step.

The same module about `FalWalk`, for any number of rows, sections, caps, failures,
turnover and cut-offs, from `WalkAssumption`:

* `WalkTyped`: `WalkSpec => []WalkTypeOK`. `OrderInv` adds that the order names no row
  twice and that the walk ends one past the last.
* `NothingLeapfrogged`: `WalkSpec => []NoLeapfrog`. The property speaks of the end of a
  run and says nothing of the walk before. `ReachInv` follows the cursor there: it
  stands right behind the walk until something freezes it, and short of every row
  passed by. `QueueInv` prepares the rewind: what is queued is in walking order, so
  the first row to retry is the first failed one of all that have a second chance
  left; and the cursor stored with a queued row (`before`) stands before that row and
  no further than the cursor now, so going back never moves it forward.

`ChangeReaders_proofs`, for any ids, sections, page size, lookback and run lengths,
from `ReadersAssumption`:

* `ReadersTyped`: `ReadersSpec => []ReadersTypeOK`.
* `FilesCoverFeed`: `ReadersSpec => []ExportCovers`. In `CoverInv` what is known to be
  committed is in the files so far or in a section still to be read.
* `NothingUnlisted` and `NothingListedTwice`: `[]EveryChangeListed`, `ListedOnce`. `ListInv`:
  what lies behind every window to come has been told, and what was named is
  remembered while a window can reach it; this rests on a job's taking no longer
  than the lookback. `ScanInv` is the scan of the pages under way: a row is in the
  window already, too old for it, still ahead of the cursor, or was committed
  behind the page being read, and then no row of that page is so new that the next
  window would start after it. `PageIs`, `NewestAtIs` and their like, about the data,
  are proved from least elements (`WFMin`), since recursion over data is out of reach.
* `HoldsMissNoNews`: `ReadersSpec => HeldPastLateOnly`, with `HoldInv`: the baseline a
  request compares with is the newest stamp there was when it began.

`CodegenPull_proofs`, for any targets, hashes, edge copies and bounds, from
`CodegenAssumption`:

* `CodegenTyped`: `CodegenSpec => []CodegenTypeOK`.
* `VerifyIsEnough`, `PullsHeal`, `BootsKeepFiles`: `[]VerifiedFilesMatch`, `PullHeals`,
  `BootKeepsFiles`. `FilesInv`: a file agrees with the entry the pull under way has
  gathered for it, or is one a killed pull left and this one found confirmed or was
  not to ask about (`Healed`); one the pull has not written agrees with its pin, is
  absent or is `torn`; and a file with neither pin nor entry is `unpinned`. `FilesTaken`,
  `FilesLocked`, `FilesKilled` and `FilesAtRest` are the steps.
* `DriftIsReported`: `CodegenSpec => []DriftReported`. In `DriftInv` the change of a pinned
  schema that has moved is one the lockfile asks for (`Announced`), or the schema is
  `blind`; and a pull that wrote nothing holds the entries it read. `AnswerReports` is
  the page: a change asked for is on it, or it is full of changes at least as new.
  A report stays true as the feed grows (`ReportInv`).

`SameAs_proofs`, for any catalog, slices, runs and faults, from `SameAsAssumption`:

* `LinksAreTold`: `SameAsSpec => []LinksToldOnce`. `AloneInv` strengthens it: until two runs
  overlap, the diffs a run still has to commit state the links as they are, and no
  row is among them twice (`DiffInv`), so a slice leaves the others true. Every step
  but two is `Undisturbed`.

Only model-checked: liveness (`EventuallyDelivered`, `LinksSettle`, `EveryRowWalked`),
which is outside the prover's reach. Every safety property of a passing run is
stated by a theorem.

## 6. Plan

1. Pure parts: reference closure of a bundle, selection and evaluation of rate
   cards, against reference definitions over bounded inputs.
2. The poll's records: docs that keep failing, refused price clears, row shapes.

The runs stay one per question: a module that joins a component joins its run.

## 7. Not modelled

* Rendering, HAL, OpenAPI, typegen, MCP and the web pages: they keep no state.
* Provider adapters, some eighty parsers of upstream documents and most of the
  repository's lines: their result is an input of the models. The generated
  clients and example schemas are data.
* Verifying credentials (the auth library), KV's eventual consistency and the
  expiry of its counters: `Requests` takes a get to return the last put.
* The one-way retirement of models.dev rows (done in production data); the signed
  webhook body; a receiver that never answers.
* In `SpecSync`, endpoint columns other than presence, bundling, catalog flags, and
  the split of providers over shards.
* In `PriceCards`, refused mass clears of prices, why the write gate refuses a card, and
  the Vercel extract; the step between a row and its change, and two polls at once,
  which `ModelPoll` has. Without the AI binding leftovers are left as `KillExtract`
  leaves them.
* In `FalWalk`, the cron's extract and an admin's at once.
* Small on purpose: `Webhooks` has one change in its liveness run, so nothing commits
  late there (`Fanout` has that); `ChangeReaders` has one section of the export in its
  configuration (the proof has any).
* In `ChangeReaders`, changes deleted with their provider, re-seeding, the shrink
  rule, and the feed's filters. `waitForStatusChange` is the same loop.
* In `CodegenPull`, two pulls at once and two targets of one file path.
* What section 6 plans.
