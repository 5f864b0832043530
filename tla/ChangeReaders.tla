---------------------------- MODULE ChangeReaders ----------------------------
(***************************************************************************)
(* The readers of the changes feed: the hourly git mirror                  *)
(* (scripts/mirror-catalog.ts and its workflow), which reads the export    *)
(* (src/server/export.ts) and then the pages of GET /v1/changes            *)
(* (src/server/changes-api.ts), and the long poll (src/server/wait.ts).    *)
(*                                                                         *)
(* The ingest jobs are the environment, as ModelPoll and SpecSync have     *)
(* them: a job stamps every change with the second it began in, gives it a *)
(* random id, and commits the row the change is about before the change or *)
(* with it.  Nothing is read in one snapshot.                              *)
(***************************************************************************)
EXTENDS Naturals, Sequences, FiniteSets, FiniteSetsExt

CONSTANTS
    Runs,       \* ingest jobs that may be between a row and its change at once
    Ids,        \* change ids, ordered, drawn at random
    Sections,   \* what the export reads one statement each, in order
    Limit,      \* rows of a page
    Lookback,   \* LOOKBACK_SECONDS, in clock ticks
    MaxRun,     \* how long after its start an ingest job may still commit
    Wait,       \* how long a request may be held
    MaxTime,    \* bound: the last second
    MaxJobs,    \* bound: mirror runs
    MaxWaits    \* bound: held requests

ASSUME ReadersAssumption ==
    /\ Ids \subseteq Nat \ {0}
    /\ {Limit, Lookback, MaxRun, Wait, MaxTime, MaxJobs, MaxWaits} \subseteq Nat
    /\ Limit > 0
    /\ MaxRun <= Lookback   \* "Workers cron invocations end well before that"
    /\ Lookback < MaxTime
    /\ Sections \in Seq({Sections[i] : i \in DOMAIN Sections})

(* The first second: time enough for a window before it.                    *)
Start == Lookback + 1

SectionSet == {Sections[i] : i \in DOMAIN Sections}

VARIABLES
    clock,
    rows,       \* rows[s]: the changes whose effect section s holds
    feed,       \* the changes table
    run,        \* run[r]: {} or the row a job has written, its change to come
    job,        \* the locals of the mirror run under way
    repo,       \* the pushed commit: files and feed.json
    named,      \* ids the commit messages list
    silent,     \* history: ids the repo took in without a message
    held,       \* the long poll under way
    jobs, waits \* bounds' counters

service == <<clock, rows, feed, run>>
mirror == <<job, repo, named, silent, jobs>>
poll == <<held, waits>>
vars == <<service, mirror, poll>>

-----------------------------------------------------------------------------
(* The ingest jobs.                                                        *)

Used == UNION {rows[s] : s \in SectionSet}

Tick ==
    /\ clock < MaxTime
    /\ held.pc = "hold" => clock < held.deadline
    /\ clock' = clock + 1
    /\ UNCHANGED <<rows, feed, run, mirror, poll>>

(* Mutant: the change is inserted before the row it is about is updated.    *)
WriteRowLate(r, id, s, now) ==
    /\ run[r] = {} /\ id \notin Used /\ now + MaxRun >= clock
    /\ \A c \in feed : c.id # id
    /\ feed' = feed \cup {[id |-> id, at |-> now]}
    /\ run' = [run EXCEPT ![r] = {[id |-> id, now |-> now]}]
    /\ UNCHANGED <<clock, rows, mirror, poll>>

(* A job begun at second now, and no longer ago than a job lasts, updates a *)
(* row.                                                                     *)
WriteRow(r, id, s, now) ==
    /\ run[r] = {} /\ id \notin Used /\ now + MaxRun >= clock
    /\ rows' = [rows EXCEPT ![s] = @ \cup {id}]
    /\ run' = [run EXCEPT ![r] = {[id |-> id, now |-> now]}]
    /\ UNCHANGED <<clock, feed, mirror, poll>>

(* Then it inserts the change,                                              *)
WriteChange(r) ==
    \E w \in run[r] :
        /\ w.now + MaxRun >= clock
        /\ feed' = feed \cup {[id |-> w.id, at |-> w.now]}
        /\ run' = [run EXCEPT ![r] = {}]
        /\ UNCHANGED <<clock, rows, mirror, poll>>

(* or dies first: the change is never told.                                 *)
KillRun(r) ==
    /\ run[r] # {}
    /\ run' = [run EXCEPT ![r] = {}]
    /\ UNCHANGED <<clock, rows, feed, mirror, poll>>

-----------------------------------------------------------------------------
(* listChanges().                                                          *)

After(a, b) == a.at > b.at \/ (a.at = b.at /\ a.id > b.id)

Newest(C) == {c \in C : \A d \in C \ {c} : After(c, d)}

NewestAt(C) == Max({0} \cup {c.at : c \in C})

(* cursor: {} or the set of the last row of the page before.                *)
Matching(since, cursor) ==
    {c \in feed : c.at >= since /\ \A b \in cursor : After(b, c)}

PageOf(C) == {c \in C : Cardinality({d \in C : After(d, c)}) < Limit}

NextCursor(C) ==
    IF Cardinality(C) <= Limit THEN {}
    ELSE {c \in PageOf(C) : \A d \in PageOf(C) \ {c} : After(d, c)}

-----------------------------------------------------------------------------
(* The mirror run: main() of mirror-catalog.ts and the workflow.           *)

NoJob == [pc |-> "idle", latest |-> {}, known |-> {}, todo |-> <<>>,
          files |-> {}, since |-> 0, cursor |-> {}, window |-> {}, floor |-> {}]

IdsOf(C) == {c.id : c \in C}

(* The two readers write nothing the other reads: they take turns, and each *)
(* meets every step of the jobs.                                            *)

(* Mutant: the export reads its first rows before latestChange.             *)
StartMirrorRows ==
    /\ job.pc = "idle" /\ jobs < MaxJobs /\ held.pc = "idle"
    /\ jobs' = jobs + 1
    /\ job' = [NoJob EXCEPT !.pc = "export", !.todo = Tail(Sections),
                            !.files = rows[Head(Sections)]]
    /\ UNCHANGED <<service, repo, named, silent, poll>>

StartMirror ==
    /\ job.pc = "idle" /\ jobs < MaxJobs /\ held.pc = "idle"
    /\ jobs' = jobs + 1
    /\ job' = [NoJob EXCEPT !.pc = "export", !.todo = Sections]
    /\ UNCHANGED <<service, repo, named, silent, poll>>

(* "Read first: every change it covers is already in the rows below."       *)
ReadLatest ==
    /\ job.pc = "export"
    /\ job' = [job EXCEPT !.pc = "rows", !.latest = Newest(feed), !.known = IdsOf(feed)]
    /\ UNCHANGED <<service, repo, named, silent, jobs, poll>>

ReadSection ==
    /\ job.pc = "rows" /\ job.todo # <<>>
    /\ job' = [job EXCEPT !.todo = Tail(@), !.files = @ \cup rows[Head(job.todo)]]
    /\ UNCHANGED <<service, repo, named, silent, jobs, poll>>

(* refuseRun: the newest change is gone or moved backwards.                 *)
Refused == \E p \in repo.latest : \A c \in job.latest : After(p, c)

(* Mutant: the window starts at the newest change seen.                     *)
SinceNewest ==
    IF repo.highWater = 0 THEN NewestAt(job.latest) ELSE repo.highWater

(* The start of the feed window, 0 when there is none: on a first run the   *)
(* newest change, and then Lookback before the newest createdAt seen.       *)
Since ==
    IF repo.highWater = 0 THEN NewestAt(job.latest)
    ELSE repo.highWater - Lookback

(* The export body is complete.  Without a window the feed is not read.     *)
StartFeed ==
    /\ job.pc = "rows" /\ job.todo = <<>>
    /\ ~ Refused
    /\ job' = [job EXCEPT !.pc = IF Since = 0 THEN "commit" ELSE "feed",
                          !.since = Since, !.floor = IdsOf(feed)]
    /\ UNCHANGED <<service, repo, named, silent, jobs, poll>>

ReadPage ==
    /\ job.pc = "feed"
    /\ LET C == Matching(job.since, job.cursor) IN
        job' = [job EXCEPT !.window = @ \cup PageOf(C),
                           !.cursor = NextCursor(C),
                           !.pc = IF NextCursor(C) = {} THEN "commit" ELSE "feed"]
    /\ UNCHANGED <<service, repo, named, silent, jobs, poll>>

(* newChanges(): what no earlier commit listed, and the state to store.     *)
Listed == job.window \ repo.listed

HighWater == Max({repo.highWater, NewestAt(job.window)})

(* Mutant: a ref the next window still starts with is dropped.              *)
KeepYounger == {c \in repo.listed \cup Listed : c.at > HighWater - Lookback}

Keep == {c \in repo.listed \cup Listed : c.at >= HighWater - Lookback}

(* What no later window reaches back to.                                    *)
Passed == {c \in feed : c.at + Lookback < HighWater}

(* The files and feed.json are written, committed and pushed as one commit; *)
(* its message names what is listed, or, on a first run, only the snapshot. *)
CommitMirror ==
    /\ job.pc = "commit"
    /\ repo' = [seeded |-> TRUE, latest |-> job.latest, highWater |-> HighWater,
                listed |-> Keep, files |-> job.files, known |-> job.known,
                floor |-> IF repo.highWater = 0 THEN {} ELSE job.floor]
    /\ named' = IF repo.seeded THEN named \cup IdsOf(Listed) ELSE named
    /\ silent' = IF repo.highWater > 0 THEN silent
                 ELSE silent \cup {c.id : c \in Passed}
                             \cup IF repo.seeded THEN {} ELSE job.known \cup IdsOf(job.window)
    /\ job' = NoJob
    /\ UNCHANGED <<service, jobs, poll>>

(* Any request fails, the export breaks off, the run is killed or its push  *)
(* fails: nothing of it stays.                                              *)
FailMirror ==
    /\ job.pc # "idle"
    /\ job' = NoJob
    /\ UNCHANGED <<service, repo, named, silent, jobs, poll>>

-----------------------------------------------------------------------------
(* GET /v1/changes?wait=: waitForNewChange, and the answer after it.       *)

NoHold == [pc |-> "idle", baseline |-> 0, deadline |-> 0, known |-> {}]

StartHold ==
    /\ held.pc = "idle" /\ waits < MaxWaits /\ job.pc = "idle"
    /\ waits' = waits + 1
    /\ held' = [pc |-> "hold", baseline |-> NewestAt(feed), deadline |-> clock + Wait,
                known |-> feed]
    /\ UNCHANGED <<service, mirror>>

(* Mutant: at the deadline the loop ends without a last look.               *)
LookBeforeDeadline(news) ==
    /\ held.pc = "hold"
    /\ news = (clock < held.deadline /\ NewestAt(feed) > held.baseline)
    /\ news \/ clock >= held.deadline
    /\ held' = [held EXCEPT !.pc = IF news THEN "news" ELSE "expired"]
    /\ UNCHANGED <<service, mirror, waits>>

(* One look of the loop; the last is at the deadline.                       *)
Look(news) ==
    /\ held.pc = "hold"
    /\ news = (NewestAt(feed) > held.baseline)
    /\ news \/ clock >= held.deadline
    /\ held' = [held EXCEPT !.pc = IF news THEN "news" ELSE "expired"]
    /\ UNCHANGED <<service, mirror, waits>>

(* listChanges, whatever it holds.                                          *)
AnswerHold ==
    /\ held.pc \in {"news", "expired"}
    /\ held' = NoHold
    /\ UNCHANGED <<service, mirror, waits>>

-----------------------------------------------------------------------------

ReadersInit ==
    /\ clock = Start
    /\ rows = [s \in SectionSet |-> {}]
    /\ feed = {}
    /\ run = [r \in Runs |-> {}]
    /\ job = NoJob
    /\ repo = [seeded |-> FALSE, latest |-> {}, highWater |-> 0, listed |-> {},
               files |-> {}, known |-> {}, floor |-> {}]
    /\ named = {} /\ silent = {}
    /\ held = NoHold
    /\ jobs = 0 /\ waits = 0

ReadersNext ==
    \/ Tick
    \/ \E r \in Runs :
        \/ WriteChange(r) \/ KillRun(r)
        \/ \E id \in Ids, s \in SectionSet, now \in Start..clock : WriteRow(r, id, s, now)
    \/ StartMirror \/ ReadLatest \/ ReadSection
    \/ StartFeed \/ ReadPage \/ CommitMirror \/ FailMirror
    \/ StartHold \/ AnswerHold \/ \E news \in BOOLEAN : Look(news)

ReadersSpec == ReadersInit /\ [][ReadersNext]_vars

-----------------------------------------------------------------------------
(* Properties.                                                             *)

ReadersTypeOK ==
    /\ clock \in 1..MaxTime
    /\ \A s \in SectionSet : rows[s] \subseteq Ids
    /\ IdsOf(feed) \subseteq Used
    /\ Cardinality(IdsOf(feed)) = Cardinality(feed)
    /\ job.pc \in {"idle", "export", "rows", "feed", "commit"}
    /\ Cardinality(job.latest) <= 1 /\ Cardinality(job.cursor) <= 1
    /\ job.window \subseteq feed /\ repo.listed \subseteq feed
    /\ repo.highWater \in 0..clock
    /\ held.pc \in {"idle", "hold", "news", "expired"}

(* export.ts: "Read first: every change it covers is already in the rows    *)
(* below."  Every change committed when latestChange was read, not only     *)
(* those older than it, is in the files; so what a message names is in the  *)
(* files one commit later at the latest.                                    *)
ExportCovers == repo.known \subseteq repo.files

(* mirror-catalog.ts: "The message lists every /v1/changes id no earlier    *)
(* commit listed", however late a running job commits, in whatever order    *)
(* ids and pages fall.  Excepted is what a first run took in, or what the   *)
(* run that first read the feed found too old for its window or the next.   *)
EveryChangeListed == repo.floor \subseteq named \cup silent

(* No change is listed twice: a ref is forgotten only when it has fallen    *)
(* behind every window to come.                                             *)
ListedOnce ==
    [][(job.pc = "commit" /\ repo' # repo /\ repo.seeded) =>
            IdsOf(job.window \ repo.listed) \cap named = {}]_vars

(* wait.ts: "Holds until a change newer than the baseline exists (or        *)
(* expiry)."  What landed while a request was held to its end came from     *)
(* jobs begun no later than the newest change there was before.             *)
HeldPastLateOnly ==
    [][(held.pc = "hold" /\ held'.pc = "expired") =>
            \A c \in feed \ held.known : c.at <= NewestAt(held.known)]_vars

=============================================================================
