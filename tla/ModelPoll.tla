----------------------------- MODULE ModelPoll -----------------------------
(***************************************************************************)
(* pollProviderModels of src/server/ingest/poll-models.ts for one provider *)
(* and applyDeprecations of src/server/ingest/deprecations.ts: the models  *)
(* table and the model.* changes after each 15-minute poll.                *)
(*                                                                         *)
(* The listing's facts about a model are one value; what the poll does     *)
(* with the row, its deprecation columns and the changes feed is kept      *)
(* statement by statement, because a row and its change are written by two *)
(* statements and the invocation may be cut off between them.  The cron    *)
(* (src/worker.ts) takes no lock: a slow poll of a provider and the next   *)
(* one run side by side, each on the rows as it read them.                 *)
(***************************************************************************)
EXTENDS Naturals, Sequences, FiniteSets

CONSTANTS
    Pollers,    \* invocations that may poll the provider at a time
    Models,     \* row ids
    Facts,      \* what a listing may say of a model
    NoFacts,    \* a row only the deprecations page knows
    Entries,    \* entries of the deprecations page
    NoEntry,
    StatedAt,   \* StatedAt[x]: the date entry x states, or 0
    MaxPolls,   \* bound: polls started
    MaxCrashes  \* bound: polls cut off

ASSUME PollAssumption ==
    /\ NoFacts \notin Facts
    /\ NoEntry \notin Entries
    /\ StatedAt \in [Entries -> Nat]
    /\ {MaxPolls, MaxCrashes} \subseteq Nat

VARIABLES
    rows,       \* the provider's models rows: a partial function from ids
    feed,       \* feed[m]: the changes about m, oldest first
    poll,       \* poll[p]: the locals of p's poll
    polls,      \* history: polls started; also the clock
    crashes,    \* history: polls cut off
    overlapped, \* history: two polls have run side by side
    polled      \* history: the poll whose last write nothing has followed

vars == <<rows, feed, poll, polls, crashes, overlapped, polled>>

EmptyMap == [m \in {} |-> m]

(* prior holds the rows as the poll last read them, at its date.  alone is  *)
(* history: no other poll has run while this one did.                       *)
NoPoll == [pc |-> "idle", listing |-> EmptyMap, hasPage |-> FALSE,
           page |-> EmptyMap, prior |-> EmptyMap, todo |-> {}, about |-> {},
           event |-> "none", at |-> 0, alone |-> TRUE]

Row == [facts: Facts \cup {NoFacts}, deprecatedAt: Nat,
        deprecation: Entries \cup {NoEntry}]

Listings == UNION {[L -> [facts: Facts, deprecated: BOOLEAN]] : L \in SUBSET Models}
Pages == UNION {[P -> Entries] : P \in SUBSET Models}

Event(type, before, after, alone) ==
    [type |-> type, before |-> before, after |-> after, alone |-> alone]
Plain(type) == Event(type, NoEntry, NoEntry, TRUE)

PollInit ==
    /\ rows = EmptyMap
    /\ feed = [m \in Models |-> <<>>]
    /\ poll = [p \in Pollers |-> NoPoll]
    /\ polls = 0
    /\ crashes = 0
    /\ overlapped = FALSE
    /\ polled = {}

PutRow(m, row) ==
    rows' = [x \in DOMAIN rows \cup {m} |-> IF x = m THEN row ELSE rows[x]]

Others(p) == {o \in Pollers \ {p} : poll[o].pc # "idle"}

-----------------------------------------------------------------------------

(* The listing and the page are fetched, then the provider's rows are read. *)
(* A listing that throws or is skipped writes nothing: no step here.        *)
StartPoll(p) ==
    /\ poll[p].pc = "idle"
    /\ polls < MaxPolls
    /\ polls' = polls + 1
    /\ overlapped' = (overlapped \/ Others(p) # {})
    /\ \E listing \in Listings, hasPage \in BOOLEAN, page \in Pages :
        /\ hasPage \/ page = EmptyMap
        /\ poll' = [o \in Pollers |->
                IF o = p
                THEN [NoPoll EXCEPT !.pc = "walk", !.listing = listing,
                        !.hasPage = hasPage, !.page = page, !.prior = rows,
                        !.todo = DOMAIN listing, !.at = polls + 1,
                        !.alone = Others(p) = {}]
                ELSE [poll[o] EXCEPT !.alone = @ /\ o \notin Others(p)]]
    /\ UNCHANGED <<rows, feed, crashes, polled>>

(* What a poll with locals q makes of model m.                              *)
Named(q, m) == IF m \in DOMAIN q.page THEN q.page[m] ELSE NoEntry

Was(q, m) == IF m \in DOMAIN q.prior THEN q.prior[m].deprecation ELSE NoEntry

(* Without a page the entry a row already has still counts.                 *)
RowDeprecation(q, m) == IF q.hasPage THEN Named(q, m) ELSE Was(q, m)

Deprecated(q, m) == q.listing[m].deprecated \/ RowDeprecation(q, m) # NoEntry

Dirty(q, m) ==
    \/ q.listing[m].facts # q.prior[m].facts
    \/ Deprecated(q, m) # (q.prior[m].deprecatedAt # 0)

NewRow(q, m) == [facts |-> q.listing[m].facts,
                 deprecatedAt |-> IF Deprecated(q, m) THEN q.at ELSE 0,
                 deprecation |-> NoEntry]

(* Mutant: no change is written for a new row.                              *)
InsertModelSilently(p, m) ==
    /\ poll[p].pc = "walk" /\ m \in poll[p].todo \ DOMAIN poll[p].prior
    /\ m \notin DOMAIN rows
    /\ PutRow(m, NewRow(poll[p], m))
    /\ poll' = [poll EXCEPT ![p] = [@ EXCEPT !.todo = poll[p].todo \ {m}]]
    /\ polled' = {}
    /\ UNCHANGED <<feed, polls, crashes, overlapped>>

InsertModel(p, m) ==
    /\ poll[p].pc = "walk" /\ m \in poll[p].todo \ DOMAIN poll[p].prior
    /\ m \notin DOMAIN rows
    /\ PutRow(m, NewRow(poll[p], m))
    /\ poll' = [poll EXCEPT ![p] = [@ EXCEPT !.pc = "tell", !.about = {m},
                                             !.event = "model.added"]]
    /\ polled' = {}
    /\ UNCHANGED <<feed, polls, crashes, overlapped>>

(* A reactivated model loses its date, a deprecated one keeps the first.    *)
DateAfter(q, m) ==
    IF ~ Deprecated(q, m) THEN 0
    ELSE IF q.prior[m].deprecatedAt # 0 THEN q.prior[m].deprecatedAt ELSE q.at

UpdateModel(p, m) ==
    /\ poll[p].pc = "walk" /\ m \in poll[p].todo \cap DOMAIN poll[p].prior
    /\ Dirty(poll[p], m)
    /\ PutRow(m, [rows[m] EXCEPT !.facts = poll[p].listing[m].facts,
                                 !.deprecatedAt = DateAfter(poll[p], m)])
    /\ poll' = [poll EXCEPT ![p] = [@ EXCEPT !.pc = "tell", !.about = {m},
                                             !.event = "model.updated"]]
    /\ polled' = {}
    /\ UNCHANGED <<feed, polls, crashes, overlapped>>

(* Only last_seen_at, first_seen_at and the like are written.               *)
KeepModel(p, m) ==
    /\ poll[p].pc = "walk" /\ m \in poll[p].todo \cap DOMAIN poll[p].prior
    /\ ~ Dirty(poll[p], m)
    /\ poll' = [poll EXCEPT ![p] = [@ EXCEPT !.todo = poll[p].todo \ {m}]]
    /\ UNCHANGED <<rows, feed, polls, crashes, overlapped, polled>>

(* The second statement: the change that goes with the row just written.    *)
Tell(p) ==
    /\ poll[p].pc = "tell"
    /\ \E m \in poll[p].about :
        /\ feed' = [feed EXCEPT ![m] = Append(@, Plain(poll[p].event))]
        /\ poll' = [poll EXCEPT ![p] = [@ EXCEPT
                !.pc = IF poll[p].event = "model.removed" THEN "missing" ELSE "walk",
                !.about = {}, !.event = "none", !.todo = poll[p].todo \ {m}]]
    /\ polled' = {}
    /\ UNCHANGED <<rows, polls, crashes, overlapped>>

(* Rows the listing lacks that were not deprecated when the poll read them. *)
WalkDone(p) ==
    /\ poll[p].pc = "walk" /\ poll[p].todo = {}
    /\ poll' = [poll EXCEPT ![p] = [@ EXCEPT !.pc = "missing",
            !.todo = {m \in DOMAIN poll[p].prior \ DOMAIN poll[p].listing :
                            poll[p].prior[m].deprecatedAt = 0}]]
    /\ UNCHANGED <<rows, feed, polls, crashes, overlapped, polled>>

RemoveModel(p, m) ==
    /\ poll[p].pc = "missing" /\ m \in poll[p].todo
    /\ PutRow(m, [rows[m] EXCEPT !.deprecatedAt = poll[p].at])
    /\ poll' = [poll EXCEPT ![p] = [@ EXCEPT !.pc = "tell", !.about = {m},
                                             !.event = "model.removed"]]
    /\ polled' = {}
    /\ UNCHANGED <<feed, polls, crashes, overlapped>>

StoredEntry(m) == IF m \in DOMAIN rows THEN rows[m].deprecation ELSE NoEntry

(* Mutant: entries are written whether or not they changed.                 *)
ReadDeprecationsAll(p) ==
    /\ poll[p].pc = "missing" /\ poll[p].todo = {} /\ poll[p].hasPage
    /\ poll' = [poll EXCEPT ![p] = [@ EXCEPT !.pc = "page", !.prior = rows,
            !.todo = DOMAIN rows \cup DOMAIN poll[p].page]]
    /\ UNCHANGED <<rows, feed, polls, crashes, overlapped, polled>>

(* Mutant: a model the page names but no row has is left out.               *)
ReadDeprecationsRows(p) ==
    /\ poll[p].pc = "missing" /\ poll[p].todo = {} /\ poll[p].hasPage
    /\ poll' = [poll EXCEPT ![p] = [@ EXCEPT !.pc = "page", !.prior = rows,
            !.todo = {m \in DOMAIN rows : StoredEntry(m) # Named(poll[p], m)}]]
    /\ UNCHANGED <<rows, feed, polls, crashes, overlapped, polled>>

(* applyDeprecations reads the rows again and plans one pair of statements  *)
(* for each that differs from the page.                                     *)
ReadDeprecations(p) ==
    /\ poll[p].pc = "missing" /\ poll[p].todo = {} /\ poll[p].hasPage
    /\ poll' = [poll EXCEPT ![p] = [@ EXCEPT !.pc = "page", !.prior = rows,
            !.todo = {m \in DOMAIN rows \cup DOMAIN poll[p].page :
                            StoredEntry(m) # Named(poll[p], m)}]]
    /\ UNCHANGED <<rows, feed, polls, crashes, overlapped, polled>>

(* The date of a model the page names.                                      *)
DateFromPage(q, m) ==
    IF StatedAt[Named(q, m)] # 0 THEN StatedAt[Named(q, m)]
    ELSE IF m \in DOMAIN q.prior /\ q.prior[m].deprecatedAt # 0
         THEN q.prior[m].deprecatedAt
    ELSE q.at

(* Mutant: a retired row takes its facts from the page.                     *)
PageRowFacts(q, m) ==
    IF m \notin DOMAIN q.prior
    THEN [facts |-> Named(q, m), deprecatedAt |-> DateFromPage(q, m),
          deprecation |-> Named(q, m)]
    ELSE [rows[m] EXCEPT
            !.deprecation = Named(q, m),
            !.deprecatedAt = IF Named(q, m) = NoEntry THEN @ ELSE DateFromPage(q, m)]

PageRow(q, m) ==
    IF m \notin DOMAIN q.prior
    THEN [facts |-> NoFacts, deprecatedAt |-> DateFromPage(q, m),
          deprecation |-> Named(q, m)]
    ELSE [rows[m] EXCEPT
            !.deprecation = Named(q, m),
            !.deprecatedAt = IF Named(q, m) = NoEntry THEN @ ELSE DateFromPage(q, m)]

(* What q would insert and another poll has inserted since q read the rows. *)
Clashes(q) == (q.todo \ DOMAIN q.prior) \cap DOMAIN rows

(* A batch of up to 40 statements: some rows, each with its change.         *)
ApplyDeprecations(p) ==
    /\ poll[p].pc = "page"
    /\ \E slice \in SUBSET (poll[p].todo \ Clashes(poll[p])) :
        /\ slice # {}
        /\ rows' = [m \in DOMAIN rows \cup slice |->
                        IF m \in slice THEN PageRow(poll[p], m) ELSE rows[m]]
        /\ feed' = [m \in Models |-> IF m \in slice
                THEN Append(feed[m], Event("model.deprecated", Was(poll[p], m),
                                           Named(poll[p], m), poll[p].alone))
                ELSE feed[m]]
        /\ poll' = [poll EXCEPT ![p] = [@ EXCEPT !.todo = poll[p].todo \ slice]]
    /\ polled' = {}
    /\ UNCHANGED <<polls, crashes, overlapped>>

(* An insert, alone or in a batch, meets another poll's row: the poll throws *)
(* with every row it has written told.                                      *)
FailInsert(p) ==
    /\ poll[p].pc \in {"walk", "page"}
    /\ Clashes(poll[p]) # {}
    /\ poll' = [poll EXCEPT ![p] = NoPoll]
    /\ UNCHANGED <<rows, feed, polls, crashes, overlapped, polled>>

FinishPoll(p) ==
    /\ \/ poll[p].pc = "missing" /\ ~ poll[p].hasPage
       \/ poll[p].pc = "page"
    /\ poll[p].todo = {}
    /\ poll' = [poll EXCEPT ![p] = NoPoll]
    /\ polled' = IF poll[p].alone
                 THEN {[listing |-> poll[p].listing, hasPage |-> poll[p].hasPage,
                        page |-> poll[p].page]}
                 ELSE polled
    /\ UNCHANGED <<rows, feed, polls, crashes, overlapped>>

(* The poll throws, or its invocation is cut off.                           *)
CrashPoll(p) ==
    /\ poll[p].pc # "idle"
    /\ crashes < MaxCrashes
    /\ crashes' = crashes + 1
    /\ poll' = [poll EXCEPT ![p] = NoPoll]
    /\ UNCHANGED <<rows, feed, polls, overlapped, polled>>

PollNext ==
    \E p \in Pollers :
        \/ StartPoll(p) \/ WalkDone(p) \/ Tell(p) \/ ReadDeprecations(p)
        \/ ApplyDeprecations(p) \/ FailInsert(p) \/ FinishPoll(p) \/ CrashPoll(p)
        \/ \E m \in Models :
            InsertModel(p, m) \/ UpdateModel(p, m) \/ KeepModel(p, m) \/ RemoveModel(p, m)

PollSpec == PollInit /\ [][PollNext]_vars

-----------------------------------------------------------------------------
(* Properties.                                                             *)

PollTypeOK ==
    /\ DOMAIN rows \subseteq Models
    /\ \A m \in DOMAIN rows : rows[m] \in Row
    /\ DOMAIN feed = Models
    /\ \A p \in Pollers :
        /\ poll[p].pc \in {"idle", "walk", "tell", "missing", "page"}
        /\ poll[p].todo \subseteq Models /\ poll[p].about \subseteq Models
    /\ polls \in 0..MaxPolls /\ crashes \in 0..MaxCrashes

EventsOf(m, type) == {i \in DOMAIN feed[m] : feed[m][i].type = type}

(* deprecations.ts: "Every change to a row's entry is one model.deprecated  *)
(* change".  At every moment, wherever polls are cut off and however they   *)
(* overlap, the last such change tells the entry the row holds, each tells  *)
(* a replacement, and what it says was replaced is an entry told before.    *)
(* It is the entry the change just before it left, so that the feed is the  *)
(* row's history with nothing told twice, if no other poll ran beside the   *)
(* one that told it; two overlapping polls do tell one replacement twice.   *)
DeprecationChain ==
    \A m \in Models :
        LET E == EventsOf(m, "model.deprecated")
            Before(i) == {j \in E : j < i}
            Left(S) == IF S = {} THEN NoEntry
                       ELSE feed[m][CHOOSE j \in S : \A k \in S : k <= j].after
        IN /\ Left(E) = StoredEntry(m)
           /\ \A i \in E :
                /\ feed[m][i].after # feed[m][i].before
                /\ \/ feed[m][i].before = NoEntry
                   \/ \E j \in Before(i) : feed[m][j].after = feed[m][i].before
                /\ feed[m][i].alone => feed[m][i].before = Left(Before(i))

(* After a poll that completed with no other beside it, whatever earlier    *)
(* polls left half done or overwrote on rows they had read before, the rows *)
(* say what the listing and the page said: the listed facts, a date on      *)
(* every row that is deprecated, named or unlisted and on no other, and the *)
(* page's entry, for models without a row too.  "deprecatedAt is the stated *)
(* date" (deprecations.ts) unless a poll was cut off before it applied the  *)
(* page, or two overlapped: an entry that has not changed is not written    *)
(* again, so a date lost beside it stays lost.                              *)
PolledMatchesListing ==
    \A p \in polled :
        /\ DOMAIN p.listing \cup DOMAIN p.page \subseteq DOMAIN rows
        /\ \A m \in DOMAIN rows :
            /\ p.hasPage => rows[m].deprecation =
                    (IF m \in DOMAIN p.page THEN p.page[m] ELSE NoEntry)
            /\ m \in DOMAIN p.listing => rows[m].facts = p.listing[m].facts
            /\ rows[m].deprecatedAt = 0 <=>
                    /\ m \in DOMAIN p.listing
                    /\ ~ p.listing[m].deprecated
                    /\ rows[m].deprecation = NoEntry
            /\ LET x == rows[m].deprecation IN
               (crashes = 0 /\ ~ overlapped /\ x # NoEntry /\ StatedAt[x] # 0) =>
                    rows[m].deprecatedAt = StatedAt[x]

IsBirth(e) == \/ e.type = "model.added"
              \/ e.type = "model.deprecated" /\ e.before = NoEntry

(* PLAN.md: "diff against D1 -> model.added / model.removed / model.updated *)
(* changes".  No model is told added twice, not even by overlapping polls.  *)
(* Between polls every row's birth has been told unless a poll was cut off  *)
(* between a row and its change; and if polls never overlapped, the birth   *)
(* is what its history starts with, and a model told removed twice was told *)
(* back in between.                                                         *)
BirthAnnounced ==
    \A m \in Models :
        /\ \A i, j \in EventsOf(m, "model.added") : i = j
        /\ (m \in DOMAIN rows /\ crashes = 0 /\ \A p \in Pollers : poll[p].pc = "idle") =>
            /\ \E i \in DOMAIN feed[m] : IsBirth(feed[m][i]) /\ (overlapped \/ i = 1)
            /\ ~ overlapped =>
                /\ EventsOf(m, "model.added") \subseteq {1}
                /\ \A i, j \in EventsOf(m, "model.removed") :
                    i < j => \E k \in EventsOf(m, "model.updated") : i < k /\ k < j

=============================================================================
