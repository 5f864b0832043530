---------------------------- MODULE SameAs_proofs ---------------------------
(***************************************************************************)
(* Theorems about SameAs, from SameAsAssumption: the feed's last word on a  *)
(* row is its link, and nothing is told twice until two runs overlap.       *)
(***************************************************************************)
EXTENDS SameAs, TLAPS

Entry == [id: Models, says: Statement]
Move == [id: Models, before: Models \cup {NoModel}, after: Models \cup {NoModel}]
Locals == [pc: {"idle", "next", "fetch", "read", "rows", "links"},
           left: SUBSET Providers, at: SUBSET Providers,
           listing: SUBSET Entry, inserts: SUBSET Entry, updates: SUBSET Entry,
           identities: SUBSET Entry, diffs: SUBSET Move]

UpstreamInv ==
    /\ says \in [Models -> Statement \cup {Unlisted}]
    /\ overlaps \in Nat

(* The columns are of one table, and what a run is about to link or to      *)
(* update is in it.                                                         *)
TableInv ==
    /\ Stored \subseteq Models
    /\ link \in [Stored -> Models \cup {NoModel}]
    /\ told \in [Models -> Models \cup {NoModel}]
    /\ run \in [Pollers -> Locals]
    /\ \A r \in Pollers : \A d \in run[r].diffs : d.id \in Stored

TypeInv == UpstreamInv /\ TableInv

(* A change and its link are one batch.                                     *)
ToldInv == \A m \in Models : told[m] = IF m \in Stored THEN link[m] ELSE NoModel

(* A row has one entry among a run's diffs, and these are all there is when *)
(* the run is at its links.                                                 *)
DiffInv ==
    \A r \in Pollers :
        /\ run[r].diffs # {} => run[r].pc = "links"
        /\ \A d, e \in run[r].diffs : d.id = e.id => d = e

(* Until two runs overlap there is one at most, and the links it is about   *)
(* to write are still those it read.                                        *)
AloneInv ==
    overlaps = 0 =>
        /\ \A r, s \in Busy : r = s
        /\ \A r \in Pollers : \A d \in run[r].diffs :
                link[d.id] = d.before /\ d.before # d.after
        /\ retold = {}

SameAsInv == TypeInv /\ ToldInv /\ DiffInv /\ AloneInv

-----------------------------------------------------------------------------

(* Whatever evidence resolves to is a row, or no link.                      *)
LEMMA ResolvedIs ==
    ASSUME TypeInv, NEW m \in Stored
    PROVE  Resolved(m) \in Models \cup {NoModel}
<1>1. CASE evidence[m] # NoEvidence /\ \E t \in Stored : Best(m) = {t}
    <2>1. PICK t \in Stored : Best(m) = {t}
        BY <1>1
    <2>2. (CHOOSE u \in Stored : Best(m) = {u}) \in Stored
        BY <2>1
    <2>. QED
        BY <1>1, <2>2 DEF Resolved, TypeInv, TableInv
<1>2. CASE ~ (evidence[m] # NoEvidence /\ \E t \in Stored : Best(m) = {t})
    BY <1>2 DEF Resolved
<1>. QED
    BY <1>1, <1>2

(* Steps that touch neither the stored links, nor the feed, nor a run's     *)
(* diffs other than by dropping them with the run, keep the invariant.      *)
Undisturbed ==
    /\ UNCHANGED <<told, retold>>
    /\ Stored \subseteq Stored' /\ Stored' \subseteq Models
    /\ link' \in [Stored' -> Models \cup {NoModel}]
    /\ \A m \in Stored : link'[m] = link[m]
    /\ \A m \in Stored' \ Stored : link'[m] = NoModel
    /\ UpstreamInv'
    /\ run' \in [Pollers -> Locals]
    /\ \A r \in Pollers :
        /\ run'[r].diffs # {} =>
                run'[r].diffs = run[r].diffs /\ run'[r].pc = run[r].pc
    /\ overlaps' = 0 => /\ overlaps = 0
                        /\ \A r, s \in Busy' : r = s

LEMMA UndisturbedKeeps ==
    ASSUME SameAsInv, Undisturbed
    PROVE  SameAsInv'
<1>1. TypeInv'
    BY DEF SameAsInv, TypeInv, TableInv, Undisturbed
<1>2. ToldInv'
    BY DEF SameAsInv, TypeInv, TableInv, ToldInv, Undisturbed
<1>3. DiffInv'
    BY DEF SameAsInv, DiffInv, Undisturbed
<1>4. AloneInv'
    BY DEF SameAsInv, TypeInv, TableInv, AloneInv, Undisturbed
<1>. QED
    BY <1>1, <1>2, <1>3, <1>4 DEF SameAsInv

(* Moves upstream, and the steps of a run before it reads the diffs: what   *)
(* a run holds in its hands is typed, and it holds no diffs.                *)
LEMMA MovesKeep ==
    ASSUME SameAsInv,
           \/ \E m \in Models : MoveListing(m)
           \/ \E p \in Providers : MoveClaim(p)
    PROVE  SameAsInv'
<1>. USE SameAsAssumption
<1>1. UNCHANGED <<tables, run, overlaps>>
    BY DEF MoveListing, MoveClaim
<1>2. says' \in [Models -> Statement \cup {Unlisted}]
    BY DEF MoveListing, MoveClaim, SameAsInv, TypeInv, UpstreamInv
<1>3. Undisturbed
    BY <1>1, <1>2 DEF Undisturbed, SameAsInv, TypeInv, UpstreamInv, TableInv,
        AloneInv, Busy, tables, Stored
<1>. QED
    BY <1>3, UndisturbedKeeps

LEMMA RestHasNoDiffs ==
    ASSUME NEW L \in SUBSET Providers
    PROVE  /\ NoRun \in Locals /\ NoRun.diffs = {}
           /\ [NoRun EXCEPT !.pc = "next", !.left = L] \in Locals
           /\ [NoRun EXCEPT !.pc = "next", !.left = L].diffs = {}
    BY DEF NoRun, Locals

(* A step of a run that writes no row and takes up no diffs.                *)
LEMMA RunsOn ==
    ASSUME SameAsInv, NEW r \in Pollers, NEW x \in Locals,
           run' = [run EXCEPT ![r] = x],
           x.diffs = {},
           UNCHANGED <<says, aliases, link, told, retold>>,
           \/ overlaps' = overlaps /\ (run[r].pc = "idle" => x.pc = "idle")
           \/ Busy = {} /\ overlaps' = overlaps
           \/ overlaps' = overlaps + 1
    PROVE  SameAsInv'
<1>1. \A q \in Pollers : run'[q] = IF q = r THEN x ELSE run[q]
    BY DEF SameAsInv, TypeInv, TableInv
<1>2. run' \in [Pollers -> Locals]
    BY DEF SameAsInv, TypeInv, TableInv
<1>3. overlaps' = 0 => overlaps = 0 /\ \A q, s \in Busy' : q = s
    BY <1>1 DEF SameAsInv, TypeInv, UpstreamInv, AloneInv, Busy
<1>4. UpstreamInv'
    BY DEF SameAsInv, TypeInv, UpstreamInv
<1>5. Undisturbed
    BY <1>1, <1>2, <1>3, <1>4 DEF Undisturbed, SameAsInv, TypeInv, TableInv, Stored
<1>. QED
    BY <1>5, UndisturbedKeeps

(* The polls' steps.                                                        *)
LEMMA PollsKeep ==
    ASSUME SameAsInv, NEW r \in Pollers,
           \/ StartRun(r) \/ \E p \in Providers : EnsureProvider(r, p)
           \/ FetchListing(r) \/ ReadRows(r)
           \/ FailPoll(r) \/ CutOff(r)
    PROVE  SameAsInv'
<1>. USE SameAsAssumption
<1>0. run[r] \in Locals /\ run \in [Pollers -> Locals]
    BY DEF SameAsInv, TypeInv, TableInv
<1>0a. run[r].pc # "links" => run[r].diffs = {}
    BY DEF SameAsInv, DiffInv
<1>1. CASE StartRun(r)
    BY <1>1, RunsOn, RestHasNoDiffs DEF StartRun, upstream, tables
<1>2. ASSUME NEW p \in Providers, EnsureProvider(r, p)
      PROVE  SameAsInv'
    <2>. DEFINE x == [run[r] EXCEPT !.pc = "fetch", !.left = @ \ {p}, !.at = {p}]
    <2>1. run' = [run EXCEPT ![r] = x]
        BY <1>0, <1>2 DEF EnsureProvider
    <2>2. x \in Locals /\ x.diffs = {}
        BY <1>0, <1>0a, <1>2 DEF EnsureProvider, Locals
    <2>3. run[r].pc # "idle" /\ UNCHANGED <<says, aliases, link, told, retold, overlaps>>
        BY <1>2 DEF EnsureProvider, upstream
    <2>. QED
        BY <2>1, <2>2, <2>3, RunsOn
<1>3. CASE FetchListing(r)
    <2>. DEFINE L == {[id |-> m, says |-> says[m]] : m \in
                {n \in Models : ProviderOf[n] \in run[r].at /\ says[n] # Unlisted}}
                x == [run[r] EXCEPT !.pc = "read", !.listing = L]
    <2>1. run' = [run EXCEPT ![r] = x]
        BY <1>0, <1>3 DEF FetchListing
    <2>2. L \subseteq Entry
        BY DEF Entry, SameAsInv, TypeInv, UpstreamInv
    <2>3. x \in Locals /\ x.diffs = {}
        BY <1>0, <1>0a, <1>3, <2>2 DEF FetchListing, Locals
    <2>4. run[r].pc # "idle" /\ UNCHANGED <<says, aliases, link, told, retold, overlaps>>
        BY <1>3 DEF FetchListing, upstream, tables
    <2>. QED
        BY <2>1, <2>3, <2>4, RunsOn
<1>4. CASE ReadRows(r)
    <2>. DEFINE L == run[r].listing
                I == {y \in L : y.id \notin Stored}
                U == {y \in L : y.id \in Stored /\ aliases[y.id] # y.says.aliases}
                E == {y \in L : ~ SameEvidence(y.id, y.says.upstream)}
                x == [run[r] EXCEPT !.pc = "rows", !.at = {}, !.inserts = I,
                        !.updates = U, !.identities = E, !.listing = {}]
    <2>1. run' = [run EXCEPT ![r] = x]
        BY <1>0, <1>4 DEF ReadRows
    <2>2. I \subseteq Entry /\ U \subseteq Entry /\ E \subseteq Entry
        BY <1>0 DEF Locals
    <2>. HIDE DEF I, U, E
    <2>3. x \in Locals /\ x.diffs = {}
        BY <1>0, <1>0a, <1>4, <2>2 DEF ReadRows, Locals
    <2>4. run[r].pc # "idle" /\ UNCHANGED <<says, aliases, link, told, retold, overlaps>>
        BY <1>4 DEF ReadRows, upstream, tables
    <2>. QED
        BY <2>1, <2>3, <2>4, RunsOn
<1>5. CASE FailPoll(r)
    <2>1. UNCHANGED <<says, aliases, link, told, retold, overlaps>> /\ run[r].pc # "idle"
        BY <1>5 DEF FailPoll, upstream, tables
    <2>2. CASE run' = [run EXCEPT ![r] = NextPoll(r)]
        <3>1. NextPoll(r) \in Locals /\ NextPoll(r).diffs = {}
            BY <1>0, RestHasNoDiffs DEF NextPoll, Locals
        <3>. QED
            BY <2>1, <2>2, <3>1, RunsOn
    <2>3. ASSUME NEW p \in run[r].left, run[r].pc = "next",
                 run' = [run EXCEPT ![r].left = @ \ {p}]
          PROVE  SameAsInv'
        <3>. DEFINE x == [run[r] EXCEPT !.left = @ \ {p}]
        <3>1. run' = [run EXCEPT ![r] = x]
            BY <1>0, <2>3
        <3>2. x \in Locals /\ x.diffs = {}
            BY <1>0, <1>0a, <2>3 DEF Locals
        <3>. QED
            BY <2>1, <3>1, <3>2, RunsOn
    <2>. QED
        BY <1>5, <2>2, <2>3 DEF FailPoll
<1>6. CASE CutOff(r)
    BY <1>6, RunsOn, RestHasNoDiffs DEF CutOff, upstream, tables
<1>. QED
    BY <1>1, <1>2, <1>3, <1>4, <1>5, <1>6

(* A new row has no link, as the feed has it.                               *)
LEMMA InsertKeeps ==
    ASSUME SameAsInv, NEW r \in Pollers, InsertModel(r)
    PROVE  SameAsInv'
<1>. USE SameAsAssumption
<1>0. run[r] \in Locals /\ run \in [Pollers -> Locals]
    BY DEF SameAsInv, TypeInv, TableInv
<1>1. run[r].diffs = {} /\ run[r].pc = "rows"
    BY DEF InsertModel, SameAsInv, DiffInv
<1>2. PICK y \in run[r].inserts :
        \/ /\ y.id \notin Stored
           /\ LET With(f, v) == [m \in Stored \cup {y.id} |->
                                    IF m = y.id THEN v ELSE f[m]]
              IN /\ aliases' = With(aliases, y.says.aliases)
                 /\ evidence' = With(evidence, NoEvidence)
                 /\ link' = With(link, NoModel)
           /\ run' = [run EXCEPT ![r].inserts = @ \ {y}]
        \/ /\ y.id \in Stored
           /\ run' = [run EXCEPT ![r] = NextPoll(r)]
           /\ UNCHANGED <<aliases, evidence, link>>
    BY DEF InsertModel
<1>3. UNCHANGED <<says, told, retold, overlaps>>
    BY DEF InsertModel, upstream
<1>4. CASE y.id \notin Stored
    <2>. DEFINE x == [run[r] EXCEPT !.inserts = @ \ {y}]
    <2>1. run' = [run EXCEPT ![r] = x] /\ x \in Locals
        BY <1>0, <1>2, <1>4 DEF Locals
    <2>2. x.diffs = {} /\ x.pc = "rows"
        BY <1>0, <1>1 DEF Locals
    <2>. HIDE DEF x
    <2>3. \A q \in Pollers : run'[q] = IF q = r THEN x ELSE run[q]
        BY <1>0, <2>1
    <2>4. y.id \in Models
        BY <1>0 DEF Locals, Entry
    <2>5. Stored' = Stored \cup {y.id}
        BY <1>2, <1>4 DEF Stored
    <2>6. /\ link' \in [Stored' -> Models \cup {NoModel}]
          /\ \A m \in Stored : link'[m] = link[m]
          /\ \A m \in Stored' \ Stored : link'[m] = NoModel
        BY <1>2, <1>4, <2>4, <2>5 DEF SameAsInv, TypeInv, TableInv
    <2>7. UpstreamInv'
        BY <1>3 DEF SameAsInv, TypeInv, UpstreamInv
    <2>8. run' \in [Pollers -> Locals]
        BY <1>0, <2>1
    <2>9. Busy' = Busy
        BY <1>1, <2>2, <2>3 DEF Busy
    <2>10. Undisturbed
        BY <1>1, <1>3, <2>2, <2>3, <2>4, <2>5, <2>6, <2>7, <2>8, <2>9
        DEF Undisturbed, SameAsInv, TypeInv, TableInv, AloneInv
    <2>. QED
        BY <2>10, UndisturbedKeeps
<1>5. CASE y.id \in Stored
    <2>1. NextPoll(r) \in Locals /\ NextPoll(r).diffs = {}
        BY <1>0, RestHasNoDiffs DEF NextPoll, Locals
    <2>. QED
        BY <1>1, <1>2, <1>3, <1>5, <2>1, RunsOn
<1>. QED
    BY <1>4, <1>5

(* Updates of facts and evidence write other columns.                       *)
LEMMA UpdatesKeep ==
    ASSUME SameAsInv, NEW r \in Pollers, UpdateModel(r) \/ PersistEvidence(r)
    PROVE  SameAsInv'
<1>. USE SameAsAssumption
<1>0. run[r] \in Locals /\ run \in [Pollers -> Locals]
    BY DEF SameAsInv, TypeInv, TableInv
<1>1. run[r].diffs = {} /\ run[r].pc = "rows"
    BY DEF UpdateModel, PersistEvidence, SameAsInv, DiffInv
<1>2. Stored' = Stored /\ UNCHANGED <<says, link, told, retold, overlaps>>
    BY DEF UpdateModel, PersistEvidence, upstream, Stored
<1>3. PICK x \in Locals : x.diffs = {} /\ x.pc # "idle" /\ run' = [run EXCEPT ![r] = x]
    <2>1. ASSUME NEW y \in run[r].updates, run' = [run EXCEPT ![r].updates = @ \ {y}]
          PROVE  \E x \in Locals : x.diffs = {} /\ x.pc # "idle"
                                   /\ run' = [run EXCEPT ![r] = x]
        <3>. DEFINE x == [run[r] EXCEPT !.updates = @ \ {y}]
        <3>1. x \in Locals /\ x.diffs = {} /\ x.pc # "idle" /\ run' = [run EXCEPT ![r] = x]
            BY <1>0, <1>1, <2>1 DEF Locals
        <3>. QED
            BY <3>1
    <2>2. NextPoll(r) \in Locals /\ NextPoll(r).diffs = {} /\ NextPoll(r).pc # "idle"
        BY <1>0, RestHasNoDiffs DEF NextPoll, Locals, NoRun
    <2>3. ASSUME NEW B \in SUBSET run[r].identities
          PROVE  LET x == [run[r] EXCEPT !.identities = @ \ B]
                 IN x \in Locals /\ x.diffs = {} /\ x.pc # "idle"
        BY <1>0, <1>1 DEF Locals
    <2>. QED
        BY <2>1, <2>2, <2>3 DEF UpdateModel, PersistEvidence
<1>4. \A q \in Pollers : run'[q] = IF q = r THEN x ELSE run[q]
    BY <1>0, <1>3
<1>5. Busy' = Busy /\ run' \in [Pollers -> Locals] /\ UpstreamInv'
    BY <1>0, <1>1, <1>2, <1>3, <1>4 DEF Busy, SameAsInv, TypeInv, UpstreamInv
<1>6. Undisturbed
    BY <1>2, <1>3, <1>4, <1>5
    DEF Undisturbed, SameAsInv, TypeInv, TableInv, AloneInv
<1>. QED
    BY <1>6, UndisturbedKeeps

(* The query: one entry for each row that differs, with the link it has.    *)
LEMMA ReadsKeep ==
    ASSUME SameAsInv, NEW r \in Pollers, ReadDiffs(r)
    PROVE  SameAsInv'
<1>. DEFINE D == {Diff(m) : m \in Differing}
            x == [NoRun EXCEPT !.pc = "links", !.diffs = D]
<1>0. run \in [Pollers -> Locals]
    BY DEF SameAsInv, TypeInv, TableInv
<1>1. run' = [run EXCEPT ![r] = x] /\ run[r].pc = "next"
    BY DEF ReadDiffs
<1>2. UNCHANGED <<says, aliases, link, told, retold, overlaps>> /\ Stored' = Stored
    BY DEF ReadDiffs, upstream, tables, Stored
<1>3. /\ D \subseteq Move
      /\ \A d \in D : d.id \in Stored /\ link[d.id] = d.before /\ d.before # d.after
      /\ \A d, e \in D : d.id = e.id => d = e
    <2>1. \A m \in Differing : Diff(m) \in Move /\ m \in Stored /\ link[m] # Resolved(m)
        BY ResolvedIs DEF Diff, Differing, Move, SameAsInv, TypeInv, TableInv
    <2>. QED
        BY <2>1 DEF Diff
<1>. HIDE DEF D
<1>4. x \in Locals /\ x.diffs = D /\ x.pc = "links"
    BY <1>3 DEF NoRun, Locals
<1>. HIDE DEF x
<1>5. \A q \in Pollers : run'[q] = IF q = r THEN x ELSE run[q]
    BY <1>0, <1>1
<1>6. TypeInv'
    BY <1>0, <1>1, <1>2, <1>3, <1>4, <1>5 DEF SameAsInv, TypeInv, UpstreamInv, TableInv
<1>7. ToldInv'
    BY <1>2 DEF SameAsInv, ToldInv
<1>8. DiffInv'
    BY <1>3, <1>4, <1>5 DEF SameAsInv, DiffInv
<1>9. AloneInv'
    BY <1>1, <1>2, <1>3, <1>4, <1>5 DEF SameAsInv, AloneInv, Busy
<1>. QED
    BY <1>6, <1>7, <1>8, <1>9 DEF SameAsInv

(* A slice: the links and the feed move together, and the diffs that are    *)
(* left are of other rows.                                                  *)
LEMMA CommitKeeps ==
    ASSUME SameAsInv, NEW r \in Pollers, CommitLinks(r)
    PROVE  SameAsInv'
<1>0. run[r] \in Locals /\ run \in [Pollers -> Locals] /\ run[r].pc = "links"
    BY DEF SameAsInv, TypeInv, TableInv, CommitLinks
<1>1. PICK B \in SUBSET run[r].diffs :
        /\ link' = Linked(B, link)
        /\ told' = Linked(B, told)
        /\ retold' = retold \cup
                {d.id : d \in {y \in B : y.before # told[y.id] \/ y.before = y.after}}
        /\ run' = [run EXCEPT ![r] = IF B = run[r].diffs THEN NoRun
                                     ELSE [run[r] EXCEPT !.diffs = @ \ B]]
    BY DEF CommitLinks
<1>2. UNCHANGED <<says, aliases, overlaps>> /\ Stored' = Stored
    BY DEF CommitLinks, upstream, Stored
<1>3. PICK x \in Locals :
        /\ run' = [run EXCEPT ![r] = x] /\ x.diffs = run[r].diffs \ B
        /\ x.diffs # {} => x.pc = "links"
    <2>1. CASE B = run[r].diffs
        BY <1>1, <2>1, RestHasNoDiffs
    <2>2. CASE B # run[r].diffs
        <3>. DEFINE x == [run[r] EXCEPT !.diffs = @ \ B]
        <3>1. x \in Locals /\ x.diffs = run[r].diffs \ B /\ x.pc = "links"
            BY <1>0 DEF Locals
        <3>. QED
            BY <1>1, <2>2, <3>1
    <2>. QED
        BY <2>1, <2>2
<1>4. \A q \in Pollers : run'[q] = IF q = r THEN x ELSE run[q]
    BY <1>0, <1>3
<1>5. \A d \in B : d \in Move /\ d.id \in Stored
    BY <1>0 DEF Locals, SameAsInv, TypeInv, TableInv
<1>. DEFINE New(m) == (CHOOSE d \in B : d.id = m).after
            Touched(m) == \E d \in B : d.id = m
<1>6. /\ \A m \in Stored : link'[m] = IF Touched(m) THEN New(m) ELSE link[m]
      /\ \A m \in Models : told'[m] = IF Touched(m) THEN New(m) ELSE told[m]
      /\ DOMAIN link' = Stored /\ DOMAIN told' = Models
    BY <1>1 DEF Linked, SameAsInv, TypeInv, TableInv
<1>7. \A m : Touched(m) => m \in Stored /\ New(m) \in Models \cup {NoModel}
    BY <1>5 DEF Move
<1>8. /\ link' \in [Stored -> Models \cup {NoModel}]
      /\ told' \in [Models -> Models \cup {NoModel}]
    <2>1. link' = [m \in Stored |-> link'[m]] /\ told' = [m \in Models |-> told'[m]]
        BY <1>1, <1>6 DEF Linked
    <2>. HIDE DEF New, Touched
    <2>. QED
        BY <1>6, <1>7, <2>1 DEF SameAsInv, TypeInv, TableInv
<1>9. TypeInv'
    BY <1>0, <1>2, <1>3, <1>4, <1>8 DEF SameAsInv, TypeInv, UpstreamInv, TableInv
<1>10. ToldInv'
    <2>. HIDE DEF New, Touched
    <2>. QED
        BY <1>2, <1>6, <1>7 DEF SameAsInv, TypeInv, TableInv, ToldInv
<1>11. DiffInv'
    BY <1>3, <1>4 DEF SameAsInv, DiffInv
<1>12. AloneInv'
    <2>1. SUFFICES ASSUME overlaps = 0
                   PROVE  /\ \A q, s \in Busy' : q = s
                          /\ \A q \in Pollers : \A d \in run'[q].diffs :
                                link'[d.id] = d.before /\ d.before # d.after
                          /\ retold' = {}
        BY <1>2 DEF AloneInv
    <2>2. \A q, s \in Busy' : q = s
        BY <1>0, <1>4, <2>1 DEF SameAsInv, AloneInv, Busy
    <2>3. \A q \in Pollers : q # r => run[q].diffs = {}
        BY <1>0, <2>1 DEF SameAsInv, AloneInv, DiffInv, Busy
    <2>4. ASSUME NEW d \in run[r].diffs \ B
          PROVE  link'[d.id] = d.before /\ d.before # d.after
        <3>1. ~ Touched(d.id)
            BY <2>4 DEF SameAsInv, DiffInv
        <3>2. d.id \in Stored
            BY DEF SameAsInv, TypeInv, TableInv
        <3>. QED
            BY <1>6, <2>1, <3>1, <3>2 DEF SameAsInv, AloneInv
    <2>5. \A d \in B : d.before = told[d.id] /\ d.before # d.after
        BY <1>5, <2>1 DEF Move, SameAsInv, AloneInv, ToldInv
    <2>6. retold' = {}
        BY <1>1, <2>1, <2>5 DEF SameAsInv, AloneInv
    <2>. QED
        BY <1>3, <1>4, <2>2, <2>3, <2>4, <2>6
<1>. QED
    BY <1>9, <1>10, <1>11, <1>12 DEF SameAsInv

-----------------------------------------------------------------------------

(* In every reachable state a row's link is the one the feed last told, and *)
(* as long as no two runs overlapped, no link was told twice: "a failed     *)
(* chunk leaves its rows still differing, so the next run emits them"       *)
(* (model-identity.ts).                                                     *)
THEOREM LinksAreTold == SameAsSpec => []LinksToldOnce
<1>1. SameAsInit => SameAsInv
    <2>. SUFFICES ASSUME SameAsInit PROVE SameAsInv
        OBVIOUS
    <2>. USE SameAsAssumption DEF SameAsInit
    <2>1. Stored = {} /\ link = [m \in {} |-> NoModel]
        BY DEF Stored, EmptyMap
    <2>2. run \in [Pollers -> Locals] /\ \A r \in Pollers : run[r] = NoRun
        BY RestHasNoDiffs
    <2>3. TypeInv
        BY <2>1, <2>2, RestHasNoDiffs DEF TypeInv, UpstreamInv, TableInv
    <2>4. ToldInv
        BY <2>1 DEF ToldInv
    <2>5. DiffInv /\ AloneInv
        BY <2>2, RestHasNoDiffs DEF DiffInv, AloneInv, Busy, NoRun
    <2>. QED
        BY <2>3, <2>4, <2>5 DEF SameAsInv
<1>2. SameAsInv /\ [SameAsNext]_vars => SameAsInv'
    <2>. SUFFICES ASSUME SameAsInv, [SameAsNext]_vars PROVE SameAsInv'
        OBVIOUS
    <2>1. CASE SameAsNext
        <3>1. ASSUME NEW r \in Pollers, RunStep(r) \/ FailPoll(r) \/ CutOff(r)
              PROVE  SameAsInv'
            BY <3>1, PollsKeep, InsertKeeps, UpdatesKeep, ReadsKeep, CommitKeeps
            DEF RunStep
        <3>. QED
            BY <2>1, <3>1, MovesKeep DEF SameAsNext
    <2>2. CASE UNCHANGED vars
        BY <2>2 DEF vars, upstream, tables, SameAsInv, TypeInv, UpstreamInv, TableInv,
            ToldInv, DiffInv, AloneInv, Busy, Stored
    <2>. QED
        BY <2>1, <2>2
<1>3. SameAsInv => LinksToldOnce
    BY DEF SameAsInv, ToldInv, AloneInv, LinksToldOnce
<1>. QED
    BY <1>1, <1>2, <1>3, PTL DEF SameAsSpec

=============================================================================
