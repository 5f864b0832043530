------------------------------- MODULE SameAs -------------------------------
(***************************************************************************)
(* Same-as links: what a models poll stores of the upstream a provider     *)
(* states for its models (poll-models.ts, model-identity.ts), and          *)
(* reconcileSameAs, which resolves that evidence into links, catalog-wide, *)
(* at the end of every run of pollAllProviders.  Runs may overlap, a poll  *)
(* may fail, and a run may be cut off between any two statements.          *)
(*                                                                         *)
(* Of a row only its aliases, its evidence and its link are kept: the      *)
(* rest of a poll is module ModelPoll.                                     *)
(***************************************************************************)
EXTENDS Naturals, FiniteSets

CONSTANTS
    Models,      \* row ids, one for each provider and raw id
    NoModel,
    Providers,
    ProviderOf,  \* ProviderOf[m]: the provider whose row m is
    RawId,       \* RawId[m]: m's raw id
    Names,       \* raw ids and aliases
    Hyphened,    \* Hyphened[n]: n with dots read as hyphens
    Namespaces,  \* what a statement may name as the upstream's provider
    NoEvidence,
    Statements,  \* Statements[m]: what a listing may say of m
    Claims,      \* Claims[p]: the namespaces p's configuration may claim
    Unlisted,
    Opening,     \* Opening[m]: what is said of m at first
    Pollers,     \* invocations of pollAllProviders
    Slice,       \* rows in a batch: the code's ten and thirty
    MaxMoves,    \* bound: changes upstream
    MaxFaults,   \* bound: polls that fail, and runs cut off
    MaxOverlaps  \* bound: runs started beside another

Evidence == [namespace: Namespaces, raw: Names]
Statement == [aliases: SUBSET Names, upstream: Evidence \cup {NoEvidence}]

ASSUME SameAsAssumption ==
    /\ NoModel \notin Models
    /\ NoEvidence \notin Evidence
    /\ Unlisted \notin Statement
    /\ ProviderOf \in [Models -> Providers]
    /\ RawId \in [Models -> Names]
    /\ Hyphened \in [Names -> Names]
    /\ Providers \subseteq Namespaces
    /\ Statements \in [Models -> SUBSET Statement]
    /\ Opening \in [Models -> Statement \cup {Unlisted}]
    /\ Claims \in [Providers -> SUBSET SUBSET Namespaces]
    /\ Slice \in Nat \ {0}
    /\ {MaxMoves, MaxFaults, MaxOverlaps} \subseteq Nat

VARIABLES
    says,        \* upstream: says[m], the listing's entry for m or Unlisted
    config,      \* config[p]: the namespaces the deployed code claims for p
    claims,      \* provider_model_namespaces; its domain is the providers table
    aliases,     \* the models table's aliases: a partial function from ids
    evidence,    \* ... upstream_provider and upstream_raw_id
    link,        \* ... same_as_model_id
    told,        \* told[m]: the link the last change about m announced
    run,         \* run[r]: the locals of invocation r
    moves, faults, overlaps,
    retold       \* history: rows a change was told of that moved from
                 \* another link than the one last told, or moved nowhere

upstream == <<says, config, moves>>
tables == <<claims, aliases, evidence, link, told, retold>>
vars == <<upstream, tables, run, faults, overlaps>>

Stored == DOMAIN aliases

NoRun == [pc |-> "idle", left |-> {}, at |-> {}, listing |-> {}, inserts |-> {},
          updates |-> {}, identities |-> {}, diffs |-> {}]

EmptyMap == [x \in {} |-> x]

SameAsInit ==
    /\ says = Opening
    /\ config \in [Providers -> SUBSET Namespaces]
    /\ \A p \in Providers : config[p] \in Claims[p]
    /\ claims = EmptyMap /\ aliases = EmptyMap
    /\ evidence = EmptyMap /\ link = EmptyMap
    /\ told = [m \in Models |-> NoModel]
    /\ run = [r \in Pollers |-> NoRun]
    /\ moves = 0 /\ faults = 0 /\ overlaps = 0
    /\ retold = {}

-----------------------------------------------------------------------------
(* Upstream: a listing changes, or a deployment changes a claim.            *)

MoveListing(m) ==
    /\ moves < MaxMoves /\ moves' = moves + 1
    /\ \E s \in Statements[m] \cup {Unlisted} : says' = [says EXCEPT ![m] = s]
    /\ UNCHANGED <<config, tables, run, faults, overlaps>>

MoveClaim(p) ==
    /\ moves < MaxMoves /\ moves' = moves + 1
    /\ \E C \in Claims[p] : config' = [config EXCEPT ![p] = C]
    /\ UNCHANGED <<says, tables, run, faults, overlaps>>

-----------------------------------------------------------------------------
(* pollAllProviders: a poll of each provider, then the reconciliation.  The *)
(* registry's order is any.                                                 *)

Busy == {r \in Pollers : run[r].pc # "idle"}

StartRun(r) ==
    /\ run[r].pc = "idle"
    /\ Busy # {} => overlaps < MaxOverlaps
    /\ overlaps' = IF Busy = {} THEN overlaps ELSE overlaps + 1
    /\ run' = [run EXCEPT ![r] = [NoRun EXCEPT !.pc = "next", !.left = Providers]]
    /\ UNCHANGED <<upstream, tables, faults>>

(* ensureProviderRow: one batch makes the table mirror the configuration.   *)
EnsureProvider(r, p) ==
    /\ run[r].pc = "next" /\ p \in run[r].left
    /\ claims' = [q \in DOMAIN claims \cup {p} |->
                    IF q = p THEN config[p] ELSE claims[q]]
    /\ run' = [run EXCEPT ![r].pc = "fetch", ![r].left = @ \ {p}, ![r].at = {p}]
    /\ UNCHANGED <<upstream, aliases, evidence, link, told, retold, faults, overlaps>>

(* What the listing says of each of the provider's models it lists.         *)
FetchListing(r) ==
    /\ run[r].pc = "fetch"
    /\ run' = [run EXCEPT ![r].pc = "read", ![r].listing =
            {[id |-> m, says |-> says[m]] : m \in
                {n \in Models : ProviderOf[n] \in run[r].at /\ says[n] # Unlisted}}]
    /\ UNCHANGED <<upstream, tables, faults, overlaps>>

SameEvidence(m, e) ==
    (IF m \in Stored THEN evidence[m] ELSE NoEvidence) = e

(* The provider's rows are read; what has to be written follows from them.  *)
ReadRows(r) ==
    /\ run[r].pc = "read"
    /\ LET L == run[r].listing IN
       run' = [run EXCEPT ![r].pc = "rows", ![r].at = {},
            ![r].inserts = {x \in L : x.id \notin Stored},
            ![r].updates =
                {x \in L : x.id \in Stored /\ aliases[x.id] # x.says.aliases},
            ![r].identities = {x \in L : ~ SameEvidence(x.id, x.says.upstream)},
            ![r].listing = {}]
    /\ UNCHANGED <<upstream, tables, faults, overlaps>>

NextPoll(r) == [NoRun EXCEPT !.pc = "next", !.left = run[r].left]

(* A row another run inserted since makes the insert throw: the poll fails. *)
InsertModel(r) ==
    /\ run[r].pc = "rows"
    /\ \E x \in run[r].inserts :
        \/ /\ x.id \notin Stored
           /\ LET With(f, v) == [m \in Stored \cup {x.id} |->
                                    IF m = x.id THEN v ELSE f[m]]
              IN /\ aliases' = With(aliases, x.says.aliases)
                 /\ evidence' = With(evidence, NoEvidence)
                 /\ link' = With(link, NoModel)
           /\ run' = [run EXCEPT ![r].inserts = @ \ {x}]
        \/ /\ x.id \in Stored
           /\ run' = [run EXCEPT ![r] = NextPoll(r)]
           /\ UNCHANGED <<aliases, evidence, link>>
    /\ UNCHANGED <<upstream, claims, told, retold, faults, overlaps>>

UpdateModel(r) ==
    /\ run[r].pc = "rows"
    /\ \E x \in run[r].updates :
        /\ aliases' = [aliases EXCEPT ![x.id] = x.says.aliases]
        /\ run' = [run EXCEPT ![r].updates = @ \ {x}]
    /\ UNCHANGED <<upstream, claims, evidence, link, told, retold, faults, overlaps>>

(* A batch: Slice of S, or all of it when it is no larger.                  *)
IsSlice(B, S) ==
    /\ B \subseteq S
    /\ IF Cardinality(S) > Slice THEN Cardinality(B) = Slice ELSE B = S

(* persistUpstreamIdentities, the poll's last writes.                       *)
PersistEvidence(r) ==
    /\ run[r].pc = "rows" /\ run[r].inserts = {} /\ run[r].updates = {}
    /\ \E B \in SUBSET run[r].identities :
        /\ IsSlice(B, run[r].identities)
        /\ evidence' = [m \in Stored |->
                IF \E x \in B : x.id = m
                THEN (CHOOSE x \in B : x.id = m).says.upstream
                ELSE evidence[m]]
        /\ run' = [run EXCEPT ![r] =
                IF B = run[r].identities THEN NextPoll(r)
                ELSE [run[r] EXCEPT !.identities = @ \ B]]
    /\ UNCHANGED <<upstream, claims, aliases, link, told, retold, faults, overlaps>>

(* A provider's poll throws in its first statement, in its listing or later, *)
(* or its adapter skips it; the next provider is polled all the same.       *)
FailPoll(r) ==
    /\ \/ /\ run[r].pc = "next"
          /\ \E p \in run[r].left : run' = [run EXCEPT ![r].left = @ \ {p}]
       \/ /\ run[r].pc \in {"fetch", "read", "rows"}
          /\ run' = [run EXCEPT ![r] = NextPoll(r)]
    /\ faults < MaxFaults /\ faults' = faults + 1
    /\ UNCHANGED <<upstream, tables, overlaps>>

-----------------------------------------------------------------------------
(* reconcileSameAs.                                                         *)

(* The provider a namespace stands for: the one of that id, or the only one *)
(* that claims the name.                                                    *)
Owners(namespace) ==
    IF namespace \in DOMAIN claims THEN {namespace}
    ELSE {p \in DOMAIN claims : namespace \in claims[p]}

Called(m) == {RawId[m]} \cup aliases[m]

Candidates(m) ==
    {t \in Stored \ {m} :
        /\ Owners(evidence[m].namespace) = {ProviderOf[t]}
        /\ \E n \in {evidence[m].raw, Hyphened[evidence[m].raw]} : n \in Called(t)}

Tier(m, t) ==
    IF RawId[t] = evidence[m].raw THEN 0
    ELSE IF evidence[m].raw \in aliases[t] THEN 1
    ELSE 2

Best(m) == {t \in Candidates(m) : \A u \in Candidates(m) : Tier(m, t) <= Tier(m, u)}

(* More than one match at the winning tier is ambiguous: no link.           *)
Resolved(m) ==
    IF evidence[m] # NoEvidence /\ \E t \in Stored : Best(m) = {t}
    THEN CHOOSE t \in Stored : Best(m) = {t}
    ELSE NoModel

Diff(m) == [id |-> m, before |-> link[m], after |-> Resolved(m)]

(* Mutant: every link is written and told again.                            *)
DifferingOrNot == {m \in Stored : evidence[m] # NoEvidence}

(* Mutant: compared with != instead of IS NOT, which no NULL satisfies.     *)
DifferingNotNull ==
    {m \in Stored : link[m] # NoModel /\ Resolved(m) \notin {NoModel, link[m]}}

Differing == {m \in Stored : link[m] # Resolved(m)}

(* One query finds the rows whose link is not what their evidence says.     *)
ReadDiffs(r) ==
    /\ run[r].pc = "next" /\ run[r].left = {}
    /\ run' = [run EXCEPT ![r] = [NoRun EXCEPT !.pc = "links",
            !.diffs = {Diff(m) : m \in Differing}]]
    /\ UNCHANGED <<upstream, tables, faults, overlaps>>

Linked(B, f) ==
    [m \in DOMAIN f |-> IF \E d \in B : d.id = m
                        THEN (CHOOSE d \in B : d.id = m).after ELSE f[m]]

(* "A link and its change row commit together": a batch of a slice's        *)
(* changes and links.  After the last slice the run ends.                   *)
CommitLinks(r) ==
    /\ run[r].pc = "links"
    /\ \E B \in SUBSET run[r].diffs :
        /\ IsSlice(B, run[r].diffs)
        /\ link' = Linked(B, link)
        /\ told' = Linked(B, told)
        /\ retold' = retold \cup
                {d.id : d \in {x \in B : x.before # told[x.id] \/ x.before = x.after}}
        /\ run' = [run EXCEPT ![r] = IF B = run[r].diffs THEN NoRun
                                     ELSE [run[r] EXCEPT !.diffs = @ \ B]]
    /\ UNCHANGED <<upstream, claims, aliases, evidence, faults, overlaps>>

(* An exception in the reconciliation, or the invocation cut off anywhere.  *)
CutOff(r) ==
    /\ run[r].pc # "idle"
    /\ faults < MaxFaults /\ faults' = faults + 1
    /\ run' = [run EXCEPT ![r] = NoRun]
    /\ UNCHANGED <<upstream, tables, overlaps>>

-----------------------------------------------------------------------------

RunStep(r) ==
    \/ StartRun(r) \/ \E p \in Providers : EnsureProvider(r, p)
    \/ FetchListing(r) \/ ReadRows(r)
    \/ InsertModel(r) \/ UpdateModel(r) \/ PersistEvidence(r)
    \/ ReadDiffs(r) \/ CommitLinks(r)

SameAsNext ==
    \/ \E m \in Models : MoveListing(m)
    \/ \E p \in Providers : MoveClaim(p)
    \/ \E r \in Pollers : RunStep(r) \/ FailPoll(r) \/ CutOff(r)

SameAsSpec == SameAsInit /\ [][SameAsNext]_vars

(* The cron fires again and again, and what it started gets on.             *)
FairSameAsSpec ==
    /\ SameAsSpec
    /\ \A r \in Pollers : WF_vars(RunStep(r))

-----------------------------------------------------------------------------
(* Properties.                                                             *)

(* model-identity.ts: "A link and its change row commit together: a failed  *)
(* chunk leaves its rows still differing, so the next run emits them".  The *)
(* feed's last word on a row is its link, and as long as no two runs        *)
(* overlap each change moves a link from where the one before it left it:   *)
(* what a failed run had told is not told again.                            *)
LinksToldOnce ==
    /\ \A m \in Models : told[m] = IF m \in Stored THEN link[m] ELSE NoModel
    /\ overlaps = 0 => retold = {}

(* "A target that arrives later links without re-polling the reseller", and *)
(* all else that may come in any order: once listings and claims stay put,  *)
(* every listed model's row comes to hold what is stated of it, and every   *)
(* row, listed or not, the link that its evidence now resolves to, for good. *)
Current(m) ==
    says[m] # Unlisted => /\ m \in Stored
                          /\ aliases[m] = says[m].aliases
                          /\ evidence[m] = says[m].upstream
LinksSettle ==
    <>[] /\ \A m \in Models : Current(m)
         /\ claims = config
         /\ \A m \in Stored : link[m] = Resolved(m)

=============================================================================
