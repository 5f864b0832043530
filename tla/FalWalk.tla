------------------------------ MODULE FalWalk ------------------------------
(***************************************************************************)
(* The cursor walk of extractFalPricing (src/server/ingest/extract-fal-    *)
(* pricing.ts).  Each run resumes after the stored cursor, fetches up to   *)
(* FetchCap pages in roster order (wrapping round), prices what it can     *)
(* without a model, queues the rest by distinct Pricing section up to      *)
(* ExtractCap, asks the extract model, and stores how far it got.  A page  *)
(* that answers 408/429/5xx or not at all, and a section past the cap,     *)
(* freeze the cursor; a failed extract rewinds it, once.                   *)
(*                                                                         *)
(* Rows are numbered in the order of their raw ids.  What a row is priced  *)
(* at is not modelled, only whether the walk is done with it.              *)
(***************************************************************************)
EXTENDS Naturals, Sequences, FiniteSets

CONSTANTS
    N,              \* candidates are rows 1..N
    Section,        \* Section[r]: the Pricing section of r's page
    FetchCap,       \* FAL_PRICING_FETCH_CAP
    ExtractCap,     \* FAL_PRICING_EXTRACT_CAP
    FailAbort,      \* FAL_PRICING_FETCH_FAIL_ABORT
    ExtractFails,   \* may the extract model fail on a section?
    MaxFailures,    \* bound: passing fetch failures
    MaxTurnover,    \* bound: rows entering or leaving the roster
    MaxCrashes      \* bound: runs cut off

Candidates == 1..N

ASSUME WalkAssumption ==
    /\ N \in Nat \ {0}
    /\ DOMAIN Section = Candidates
    /\ FetchCap \in Nat \ {0} /\ ExtractCap \in Nat \ {0} /\ FailAbort \in Nat \ {0}
    /\ ExtractFails \in BOOLEAN
    /\ {MaxFailures, MaxTurnover, MaxCrashes} \subseteq Nat

VARIABLES
    roster,     \* the provider's rows that are not deprecated
    cursor,     \* cache_meta "fal-pricing-extract-cursor:fal"; 0: none
    held,       \* cache_meta "...:held": the row last rewound onto; 0: none
    run,        \* the locals of the run under way
    failures, turnover, crashes     \* history, bounded by the Max constants

stored == <<roster, cursor, held>>
walkVars == <<stored, run, failures, turnover, crashes>>

NoRun == [pc |-> "idle", order |-> <<>>, i |-> 1, start |-> 0,
          last |-> 0, frozen |-> FALSE, streak |-> 0,
          queue |-> <<>>, before |-> [r \in Candidates |-> 0],
          open |-> {}, failed |-> {}, heldBefore |-> 0,
          passedBy |-> {}]    \* history: rows walked without being settled

WalkInit ==
    /\ roster = Candidates
    /\ cursor = 0
    /\ held = 0
    /\ run = NoRun
    /\ failures = 0 /\ turnover = 0 /\ crashes = 0

-----------------------------------------------------------------------------

(* resumeIndex and the slice-and-wrap: rows after c first, then from the    *)
(* top; a cursor that left the roster counts by where it would sort.  There *)
(* is exactly one such order.                                               *)
WalkOrders(c) ==
    LET Lap(r) == IF r > c THEN r ELSE r + N
    IN {order \in [1..Cardinality(roster) -> roster] :
            \A i, j \in DOMAIN order : i < j => Lap(order[i]) < Lap(order[j])}

StartRun ==
    /\ run.pc = "idle"
    /\ roster # {}
    /\ \E order \in WalkOrders(cursor) :
        run' = [NoRun EXCEPT !.pc = "walk", !.order = order, !.start = cursor]
    /\ UNCHANGED <<stored, failures, turnover, crashes>>

Candidate == run.order[run.i]
Walking == run.pc = "walk" /\ run.i <= Len(run.order) /\ run.i <= FetchCap

(* Mutant: the cursor is never frozen.                                      *)
MarkedAlways == Candidate

(* mark(): the cursor follows the walk until something freezes it.          *)
Marked == IF run.frozen THEN run.last ELSE Candidate

(* Gone for good (404), unchanged, a stub, or priced without the model.     *)
WalkSettled ==
    /\ Walking
    /\ run' = [run EXCEPT !.i = @ + 1, !.streak = 0, !.last = Marked]
    /\ UNCHANGED <<stored, failures, turnover, crashes>>

(* A leftover joins its section's group, or opens one if there is room.     *)
WalkLeftover ==
    /\ Walking
    /\ Section[Candidate] \in run.open \/ Cardinality(run.open) < ExtractCap
    /\ run' = [run EXCEPT !.i = @ + 1, !.streak = 0, !.last = Marked,
                          !.open = @ \cup {Section[Candidate]},
                          !.queue = Append(@, Candidate),
                          !.before[Candidate] = run.last]
    /\ UNCHANGED <<stored, failures, turnover, crashes>>

(* Past the extract cap: freeze here, but keep walking.                     *)
WalkPastCap ==
    /\ Walking
    /\ Section[Candidate] \notin run.open /\ Cardinality(run.open) >= ExtractCap
    /\ run' = [run EXCEPT !.i = @ + 1, !.streak = 0, !.frozen = TRUE,
                          !.passedBy = @ \cup {Candidate}]
    /\ UNCHANGED <<stored, failures, turnover, crashes>>

(* Mutant: giving up skips a whole lap instead of going to the end.         *)
WalkFailedJump ==
    /\ Walking
    /\ failures < MaxFailures /\ failures' = failures + 1
    /\ run' = [run EXCEPT !.i = IF run.streak + 1 >= FailAbort
                                THEN @ + Len(run.order) ELSE @ + 1,
                          !.streak = @ + 1, !.frozen = TRUE,
                          !.passedBy = @ \cup {Candidate}]
    /\ UNCHANGED <<stored, turnover, crashes>>

(* A retryable failure freezes the cursor before this row; FailAbort in a   *)
(* row end the walk.                                                        *)
WalkFailed ==
    /\ Walking
    /\ failures < MaxFailures /\ failures' = failures + 1
    /\ run' = [run EXCEPT !.i = IF run.streak + 1 >= FailAbort
                                THEN Len(run.order) + 1 ELSE @ + 1,
                          !.streak = @ + 1, !.frozen = TRUE,
                          !.passedBy = @ \cup {Candidate}]
    /\ UNCHANGED <<stored, turnover, crashes>>

(* The extract calls: any queued row may end without a card.                *)
Extract ==
    /\ run.pc = "walk" /\ ~ Walking
    /\ \E failed \in SUBSET {run.queue[i] : i \in DOMAIN run.queue} :
        /\ failed # {} => ExtractFails
        /\ run' = [run EXCEPT !.pc = "rewind", !.failed = failed,
                              !.heldBefore = held]
    /\ UNCHANGED <<stored, failures, turnover, crashes>>

(* Mutant: the row already held is rewound onto again.                      *)
RetryAny == run.failed

(* A failed row gets a second chance, the one already held does not.        *)
Retry == run.failed \ {run.heldBefore}

IsFirstRetry(i) ==
    /\ run.queue[i] \in Retry
    /\ \A j \in 1..(i - 1) : run.queue[j] \notin Retry

SaveHeld ==
    /\ run.pc = "rewind"
    /\ Retry # {}
    /\ \E i \in DOMAIN run.queue :
        /\ IsFirstRetry(i)
        /\ held' = run.queue[i]
        /\ run' = [run EXCEPT !.pc = "save", !.last = run.before[run.queue[i]]]
    /\ UNCHANGED <<roster, cursor, failures, turnover, crashes>>

KeepHeld ==
    /\ run.pc = "rewind"
    /\ Retry = {}
    /\ run' = [run EXCEPT !.pc = "save"]
    /\ UNCHANGED <<stored, failures, turnover, crashes>>

(* No cursor is stored when nothing was walked before the first obstacle.   *)
SaveCursor ==
    /\ run.pc = "save"
    /\ cursor' = IF run.last # 0 THEN run.last ELSE cursor
    /\ run' = NoRun
    /\ UNCHANGED <<roster, held, failures, turnover, crashes>>

(* The run throws or is cut off: the outcome is logged, no cursor stored.   *)
Cut ==
    /\ run.pc # "idle"
    /\ crashes < MaxCrashes
    /\ crashes' = crashes + 1
    /\ run' = NoRun
    /\ UNCHANGED <<stored, failures, turnover>>

(* The models poll lists a row again or deprecates it.                      *)
Turnover(r) ==
    /\ turnover < MaxTurnover
    /\ turnover' = turnover + 1
    /\ roster' = IF r \in roster THEN roster \ {r} ELSE roster \cup {r}
    /\ UNCHANGED <<cursor, held, run, failures, crashes>>

RunStep ==
    \/ StartRun \/ WalkSettled \/ WalkLeftover \/ WalkPastCap \/ WalkFailed
    \/ Extract \/ SaveHeld \/ KeepHeld \/ SaveCursor

WalkNext == RunStep \/ Cut \/ \E r \in Candidates : Turnover(r)

WalkSpec == WalkInit /\ [][WalkNext]_walkVars

(* The six nightly firings keep coming, and a run goes on until it ends.    *)
FairWalkSpec == WalkSpec /\ WF_walkVars(RunStep)

-----------------------------------------------------------------------------
(* Properties.                                                             *)

WalkTypeOK ==
    /\ roster \subseteq Candidates
    /\ cursor \in 0..N
    /\ held \in 0..N
    /\ run.pc \in {"idle", "walk", "rewind", "save"}
    /\ run.i \in 1..(N + 1)
    /\ run.last \in 0..N
    /\ run.order \in Seq(Candidates) /\ run.queue \in Seq(Candidates)
    /\ run.failed \subseteq Candidates

(* The rows of this run the new cursor leaves behind.                       *)
Passed ==
    IF run.last = 0 THEN {}
    ELSE LET n == CHOOSE i \in DOMAIN run.order : run.order[i] = run.last
         IN {run.order[i] : i \in 1..n}

(* A page that failed or a section that found no room is never leapfrogged, *)
(* and a failed extract is passed over only when it is the row that already *)
(* had its second chance.                                                   *)
NoLeapfrog ==
    run.pc = "save" =>
        /\ Passed \cap run.failed \subseteq {run.heldBefore}
        /\ Passed \cap run.passedBy = {}

(* The walk comes round: every row that stays on the roster is fetched      *)
(* again and again.                                                         *)
EveryRowWalked ==
    \A r \in Candidates :
        []<>(r \notin roster \/ (Walking /\ Candidate = r))

=============================================================================
