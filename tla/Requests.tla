------------------------------ MODULE Requests ------------------------------
(***************************************************************************)
(* A /v1 request that is not served from the edge cache: the fixed-window  *)
(* rate limit in KV (server/rate-limit.ts), then one of the handlers that  *)
(* write, create or delete a subscription (server/subscriptions-api.ts) or *)
(* register a key (server/agents-api.ts).  None of them runs in a          *)
(* transaction: each statement is a step, other requests run between two   *)
(* of them, and a request may end after any of them.                       *)
(*                                                                         *)
(* KV is taken at its best here, a get returning the last put: what the    *)
(* properties allow for is the code's own read and write in two steps.     *)
(* Bodies are valid and their provider known; a bound on Arrive makes the  *)
(* model finite.                                                           *)
(***************************************************************************)
EXTENDS Naturals, FiniteSets

CONSTANTS Reqs,                 \* slots for requests in flight
          Callers,              \* rate-limit buckets: API keys, agents, addresses
          OwnerOf,              \* the user id a caller's subscriptions belong to
          NoOwner,              \* what OwnerOf says of an anonymous address
          AnonymousLimit, AuthenticatedLimit, Cap,
          Emails,
          MaxWindow, MaxArrivals

ASSUME RequestsAssumption ==
    /\ IsFiniteSet(Reqs)
    /\ {MaxWindow, MaxArrivals, AnonymousLimit, AuthenticatedLimit} \subseteq Nat
    /\ Cap \in Nat \ {0}

Owners == {OwnerOf[c] : c \in Callers} \ {NoOwner}

LimitOf(c) == IF OwnerOf[c] = NoOwner THEN AnonymousLimit ELSE AuthenticatedLimit

Keys == Callers \X (0 .. MaxWindow)

VARIABLES window,       \* the current rate-limit window
          counter,      \* KV: rl:<bucket>:<window>
          users,        \* owners with a row in user
          subs,         \* rows of subscriptions
          issued,       \* subscription ids handed out so far
          accounts,     \* e-mails with a user row made by register-key
          keyed,        \* e-mails whose account has an API key
          req,          \* the requests in flight
          arrivals,
          granted,      \* history: requests let through, by key
          overtaken,    \* history: grants a writer did not see, by key
          cut           \* history: e-mails whose sign-up lost its key step

state == <<counter, users, subs, issued, accounts, keyed>>
vars == <<window, state, req, arrivals, granted, overtaken, cut>>

(* What a request names: the e-mail it registers, the row it deletes. *)
Abouts == Emails \cup 0 .. MaxArrivals

Kinds == {"read", "create", "delete", "register"}

NoReq == [pc |-> "idle"]

Key(r) == <<req[r].caller, req[r].window>>
Owner(r) == OwnerOf[req[r].caller]
SubsOf(o) == {s \in subs : s.owner = o}

-----------------------------------------------------------------------------
At(r, pc) == req[r].pc = pc

Goto(r, pc) == req' = [req EXCEPT ![r].pc = pc]

Answer(r) == req' = [req EXCEPT ![r] = NoReq]

(* An address has no subscriptions to manage; the ids deleted are ones     *)
(* some caller was given.                                                  *)
Sensible(c, k, about) ==
    CASE k = "read"     -> about = 0
      [] k = "create"   -> about = 0 /\ OwnerOf[c] # NoOwner
      [] k = "delete"   -> about \in 1 .. issued /\ OwnerOf[c] # NoOwner
      [] k = "register" -> about \in Emails

(* The clock is read before the credential is resolved, so the window is   *)
(* that of the arrival however long the rest takes.                        *)
Arrive(r) ==
    /\ At(r, "idle") /\ arrivals < MaxArrivals
    /\ \E c \in Callers, k \in Kinds, about \in Abouts :
         /\ Sensible(c, k, about)
         /\ req' = [req EXCEPT ![r] =
                       [pc |-> "limit", caller |-> c, kind |-> k, about |-> about,
                        window |-> window, seen |-> 0, passed |-> 0]]
    /\ arrivals' = arrivals + 1
    /\ UNCHANGED <<window, state, granted, overtaken, cut>>

(* Mutant: one more than the limit. *)
FullPast(r) == counter[Key(r)] > LimitOf(req[r].caller)

Full(r) == counter[Key(r)] >= LimitOf(req[r].caller)

ReadCounter(r) ==
    /\ At(r, "limit")
    /\ IF Full(r)
         THEN Answer(r)
         ELSE req' = [req EXCEPT ![r].pc = "put", ![r].seen = counter[Key(r)]]
    /\ UNCHANGED <<window, state, arrivals, granted, overtaken, cut>>

WriteCounter(r) ==
    /\ At(r, "put")
    /\ counter' = [counter EXCEPT ![Key(r)] = req[r].seen + 1]
    /\ granted' = [granted EXCEPT ![Key(r)] = @ + 1]
    /\ overtaken' = [overtaken EXCEPT ![Key(r)] = @ + req[r].passed]
    /\ req' = [q \in Reqs |->
                 IF q = r THEN [req[r] EXCEPT !.pc = req[r].kind, !.seen = 0, !.passed = 0]
                 ELSE IF At(q, "put") /\ Key(q) = Key(r)
                        THEN [req[q] EXCEPT !.passed = @ + 1]
                        ELSE req[q]]
    /\ UNCHANGED <<window, users, subs, issued, accounts, keyed, arrivals, cut>>

Read(r) ==
    /\ At(r, "read") /\ Answer(r)
    /\ UNCHANGED <<window, state, arrivals, granted, overtaken, cut>>

-----------------------------------------------------------------------------
(* ensureOwnerUser, the count, the insert. *)

(* Mutant: the owner's row is taken to be there. *)
FindOwnerThere(r) ==
    /\ At(r, "create")
    /\ Goto(r, "count")
    /\ UNCHANGED <<window, state, arrivals, granted, overtaken, cut>>

FindOwner(r) ==
    /\ At(r, "create")
    /\ Goto(r, IF Owner(r) \in users THEN "count" ELSE "owner")
    /\ UNCHANGED <<window, state, arrivals, granted, overtaken, cut>>

(* A second insert of the row breaks the primary key and the request.      *)
InsertOwner(r) ==
    /\ At(r, "owner")
    /\ IF Owner(r) \in users THEN Answer(r) ELSE Goto(r, "count")
    /\ users' = users \cup {Owner(r)}
    /\ UNCHANGED <<window, counter, subs, issued, accounts, keyed, arrivals, granted,
                   overtaken, cut>>

(* Mutant: the cap lets one more through. *)
AtCapPast(o) == Cardinality(SubsOf(o)) > Cap

AtCap(o) == Cardinality(SubsOf(o)) >= Cap

CountSubs(r) ==
    /\ At(r, "count")
    /\ IF AtCap(Owner(r)) THEN Answer(r) ELSE Goto(r, "insert")
    /\ UNCHANGED <<window, state, arrivals, granted, overtaken, cut>>

(* randomUUID: an id no row has had. *)
InsertSub(r) ==
    /\ At(r, "insert") /\ Answer(r)
    /\ issued' = issued + 1
    /\ subs' = subs \cup {[owner |-> Owner(r), id |-> issued + 1]}
    /\ UNCHANGED <<window, counter, users, accounts, keyed, arrivals, granted,
                   overtaken, cut>>

FindSub(r) ==
    /\ At(r, "delete")
    /\ IF [owner |-> Owner(r), id |-> req[r].about] \in subs
         THEN Goto(r, "drop") ELSE Answer(r)
    /\ UNCHANGED <<window, state, arrivals, granted, overtaken, cut>>

(* The delete names the id only. *)
DropSub(r) ==
    /\ At(r, "drop") /\ Answer(r)
    /\ subs' = {s \in subs : s.id # req[r].about}
    /\ UNCHANGED <<window, counter, users, issued, accounts, keyed, arrivals,
                   granted, overtaken, cut>>

-----------------------------------------------------------------------------
(* registerKeyAgent: the look-up, Better Auth's sign-up, its API key. *)
FindEmail(r) ==
    /\ At(r, "register")
    /\ IF req[r].about \in accounts THEN Answer(r) ELSE Goto(r, "signup")
    /\ UNCHANGED <<window, state, arrivals, granted, overtaken, cut>>

(* Mutant: a sign-up that was refused goes on to ask for a key. *)
SignUpAnyway(r) ==
    /\ At(r, "signup")
    /\ accounts' = accounts \cup {req[r].about}
    /\ Goto(r, "key")
    /\ UNCHANGED <<window, counter, users, subs, issued, keyed, arrivals,
                   granted, overtaken, cut>>

SignUp(r) ==
    /\ At(r, "signup")
    /\ IF req[r].about \in accounts THEN Answer(r) ELSE Goto(r, "key")
    /\ accounts' = accounts \cup {req[r].about}
    /\ UNCHANGED <<window, counter, users, subs, issued, keyed, arrivals,
                   granted, overtaken, cut>>

CreateKey(r) ==
    /\ At(r, "key") /\ Answer(r)
    /\ keyed' = keyed \cup {req[r].about}
    /\ UNCHANGED <<window, counter, users, subs, issued, accounts, arrivals,
                   granted, overtaken, cut>>

(* A statement throws or the invocation ends: nothing is undone. *)
Fail(r) ==
    /\ ~At(r, "idle") /\ Answer(r)
    /\ cut' = IF At(r, "key") THEN cut \cup {req[r].about} ELSE cut
    /\ UNCHANGED <<window, state, arrivals, granted, overtaken>>

NextWindow ==
    /\ window < MaxWindow
    /\ window' = window + 1
    /\ UNCHANGED <<state, req, arrivals, granted, overtaken, cut>>

-----------------------------------------------------------------------------
RequestsInit ==
    /\ window = 0
    /\ counter = [k \in Keys |-> 0]
    /\ users \in SUBSET Owners
    /\ subs = {} /\ issued = 0 /\ accounts = {} /\ keyed = {}
    /\ req = [r \in Reqs |-> NoReq]
    /\ arrivals = 0
    /\ granted = [k \in Keys |-> 0]
    /\ overtaken = [k \in Keys |-> 0]
    /\ cut = {}

Limited(r) == Arrive(r) \/ ReadCounter(r) \/ WriteCounter(r)

Handled(r) ==
    \/ Read(r)
    \/ FindOwner(r) \/ InsertOwner(r) \/ CountSubs(r) \/ InsertSub(r)
    \/ FindSub(r) \/ DropSub(r)
    \/ FindEmail(r) \/ SignUp(r) \/ CreateKey(r)

RequestsNext ==
    \/ \E r \in Reqs : Limited(r) \/ Handled(r) \/ Fail(r)
    \/ NextWindow

RequestsSpec == RequestsInit /\ [][RequestsNext]_vars

-----------------------------------------------------------------------------
Requests ==
    [pc : {"limit", "put", "owner", "count", "insert", "drop", "signup", "key"}
          \cup Kinds,
     caller : Callers, kind : Kinds, about : Abouts,
     window : 0 .. MaxWindow, seen : Nat, passed : Nat]

(* Types, and the foreign key: a subscription belongs to a user that has a *)
(* row, which ensureOwnerUser puts there for an agent without one.         *)
RequestsTypeOK ==
    /\ window \in 0 .. MaxWindow
    /\ counter \in [Keys -> Nat]
    /\ users \subseteq Owners
    /\ \A s \in subs : s.owner \in users /\ s.id \in 1 .. issued
    /\ issued \in Nat
    /\ accounts \subseteq Emails /\ keyed \subseteq accounts
    /\ req \in [Reqs -> {NoReq} \cup Requests]
    /\ arrivals \in 0 .. MaxArrivals
    /\ granted \in [Keys -> Nat]
    /\ overtaken \in [Keys -> Nat]
    /\ cut \subseteq accounts

(* checkRateLimit gets the count and puts it back plus one.  However these *)
(* interleave, a slow writer putting an old count over newer ones too:     *)
(* no bucket is refused in a window before its limit has been granted, and *)
(* what is granted beyond the limit is at most the grants that slipped in  *)
(* between some writer's get and its put.                                  *)
RateBound ==
    \A k \in Keys :
      /\ counter[k] <= granted[k]
      /\ granted[k] <= LimitOf(k[1]) + overtaken[k]

Inserting(o) == {r \in Reqs : At(r, "insert") /\ Owner(r) = o}

(* createSubscription counts and then inserts.  An owner's rows, with the  *)
(* inserts already past the count, exceed the cap by at most the requests  *)
(* that can be in flight beside one another, however creates, deletes and  *)
(* failures follow: the overshoot does not add up from one race to another.*)
CapBound ==
    \A o \in Owners :
      Cardinality(SubsOf(o)) + Cardinality(Inserting(o))
        <= Cap + Cardinality(Reqs) - 1

(* Registering one e-mail twice at once makes one account and asks for one *)
(* key: whoever is about to create a key is alone with its account and the *)
(* first to try.  An account without a key is one whose registration ended *)
(* at that step, and the look-up then refuses its e-mail for good.         *)
OneKeyPerAccount ==
    /\ \A r \in Reqs : At(r, "key") =>
         /\ req[r].about \in accounts \ (keyed \cup cut)
         /\ \A q \in Reqs \ {r} : At(q, "key") => req[q].about # req[r].about
    /\ \A e \in accounts : \/ e \in keyed \cup cut
                           \/ \E r \in Reqs : At(r, "key") /\ req[r].about = e

=============================================================================
