--------------------------- MODULE Requests_proofs ---------------------------
(***************************************************************************)
(* Proofs about the request path, for any number of requests in flight,    *)
(* callers, limits and windows.                                            *)
(***************************************************************************)
EXTENDS Requests, FiniteSetTheorems, TLAPS

(* What a request in flight has behind it: a creator has an owner, with a  *)
(* row once it counts; a registration names an e-mail, with an account     *)
(* once it asks for a key.                                                 *)
Behind(r) ==
    ~At(r, "idle") =>
      /\ req[r].kind = "create" => Owner(r) \in Owners
      /\ req[r].kind = "register" => req[r].about \in Emails
      /\ req[r].pc \in {"create", "owner", "count", "insert"}
           => req[r].kind = "create"
      /\ req[r].pc \in {"register", "signup", "key"} => req[r].kind = "register"
      /\ req[r].pc \in {"count", "insert"} => Owner(r) \in users
      /\ At(r, "key") => req[r].about \in accounts

TypeInv == RequestsTypeOK /\ \A r \in Reqs : Behind(r)

(* One request's step leaves the others where they are. *)
LEMMA TypeInvNext ==
    ASSUME TypeInv, [RequestsNext]_vars
    PROVE  TypeInv'
<1> USE RequestsAssumption DEF TypeInv, RequestsTypeOK
<1>1. ASSUME NEW r \in Reqs, Arrive(r) PROVE TypeInv'
  <2>1. PICK c \in Callers, k \in Kinds, about \in Abouts :
          /\ Sensible(c, k, about)
          /\ req' = [req EXCEPT ![r] =
                       [pc |-> "limit", caller |-> c, kind |-> k, about |-> about,
                        window |-> window, seen |-> 0, passed |-> 0]]
    BY <1>1 DEF Arrive
  <2>2. req' \in [Reqs -> {NoReq} \cup Requests]
    BY <2>1 DEF Requests
  <2>3. ASSUME NEW q \in Reqs PROVE Behind(q)'
    <3>1. CASE q = r
      BY <2>1, <3>1, <1>1 DEF Behind, At, Sensible, Owner, Owners, Kinds, Arrive, state
    <3>2. CASE q # r
      BY <2>1, <3>2, <1>1 DEF Behind, At, Owner, Arrive, state
    <3> QED BY <3>1, <3>2
  <2> QED BY <1>1, <2>2, <2>3 DEF Arrive, state, At
<1>2. ASSUME NEW r \in Reqs, WriteCounter(r) PROVE TypeInv'
  <2>1. req[r] \in Requests /\ At(r, "put")
    BY <1>2 DEF WriteCounter, At, NoReq
  <2>2. Key(r) \in Keys
    BY <2>1 DEF Key, Keys, Requests
  <2>3. req' \in [Reqs -> {NoReq} \cup Requests]
    <3> SUFFICES ASSUME NEW q \in Reqs PROVE req'[q] \in {NoReq} \cup Requests
      BY <1>2 DEF WriteCounter
    <3>1. CASE q = r
      BY <3>1, <1>2, <2>1 DEF WriteCounter, Requests
    <3>2. CASE q # r /\ At(q, "put")
      <4>1. req[q] \in Requests BY <3>2 DEF At, NoReq
      <4> QED BY <3>2, <1>2, <4>1 DEF WriteCounter, Requests
    <3>3. CASE q # r /\ ~At(q, "put")
      BY <3>3, <1>2 DEF WriteCounter
    <3> QED BY <3>1, <3>2, <3>3
  <2>4. ASSUME NEW q \in Reqs PROVE Behind(q)'
    <3>1. CASE q = r
      BY <3>1, <1>2, <2>1 DEF WriteCounter, Behind, At, Owner, Kinds, Requests
    <3>2. CASE q # r /\ At(q, "put")
      <4>1. req[q] \in Requests BY <3>2 DEF At, NoReq
      <4> QED BY <3>2, <1>2, <4>1 DEF WriteCounter, Behind, At, Owner, Requests
    <3>3. CASE q # r /\ ~At(q, "put")
      BY <3>3, <1>2 DEF WriteCounter, Behind, At, Owner
    <3> QED BY <3>1, <3>2, <3>3
  <2>5. counter' \in [Keys -> Nat] /\ granted' \in [Keys -> Nat]
          /\ overtaken' \in [Keys -> Nat]
    BY <1>2, <2>1, <2>2 DEF WriteCounter, Requests
  <2> QED BY <1>2, <2>3, <2>4, <2>5 DEF WriteCounter
<1>3. ASSUME NEW r \in Reqs,
             ReadCounter(r) \/ Handled(r) \/ Fail(r)
      PROVE  TypeInv'
  <2> USE DEF Goto, Answer
  <2>1. req[r] \in Requests
    BY <1>3 DEF ReadCounter, Handled, Fail, Read, FindOwner, InsertOwner,
                CountSubs, InsertSub, FindSub, DropSub, FindEmail, SignUp,
                CreateKey, At, NoReq
  <2>2. Key(r) \in Keys
    BY <2>1 DEF Key, Keys, Requests
  <2>3. req' \in [Reqs -> {NoReq} \cup Requests]
    BY <1>3, <2>1, <2>2
      DEF ReadCounter, Handled, Fail, Read, FindOwner, InsertOwner,
          CountSubs, InsertSub, FindSub, DropSub, FindEmail, SignUp,
          CreateKey, Requests
  <2>4. /\ users \subseteq users' /\ accounts \subseteq accounts'
        /\ \A q \in Reqs \ {r} : req'[q] = req[q]
    BY <1>3
      DEF ReadCounter, Handled, Fail, Read, FindOwner, InsertOwner,
          CountSubs, InsertSub, FindSub, DropSub, FindEmail, SignUp,
          CreateKey, state
  <2>5. Behind(r)'
    BY <1>3, <2>1
      DEF ReadCounter, Handled, Fail, Read, FindOwner, InsertOwner,
          CountSubs, InsertSub, FindSub, DropSub, FindEmail, SignUp,
          CreateKey, state, Behind, At, Owner, NoReq, Requests
  <2>6. ASSUME NEW q \in Reqs PROVE Behind(q)'
    BY <2>4, <2>5 DEF Behind, At, Owner
  <2>7. /\ users' \subseteq Owners /\ accounts' \subseteq Emails
        /\ keyed' \subseteq accounts' /\ cut' \subseteq accounts'
        /\ issued' \in Nat
    BY <1>3, <2>1
      DEF ReadCounter, Handled, Fail, Read, FindOwner, InsertOwner,
          CountSubs, InsertSub, FindSub, DropSub, FindEmail, SignUp,
          CreateKey, state, Behind, At
  <2>8. \A s \in subs' : s.owner \in users' /\ s.id \in 1 .. issued'
    BY <1>3, <2>1
      DEF ReadCounter, Handled, Fail, Read, FindOwner, InsertOwner,
          CountSubs, InsertSub, FindSub, DropSub, FindEmail, SignUp,
          CreateKey, state, Behind, At
  <2>9. UNCHANGED <<window, counter, arrivals, granted, overtaken>>
    BY <1>3
      DEF ReadCounter, Handled, Fail, Read, FindOwner, InsertOwner,
          CountSubs, InsertSub, FindSub, DropSub, FindEmail, SignUp,
          CreateKey, state
  <2> QED BY <2>3, <2>6, <2>7, <2>8, <2>9
<1>4. CASE NextWindow
  BY <1>4 DEF NextWindow, state, Behind, At, Owner
<1>5. CASE UNCHANGED vars
  BY <1>5 DEF vars, state, Behind, At, Owner
<1> QED BY <1>1, <1>2, <1>3, <1>4, <1>5 DEF RequestsNext, Limited

(* Nothing is in flight, and only owners have rows. *)
LEMMA TypeInvInit == RequestsInit => TypeInv
  BY RequestsAssumption
    DEF RequestsInit, TypeInv, RequestsTypeOK, Behind, At, NoReq, Keys

(* Types and the foreign key hold in every reachable state. *)
THEOREM RequestsTypes == RequestsSpec => []RequestsTypeOK
<1>1. RequestsInit => TypeInv
  BY TypeInvInit
<1>2. TypeInv => RequestsTypeOK
  BY DEF TypeInv
<1> QED BY <1>1, <1>2, TypeInvNext, PTL DEF RequestsSpec

-----------------------------------------------------------------------------
(* What a writer holds of its key: a count below the limit, no more than   *)
(* was granted, and short of it by what overtook this writer and those     *)
(* before it.                                                              *)
Holds(r) ==
    At(r, "put") =>
      /\ req[r].seen < LimitOf(req[r].caller)
      /\ req[r].seen <= granted[Key(r)]
      /\ granted[Key(r)] <= req[r].seen + req[r].passed + overtaken[Key(r)]

(* A stored count stays within the limit, and so is as far from the grants *)
(* as the overtakings of its writers add up to.                            *)
Stored(k) ==
    /\ counter[k] <= granted[k]
    /\ counter[k] <= LimitOf(k[1])
    /\ granted[k] <= counter[k] + overtaken[k]

RateInv == TypeInv /\ (\A k \in Keys : Stored(k)) /\ (\A r \in Reqs : Holds(r))

(* The limits are numbers. *)
LEMMA LimitIsNat == ASSUME NEW c PROVE LimitOf(c) \in Nat
  BY RequestsAssumption DEF LimitOf

(* A grant adds one to its key and one to what has passed every other      *)
(* writer of it, so no distance grows unnoticed.                           *)
LEMMA RateInvNext ==
    ASSUME RateInv, [RequestsNext]_vars
    PROVE  RateInv'
<1> USE DEF RateInv
<1>1. TypeInv'
  BY TypeInvNext
<1>2. ASSUME NEW r \in Reqs, WriteCounter(r) PROVE RateInv'
  <2> DEFINE k == Key(r)
  <2>1. req[r] \in Requests /\ At(r, "put")
    BY <1>2 DEF WriteCounter, At, NoReq, TypeInv, RequestsTypeOK
  <2>2. k \in Keys /\ k[1] = req[r].caller
    BY <2>1 DEF Key, Keys, Requests
  <2>3. /\ counter \in [Keys -> Nat] /\ granted \in [Keys -> Nat]
        /\ overtaken \in [Keys -> Nat]
        /\ req[r].seen \in Nat /\ req[r].passed \in Nat
    BY <2>1 DEF Requests, TypeInv, RequestsTypeOK
  <2>4. /\ counter' = [counter EXCEPT ![k] = req[r].seen + 1]
        /\ granted' = [granted EXCEPT ![k] = @ + 1]
        /\ overtaken' = [overtaken EXCEPT ![k] = @ + req[r].passed]
    BY <1>2 DEF WriteCounter
  <2>5. ASSUME NEW j \in Keys PROVE Stored(j)'
    <3>1. CASE j = k
      <4>1. /\ req[r].seen < LimitOf(k[1]) /\ req[r].seen <= granted[k]
            /\ granted[k] <= req[r].seen + req[r].passed + overtaken[k]
        BY <2>1, <2>2 DEF Holds
      <4>2. /\ counter'[k] = req[r].seen + 1 /\ granted'[k] = granted[k] + 1
            /\ overtaken'[k] = overtaken[k] + req[r].passed
        BY <2>2, <2>3, <2>4
      <4> HIDE DEF k
      <4> QED BY <2>2, <2>3, <3>1, <4>1, <4>2, LimitIsNat DEF Stored
    <3>2. CASE j # k
      <4>1. counter'[j] = counter[j] /\ granted'[j] = granted[j]
              /\ overtaken'[j] = overtaken[j]
        BY <2>3, <2>4, <3>2
      <4> QED BY <4>1 DEF Stored
    <3> QED BY <3>1, <3>2
  <2>6. ASSUME NEW q \in Reqs PROVE Holds(q)'
    <3>1. CASE q = r
      BY <3>1, <1>2, <2>1 DEF WriteCounter, Holds, At, Kinds, Requests, TypeInv, RequestsTypeOK
    <3>2. CASE q # r /\ At(q, "put")
      <4>1. req[q] \in Requests
        BY <3>2 DEF At, NoReq, TypeInv, RequestsTypeOK
      <4>2. Key(q) \in Keys /\ req[q].seen \in Nat /\ req[q].passed \in Nat
        BY <4>1 DEF Key, Keys, Requests
      <4>3. CASE Key(q) = k
        <5>1. req'[q] = [req[q] EXCEPT !.passed = @ + 1]
          BY <1>2, <3>2, <4>3 DEF WriteCounter
        <5>2. /\ req'[q].seen = req[q].seen /\ req'[q].passed = req[q].passed + 1
              /\ req'[q].caller = req[q].caller /\ req'[q].window = req[q].window
          BY <5>1, <4>1 DEF Requests
        <5>3. Key(q)' = k
          BY <5>2, <4>3 DEF Key
        <5>4. granted'[k] = granted[k] + 1 /\ overtaken'[k] >= overtaken[k]
                /\ granted[k] \in Nat /\ overtaken[k] \in Nat /\ overtaken'[k] \in Nat
          BY <2>2, <2>3, <2>4
        <5>5. /\ req[q].seen < LimitOf(req[q].caller) /\ req[q].seen <= granted[k]
              /\ granted[k] <= req[q].seen + req[q].passed + overtaken[k]
          BY <3>2, <4>3 DEF Holds
        <5> HIDE DEF k
        <5>6. /\ req'[q].seen < LimitOf(req'[q].caller)
              /\ req'[q].seen <= granted'[k]
              /\ granted'[k] <= req'[q].seen + req'[q].passed + overtaken'[k]
          BY <4>2, <5>2, <5>4, <5>5, LimitIsNat
        <5> QED BY <5>3, <5>6 DEF Holds, LimitOf
      <4>4. CASE Key(q) # k
        <5>1. req'[q] = req[q]
          BY <1>2, <3>2, <4>4 DEF WriteCounter
        <5>2. granted'[Key(q)] = granted[Key(q)] /\ overtaken'[Key(q)] = overtaken[Key(q)]
          BY <2>3, <2>4, <4>2, <4>4
        <5> QED BY <5>1, <5>2, <3>2 DEF Holds, At, Key, LimitOf
      <4> QED BY <4>3, <4>4
    <3>3. CASE q # r /\ ~At(q, "put")
      BY <3>3, <1>2 DEF WriteCounter, Holds, At
    <3> QED BY <3>1, <3>2, <3>3
  <2> QED BY <1>1, <2>5, <2>6
<1>3. ASSUME NEW r \in Reqs, ReadCounter(r) PROVE RateInv'
  <2>1. req[r] \in Requests
    BY <1>3 DEF ReadCounter, At, NoReq, TypeInv, RequestsTypeOK
  <2>2. Key(r) \in Keys /\ Key(r)[1] = req[r].caller
    BY <2>1 DEF Key, Keys, Requests
  <2>3. /\ counter[Key(r)] \in Nat /\ granted[Key(r)] \in Nat
        /\ overtaken[Key(r)] \in Nat /\ Stored(Key(r))
    BY <2>2 DEF TypeInv, RequestsTypeOK
  <2>4. UNCHANGED <<counter, granted, overtaken>>
    BY <1>3 DEF ReadCounter, state
  <2>5. ASSUME NEW q \in Reqs PROVE Holds(q)'
    <3>1. CASE q = r /\ Full(r)
      BY <3>1, <1>3, <2>1 DEF ReadCounter, Answer, Holds, At, NoReq, TypeInv, RequestsTypeOK
    <3>2. CASE q = r /\ ~Full(r)
      <4>1. req' = [req EXCEPT ![r].pc = "put", ![r].seen = counter[Key(r)]]
        BY <3>2, <1>3 DEF ReadCounter
      <4>2. /\ req'[r].seen = counter[Key(r)] /\ req'[r].passed = req[r].passed
            /\ req'[r].caller = req[r].caller /\ req'[r].window = req[r].window
            /\ req[r].passed \in Nat
        BY <4>1, <2>1 DEF TypeInv, RequestsTypeOK, Requests
      <4>3. Key(r)' = Key(r)
        BY <4>2 DEF Key
      <4>4. counter[Key(r)] < LimitOf(req[r].caller)
        BY <3>2, <2>3, LimitIsNat DEF Full
      <4>5. /\ req'[r].seen < LimitOf(req'[r].caller)
            /\ req'[r].seen <= granted[Key(r)]
            /\ granted[Key(r)] <= req'[r].seen + req'[r].passed + overtaken[Key(r)]
        BY <2>3, <4>2, <4>4 DEF Stored
      <4> QED BY <2>4, <3>2, <4>3, <4>5 DEF Holds, LimitOf
    <3>3. CASE q # r
      <4>1. req'[q] = req[q]
        BY <3>3, <1>3 DEF ReadCounter, Answer, TypeInv, RequestsTypeOK
      <4> QED BY <2>4, <4>1 DEF Holds, At, Key, LimitOf
    <3> QED BY <3>1, <3>2, <3>3
  <2> QED BY <1>1, <2>4, <2>5 DEF Stored
<1>4. ASSUME NEW r \in Reqs, Arrive(r) \/ Handled(r) \/ Fail(r) PROVE RateInv'
  <2> USE DEF Goto, Answer
  <2>1. UNCHANGED <<counter, granted, overtaken>>
    BY <1>4
      DEF Arrive, Handled, Fail, Read, FindOwner, InsertOwner, CountSubs,
          InsertSub, FindSub, DropSub, FindEmail, SignUp, CreateKey, state
  <2>2. \A q \in Reqs \ {r} : req'[q] = req[q]
    BY <1>4
      DEF Arrive, Handled, Fail, Read, FindOwner, InsertOwner, CountSubs,
          InsertSub, FindSub, DropSub, FindEmail, SignUp, CreateKey,
          TypeInv, RequestsTypeOK
  <2>3. ~At(r, "put")'
    BY <1>4
      DEF Arrive, Handled, Fail, Read, FindOwner, InsertOwner, CountSubs,
          InsertSub, FindSub, DropSub, FindEmail, SignUp, CreateKey,
          TypeInv, RequestsTypeOK, At, NoReq, Requests
  <2>4. ASSUME NEW q \in Reqs PROVE Holds(q)'
    BY <2>1, <2>2, <2>3 DEF Holds, At, Key
  <2> QED BY <1>1, <2>1, <2>4 DEF Stored
<1>5. CASE NextWindow \/ UNCHANGED vars
  BY <1>1, <1>5 DEF NextWindow, vars, state, Stored, Holds, At, Key
<1> QED BY <1>2, <1>3, <1>4, <1>5 DEF RequestsNext, Limited

(* No bucket is refused before its limit was granted, and each grant past  *)
(* it is paid for by an overtaking.                                        *)
THEOREM RateBounded == RequestsSpec => []RateBound
<1>1. RequestsInit => RateInv
  <2> SUFFICES ASSUME RequestsInit PROVE RateInv
    OBVIOUS
  <2>1. TypeInv
    BY TypeInvInit
  <2>2. ASSUME NEW k \in Keys PROVE Stored(k)
    BY LimitIsNat DEF RequestsInit, Stored
  <2>3. ASSUME NEW r \in Reqs PROVE Holds(r)
    BY DEF RequestsInit, Holds, At, NoReq
  <2> QED BY <2>1, <2>2, <2>3 DEF RateInv
<1>2. RateInv => RateBound
  <2> SUFFICES ASSUME RateInv, NEW k \in Keys
               PROVE  /\ counter[k] <= granted[k]
                      /\ granted[k] <= LimitOf(k[1]) + overtaken[k]
    BY DEF RateBound
  <2>1. counter[k] \in Nat /\ granted[k] \in Nat /\ overtaken[k] \in Nat
    BY DEF RateInv, TypeInv, RequestsTypeOK
  <2> QED BY <2>1, LimitIsNat DEF RateInv, Stored
<1> QED BY <1>1, <1>2, RateInvNext, PTL DEF RequestsSpec

-----------------------------------------------------------------------------
AccountInv == TypeInv /\ OneKeyPerAccount

(* Only a sign-up that made the account goes on to the key, so nobody else *)
(* is on its way to one and nobody has tried.                              *)
LEMMA AccountInvNext ==
    ASSUME AccountInv, [RequestsNext]_vars
    PROVE  AccountInv'
<1> USE DEF AccountInv
<1>1. TypeInv'
  BY TypeInvNext
<1>2. ASSUME NEW r \in Reqs, SignUp(r) PROVE OneKeyPerAccount'
  <2> DEFINE e == req[r].about
  <2>1. keyed \subseteq accounts /\ cut \subseteq accounts
    BY DEF TypeInv, RequestsTypeOK
  <2>2. accounts' = accounts \cup {e} /\ UNCHANGED <<keyed, cut>>
    BY <1>2 DEF SignUp
  <2>3. req[r].pc = "signup" /\ req \in [Reqs -> {NoReq} \cup Requests]
          /\ req[r] \in Requests
    BY <1>2 DEF SignUp, At, NoReq, TypeInv, RequestsTypeOK
  <2>4. CASE e \in accounts
    <3>1. req' = [req EXCEPT ![r] = NoReq]
      BY <1>2, <2>4 DEF SignUp, Answer
    <3> QED BY <2>2, <2>3, <2>4, <3>1 DEF OneKeyPerAccount, At, NoReq
  <2>5. CASE e \notin accounts
    <3>1. req' = [req EXCEPT ![r].pc = "key"]
      BY <1>2, <2>5 DEF SignUp, Goto
    <3>2. /\ req'[r].pc = "key" /\ req'[r].about = e
          /\ \A q \in Reqs \ {r} : req'[q] = req[q]
      BY <2>3, <3>1 DEF Requests
    <3> HIDE DEF e
    <3> QED BY <2>1, <2>2, <2>3, <2>5, <3>2 DEF OneKeyPerAccount, At
  <2> QED BY <2>4, <2>5
<1>3. ASSUME NEW r \in Reqs, At(r, "key"), CreateKey(r) \/ Fail(r)
      PROVE  OneKeyPerAccount'
  <2> DEFINE e == req[r].about
  <2>1. req' = [req EXCEPT ![r] = NoReq] /\ req \in [Reqs -> {NoReq} \cup Requests]
    BY <1>3 DEF CreateKey, Fail, Answer, TypeInv, RequestsTypeOK
  <2>2. req'[r].pc = "idle" /\ \A q \in Reqs \ {r} : req'[q] = req[q]
    BY <2>1 DEF NoReq
  <2>3. /\ accounts' = accounts
        /\ keyed \subseteq keyed' /\ cut \subseteq cut'
        /\ keyed' \cup cut' = keyed \cup cut \cup {e}
    BY <1>3 DEF CreateKey, Fail, state
  <2> HIDE DEF e
  <2>4. \A q \in Reqs \ {r} : At(q, "key") => req[q].about # e
    BY <1>3 DEF OneKeyPerAccount, e
  <2> QED BY <2>2, <2>3, <2>4, <1>3 DEF OneKeyPerAccount, At, e
<1>4. ASSUME NEW r \in Reqs, ~At(r, "key"), ~SignUp(r),
             Limited(r) \/ Handled(r) \/ Fail(r)
      PROVE  OneKeyPerAccount'
  <2> USE DEF Goto, Answer
  <2>1. UNCHANGED <<accounts, keyed, cut>>
    BY <1>4
      DEF Limited, Arrive, ReadCounter, WriteCounter, Handled, Fail, Read,
          FindOwner, InsertOwner, CountSubs, InsertSub, FindSub, DropSub,
          FindEmail, SignUp, CreateKey, state
  <2>2. ~At(r, "key")'
    <3>0. req \in [Reqs -> {NoReq} \cup Requests]
      BY DEF TypeInv, RequestsTypeOK
    <3>1. CASE WriteCounter(r)
      <4>1. req[r] \in Requests
        BY <3>0, <3>1 DEF WriteCounter, At, NoReq
      <4>2. req'[r].pc = req[r].kind
        BY <3>1, <4>1 DEF WriteCounter, Requests
      <4> QED BY <4>1, <4>2 DEF At, Requests, Kinds
    <3>2. CASE Arrive(r) \/ ReadCounter(r)
      BY <3>0, <3>2 DEF Arrive, ReadCounter, At, NoReq, Requests
    <3>3. CASE Handled(r) \/ Fail(r)
      BY <3>0, <3>3, <1>4
        DEF Handled, Fail, Read, FindOwner, InsertOwner, CountSubs, InsertSub,
            FindSub, DropSub, FindEmail, CreateKey, At, NoReq, Requests
    <3> QED BY <1>4, <3>1, <3>2, <3>3 DEF Limited
  <2>3. \A q \in Reqs \ {r} :
          req'[q] = req[q] \/ req'[q] = [req[q] EXCEPT !.passed = @ + 1]
    BY <1>4
      DEF Limited, Arrive, ReadCounter, WriteCounter, Handled, Fail, Read,
          FindOwner, InsertOwner, CountSubs, InsertSub, FindSub, DropSub,
          FindEmail, SignUp, CreateKey, TypeInv, RequestsTypeOK
  <2>4. ASSUME NEW q \in Reqs \ {r}
        PROVE  req'[q].pc = req[q].pc
               /\ (req[q].pc = "key" => req'[q].about = req[q].about)
    <3>1. CASE req[q] \in Requests
      BY <2>3, <3>1 DEF Requests
    <3>2. CASE req[q] = NoReq
      BY <2>3, <3>2 DEF NoReq
    <3> QED BY <3>1, <3>2 DEF TypeInv, RequestsTypeOK
  <2> QED BY <1>4, <2>1, <2>2, <2>4 DEF OneKeyPerAccount, At
<1>5. CASE NextWindow \/ UNCHANGED vars
  BY <1>1, <1>5 DEF NextWindow, vars, state, OneKeyPerAccount, At
<1>6. ASSUME NEW r \in Reqs, At(r, "key"), Limited(r) \/ Handled(r) \/ Fail(r)
      PROVE  CreateKey(r) \/ Fail(r)
  BY <1>6
    DEF Limited, Arrive, ReadCounter, WriteCounter, Handled, Read, FindOwner,
        InsertOwner, CountSubs, InsertSub, FindSub, DropSub, FindEmail,
        SignUp, At
<1> QED BY <1>1, <1>2, <1>3, <1>4, <1>5, <1>6 DEF RequestsNext

(* One registration per e-mail reaches the key step, whoever else tries.   *)
THEOREM KeysAreSingle == RequestsSpec => []OneKeyPerAccount
<1>1. RequestsInit => AccountInv
  BY TypeInvInit DEF AccountInv, RequestsInit, OneKeyPerAccount, At, NoReq
<1>2. AccountInv => OneKeyPerAccount
  BY DEF AccountInv
<1> QED BY <1>1, <1>2, AccountInvNext, PTL DEF RequestsSpec

-----------------------------------------------------------------------------
CapInv == TypeInv /\ IsFiniteSet(subs) /\ CapBound

(* The sets that CapBound counts are finite. *)
LEMMA Finite ==
    ASSUME IsFiniteSet(subs), NEW o
    PROVE  /\ IsFiniteSet(SubsOf(o)) /\ IsFiniteSet(Inserting(o))
           /\ Cardinality(SubsOf(o)) \in Nat /\ Cardinality(Inserting(o)) \in Nat
<1>1. SubsOf(o) \subseteq subs /\ Inserting(o) \subseteq Reqs
  BY DEF SubsOf, Inserting
<1> QED BY <1>1, RequestsAssumption, FS_Subset, FS_CardinalityType

(* Neither counted set grows: the sum does not. *)
LEMMA CapKept ==
    ASSUME IsFiniteSet(subs), IsFiniteSet(subs'), CapBound, subs' \subseteq subs,
           \A o \in Owners : Inserting(o)' \subseteq Inserting(o)
    PROVE  CapBound'
<1> SUFFICES ASSUME NEW o \in Owners
             PROVE  Cardinality(SubsOf(o)') + Cardinality(Inserting(o)')
                      <= Cap + Cardinality(Reqs) - 1
  BY DEF CapBound
<1>1. SubsOf(o)' \subseteq SubsOf(o)
  BY DEF SubsOf
<1>2. /\ IsFiniteSet(SubsOf(o)) /\ IsFiniteSet(Inserting(o))
      /\ Cardinality(SubsOf(o)) \in Nat /\ Cardinality(Inserting(o)) \in Nat
  BY Finite
<1>3. /\ Cardinality(SubsOf(o)') <= Cardinality(SubsOf(o))
      /\ Cardinality(Inserting(o)') <= Cardinality(Inserting(o))
      /\ Cardinality(SubsOf(o)') \in Nat /\ Cardinality(Inserting(o)') \in Nat
  BY <1>1, <1>2, FS_Subset, FS_CardinalityType
<1>4. Cardinality(SubsOf(o)) + Cardinality(Inserting(o))
        <= Cap + Cardinality(Reqs) - 1
  BY DEF CapBound
<1>5. Cap \in Nat /\ Cardinality(Reqs) \in Nat
  BY RequestsAssumption, FS_CardinalityType
<1> QED BY <1>2, <1>3, <1>4, <1>5

(* A create that has counted below the cap joins at most all the others in *)
(* flight; its insert moves it from one side of the sum to the other.      *)
LEMMA CapInvNext ==
    ASSUME CapInv, [RequestsNext]_vars
    PROVE  CapInv'
<1> USE DEF CapInv
<1>1. TypeInv'
  BY TypeInvNext
<1>2. req \in [Reqs -> {NoReq} \cup Requests]
  BY DEF TypeInv, RequestsTypeOK
<1>3. ASSUME NEW r \in Reqs, CountSubs(r), ~AtCap(Owner(r)) PROVE CapInv'
  <2>1. /\ req' = [req EXCEPT ![r].pc = "insert"] /\ subs' = subs
        /\ req[r] \in Requests
    BY <1>2, <1>3 DEF CountSubs, Goto, state, At, NoReq
  <2>2. /\ req'[r].caller = req[r].caller
        /\ \A q \in Reqs \ {r} : req'[q] = req[q]
    BY <1>2, <2>1 DEF Requests
  <2>3. ASSUME NEW o \in Owners
        PROVE  Cardinality(SubsOf(o)') + Cardinality(Inserting(o)')
                 <= Cap + Cardinality(Reqs) - 1
    <3>1. SubsOf(o)' = SubsOf(o)
      BY <2>1 DEF SubsOf
    <3>2. Cardinality(SubsOf(o)) \in Nat /\ Cardinality(Inserting(o)) \in Nat
      BY Finite
    <3>3. CASE o = Owner(r)
      <4>1. Inserting(o)' \subseteq Reqs
        BY DEF Inserting
      <4>2. /\ Cardinality(Inserting(o)') <= Cardinality(Reqs)
            /\ Cardinality(Inserting(o)') \in Nat /\ Cardinality(Reqs) \in Nat
        BY <4>1, RequestsAssumption, FS_Subset, FS_CardinalityType
      <4>3. Cardinality(SubsOf(o)) < Cap
        BY <1>3, <3>2, <3>3, RequestsAssumption DEF AtCap
      <4> QED BY <3>1, <3>2, <4>2, <4>3, RequestsAssumption
    <3>4. CASE o # Owner(r)
      <4>1. Inserting(o)' = Inserting(o)
        BY <2>2, <3>4 DEF Inserting, At, Owner
      <4> QED BY <3>1, <4>1 DEF CapBound
    <3> QED BY <3>3, <3>4
  <2> QED BY <1>1, <2>1, <2>3 DEF CapBound
<1>4. ASSUME NEW r \in Reqs, InsertSub(r) PROVE CapInv'
  <2> DEFINE s == [owner |-> Owner(r), id |-> issued + 1]
  <2>1. /\ req' = [req EXCEPT ![r] = NoReq] /\ subs' = subs \cup {s}
        /\ At(r, "insert")
    BY <1>4 DEF InsertSub, Answer
  <2>2. req'[r].pc = "idle" /\ \A q \in Reqs \ {r} : req'[q] = req[q]
    BY <1>2, <2>1 DEF NoReq
  <2>3. IsFiniteSet(subs')
    BY <2>1, FS_AddElement
  <2>4. ASSUME NEW o \in Owners
        PROVE  Cardinality(SubsOf(o)') + Cardinality(Inserting(o)')
                 <= Cap + Cardinality(Reqs) - 1
    <3>1. /\ IsFiniteSet(SubsOf(o)) /\ IsFiniteSet(Inserting(o))
          /\ Cardinality(SubsOf(o)) \in Nat /\ Cardinality(Inserting(o)) \in Nat
      BY Finite
    <3>2. Cardinality(SubsOf(o)) + Cardinality(Inserting(o))
            <= Cap + Cardinality(Reqs) - 1
      BY DEF CapBound
    <3>3. CASE o = Owner(r)
      <4>1. s \notin subs
        BY DEF TypeInv, RequestsTypeOK
      <4>2. SubsOf(o)' = SubsOf(o) \cup {s} /\ s \notin SubsOf(o)
        BY <2>1, <3>3, <4>1 DEF SubsOf
      <4>3. Cardinality(SubsOf(o)') = Cardinality(SubsOf(o)) + 1
        BY <3>1, <4>2, FS_AddElement
      <4>4. r \in Inserting(o) /\ Inserting(o)' = Inserting(o) \ {r}
        BY <2>1, <2>2, <3>3 DEF Inserting, At, Owner
      <4>5. Cardinality(Inserting(o)') = Cardinality(Inserting(o)) - 1
        BY <3>1, <4>4, FS_RemoveElement
      <4>6. Cap \in Nat /\ Cardinality(Reqs) \in Nat
        BY RequestsAssumption, FS_CardinalityType
      <4> QED BY <3>1, <3>2, <4>3, <4>5, <4>6
    <3>4. CASE o # Owner(r)
      <4>1. SubsOf(o)' = SubsOf(o)
        BY <2>1, <3>4 DEF SubsOf
      <4>2. Inserting(o)' = Inserting(o)
        BY <2>1, <2>2, <3>4 DEF Inserting, At, Owner
      <4> QED BY <3>2, <4>1, <4>2
    <3> QED BY <3>3, <3>4
  <2> QED BY <1>1, <2>3, <2>4 DEF CapBound
<1>5. ASSUME NEW r \in Reqs, WriteCounter(r) PROVE CapInv'
  <2>1. subs' = subs
    BY <1>5 DEF WriteCounter
  <2>2. \A q \in Reqs : At(q, "insert")' => q # r /\ req'[q] = req[q]
    <3> SUFFICES ASSUME NEW q \in Reqs, req'[q].pc = "insert"
                 PROVE  q # r /\ req'[q] = req[q]
      BY DEF At
    <3>1. CASE q = r
      <4>1. req[r] \in Requests
        BY <1>2, <1>5 DEF WriteCounter, At, NoReq
      <4> QED BY <1>5, <3>1, <4>1 DEF WriteCounter, Requests, Kinds
    <3>2. CASE q # r /\ At(q, "put")
      <4>1. req[q] \in Requests
        BY <1>2, <3>2 DEF At, NoReq
      <4>2. req'[q] = req[q] \/ req'[q] = [req[q] EXCEPT !.passed = @ + 1]
        BY <1>5, <3>2 DEF WriteCounter
      <4> QED BY <3>2, <4>1, <4>2 DEF Requests, At
    <3>3. CASE q # r /\ ~At(q, "put")
      BY <1>5, <3>3 DEF WriteCounter
    <3> QED BY <3>1, <3>2, <3>3
  <2>3. \A o \in Owners : Inserting(o)' \subseteq Inserting(o)
    BY <2>2 DEF Inserting, At, Owner
  <2> QED BY <1>1, <2>1, <2>3, CapKept
<1>6. ASSUME NEW r \in Reqs, ~InsertSub(r), ~(CountSubs(r) /\ ~AtCap(Owner(r))),
             Arrive(r) \/ ReadCounter(r) \/ Handled(r) \/ Fail(r)
      PROVE  CapInv'
  <2> USE DEF Goto, Answer
  <2>1. subs' \subseteq subs
    BY <1>6
      DEF Arrive, ReadCounter, Handled, Fail, Read, FindOwner, InsertOwner,
          CountSubs, FindSub, DropSub, FindEmail, SignUp, CreateKey, state
  <2>2. \A q \in Reqs \ {r} : req'[q] = req[q]
    BY <1>2, <1>6
      DEF Arrive, ReadCounter, Handled, Fail, Read, FindOwner, InsertOwner,
          CountSubs, FindSub, DropSub, FindEmail, SignUp, CreateKey
  <2>3. req'[r].pc # "insert"
    <3>1. CASE Arrive(r) \/ ReadCounter(r)
      BY <1>2, <3>1 DEF Arrive, ReadCounter, At, NoReq, Requests
    <3>2. CASE Handled(r) \/ Fail(r)
      BY <1>2, <3>2, <1>6
        DEF Handled, Fail, Read, FindOwner, InsertOwner, CountSubs, FindSub,
            DropSub, FindEmail, SignUp, CreateKey, At, NoReq, Requests
    <3> QED BY <1>6, <3>1, <3>2
  <2>4. \A o \in Owners : Inserting(o)' \subseteq Inserting(o)
    BY <2>2, <2>3 DEF Inserting, At, Owner
  <2>5. IsFiniteSet(subs')
    BY <2>1, FS_Subset
  <2> QED BY <1>1, <2>1, <2>4, <2>5, CapKept
<1>7. CASE NextWindow \/ UNCHANGED vars
  BY <1>1, <1>7
    DEF NextWindow, vars, state, CapBound, SubsOf, Inserting, At, Owner
<1> QED BY <1>3, <1>4, <1>5, <1>6, <1>7 DEF RequestsNext, Limited

(* However many creates race, the rows of an owner stay within one less    *)
(* than the requests in flight of the cap.                                 *)
THEOREM CapHolds == RequestsSpec => []CapBound
<1>1. RequestsInit => CapInv
  <2> SUFFICES ASSUME RequestsInit PROVE CapInv
    OBVIOUS
  <2>1. subs = {} /\ IsFiniteSet(subs)
    BY FS_EmptySet DEF RequestsInit
  <2>2. ASSUME NEW o \in Owners
        PROVE  Cardinality(SubsOf(o)) + Cardinality(Inserting(o))
                 <= Cap + Cardinality(Reqs) - 1
    <3>1. SubsOf(o) = {} /\ Inserting(o) = {}
      BY <2>1 DEF SubsOf, Inserting, RequestsInit, At, NoReq
    <3>2. Cardinality(SubsOf(o)) = 0 /\ Cardinality(Inserting(o)) = 0
      BY <3>1, FS_EmptySet
    <3>3. Cardinality(Reqs) \in Nat /\ Cap \in Nat \ {0}
      BY RequestsAssumption, FS_CardinalityType
    <3> QED BY <3>2, <3>3
  <2> QED BY <2>1, <2>2, TypeInvInit DEF CapInv, CapBound
<1>2. CapInv => CapBound
  BY DEF CapInv
<1> QED BY <1>1, <1>2, CapInvNext, PTL DEF RequestsSpec

=============================================================================
