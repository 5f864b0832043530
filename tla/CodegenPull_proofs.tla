-------------------------- MODULE CodegenPull_proofs --------------------------
(* Theorems about CodegenPull.                                             *)
EXTENDS CodegenPull, FiniteSetTheorems, TLAPS

(* Hashes for some of the targets of S. *)
Entries(f, S) == f \in [DOMAIN f -> Hashes] /\ DOMAIN f \subseteq S

IsManifest(m) ==
    /\ m.sel \subseteq Keys /\ Entries(m.entries, m.sel)
    /\ m.fetchedAt \in 1 .. clock

Published == [key : Keys, hash : Hashes, at : Nat, type : {"added", "updated"}]

Copy == [key : Keys, hash : Hashes, done : Nat]

Got == [key : Keys, hash : Hashes]

(* What the locals of a pull are made of.                                   *)
Shape(p) ==
    p = [pc |-> p.pc, mode |-> p.mode, sel |-> p.sel, prior |-> p.prior,
         todo |-> p.todo, entries |-> p.entries, wrote |-> p.wrote,
         confirmed |-> p.confirmed, got |-> p.got]

(* A pull works on the lockfile it read, and has an entry for no target it  *)
(* has still to take.                                                       *)
PullInv ==
    /\ Shape(pull)
    /\ pull.pc \in {"idle", "target", "write", "check"}
    /\ pull.sel \subseteq Keys /\ pull.todo \subseteq pull.sel
    /\ Entries(pull.entries, pull.sel \ pull.todo)
    /\ pull.wrote \subseteq DOMAIN pull.entries
    /\ pull.confirmed \subseteq DOMAIN pull.entries
    /\ pull.got = {} \/ \E g \in Got : pull.got = {g} /\ g.key \in pull.todo
    /\ pull.pc = "write" <=> pull.got # {}
    /\ pull.pc \in {"target", "write"} => pull.prior = lock
    /\ pull.pc \in {"idle", "check"} => pull.entries = Empty

TypeInv ==
    /\ clock \in 1 .. MaxTime
    /\ served \in [Keys -> Hashes \cup {Absent}]
    /\ feed \in Seq(Published)
    /\ copies \subseteq Copy
    /\ file \in [Keys -> Hashes \cup {Absent}]
    /\ lock = {} \/ \E m : lock = {m} /\ IsManifest(m)
    /\ PullInv

(* The entries of the one lockfile. *)
LEMMA PinIs ==
    ASSUME NEW m, NEW k
    PROVE  /\ Pinned({m}, k) <=> k \in DOMAIN m.entries
           /\ Pin({m}, k) = m.entries[k]
           /\ ~ Pinned({}, k)
<1>1. (CHOOSE x \in {m} : TRUE) = m
  OBVIOUS
<1> QED BY <1>1 DEF Pinned, Pin

(* A pinned target is pinned to a hash. *)
LEMMA PinIsHash ==
    ASSUME TypeInv, NEW k, Pinned(lock, k)
    PROVE  k \in Keys /\ Pin(lock, k) \in Hashes
<1>1. PICK m : lock = {m} /\ IsManifest(m)
  BY PinIs DEF TypeInv
<1>2. k \in DOMAIN m.entries /\ Pin(lock, k) = m.entries[k]
  BY <1>1, PinIs
<1> QED BY <1>1, <1>2 DEF IsManifest, Entries

(* The empty locals. *)
LEMMA NoPullIs ==
    /\ Shape(NoPull) /\ NoPull.pc = "idle" /\ NoPull.sel = {} /\ NoPull.todo = {}
    /\ NoPull.entries = Empty /\ NoPull.wrote = {} /\ NoPull.confirmed = {} /\ NoPull.got = {}
    /\ NoPull.mode = "none" /\ NoPull.prior = {}
    /\ DOMAIN Empty = {} /\ \A S : Entries(Empty, S)
  BY DEF NoPull, Shape, Empty, Entries

(* What a read of a schema is answered with is a hash. *)
LEMMA AnswersAreHashes ==
    ASSUME TypeInv, NEW k \in Keys
    PROVE  Answers(k) \subseteq Hashes
<1>1. \A c \in copies : c.hash \in Hashes
  BY DEF TypeInv, Copy
<1>2. {served[k]} \ {Absent} \subseteq Hashes
  BY DEF TypeInv
<1> QED BY <1>1, <1>2 DEF Answers

(* What the feed keeps of the version that goes. *)
LEMMA ReplacedAre ==
    ASSUME TypeInv, NEW k \in Keys
    PROVE  Replaced(k) \subseteq Copy
<1>1. served[k] # Absent => [key |-> k, hash |-> served[k], done |-> clock] \in Copy
  BY CodegenAssumption DEF Copy, TypeInv, CodegenAssumption
<1> QED BY <1>1 DEF Replaced, TypeInv

(* A target that is kept, or not modified, gets the entry it had. *)
LEMMA Settles ==
    ASSUME TypeInv, NEW k \in Keys, KeepTarget(k) \/ NotModified(k)
    PROVE  /\ pull.pc = "target" /\ k \in pull.todo /\ Pinned(lock, k) /\ file[k] # Absent
           /\ pull.prior = lock /\ Shape(pull')
           /\ pull'.todo = pull.todo \ {k}
           /\ pull'.entries = With(pull.entries, k, Pin(lock, k))
           /\ pull'.pc = pull.pc /\ pull'.sel = pull.sel /\ pull'.prior = pull.prior
           /\ pull'.wrote = pull.wrote /\ pull'.got = pull.got /\ pull'.mode = pull.mode
           /\ \/ pull'.confirmed = pull.confirmed \cup {k}
              \/ pull'.confirmed = pull.confirmed /\ pull.mode = "boot"
           /\ UNCHANGED <<service, checkout, histories>>
<1>1. AtTarget(k) /\ Held(k) /\ UNCHANGED <<service, checkout, histories>>
  BY DEF KeepTarget, NotModified, Kept
<1>2. pull.pc = "target" /\ k \in pull.todo /\ pull.prior = lock
  BY <1>1 DEF AtTarget, TypeInv, PullInv
<1>3. \/ pull' = [pull EXCEPT !.todo = @ \ {k}, !.confirmed = @ \cup {k},
                              !.entries = With(@, k, Pin(lock, k))]
      \/ /\ pull' = [pull EXCEPT !.todo = @ \ {k}, !.entries = With(@, k, Pin(lock, k))]
         /\ pull.mode = "boot"
  BY <1>1, <1>2 DEF KeepTarget, NotModified, Kept
<1>4. Shape(pull)
  BY DEF TypeInv, PullInv
<1> QED BY <1>1, <1>2, <1>3, <1>4 DEF Held, Shape

(* A target that fails gets none. *)
LEMMA Fails ==
    ASSUME TypeInv, NEW k \in Keys, FailTarget(k)
    PROVE  /\ pull.pc = "target" /\ Shape(pull')
           /\ pull'.todo = pull.todo \ {k}
           /\ pull'.entries = pull.entries
           /\ pull'.pc = pull.pc /\ pull'.sel = pull.sel /\ pull'.prior = pull.prior
           /\ pull'.wrote = pull.wrote /\ pull'.confirmed = pull.confirmed
           /\ pull'.got = pull.got /\ pull'.mode = pull.mode
           /\ UNCHANGED <<service, checkout, histories>>
  BY DEF FailTarget, AtTarget, TypeInv, PullInv, Shape

(* A target is fetched: one that was not held, or has moved. *)
LEMMA Fetches ==
    ASSUME TypeInv, NEW k \in Keys, FetchTarget(k)
    PROVE  /\ pull.pc = "target" /\ k \in pull.todo /\ pull.prior = lock /\ Shape(pull')
           /\ \E h \in Hashes : pull'.got = {[key |-> k, hash |-> h]}
           /\ pull.mode = "boot" => ~ (Pinned(lock, k) /\ file[k] # Absent)
           /\ pull'.pc = "write" /\ pull'.todo = pull.todo /\ pull'.entries = pull.entries
           /\ pull'.sel = pull.sel /\ pull'.prior = pull.prior
           /\ pull'.wrote = pull.wrote /\ pull'.confirmed = pull.confirmed
           /\ pull'.mode = pull.mode
           /\ UNCHANGED <<service, checkout, histories>>
<1>1. PICK h \in Answers(k) :
            pull' = [pull EXCEPT !.pc = "write", !.got = {[key |-> k, hash |-> h]}]
  BY DEF FetchTarget
<1>2. /\ pull.pc = "target" /\ k \in pull.todo /\ ~ Kept(k)
      /\ UNCHANGED <<service, checkout, histories>>
  BY DEF FetchTarget, AtTarget
<1>3. Shape(pull) /\ pull.prior = lock
  BY <1>2 DEF TypeInv, PullInv
<1>4. h \in Hashes
  BY AnswersAreHashes
<1>5. pull.mode = "boot" => ~ (Pinned(lock, k) /\ file[k] # Absent)
  BY <1>2, <1>3 DEF Kept, Held
<1>6. /\ Shape(pull') /\ pull'.got = {[key |-> k, hash |-> h]}
      /\ pull'.pc = "write" /\ pull'.todo = pull.todo /\ pull'.entries = pull.entries
      /\ pull'.sel = pull.sel /\ pull'.prior = pull.prior
      /\ pull'.wrote = pull.wrote /\ pull'.confirmed = pull.confirmed
      /\ pull'.mode = pull.mode
  BY <1>1, <1>3 DEF Shape
<1> QED BY <1>2, <1>3, <1>4, <1>5, <1>6

(* A file is replaced and has its entry. *)
LEMMA Writes ==
    ASSUME TypeInv, WriteTarget
    PROVE  \E g \in Got :
           /\ pull.pc = "write" /\ pull.got = {g} /\ g.key \in pull.todo
           /\ pull.prior = lock /\ Shape(pull')
           /\ file' = [file EXCEPT ![g.key] = g.hash]
           /\ pull'.todo = pull.todo \ {g.key}
           /\ pull'.entries = With(pull.entries, g.key, g.hash)
           /\ pull'.pc = "target" /\ pull'.sel = pull.sel /\ pull'.prior = pull.prior
           /\ pull'.wrote = pull.wrote \cup {g.key} /\ pull'.confirmed = pull.confirmed
           /\ pull'.got = {} /\ pull'.mode = pull.mode /\ torn' = torn \ {g.key}
           /\ UNCHANGED <<service, lock, report, crashes, unpinned, blind>>
<1>1. PICK g \in Got : pull.got = {g} /\ g.key \in pull.todo
  BY DEF WriteTarget, TypeInv, PullInv
<1>2. /\ pull.pc = "write" /\ UNCHANGED <<service, lock, report, crashes, unpinned, blind>>
      /\ file' = [file EXCEPT ![g.key] = g.hash] /\ torn' = torn \ {g.key}
      /\ pull' = [pull EXCEPT !.pc = "target", !.todo = @ \ {g.key},
                !.got = {}, !.wrote = @ \cup {g.key}, !.entries = With(@, g.key, g.hash)]
  BY <1>1 DEF WriteTarget
<1>3. Shape(pull) /\ pull.prior = lock
  BY <1>2 DEF TypeInv, PullInv
<1>4. /\ Shape(pull') /\ pull'.todo = pull.todo \ {g.key}
      /\ pull'.entries = With(pull.entries, g.key, g.hash)
      /\ pull'.pc = "target" /\ pull'.sel = pull.sel /\ pull'.prior = pull.prior
      /\ pull'.wrote = pull.wrote \cup {g.key} /\ pull'.confirmed = pull.confirmed
      /\ pull'.got = {} /\ pull'.mode = pull.mode
  BY <1>2, <1>3 DEF Shape
<1> QED BY <1>1, <1>2, <1>3, <1>4

(* The lockfile is written, or would be the one there is. *)
LEMMA Locks ==
    ASSUME TypeInv, WriteManifest
    PROVE  /\ pull.pc = "target" /\ pull.prior = lock
           /\ pull' = NoPull \/ pull' = [NoPull EXCEPT !.pc = "check"]
           /\ lock' = {Manifest}
           /\ \/ lock = {Manifest} /\ pull.wrote = {} /\ UNCHANGED <<unpinned, blind>>
              \/ /\ unpinned' = (unpinned \cup {k \in Keys : file[k] # Absent})
                                    \ DOMAIN Manifest.entries
                 /\ blind' = IF Manifest.fetchedAt = FetchedAt /\ pull.wrote = {} THEN blind
                             ELSE {k \in DOMAIN Manifest.entries :
                                        Manifest.entries[k] # served[k]}
           /\ UNCHANGED <<service, file, report, crashes, torn>>
  BY DEF WriteManifest, TypeInv, PullInv, service

(* The new lockfile is one. *)
LEMMA ManifestIs ==
    ASSUME TypeInv, pull.pc = "target"
    PROVE  /\ IsManifest(Manifest) /\ Manifest.entries = pull.entries
           /\ Manifest.sel = pull.sel
<1>1. /\ Manifest.entries = pull.entries /\ Manifest.sel = pull.sel
      /\ Manifest.fetchedAt = IF pull.wrote # {} \/ pull.prior = {} THEN clock
                              ELSE (CHOOSE m \in pull.prior : TRUE).fetchedAt
  BY DEF Manifest
<1>2. Entries(pull.entries, pull.sel) /\ pull.sel \subseteq Keys
  BY DEF TypeInv, PullInv, Entries
<1>3. Manifest.fetchedAt \in 1 .. clock
  <2>1. CASE pull.wrote # {} \/ pull.prior = {}
    BY <1>1, <2>1 DEF TypeInv
  <2>2. ASSUME NEW m, lock = {m}, IsManifest(m), pull.wrote = {}
        PROVE  Manifest.fetchedAt = m.fetchedAt
    <3>1. pull.prior = {m}
      BY <2>2 DEF TypeInv, PullInv
    <3>2. (CHOOSE x \in {m} : TRUE) = m
      OBVIOUS
    <3> QED BY <1>1, <2>2, <3>1, <3>2
  <2>3. pull.prior = lock
    BY DEF TypeInv, PullInv
  <2> QED BY <2>1, <2>2, <2>3 DEF TypeInv, IsManifest
<1> QED BY <1>1, <1>2, <1>3 DEF IsManifest

(* A target taken has its entry beside the others. *)
LEMMA EntryAdded ==
    ASSUME TypeInv, NEW k \in pull.todo, NEW v \in Hashes
    PROVE  LET e == With(pull.entries, k, v) IN
           /\ Entries(e, pull.sel \ (pull.todo \ {k}))
           /\ k \notin DOMAIN pull.entries /\ DOMAIN e = DOMAIN pull.entries \cup {k}
           /\ e[k] = v /\ \A q \in DOMAIN pull.entries : e[q] = pull.entries[q]
<1> DEFINE e == With(pull.entries, k, v)
<1>1. Entries(pull.entries, pull.sel \ pull.todo) /\ k \in pull.sel
  BY DEF TypeInv, PullInv
<1>2. /\ Entries(e, (pull.sel \ pull.todo) \cup {k})
      /\ DOMAIN e = DOMAIN pull.entries \cup {k} /\ e[k] = v
      /\ \A q \in DOMAIN pull.entries \ {k} : e[q] = pull.entries[q]
  BY <1>1 DEF With, Entries
<1> HIDE DEF e
<1>3. k \notin DOMAIN pull.entries
  BY <1>1 DEF Entries
<1>4. Entries(e, pull.sel \ (pull.todo \ {k}))
  BY <1>1, <1>2 DEF Entries
<1> QED BY <1>2, <1>3, <1>4 DEF e

(* At first there are no files, no lockfile and no pull. *)
LEMMA TypeInvInit == CodegenInit => TypeInv
<1> SUFFICES ASSUME CodegenInit PROVE TypeInv
  OBVIOUS
<1>1. PullInv
  BY NoPullIs DEF CodegenInit, PullInv
<1>2. clock \in 1 .. MaxTime
  BY CodegenAssumption DEF CodegenInit, CodegenAssumption
<1> QED BY <1>1, <1>2 DEF CodegenInit, TypeInv

(* The service and the checkout's owner leave a pull alone. *)
Outside ==
    \/ Tick
    \/ \E k \in Keys : DeleteFile(k) \/ Withdraw(k)
    \/ \E k \in Keys, h \in Hashes, at \in 1..clock : Publish(k, h, at)

LEMMA OutsideKeeps ==
    ASSUME TypeInv, Outside
    PROVE  TypeInv' /\ UNCHANGED <<lock, pull, crashes, unpinned>>
<1> DEFINE Goal == TypeInv' /\ UNCHANGED <<lock, pull, crashes, unpinned>>
<1>1. CASE Tick
  <2>1. /\ clock' = clock + 1 /\ clock' \in 1 .. MaxTime
        /\ UNCHANGED <<served, feed, copies, file, lock, pull, crashes, unpinned>>
    BY <1>1, CodegenAssumption DEF Tick, TypeInv, CodegenAssumption, checkout, histories
  <2>2. 1 .. clock \subseteq 1 .. clock'
    BY <2>1 DEF TypeInv
  <2>3. \A m : IsManifest(m) => IsManifest(m)'
    BY <2>2 DEF IsManifest
  <2>4. PullInv'
    BY <2>1 DEF PullInv, TypeInv
  <2> QED BY <2>1, <2>3, <2>4 DEF TypeInv
<1>2. ASSUME NEW k \in Keys, DeleteFile(k) PROVE Goal
  <2>1. /\ file' = [file EXCEPT ![k] = Absent]
        /\ UNCHANGED <<clock, served, feed, copies, lock, pull, crashes, unpinned>>
    BY <1>2 DEF DeleteFile, service
  <2>2. file' \in [Keys -> Hashes \cup {Absent}]
    BY <2>1 DEF TypeInv
  <2> QED BY <2>1, <2>2 DEF TypeInv, PullInv, IsManifest
<1>3. ASSUME NEW k \in Keys, NEW h \in Hashes, NEW at \in 1 .. clock, Publish(k, h, at) PROVE Goal
  <2> DEFINE kind == IF served[k] = Absent THEN "added" ELSE "updated"
  <2>1. /\ served' = [served EXCEPT ![k] = h]
        /\ feed' = Append(feed, [key |-> k, hash |-> h, at |-> at, type |-> kind])
        /\ copies' = Replaced(k)
        /\ UNCHANGED <<clock, file, lock, pull, crashes, unpinned>>
    BY <1>3 DEF Publish, checkout
  <2>2. [key |-> k, hash |-> h, at |-> at, type |-> kind] \in Published
    BY CodegenAssumption DEF Published, TypeInv, CodegenAssumption
  <2>3. feed' \in Seq(Published) /\ served' \in [Keys -> Hashes \cup {Absent}]
    BY <2>1, <2>2 DEF TypeInv
  <2> QED BY <2>1, <2>3, ReplacedAre DEF TypeInv, PullInv, IsManifest
<1>4. ASSUME NEW k \in Keys, Withdraw(k) PROVE Goal
  <2>1. /\ served' = [served EXCEPT ![k] = Absent] /\ copies' = Replaced(k)
        /\ UNCHANGED <<clock, feed, file, lock, pull, crashes, unpinned>>
    BY <1>4 DEF Withdraw, checkout, histories
  <2>2. served' \in [Keys -> Hashes \cup {Absent}]
    BY <2>1 DEF TypeInv
  <2> QED BY <2>1, <2>2, ReplacedAre DEF TypeInv, PullInv, IsManifest
<1> QED BY <1>1, <1>2, <1>3, <1>4 DEF Outside

(* Every step keeps the types. *)
LEMMA TypeInvNext ==
    ASSUME TypeInv, [CodegenNext]_vars
    PROVE  TypeInv'
<1>1. CASE Outside
  BY <1>1, OutsideKeeps
<1>2. ASSUME UNCHANGED <<service, lock>>, file' \in [Keys -> Hashes \cup {Absent}], PullInv'
      PROVE  TypeInv'
  BY <1>2 DEF TypeInv, service, IsManifest
<1>3. CASE \E mode \in {"boot", "pull"}, S \in SUBSET Keys : StartPull(mode, S)
  <2>1. PICK mode \in {"boot", "pull"}, S \in SUBSET Keys : StartPull(mode, S)
    BY <1>3
  <2>2. /\ pull' = [NoPull EXCEPT !.pc = "target", !.mode = mode,
                        !.sel = S, !.prior = lock, !.todo = S]
        /\ UNCHANGED <<service, file, lock>>
    BY <2>1 DEF StartPull
  <2>3. /\ Shape(pull') /\ pull'.pc = "target" /\ pull'.sel = S /\ pull'.prior = lock
        /\ pull'.todo = S /\ pull'.entries = Empty /\ pull'.wrote = {}
        /\ pull'.confirmed = {} /\ pull'.got = {}
    BY <2>2 DEF NoPull, Shape
  <2>4. PullInv'
    BY <2>2, <2>3, NoPullIs DEF PullInv
  <2> QED BY <1>2, <2>2, <2>4 DEF TypeInv
<1>4. ASSUME NEW k \in Keys, KeepTarget(k) \/ NotModified(k) PROVE TypeInv'
  <2>1. Pin(lock, k) \in Hashes
    BY <1>4, Settles, PinIsHash
  <2>2. pull.got = {} /\ k \in pull.todo
    BY <1>4, Settles DEF TypeInv, PullInv
  <2>3. Entries(pull'.entries, pull'.sel \ pull'.todo)
    <3>1. Entries(With(pull.entries, k, Pin(lock, k)), pull.sel \ (pull.todo \ {k}))
      BY <2>1, <2>2, EntryAdded
    <3> QED BY <1>4, <3>1, Settles
  <2>5. pull'.wrote \subseteq DOMAIN pull'.entries /\ pull'.confirmed \subseteq DOMAIN pull'.entries
    <3>1. DOMAIN With(pull.entries, k, Pin(lock, k)) = DOMAIN pull.entries \cup {k}
      BY DEF With
    <3> QED BY <1>4, <3>1, Settles DEF TypeInv, PullInv
  <2>4. PullInv'
    BY <1>4, <2>2, <2>3, <2>5, Settles DEF TypeInv, PullInv, checkout
  <2> QED BY <1>2, <1>4, <2>4, Settles DEF TypeInv, checkout
<1>5. ASSUME NEW k \in Keys, FailTarget(k) PROVE TypeInv'
  <2>1. PullInv'
    BY <1>5, Fails DEF TypeInv, PullInv, Entries, checkout
  <2> QED BY <1>2, <1>5, <2>1, Fails DEF TypeInv, checkout
<1>6. ASSUME NEW k \in Keys, FetchTarget(k) PROVE TypeInv'
  <2>1. PICK h \in Hashes : pull'.got = {[key |-> k, hash |-> h]}
    BY <1>6, Fetches
  <2>2. [key |-> k, hash |-> h] \in Got
    BY DEF Got
  <2>3. PullInv'
    BY <1>6, <2>1, <2>2, Fetches DEF TypeInv, PullInv, checkout
  <2> QED BY <1>2, <1>6, <2>3, Fetches DEF TypeInv, checkout
<1>7. CASE WriteTarget
  <2>1. PICK g \in Got :
           /\ pull.pc = "write" /\ pull.got = {g} /\ g.key \in pull.todo
           /\ pull.prior = lock /\ Shape(pull')
           /\ file' = [file EXCEPT ![g.key] = g.hash]
           /\ pull'.todo = pull.todo \ {g.key}
           /\ pull'.entries = With(pull.entries, g.key, g.hash)
           /\ pull'.pc = "target" /\ pull'.sel = pull.sel /\ pull'.prior = pull.prior
           /\ pull'.wrote = pull.wrote \cup {g.key} /\ pull'.confirmed = pull.confirmed
           /\ pull'.got = {} /\ pull'.mode = pull.mode /\ torn' = torn \ {g.key}
           /\ UNCHANGED <<service, lock, report, crashes, unpinned, blind>>
    BY <1>7, Writes
  <2>2. g.key \in Keys /\ g.hash \in Hashes
    BY DEF Got
  <2>4. Entries(pull'.entries, pull'.sel \ pull'.todo)
    <3>1. Entries(With(pull.entries, g.key, g.hash), pull.sel \ (pull.todo \ {g.key}))
      BY <2>1, <2>2, EntryAdded
    <3> QED BY <2>1, <3>1
  <2>3. pull'.wrote \subseteq DOMAIN pull'.entries /\ pull'.confirmed \subseteq DOMAIN pull'.entries
    <3>1. DOMAIN With(pull.entries, g.key, g.hash) = DOMAIN pull.entries \cup {g.key}
      BY DEF With
    <3> QED BY <2>1, <3>1 DEF TypeInv, PullInv
  <2>5. PullInv'
    BY <2>1, <2>3, <2>4 DEF TypeInv, PullInv
  <2>6. file' \in [Keys -> Hashes \cup {Absent}]
    BY <2>1, <2>2 DEF TypeInv
  <2> QED BY <1>2, <2>1, <2>5, <2>6
<1>8. CASE WriteManifest
  <2>1. PullInv'
    BY <1>8, Locks, NoPullIs DEF PullInv, Shape, NoPull
  <2>2. IsManifest(Manifest) /\ clock' = clock
    BY <1>8, Locks, ManifestIs DEF service
  <2>3. \A m : IsManifest(m) => IsManifest(m)'
    BY <2>2 DEF IsManifest
  <2>4. \E m : lock' = {m} /\ IsManifest(m)'
    BY <1>8, <2>2, <2>3, Locks
  <2> QED BY <1>8, <2>1, <2>4, Locks DEF TypeInv, service
<1>9. CASE CheckAnswer \/ KillPull
  <2>1. pull' = NoPull /\ UNCHANGED <<service, file, lock>>
    BY <1>9 DEF CheckAnswer, KillPull, checkout
  <2>2. PullInv'
    BY <2>1, NoPullIs DEF PullInv
  <2> QED BY <1>2, <2>1, <2>2 DEF TypeInv
<1>10. CASE UNCHANGED vars
  BY <1>10 DEF vars, service, checkout, TypeInv, PullInv, IsManifest
<1> QED
  BY <1>1, <1>3, <1>4, <1>5, <1>6, <1>7, <1>8, <1>9, <1>10 DEF CodegenNext, Outside

(* Files, lockfile and pull keep their types; a pull has entries only for   *)
(* targets it was asked for.                                                *)
THEOREM CodegenTyped == CodegenSpec => []CodegenTypeOK
<1>1. ASSUME TypeInv PROVE CodegenTypeOK
  <2>1. \A f, S : S \subseteq Keys /\ Entries(f, S) => f \in Maps(S)
    BY DEF Entries, Maps
  <2>2. pull.entries \in Maps(pull.sel)
    BY <1>1, <2>1 DEF TypeInv, PullInv, Entries
  <2>3. \A m \in lock : /\ m.sel \subseteq Keys /\ m.entries \in Maps(m.sel)
                        /\ m.fetchedAt \in 1 .. clock
    BY <1>1, <2>1 DEF TypeInv, IsManifest
  <2> QED BY <1>1, <2>2, <2>3 DEF TypeInv, PullInv, CodegenTypeOK
<1> QED BY <1>1, TypeInvInit, TypeInvNext, PTL DEF CodegenSpec

-----------------------------------------------------------------------------
(* Files and lockfile.                                                     *)

(* What a step of a pull makes of the files and the entries: nothing; or a  *)
(* target is settled with the entry and the file it had, or written.        *)
NothingTaken ==
    /\ UNCHANGED <<file, torn>> /\ pull'.entries = pull.entries
    /\ pull'.wrote = pull.wrote /\ pull'.confirmed = pull.confirmed

TargetSettled(k) ==
    /\ Pinned(lock, k) /\ file[k] # Absent /\ k \in pull.todo
    /\ pull'.entries = With(pull.entries, k, Pin(lock, k))
    /\ UNCHANGED <<file, torn>> /\ pull'.wrote = pull.wrote
    /\ \/ pull'.confirmed = pull.confirmed \cup {k}
       \/ pull'.confirmed = pull.confirmed /\ pull.mode = "boot"

TargetWritten(k, h) ==
    /\ k \in pull.todo /\ pull.got = {[key |-> k, hash |-> h]}
    /\ pull'.entries = With(pull.entries, k, h)
    /\ file' = [file EXCEPT ![k] = h] /\ torn' = torn \ {k}
    /\ pull'.wrote = pull.wrote \cup {k} /\ pull'.confirmed = pull.confirmed

(* Only a pull that takes targets has entries, and no file goes meanwhile. *)
LEMMA PullTakes ==
    ASSUME TypeInv, [CodegenNext]_vars, pull.pc \in {"target", "write"},
           pull'.pc \in {"target", "write"}
    PROVE  /\ pull'.mode = pull.mode /\ UNCHANGED <<lock, crashes, unpinned>>
           /\ \/ NothingTaken
              \/ \E k \in Keys : TargetSettled(k)
              \/ \E k \in Keys, h \in Hashes : TargetWritten(k, h)
<1> DEFINE Goal ==
           /\ pull'.mode = pull.mode /\ UNCHANGED <<lock, crashes, unpinned>>
           /\ \/ NothingTaken
              \/ \E k \in Keys : TargetSettled(k)
              \/ \E k \in Keys, h \in Hashes : TargetWritten(k, h)
<1>1. CASE Tick \/ UNCHANGED vars
  BY <1>1 DEF Tick, vars, checkout, histories, NothingTaken
<1>2. ASSUME NEW k \in Keys, NEW h \in Hashes, NEW at \in 1..clock, Publish(k, h, at) PROVE Goal
  BY <1>2 DEF Publish, checkout, NothingTaken
<1>3. ASSUME NEW k \in Keys, DeleteFile(k) PROVE Goal
  BY <1>3 DEF DeleteFile
<1>4. ASSUME NEW mode \in {"boot", "pull"}, NEW S \in SUBSET Keys, StartPull(mode, S) PROVE Goal
  BY <1>4 DEF StartPull
<1>5. ASSUME NEW k \in Keys, KeepTarget(k) \/ NotModified(k) PROVE Goal
  <2>1. TargetSettled(k) /\ pull'.mode = pull.mode /\ UNCHANGED <<lock, crashes, unpinned>>
    BY <1>5, Settles DEF TargetSettled, checkout, histories
  <2> QED BY <2>1
<1>6. ASSUME NEW k \in Keys, FailTarget(k) PROVE Goal
  BY <1>6, Fails DEF checkout, histories, NothingTaken
<1>7. ASSUME NEW k \in Keys, FetchTarget(k) PROVE Goal
  BY <1>7, Fetches DEF checkout, histories, NothingTaken
<1>8. CASE WriteTarget
  <2>1. PICK g \in Got :
           /\ pull.pc = "write" /\ pull.got = {g} /\ g.key \in pull.todo
           /\ pull.prior = lock /\ Shape(pull')
           /\ file' = [file EXCEPT ![g.key] = g.hash]
           /\ pull'.todo = pull.todo \ {g.key}
           /\ pull'.entries = With(pull.entries, g.key, g.hash)
           /\ pull'.pc = "target" /\ pull'.sel = pull.sel /\ pull'.prior = pull.prior
           /\ pull'.wrote = pull.wrote \cup {g.key} /\ pull'.confirmed = pull.confirmed
           /\ pull'.got = {} /\ pull'.mode = pull.mode /\ torn' = torn \ {g.key}
           /\ UNCHANGED <<service, lock, report, crashes, unpinned, blind>>
    BY <1>8, Writes
  <2>2. g.key \in Keys /\ g.hash \in Hashes /\ g = [key |-> g.key, hash |-> g.hash]
    BY DEF Got
  <2>3. TargetWritten(g.key, g.hash)
    BY <2>1, <2>2 DEF TargetWritten
  <2> QED BY <2>1, <2>2, <2>3
<1>9. CASE WriteManifest
  BY <1>9, Locks, NoPullIs DEF NoPull
<1>10. CASE CheckAnswer \/ KillPull
  BY <1>10, NoPullIs DEF CheckAnswer, KillPull
<1>11. ASSUME NEW k \in Keys, Withdraw(k) PROVE Goal
  BY <1>11 DEF Withdraw, checkout, histories, NothingTaken
<1> QED
  BY <1>1, <1>2, <1>3, <1>4, <1>5, <1>6, <1>7, <1>8, <1>9, <1>10, <1>11 DEF CodegenNext

(* Outside a pull, files only go, and a deleted one is torn no more.        *)
FilesRest ==
    \/ UNCHANGED <<file, torn>>
    \/ \E k \in Keys : file' = [file EXCEPT ![k] = Absent] /\ torn' = torn \ {k}

(* Any other step ends a pull, or leaves the lockfile alone.                *)
LEMMA PullRests ==
    ASSUME TypeInv, [CodegenNext]_vars,
           ~ (pull.pc \in {"target", "write"} /\ pull'.pc \in {"target", "write"})
    PROVE  \/ WriteManifest
           \/ KillPull
           \/ /\ pull.entries = Empty /\ pull'.entries = Empty /\ pull'.pc # "write"
              /\ UNCHANGED <<lock, unpinned, crashes>> /\ FilesRest
<1> DEFINE Goal == /\ pull.entries = Empty /\ pull'.entries = Empty /\ pull'.pc # "write"
                   /\ UNCHANGED <<lock, unpinned, crashes>> /\ FilesRest
<1>1. pull.pc \notin {"target", "write"} => pull.entries = Empty /\ pull.pc # "write"
  BY DEF TypeInv, PullInv
<1>2. CASE Tick \/ UNCHANGED vars
  BY <1>1, <1>2 DEF Tick, vars, checkout, histories, FilesRest
<1>3. ASSUME NEW k \in Keys, NEW h \in Hashes, NEW at \in 1..clock, Publish(k, h, at) PROVE Goal
  BY <1>1, <1>3 DEF Publish, checkout, FilesRest
<1>4. ASSUME NEW k \in Keys, DeleteFile(k) PROVE Goal
  BY <1>1, <1>4 DEF DeleteFile, FilesRest
<1>5. ASSUME NEW mode \in {"boot", "pull"}, NEW S \in SUBSET Keys, StartPull(mode, S) PROVE Goal
  BY <1>1, <1>5 DEF StartPull, NoPull, FilesRest
<1>6. ASSUME NEW k \in Keys, KeepTarget(k) \/ NotModified(k) \/ FailTarget(k) \/ FetchTarget(k)
      PROVE  FALSE
  <2>1. pull.pc = "target" /\ pull'.pc \in {"target", "write"}
    BY <1>6, Settles, Fails, Fetches
  <2> QED BY <2>1
<1>7. ~ WriteTarget
  BY Writes
<1>8. CASE CheckAnswer
  BY <1>1, <1>8, NoPullIs DEF CheckAnswer, histories, FilesRest
<1>9. ASSUME NEW k \in Keys, Withdraw(k) PROVE Goal
  BY <1>1, <1>9 DEF Withdraw, checkout, histories, FilesRest
<1> QED
  BY <1>2, <1>3, <1>4, <1>5, <1>6, <1>7, <1>8, <1>9 DEF CodegenNext

(* Files, entries and lockfile, until the pull under way writes the next    *)
(* one.  A file no killed pull wrote last is what the lockfile says.        *)
Healed(k) ==
    \/ file[k] = pull.entries[k]
    \/ /\ k \in torn \ pull.wrote /\ file[k] # Absent
       /\ Pinned(lock, k) /\ pull.entries[k] = Pin(lock, k)
       /\ k \in pull.confirmed \/ pull.mode = "boot"

FilesInv ==
    /\ \A k \in DOMAIN pull.entries : Healed(k)
    /\ \A k \in Keys : Pinned(lock, k) /\ k \notin pull.wrote =>
                            file[k] \in {Absent, Pin(lock, k)} \/ k \in torn
    /\ \A k \in Keys : /\ file[k] # Absent
                        /\ ~ Pinned(lock, k) /\ k \notin DOMAIN pull.entries
                        => k \in unpinned
    /\ pull.pc = "write" /\ pull.mode = "boot" =>
            \A g \in pull.got : file[g.key] # Absent => g.key \in unpinned

(* At first there is no file. *)
LEMMA FilesInvInit == CodegenInit => FilesInv
  BY NoPullIs DEF CodegenInit, FilesInv

(* A boot fetches a file it has only if its entry was lost. *)
LEMMA BootFetches ==
    ASSUME TypeInv, FilesInv, [CodegenNext]_vars, pull'.pc = "write", pull'.mode = "boot"
    PROVE  \A g \in pull'.got : file'[g.key] # Absent => g.key \in unpinned'
<1>1. CASE UNCHANGED <<pull, file, unpinned>>
  BY <1>1 DEF FilesInv
<1>2. ASSUME NEW k \in Keys, FetchTarget(k)
      PROVE  \A g \in pull'.got : file'[g.key] # Absent => g.key \in unpinned'
  <2>1. PICK h \in Hashes : pull'.got = {[key |-> k, hash |-> h]}
    BY <1>2, Fetches
  <2>2. k \notin DOMAIN pull.entries /\ UNCHANGED <<file, unpinned>>
    BY <1>2, Fetches DEF TypeInv, PullInv, Entries, checkout, histories
  <2>3. file[k] # Absent => ~ Pinned(lock, k)
    BY <1>2, Fetches
  <2> QED BY <2>1, <2>2, <2>3 DEF FilesInv
<1>3. \A k \in Keys : KeepTarget(k) \/ NotModified(k) \/ FailTarget(k) => pull'.pc # "write"
  BY Settles, Fails
<1>4. ~ WriteTarget /\ ~ WriteManifest
  BY Writes, Locks, NoPullIs DEF NoPull
<1>5. \A mode \in {"boot", "pull"}, S \in SUBSET Keys : ~ StartPull(mode, S)
  BY DEF StartPull, NoPull
<1>6. ~ CheckAnswer /\ ~ KillPull
  BY NoPullIs DEF CheckAnswer, KillPull
<1>7. \A k \in Keys : ~ DeleteFile(k)
  BY DEF DeleteFile, TypeInv, PullInv
<1>8. CASE \/ Tick \/ UNCHANGED vars
           \/ \E k \in Keys : Withdraw(k)
           \/ \E k \in Keys, h \in Hashes, at \in 1..clock : Publish(k, h, at)
  BY <1>1, <1>8 DEF Tick, Publish, Withdraw, vars, checkout, histories
<1> QED
  BY <1>2, <1>3, <1>4, <1>5, <1>6, <1>7, <1>8 DEF CodegenNext

(* Every step of a pull keeps files and entries together.                   *)
LEMMA FilesTaken ==
    ASSUME TypeInv, FilesInv, [CodegenNext]_vars, pull.pc \in {"target", "write"},
           pull'.pc \in {"target", "write"}
    PROVE  FilesInv'
<1>1. pull'.mode = pull.mode /\ UNCHANGED <<lock, crashes, unpinned>>
  BY PullTakes
<1>2. CASE NothingTaken
  BY <1>1, <1>2, BootFetches DEF FilesInv, Healed, Pinned, Pin, NothingTaken
<1>3. ASSUME NEW k \in Keys, TargetSettled(k) PROVE FilesInv'
  <2> DEFINE e == pull'.entries
  <2>1. Pin(lock, k) \in Hashes
    BY <1>3, PinIsHash DEF TargetSettled
  <2>2. /\ k \notin DOMAIN pull.entries /\ DOMAIN e = DOMAIN pull.entries \cup {k}
        /\ e[k] = Pin(lock, k) /\ \A q \in DOMAIN pull.entries : e[q] = pull.entries[q]
    <3> DEFINE w == With(pull.entries, k, Pin(lock, k))
    <3>1. /\ k \notin DOMAIN pull.entries /\ DOMAIN w = DOMAIN pull.entries \cup {k}
          /\ w[k] = Pin(lock, k) /\ \A q \in DOMAIN pull.entries : w[q] = pull.entries[q]
      BY <1>3, <2>1, EntryAdded DEF TargetSettled
    <3>2. e = w
      BY <1>3 DEF TargetSettled
    <3> QED BY <3>1, <3>2
  <2>3. /\ file' = file /\ torn' = torn /\ pull'.wrote = pull.wrote
        /\ Pinned(lock, k) /\ file[k] # Absent /\ k \notin pull.wrote
        /\ \/ pull'.confirmed = pull.confirmed \cup {k}
           \/ pull'.confirmed = pull.confirmed /\ pull.mode = "boot"
    BY <1>3, <2>2 DEF TargetSettled, TypeInv, PullInv
  <2> HIDE DEF e
  <2>4. \A q : (Pinned(lock, q)' <=> Pinned(lock, q)) /\ Pin(lock, q)' = Pin(lock, q)
    BY <1>1 DEF Pinned, Pin
  <2>5. Healed(k)'
    <3>1. file[k] = Pin(lock, k) \/ k \in torn
      BY <2>3 DEF FilesInv
    <3> QED BY <1>1, <2>2, <2>3, <2>4, <3>1 DEF Healed, e
  <2>6. ASSUME NEW q \in DOMAIN pull.entries PROVE Healed(q)'
    <3>1. Healed(q)
      BY DEF FilesInv
    <3> QED BY <1>1, <2>2, <2>3, <2>4, <3>1 DEF Healed, e
  <2>7. \A q \in DOMAIN pull'.entries : Healed(q)'
    BY <2>2, <2>5, <2>6 DEF e
  <2> QED BY <1>1, <2>2, <2>3, <2>4, <2>7, BootFetches DEF FilesInv, e
<1>4. ASSUME NEW k \in Keys, NEW h \in Hashes, TargetWritten(k, h) PROVE FilesInv'
  <2> DEFINE e == pull'.entries
  <2>1. /\ k \notin DOMAIN pull.entries /\ DOMAIN e = DOMAIN pull.entries \cup {k}
        /\ e[k] = h /\ \A q \in DOMAIN pull.entries : e[q] = pull.entries[q]
    <3> DEFINE w == With(pull.entries, k, h)
    <3>1. /\ k \notin DOMAIN pull.entries /\ DOMAIN w = DOMAIN pull.entries \cup {k}
          /\ w[k] = h /\ \A q \in DOMAIN pull.entries : w[q] = pull.entries[q]
      BY <1>4, EntryAdded DEF TargetWritten
    <3>2. e = w
      BY <1>4 DEF TargetWritten
    <3> QED BY <3>1, <3>2
  <2>2. /\ file'[k] = h /\ \A q \in Keys \ {k} : file'[q] = file[q]
        /\ torn' = torn \ {k} /\ pull'.confirmed = pull.confirmed
        /\ pull'.wrote = pull.wrote \cup {k}
    BY <1>4 DEF TargetWritten, TypeInv
  <2>3. DOMAIN pull.entries \subseteq Keys
    BY DEF TypeInv, PullInv, Entries
  <2> HIDE DEF e
  <2>4. \A q : (Pinned(lock, q)' <=> Pinned(lock, q)) /\ Pin(lock, q)' = Pin(lock, q)
    BY <1>1 DEF Pinned, Pin
  <2>5. Healed(k)'
    BY <2>1, <2>2 DEF Healed, e
  <2>6. ASSUME NEW q \in DOMAIN pull.entries PROVE Healed(q)'
    <3>1. Healed(q) /\ q # k /\ q \in Keys
      BY <2>1, <2>3 DEF FilesInv
    <3> QED BY <1>1, <2>1, <2>2, <2>4, <3>1 DEF Healed, e
  <2>7. \A q \in DOMAIN pull'.entries : Healed(q)'
    BY <2>1, <2>5, <2>6 DEF e
  <2> QED BY <1>1, <2>1, <2>2, <2>4, <2>7, BootFetches DEF FilesInv, e
<1> QED BY <1>2, <1>3, <1>4, PullTakes

(* The lockfile takes the entries over.                                     *)
LEMMA FilesLocked ==
    ASSUME TypeInv, FilesInv, WriteManifest
    PROVE  FilesInv'
<1> DEFINE m == Manifest
<1>1. /\ lock' = {m} /\ m.entries = pull.entries /\ pull'.entries = Empty
      /\ pull'.pc # "write" /\ UNCHANGED <<file, crashes, torn>>
  BY Locks, ManifestIs, NoPullIs DEF NoPull
<1>2. \/ lock = {m} /\ unpinned' = unpinned
      \/ unpinned' = (unpinned \cup {k \in Keys : file[k] # Absent}) \ DOMAIN m.entries
  BY Locks
<1> HIDE DEF m
<1>3. \A k : /\ Pinned(lock, k)' <=> k \in DOMAIN pull.entries
             /\ Pin(lock, k)' = pull.entries[k]
  BY <1>1, PinIs DEF Pinned, Pin
<1>4. \A k : lock = {m} => (Pinned(lock, k) <=> k \in DOMAIN pull.entries)
  BY <1>1, PinIs
<1>5. ASSUME NEW k \in DOMAIN pull.entries
      PROVE  file[k] = pull.entries[k] \/ k \in torn
  BY <1>5 DEF FilesInv, Healed
<1>6. ASSUME NEW k \in Keys, file[k] # Absent, k \notin DOMAIN pull.entries
      PROVE  k \in unpinned'
  BY <1>1, <1>2, <1>4, <1>6 DEF FilesInv
<1> QED BY <1>1, <1>3, <1>5, <1>6, NoPullIs DEF FilesInv

(* A killed pull leaves the files it wrote torn.                            *)
LEMMA FilesKilled ==
    ASSUME TypeInv, FilesInv, KillPull
    PROVE  FilesInv'
<1>1. /\ pull' = NoPull /\ UNCHANGED <<file, lock>> /\ torn' = torn \cup pull.wrote
      /\ unpinned' = unpinned \cup {k \in Keys : file[k] # Absent /\ ~ Pinned(lock, k)}
  BY DEF KillPull, checkout
<1>2. \A q : (Pinned(lock, q)' <=> Pinned(lock, q)) /\ Pin(lock, q)' = Pin(lock, q)
  BY <1>1 DEF Pinned, Pin
<1> QED BY <1>1, <1>2, NoPullIs DEF FilesInv

(* So does what happens outside a pull.                                     *)
LEMMA FilesAtRest ==
    ASSUME TypeInv, FilesInv, pull.entries = Empty, pull'.entries = Empty, pull'.pc # "write",
           UNCHANGED <<lock, unpinned, crashes>>, FilesRest
    PROVE  FilesInv'
<1>1. pull.wrote = {}
  BY NoPullIs DEF TypeInv, PullInv
<1>2. \A q : (Pinned(lock, q)' <=> Pinned(lock, q)) /\ Pin(lock, q)' = Pin(lock, q)
  BY DEF Pinned, Pin
<1>3. \A k \in Keys : \/ file'[k] = file[k] /\ (k \in torn => k \in torn')
                      \/ file'[k] = Absent
  BY DEF FilesRest, TypeInv
<1> QED BY <1>1, <1>2, <1>3, NoPullIs DEF FilesInv

(* Every step keeps them. *)
LEMMA FilesInvNext ==
    ASSUME TypeInv, FilesInv, [CodegenNext]_vars
    PROVE  FilesInv'
<1>1. CASE pull.pc \in {"target", "write"} /\ pull'.pc \in {"target", "write"}
  BY <1>1, FilesTaken
<1>2. CASE WriteManifest
  BY <1>2, FilesLocked
<1>3. CASE KillPull
  BY <1>3, FilesKilled
<1> QED BY <1>1, <1>2, <1>3, FilesAtRest, PullRests

(* A file that verify finds is what the lockfile pins, unless a killed pull *)
(* wrote it last.                                                           *)
THEOREM VerifyIsEnough == CodegenSpec => []VerifiedFilesMatch
<1>1. ASSUME TypeInv, FilesInv PROVE VerifiedFilesMatch
  <2> SUFFICES ASSUME pull.pc = "idle", VerifyOk,
                      NEW m \in lock, NEW k \in DOMAIN m.entries
               PROVE  file[k] = m.entries[k] \/ k \in torn
    BY DEF VerifiedFilesMatch
  <2>1. lock = {m} /\ k \in Keys
    BY <1>1 DEF TypeInv, IsManifest, Entries
  <2>2. Pinned(lock, k) /\ Pin(lock, k) = m.entries[k]
    BY <2>1, PinIs
  <2>3. k \notin pull.wrote
    BY <1>1, NoPullIs DEF TypeInv, PullInv
  <2>4. file[k] # Absent
    BY <2>1 DEF VerifyOk
  <2> QED BY <1>1, <2>1, <2>2, <2>3, <2>4 DEF FilesInv
<1> QED BY <1>1, TypeInvInit, TypeInvNext, FilesInvInit, FilesInvNext, PTL DEF CodegenSpec

(* A pull that completes leaves no entry beside another file, but one that  *)
(* a killed pull wrote last and that the service called not modified, or a  *)
(* dev boot did not ask about.                                              *)
THEOREM PullsHeal == CodegenSpec => PullHeals
<1> DEFINE Heals == Completes => \A k \in DOMAIN pull.entries :
                        \/ file[k] = pull.entries[k]
                        \/ /\ k \in torn \ pull.wrote /\ file[k] # Absent
                           /\ Pinned(pull.prior, k) /\ pull.entries[k] = Pin(pull.prior, k)
                           /\ k \in pull.confirmed \/ pull.mode = "boot"
<1>1. TypeInv /\ FilesInv => [Heals]_vars
  BY DEF TypeInv, PullInv, FilesInv, Healed, Completes
<1> QED BY <1>1, TypeInvInit, TypeInvNext, FilesInvInit, FilesInvNext, PTL
        DEF CodegenSpec, PullHeals

(* A dev boot replaces a file only when its lockfile entry was lost.        *)
THEOREM BootsKeepFiles == CodegenSpec => BootKeepsFiles
<1> DEFINE Keeps == \A k \in Keys : (pull.mode = "boot" /\ Rewrites(k)) => k \in unpinned
<1>1. TypeInv /\ FilesInv => [Keeps]_vars
  BY DEF FilesInv, Rewrites
<1> QED BY <1>1, TypeInvInit, TypeInvNext, FilesInvInit, FilesInvNext, PTL
        DEF CodegenSpec, BootKeepsFiles

-----------------------------------------------------------------------------
(* Drift.                                                                  *)

(* The change of k's current version is one the lockfile m asks for.        *)
Announced(m, k) == \E i \in Asked(m) : feed[i].key = k /\ feed[i].hash = served[k]

Moved(m, k) == served[k] \notin {m.entries[k], Absent}

(* Every pinned schema that has moved is asked for, or known to be out of   *)
(* reach of the question; and a pull that wrote nothing has the entries it  *)
(* read.                                                                    *)
DriftInv ==
    /\ \A m \in lock : \A k \in DOMAIN m.entries :
            Moved(m, k) => Announced(m, k) \/ k \in blind
    /\ pull.pc \in {"target", "write"} /\ pull.wrote = {} =>
            \A k \in DOMAIN pull.entries :
                Pinned(lock, k) /\ pull.entries[k] = Pin(lock, k)

(* What the feed has said stays in it. *)
FeedGrows ==
    \A i \in DOMAIN feed : i \in DOMAIN feed' /\ feed'[i] = feed[i]

(* A move is asked for from the second of the lockfile on, or noted. *)
LEMMA PublishDrifts ==
    ASSUME TypeInv, DriftInv, NEW k \in Keys, NEW h \in Hashes, NEW at \in 1 .. clock,
           Publish(k, h, at)
    PROVE  DriftInv' /\ FeedGrows
<1> DEFINE n == Len(feed) + 1
           kind == IF served[k] = Absent THEN "added" ELSE "updated"
<1>1. /\ served' = [served EXCEPT ![k] = h] /\ UNCHANGED <<lock, pull>>
      /\ feed' = Append(feed, [key |-> k, hash |-> h, at |-> at, type |-> kind])
      /\ blind' = IF served[k] = Absent \/ at < FetchedAt
                  THEN blind \cup {k} ELSE blind \ {k}
  BY DEF Publish, checkout
<1>2. /\ feed \in Seq(Published) /\ n \in DOMAIN feed'
      /\ feed'[n].key = k /\ feed'[n].at = at /\ feed'[n].hash = h /\ feed'[n].type = kind
      /\ \A i \in DOMAIN feed : i \in DOMAIN feed' /\ feed'[i] = feed[i]
  BY <1>1 DEF TypeInv
<1>3. ASSUME NEW m, lock = {m}, NEW q \in DOMAIN m.entries, Moved(m, q)'
      PROVE  Announced(m, q)' \/ q \in blind'
  <2>1. FetchedAt = m.fetchedAt /\ m.fetchedAt \in Nat /\ q \in Keys
    <3>1. (CHOOSE x \in {m} : TRUE) = m
      OBVIOUS
    <3>2. IsManifest(m)
      BY <1>3 DEF TypeInv
    <3> QED BY <1>3, <3>1, <3>2 DEF FetchedAt, IsManifest, TypeInv, Entries
  <2>2. CASE q = k
    <3>1. served'[q] = h
      BY <1>1, <2>1, <2>2 DEF TypeInv
    <3>2. CASE served[k] = Absent \/ at < FetchedAt
      BY <1>1, <2>2, <3>2
    <3>3. CASE ~ (served[k] = Absent \/ at < FetchedAt)
      <4>1. n \in Asked(m)'
        BY <1>2, <2>1, <3>3 DEF Asked, TypeInv
      <4> QED BY <1>2, <2>2, <3>1, <4>1 DEF Announced
    <3> QED BY <3>2, <3>3
  <2>3. CASE q # k
    <3>1. served'[q] = served[q]
      BY <1>1, <2>1, <2>3 DEF TypeInv
    <3>2. Moved(m, q)
      BY <1>3, <3>1 DEF Moved
    <3>3. CASE q \in blind
      BY <1>1, <2>3, <3>3
    <3>4. ASSUME NEW i \in Asked(m), feed[i].key = q, feed[i].hash = served[q]
          PROVE  Announced(m, q)'
      <4>1. i \in Asked(m)' /\ feed'[i] = feed[i]
        BY <1>2, <3>4 DEF Asked
      <4> QED BY <3>1, <3>4, <4>1 DEF Announced
    <3> QED BY <1>3, <3>2, <3>3, <3>4 DEF DriftInv, Announced
  <2> QED BY <2>2, <2>3
<1>4. DriftInv'
  BY <1>1, <1>3 DEF DriftInv, TypeInv, Pinned, Pin
<1> QED BY <1>2, <1>4 DEF FeedGrows

(* A schema withdrawn has nothing to report. *)
LEMMA WithdrawDrifts ==
    ASSUME TypeInv, DriftInv, NEW k \in Keys, Withdraw(k)
    PROVE  DriftInv'
<1>1. /\ served' = [served EXCEPT ![k] = Absent]
      /\ UNCHANGED <<feed, lock, pull, blind>>
  BY DEF Withdraw, checkout, histories
<1>2. ASSUME NEW m, lock = {m}, NEW q \in DOMAIN m.entries, Moved(m, q)'
      PROVE  Announced(m, q)' \/ q \in blind'
  <2>1. q \in Keys
    BY <1>2 DEF TypeInv, IsManifest, Entries
  <2>2. q # k
    BY <1>1, <1>2, <2>1 DEF Moved, TypeInv
  <2>3. served'[q] = served[q]
    BY <1>1, <2>1, <2>2 DEF TypeInv
  <2>4. Moved(m, q) /\ (Announced(m, q) => Announced(m, q)')
    BY <1>1, <1>2, <2>3 DEF Moved, Announced, Asked
  <2> QED BY <1>1, <1>2, <2>4 DEF DriftInv
<1> QED BY <1>1, <1>2 DEF DriftInv, TypeInv, Pinned, Pin

(* The new lockfile asks as the one before, or every move is noted.         *)
LEMMA LockDrifts ==
    ASSUME TypeInv, DriftInv, WriteManifest
    PROVE  DriftInv'
<1>0. PICK m : m = Manifest
  OBVIOUS
<1>1. /\ lock' = {m} /\ m.entries = pull.entries /\ IsManifest(m) /\ UNCHANGED <<served, feed>>
      /\ pull'.pc \notin {"target", "write"} /\ pull.pc = "target"
  BY <1>0, Locks, ManifestIs, NoPullIs DEF NoPull, service
<1>2. \/ lock = {m} /\ UNCHANGED blind
      \/ blind' = IF m.fetchedAt = FetchedAt /\ pull.wrote = {} THEN blind
                  ELSE {k \in DOMAIN m.entries : m.entries[k] # served[k]}
  BY <1>0, Locks
<1>3. \A k : Announced(m, k)' = Announced(m, k) /\ Moved(m, k)' = Moved(m, k)
  BY <1>1 DEF Announced, Asked, Moved
<1>4. ASSUME NEW k \in DOMAIN m.entries, Moved(m, k)
      PROVE  Announced(m, k) \/ k \in blind'
  <2>1. CASE lock = {m} /\ UNCHANGED blind
    BY <1>4, <2>1 DEF DriftInv
  <2>2. CASE m.fetchedAt = FetchedAt /\ pull.wrote = {} /\ UNCHANGED blind
    <3>1. lock # {}
      BY <1>1, <2>2 DEF FetchedAt, IsManifest, TypeInv
    <3>2. PICK p : lock = {p}
      BY <3>1 DEF TypeInv
    <3>3. (CHOOSE x \in {p} : TRUE) = p
      OBVIOUS
    <3>4. p.fetchedAt = m.fetchedAt
      BY <2>2, <3>2, <3>3 DEF FetchedAt
    <3>5. k \in DOMAIN p.entries /\ p.entries[k] = m.entries[k]
      BY <1>1, <1>4, <2>2, <3>2, PinIs DEF DriftInv
    <3>6. Announced(p, k) = Announced(m, k) /\ Moved(p, k)
      BY <1>4, <3>4, <3>5 DEF Announced, Asked, Moved
    <3> QED BY <2>2, <3>2, <3>5, <3>6 DEF DriftInv
  <2>3. CASE blind' = {q \in DOMAIN m.entries : m.entries[q] # served[q]}
    BY <1>4, <2>3 DEF Moved
  <2> QED BY <1>2, <2>1, <2>2, <2>3
<1> QED BY <1>1, <1>3, <1>4 DEF DriftInv

(* Every step keeps it. *)
LEMMA DriftInvNext ==
    ASSUME TypeInv, DriftInv, [CodegenNext]_vars
    PROVE  DriftInv' /\ FeedGrows
<1> DEFINE Goal == DriftInv' /\ FeedGrows
<1>1. ASSUME UNCHANGED <<served, feed, lock, blind>>,
             pull'.pc \in {"target", "write"} /\ pull'.wrote = {} =>
                \A k \in DOMAIN pull'.entries :
                    Pinned(lock, k) /\ pull'.entries[k] = Pin(lock, k)
      PROVE  Goal
  BY <1>1 DEF DriftInv, Announced, Moved, Asked, Pinned, Pin, FeedGrows
<1>2. CASE \E k \in Keys, h \in Hashes, at \in 1..clock : Publish(k, h, at)
  BY <1>2, PublishDrifts
<1>3. CASE WriteManifest
  BY <1>3, LockDrifts, Locks DEF service, FeedGrows
<1>4. CASE Tick \/ (\E k \in Keys : DeleteFile(k)) \/ UNCHANGED vars
  <2>1. UNCHANGED <<served, feed, lock, blind, pull>>
    BY <1>4 DEF Tick, DeleteFile, vars, service, checkout, histories
  <2> QED BY <1>1, <2>1 DEF DriftInv
<1>5. CASE \E mode \in {"boot", "pull"}, S \in SUBSET Keys : StartPull(mode, S)
  <2>1. UNCHANGED <<served, feed, lock, blind>> /\ pull'.entries = Empty
    BY <1>5 DEF StartPull, service, NoPull
  <2> QED BY <1>1, <2>1, NoPullIs
<1>6. CASE CheckAnswer \/ KillPull
  <2>1. UNCHANGED <<served, feed, lock, blind>> /\ pull'.entries = Empty
    BY <1>6, NoPullIs DEF CheckAnswer, KillPull, service, checkout, histories
  <2> QED BY <1>1, <2>1, NoPullIs
<1>7. ASSUME NEW k \in Keys, KeepTarget(k) \/ NotModified(k) PROVE Goal
  <2> DEFINE w == With(pull.entries, k, Pin(lock, k))
  <2>1. /\ UNCHANGED <<served, feed, lock, blind>> /\ Pinned(lock, k) /\ k \in pull.todo
        /\ pull'.entries = w /\ pull'.wrote = pull.wrote /\ pull.pc = "target"
    BY <1>7, Settles DEF service, checkout, histories
  <2>2. Pin(lock, k) \in Hashes
    BY <2>1, PinIsHash
  <2>3. /\ DOMAIN w = DOMAIN pull.entries \cup {k} /\ w[k] = Pin(lock, k)
        /\ \A q \in DOMAIN pull.entries : w[q] = pull.entries[q]
    BY <2>1, <2>2, EntryAdded
  <2> HIDE DEF w
  <2> QED BY <1>1, <2>1, <2>3 DEF DriftInv
<1>8. ASSUME NEW k \in Keys, FailTarget(k) \/ FetchTarget(k) PROVE Goal
  <2>1. /\ UNCHANGED <<served, feed, lock, blind>> /\ pull.pc = "target"
        /\ pull'.entries = pull.entries /\ pull'.wrote = pull.wrote
    BY <1>8, Fails, Fetches DEF service, checkout, histories
  <2> QED BY <1>1, <2>1 DEF DriftInv
<1>9. CASE WriteTarget
  <2>1. UNCHANGED <<served, feed, lock, blind>> /\ pull'.wrote # {}
    BY <1>9, Writes DEF service
  <2> QED BY <1>1, <2>1
<1>10. ASSUME NEW k \in Keys, Withdraw(k) PROVE Goal
  BY <1>10, WithdrawDrifts DEF Withdraw, FeedGrows
<1> QED
  BY <1>2, <1>3, <1>4, <1>5, <1>6, <1>7, <1>8, <1>9, <1>10 DEF CodegenNext

(* A report speaks of changes the feed has. *)
ReportInv == DriftReported /\ \A r \in report : r.page \subseteq DOMAIN feed

(* It stays true as the feed grows. *)
LEMMA ReportStays ==
    ASSUME ReportInv, FeedGrows, report' = report \/ report' = {}
    PROVE  ReportInv'
<1> SUFFICES ASSUME report' = report
             PROVE  ReportInv'
  BY DEF ReportInv, DriftReported
<1>1. \A r \in report' : r.page \subseteq DOMAIN feed'
  BY DEF ReportInv, FeedGrows
<1>2. ASSUME NEW r \in report', NEW k \in DOMAIN r.pins,
             r.upstream[k] \notin {r.pins[k], Absent},
             r.more, NEW i \in DOMAIN feed \ r.page,
             feed[i].key = k, feed[i].hash = r.upstream[k],
             \A j \in r.page : feed[j].at >= feed[i].at
      PROVE  \E z \in DOMAIN feed' \ r.page :
                /\ feed'[z].key = k /\ feed'[z].hash = r.upstream[k]
                /\ \A j \in r.page : feed'[j].at >= feed'[z].at
  <2>1. i \in DOMAIN feed' \ r.page /\ feed'[i] = feed[i]
    BY DEF FeedGrows
  <2>2. \A j \in r.page : feed'[j] = feed[j]
    BY DEF FeedGrows, ReportInv
  <2> QED BY <1>2, <2>1, <2>2
<1>3. DriftReported'
  BY <1>2 DEF ReportInv, DriftReported
<1> QED BY <1>1, <1>3 DEF ReportInv

(* A page is all that is asked for, or full of the newest. *)
LEMMA PagesAre ==
    ASSUME TypeInv, NEW m, NEW P \in Pages(m)
    PROVE  /\ P \subseteq Asked(m)
           /\ \/ P = Asked(m)
              \/ /\ Cardinality(Asked(m)) > PageLimit
                 /\ \A i \in P, j \in Asked(m) \ P : feed[i].at >= feed[j].at
<1>1. CASE Cardinality(Asked(m)) <= PageLimit
  BY <1>1 DEF Pages
<1>2. CASE ~ (Cardinality(Asked(m)) <= PageLimit)
  <2>1. PageLimit \in Nat /\ Asked(m) \subseteq 1 .. Len(feed) /\ Len(feed) \in Nat
    BY CodegenAssumption DEF CodegenAssumption, Asked, TypeInv
  <2>2. IsFiniteSet(Asked(m))
    <3>1. IsFiniteSet(1 .. Len(feed))
      BY <2>1, FS_Interval
    <3> QED BY <2>1, <3>1, FS_Subset
  <2>3. Cardinality(Asked(m)) \in Nat
    BY <2>2, FS_CardinalityType
  <2>4. P \subseteq Asked(m) /\ \A i \in P, j \in Asked(m) \ P : feed[j].at <= feed[i].at
    BY <1>2 DEF Pages
  <2>5. \A i \in Asked(m) : feed[i].at \in Nat
    <3>1. \A i \in DOMAIN feed : feed[i] \in Published
      BY DEF TypeInv
    <3> QED BY <3>1 DEF Asked, Published
  <2> QED BY <1>2, <2>1, <2>3, <2>4, <2>5
<1> QED BY <1>1, <1>2

(* An answer reports what the lockfile and the feed then said.              *)
LEMMA AnswerReports ==
    ASSUME TypeInv, DriftInv, CheckAnswer
    PROVE  ReportInv'
<1>1. CASE lock = {}
  BY <1>1 DEF CheckAnswer, ReportInv, DriftReported
<1>2. CASE lock # {}
  <2> DEFINE Said(m, P) == [k \in {x \in DOMAIN m.entries : Hits(m, P, x) # {}} |->
                                feed[Newest(Hits(m, P, k))].hash]
             Told(m, P) == [pins |-> m.entries, upstream |-> served, blind |-> blind,
                    page |-> P, more |-> Cardinality(Asked(m)) > PageLimit,
                    said |-> Said(m, P)]
  <2>0. PICK m \in lock : \E P \in Pages(m) : report' = {Told(m, P)}
    BY <1>2 DEF CheckAnswer
  <2>1. PICK P \in Pages(m) : report' = {Told(m, P)}
    BY <2>0
  <2>2. \A x : x \in DOMAIN Said(m, P) <=> x \in DOMAIN m.entries /\ Hits(m, P, x) # {}
    OBVIOUS
  <2> HIDE DEF Said
  <2>3. PICK r : r = Told(m, P)
    OBVIOUS
  <2>4. /\ r.pins = m.entries /\ r.upstream = served /\ r.blind = blind /\ r.page = P
        /\ r.more = (Cardinality(Asked(m)) > PageLimit)
        /\ \A x : x \in DOMAIN r.said <=> x \in DOMAIN m.entries /\ Hits(m, P, x) # {}
        /\ report' = {r}
    BY <2>1, <2>2, <2>3
  <2> HIDE DEF Told
  <2>5. UNCHANGED feed
    BY DEF CheckAnswer, service
  <2>6. P \subseteq DOMAIN feed
    BY PagesAre DEF Asked
  <2>7. ASSUME NEW k \in DOMAIN r.pins, r.upstream[k] \notin {r.pins[k], Absent},
               k \notin DOMAIN r.said \cup r.blind
        PROVE  /\ r.more
               /\ \E i \in DOMAIN feed \ r.page :
                    /\ feed[i].key = k /\ feed[i].hash = r.upstream[k]
                    /\ \A j \in r.page : feed[j].at >= feed[i].at
    <3>1. Announced(m, k)
      BY <2>4, <2>7 DEF DriftInv, Moved
    <3>2. PICK i \in Asked(m) : feed[i].key = k /\ feed[i].hash = served[k]
      BY <3>1 DEF Announced
    <3>3. i \notin P
      <4>1. Hits(m, P, k) = {}
        BY <2>4, <2>7
      <4> QED BY <2>4, <2>7, <3>2, <4>1 DEF Hits
    <3>4. i \in DOMAIN feed
      BY DEF Asked
    <3> QED BY <2>4, <3>2, <3>3, <3>4, PagesAre
  <2>8. DriftReported'
    BY <2>4, <2>5, <2>7 DEF DriftReported
  <2> QED BY <2>4, <2>5, <2>6, <2>8 DEF ReportInv
<1> QED BY <1>1, <1>2

(* Every step keeps what was reported. *)
LEMMA ReportNext ==
    ASSUME TypeInv, DriftInv, ReportInv, [CodegenNext]_vars
    PROVE  ReportInv'
<1>1. CASE CheckAnswer
  BY <1>1, AnswerReports
<1>2. CASE report' = report \/ report' = {}
  BY <1>2, ReportStays, DriftInvNext
<1>3. CASE UNCHANGED checkout
  BY <1>2, <1>3 DEF checkout
<1>4. ASSUME NEW k \in Keys, DeleteFile(k) \/ Withdraw(k) PROVE ReportInv'
  BY <1>2, <1>4 DEF DeleteFile, Withdraw, checkout
<1>5. CASE Tick \/ (\E k \in Keys, h \in Hashes, at \in 1..clock : Publish(k, h, at)) \/ UNCHANGED vars
  BY <1>3, <1>5 DEF Tick, Publish, vars
<1>6. ASSUME NEW mode \in {"boot", "pull"}, NEW S \in SUBSET Keys, StartPull(mode, S)
      PROVE  ReportInv'
  BY <1>2, <1>6 DEF StartPull
<1>7. ASSUME NEW k \in Keys, KeepTarget(k) \/ NotModified(k) \/ FailTarget(k) \/ FetchTarget(k)
      PROVE  ReportInv'
  BY <1>3, <1>7, Settles, Fails, Fetches
<1>8. CASE WriteTarget \/ WriteManifest \/ KillPull
  BY <1>2, <1>8 DEF WriteTarget, WriteManifest, KillPull, checkout
<1> QED BY <1>1, <1>4, <1>5, <1>6, <1>7, <1>8 DEF CodegenNext

(* A check names every pinned schema that moved within the question it asks *)
(* or says that its one page did not reach that far.                        *)
THEOREM DriftIsReported == CodegenSpec => []DriftReported
<1>1. CodegenInit => DriftInv /\ ReportInv
  BY NoPullIs DEF CodegenInit, DriftInv, DriftReported, ReportInv
<1>2. ReportInv => DriftReported
  BY DEF ReportInv
<1> QED BY <1>1, <1>2, TypeInvInit, TypeInvNext, DriftInvNext, ReportNext, PTL DEF CodegenSpec

=============================================================================
