-------------------------- MODULE ModelPoll_proofs --------------------------
(***************************************************************************)
(* Proofs about module ModelPoll: the types of its variables, that the     *)
(* deprecation changes chain and tell each row's entry, that a completed   *)
(* poll leaves what its listing and its page said, and that every row's    *)
(* birth is told, once - for any number of overlapping pollers, any models,*)
(* facts, entries, stated dates, numbers of polls and crashes.             *)
(***************************************************************************)
EXTENDS ModelPoll, TLAPS

-----------------------------------------------------------------------------
(* What the variables hold.                                                *)

EntryOrNone == Entries \cup {NoEntry}
EventTypes == {"model.added", "model.updated", "model.removed", "model.deprecated"}
Events == [type: EventTypes, before: EntryOrNone, after: EntryOrNone, alone: BOOLEAN]

(* The rows as a poll reads them.                                           *)
RowMaps == UNION {[D -> Row] : D \in SUBSET Models}

Locals == [pc: {"idle", "walk", "tell", "missing", "page"}, listing: Listings,
           hasPage: BOOLEAN, page: Pages, prior: RowMaps, todo: SUBSET Models,
           about: SUBSET Models, event: EventTypes \cup {"none"}, at: Nat,
           alone: BOOLEAN]

Listing(q) == q.pc = "walk" \/ (q.pc = "tell" /\ q.event # "model.removed")
Missing(q) == q.pc = "missing" \/ (q.pc = "tell" /\ q.event = "model.removed")

(* What a poll's locals say by themselves: it tells of one row at a time,   *)
(* and applies only entries that differ from those it read.                 *)
Shape(q) ==
    /\ q.pc # "idle" => q.at # 0
    /\ q.hasPage \/ DOMAIN q.page = {}
    /\ Listing(q) => q.todo \subseteq DOMAIN q.listing
    /\ Missing(q) => q.todo \subseteq DOMAIN q.prior
    /\ q.pc = "page" => q.hasPage /\ \A m \in q.todo : Was(q, m) # Named(q, m)
    /\ q.pc # "tell" => q.about = {}
    /\ q.pc = "tell" =>
        /\ \E m \in q.todo : q.about = {m}
        /\ q.event \in {"model.added", "model.updated", "model.removed"}

(* Rows never go: those it read and the one it is telling of are there.     *)
Reads(q) == DOMAIN q.prior \cup q.about \subseteq DOMAIN rows

TypeInv ==
    /\ rows \in RowMaps
    /\ feed \in [Models -> Seq(Events)]
    /\ poll \in [Pollers -> Locals]
    /\ \A p \in Pollers : Shape(poll[p]) /\ Reads(poll[p])
    /\ polls \in 0..MaxPolls
    /\ crashes \in 0..MaxCrashes
    /\ overlapped \in BOOLEAN

(* The steps of a poll between its start and its end.                       *)
PollMoves(p) ==
    \/ WalkDone(p) \/ Tell(p) \/ ReadDeprecations(p) \/ ApplyDeprecations(p)
    \/ \E m \in Models :
        InsertModel(p, m) \/ UpdateModel(p, m) \/ KeepModel(p, m) \/ RemoveModel(p, m)

PollEnds(p) == FailInsert(p) \/ FinishPoll(p) \/ CrashPoll(p)

LEMMA NextSplits ==
  PollNext <=> \E p \in Pollers : StartPoll(p) \/ PollMoves(p) \/ PollEnds(p)
  BY DEF PollNext, PollMoves, PollEnds

-----------------------------------------------------------------------------
(* Types.                                                                  *)

LEMMA ListingIs ==
  ASSUME NEW L \in Listings
  PROVE  /\ DOMAIN L \subseteq Models
         /\ \A m \in DOMAIN L : L[m].facts \in Facts /\ L[m].deprecated \in BOOLEAN
  BY DEF Listings

LEMMA PageIs ==
  ASSUME NEW P \in Pages
  PROVE  DOMAIN P \subseteq Models /\ \A m \in DOMAIN P : P[m] \in Entries
  BY DEF Pages

LEMMA RowMapIs ==
  ASSUME NEW R \in RowMaps
  PROVE  /\ DOMAIN R \subseteq Models
         /\ \A m \in DOMAIN R : R[m] \in Row
         /\ \A m \in DOMAIN R : /\ R[m].facts \in Facts \cup {NoFacts}
                                /\ R[m].deprecatedAt \in Nat
                                /\ R[m].deprecation \in EntryOrNone
  BY DEF RowMaps, Row, EntryOrNone

LEMMA EmptyMapIs ==
  EmptyMap \in RowMaps /\ EmptyMap \in Listings /\ EmptyMap \in Pages /\ DOMAIN EmptyMap = {}
  <1>1. DOMAIN EmptyMap = {}
    BY DEF EmptyMap
  <1>2. EmptyMap \in [{} -> Row] /\ EmptyMap \in [{} -> [facts: Facts, deprecated: BOOLEAN]]
        /\ EmptyMap \in [{} -> Entries]
    BY DEF EmptyMap
  <1> QED
    BY <1>1, <1>2 DEF RowMaps, Listings, Pages

LEMMA NoPollIs == /\ NoPoll \in Locals /\ NoPoll.pc = "idle" /\ NoPoll.about = {}
                  /\ NoPoll.todo = {} /\ NoPoll.alone
                  /\ Shape(NoPoll) /\ DOMAIN NoPoll.prior = {}
  BY EmptyMapIs DEF NoPoll, Locals, Shape, Listing, Missing

LEMMA PollIs ==
  ASSUME TypeInv, NEW p \in Pollers
  PROVE  /\ poll[p] \in Locals /\ Shape(poll[p]) /\ Reads(poll[p])
         /\ poll[p].listing \in Listings /\ poll[p].page \in Pages
         /\ poll[p].prior \in RowMaps /\ poll[p].todo \subseteq Models
         /\ poll[p].hasPage \in BOOLEAN /\ poll[p].alone \in BOOLEAN /\ poll[p].at \in Nat
  <1>1. poll[p] \in Locals /\ Shape(poll[p]) /\ Reads(poll[p])
    BY DEF TypeInv
  <1> QED
    BY <1>1 DEF Locals

(* What a row is written from: the entry the page or the row has ...        *)
LEMMA EntriesTyped ==
  ASSUME TypeInv, NEW p \in Pollers
  PROVE  /\ \A m : Named(poll[p], m) \in EntryOrNone
         /\ \A m : Was(poll[p], m) \in EntryOrNone
         /\ \A m : StoredEntry(m) \in EntryOrNone
  <1>1. poll[p].page \in Pages /\ poll[p].prior \in RowMaps
    BY PollIs
  <1>2. \A m : Named(poll[p], m) \in EntryOrNone
    BY <1>1, PageIs DEF Named, EntryOrNone
  <1>3. \A m : StoredEntry(m) \in EntryOrNone
    BY RowMapIs DEF TypeInv, StoredEntry, EntryOrNone
  <1>4. \A m : Was(poll[p], m) \in EntryOrNone
    BY <1>1, RowMapIs DEF Was, EntryOrNone
  <1> QED
    BY <1>2, <1>3, <1>4

(* ... and the date: the stated one, or the first, and never none for a     *)
(* model the page names.                                                    *)
LEMMA PageRowIs ==
  ASSUME TypeInv, NEW p \in Pollers, poll[p].pc = "page", NEW m \in poll[p].todo
  PROVE  LET row == PageRow(poll[p], m) IN
         /\ row \in Row
         /\ row.deprecation = Named(poll[p], m)
         /\ m \notin DOMAIN poll[p].prior => Named(poll[p], m) # NoEntry
         /\ m \in DOMAIN poll[p].prior => m \in DOMAIN rows /\ row.facts = rows[m].facts
         /\ Named(poll[p], m) # NoEntry => row.deprecatedAt # 0
         /\ Named(poll[p], m) = NoEntry => row.deprecatedAt = rows[m].deprecatedAt
         /\ Named(poll[p], m) # NoEntry /\ StatedAt[Named(poll[p], m)] # 0 =>
                row.deprecatedAt = StatedAt[Named(poll[p], m)]
  <1> DEFINE q == poll[p]
             x == Named(q, m)
             date == DateFromPage(q, m)
  <1>1. q \in Locals /\ q.prior \in RowMaps /\ q.at \in Nat /\ q.at # 0
        /\ x \in EntryOrNone /\ Was(q, m) # x
    BY PollIs, EntriesTyped DEF Shape
  <1>2. m \notin DOMAIN q.prior => x # NoEntry
    BY <1>1 DEF Was
  <1>3. m \in DOMAIN q.prior => m \in DOMAIN rows /\ rows[m] \in Row
    BY PollIs, RowMapIs DEF Reads, TypeInv
  <1>4. x # NoEntry => StatedAt[x] \in Nat
    BY <1>1, PollAssumption DEF EntryOrNone
  <1>5. m \in DOMAIN q.prior => q.prior[m].deprecatedAt \in Nat
    BY <1>1, RowMapIs
  <1>6. x # NoEntry => /\ date \in Nat /\ date # 0
                       /\ StatedAt[x] # 0 => date = StatedAt[x]
    BY <1>1, <1>4, <1>5 DEF DateFromPage
  <1> HIDE DEF date, x, q
  <1>7. CASE m \notin DOMAIN q.prior
    <2>1. PageRow(q, m) = [facts |-> NoFacts, deprecatedAt |-> date, deprecation |-> x]
      BY <1>7 DEF PageRow, date, x
    <2> QED
      BY <1>1, <1>2, <1>6, <1>7, <2>1 DEF Row, EntryOrNone, x, q
  <1>8. CASE m \in DOMAIN q.prior
    <2>1. PageRow(q, m) = [rows[m] EXCEPT !.deprecation = x,
                               !.deprecatedAt = IF x = NoEntry THEN @ ELSE date]
      BY <1>8 DEF PageRow, date, x
    <2> QED
      BY <1>1, <1>3, <1>6, <1>8, <2>1 DEF Row, EntryOrNone, x, q
  <1> QED
    BY <1>7, <1>8

LEMMA PutRowTyped ==
  ASSUME TypeInv, NEW m \in Models, NEW row \in Row, PutRow(m, row)
  PROVE  /\ rows' \in RowMaps
         /\ DOMAIN rows' = DOMAIN rows \cup {m}
         /\ rows'[m] = row
         /\ \A x \in DOMAIN rows \ {m} : rows'[x] = rows[x]
  <1>1. rows' = [x \in DOMAIN rows \cup {m} |-> IF x = m THEN row ELSE rows[x]]
    BY DEF PutRow
  <1>2. DOMAIN rows \subseteq Models /\ \A x \in DOMAIN rows : rows[x] \in Row
    BY RowMapIs DEF TypeInv
  <1>3. rows' \in [DOMAIN rows \cup {m} -> Row] /\ DOMAIN rows \cup {m} \in SUBSET Models
    BY <1>1, <1>2
  <1>4. rows' \in RowMaps
    BY <1>3 DEF RowMaps
  <1> QED
    BY <1>1, <1>4

-----------------------------------------------------------------------------
(* What each step of a poll does to its locals and to the rows.            *)

(* A poll's step leaves the others' locals, ...                             *)
Alike(p) == /\ poll' \in [Pollers -> Locals]
              /\ \A o \in Pollers \ {p} : poll'[o] = poll[o]

(* ... and what it has fetched itself.                                      *)
Fetched(p) == /\ poll'[p].listing = poll[p].listing /\ poll'[p].hasPage = poll[p].hasPage
              /\ poll'[p].page = poll[p].page /\ poll'[p].at = poll[p].at
              /\ poll'[p].alone = poll[p].alone

LEMMA OneMoves ==
  ASSUME TypeInv, NEW p \in Pollers, NEW q \in Locals, poll' = [poll EXCEPT ![p] = q]
  PROVE  Alike(p) /\ poll'[p] = q
  BY DEF TypeInv, Alike

LEMMA InsertIs ==
  ASSUME TypeInv, NEW p \in Pollers, NEW m \in Models, InsertModel(p, m)
  PROVE  /\ poll[p].pc = "walk" /\ m \in poll[p].todo /\ m \notin DOMAIN poll[p].prior
         /\ m \notin DOMAIN rows /\ m \in DOMAIN poll[p].listing
         /\ poll'[p].pc = "tell" /\ poll'[p].todo = poll[p].todo
         /\ poll'[p].about = {m} /\ poll'[p].event = "model.added"
         /\ poll'[p].prior = poll[p].prior
         /\ DOMAIN rows' = DOMAIN rows \cup {m}
         /\ rows'[m].facts = poll[p].listing[m].facts
         /\ rows'[m].deprecatedAt = IF Deprecated(poll[p], m) THEN poll[p].at ELSE 0
         /\ rows'[m].deprecation = NoEntry
         /\ \A x \in DOMAIN rows \ {m} : rows'[x] = rows[x]
         /\ rows' \in RowMaps /\ feed' = feed /\ polled' = {}
         /\ Alike(p) /\ Fetched(p) /\ UNCHANGED <<polls, crashes, overlapped>>
  <1> DEFINE q == poll[p]
             row == NewRow(q, m)
             s == [q EXCEPT !.pc = "tell", !.about = {m}, !.event = "model.added"]
  <1>1. /\ q.pc = "walk" /\ m \in q.todo /\ m \notin DOMAIN q.prior /\ m \notin DOMAIN rows
        /\ PutRow(m, row) /\ poll' = [poll EXCEPT ![p] = s]
        /\ feed' = feed /\ polled' = {} /\ UNCHANGED <<polls, crashes, overlapped>>
    BY DEF InsertModel
  <1>2. q \in Locals /\ q.at \in Nat /\ q.listing \in Listings
    BY PollIs
  <1>3. m \in DOMAIN q.listing
    BY <1>1, PollIs DEF Shape, Listing
  <1>4. row \in Row
    <2>1. q.listing[m].facts \in Facts
      BY <1>2, <1>3, ListingIs
    <2> QED
      BY <1>2, <2>1 DEF Row, NewRow
  <1>5. /\ row.facts = q.listing[m].facts /\ row.deprecation = NoEntry
        /\ row.deprecatedAt = IF Deprecated(q, m) THEN q.at ELSE 0
    BY DEF NewRow
  <1>6. /\ s \in Locals /\ s.pc = "tell" /\ s.about = {m} /\ s.event = "model.added"
        /\ s.todo = q.todo /\ s.prior = q.prior /\ s.listing = q.listing
        /\ s.hasPage = q.hasPage /\ s.page = q.page /\ s.at = q.at /\ s.alone = q.alone
    BY <1>2 DEF Locals, EventTypes
  <1> HIDE DEF row, s
  <1>7. Alike(p) /\ poll'[p] = s
    BY <1>1, <1>6, OneMoves
  <1>8. /\ rows' \in RowMaps /\ DOMAIN rows' = DOMAIN rows \cup {m} /\ rows'[m] = row
        /\ \A x \in DOMAIN rows \ {m} : rows'[x] = rows[x]
    BY <1>1, <1>4, PutRowTyped
  <1> QED
    BY <1>1, <1>3, <1>5, <1>6, <1>7, <1>8 DEF Fetched

LEMMA UpdateIs ==
  ASSUME TypeInv, NEW p \in Pollers, NEW m \in Models, UpdateModel(p, m)
  PROVE  /\ poll[p].pc = "walk" /\ m \in poll[p].todo /\ m \in DOMAIN poll[p].prior
         /\ m \in DOMAIN poll[p].listing
         /\ poll'[p].pc = "tell" /\ poll'[p].todo = poll[p].todo
         /\ poll'[p].about = {m} /\ poll'[p].event = "model.updated"
         /\ poll'[p].prior = poll[p].prior
         /\ m \in DOMAIN rows /\ DOMAIN rows' = DOMAIN rows
         /\ rows'[m].facts = poll[p].listing[m].facts
         /\ rows'[m].deprecatedAt = DateAfter(poll[p], m)
         /\ rows'[m].deprecation = rows[m].deprecation
         /\ \A x \in DOMAIN rows \ {m} : rows'[x] = rows[x]
         /\ rows' \in RowMaps /\ feed' = feed /\ polled' = {}
         /\ Alike(p) /\ Fetched(p) /\ UNCHANGED <<polls, crashes, overlapped>>
  <1> DEFINE q == poll[p]
             row == [rows[m] EXCEPT !.facts = q.listing[m].facts,
                                    !.deprecatedAt = DateAfter(q, m)]
             s == [q EXCEPT !.pc = "tell", !.about = {m}, !.event = "model.updated"]
  <1>1. /\ q.pc = "walk" /\ m \in q.todo /\ m \in DOMAIN q.prior
        /\ PutRow(m, row) /\ poll' = [poll EXCEPT ![p] = s]
        /\ feed' = feed /\ polled' = {} /\ UNCHANGED <<polls, crashes, overlapped>>
    BY DEF UpdateModel
  <1>2. q \in Locals /\ q.at \in Nat /\ q.listing \in Listings /\ q.prior \in RowMaps
    BY PollIs
  <1>3. m \in DOMAIN q.listing /\ m \in DOMAIN rows /\ rows[m] \in Row
    BY <1>1, PollIs, RowMapIs DEF Shape, Listing, Reads, TypeInv
  <1>4. q.listing[m].facts \in Facts
    BY <1>2, <1>3, ListingIs
  <1>5. DateAfter(q, m) \in Nat
    <2>1. q.prior[m].deprecatedAt \in Nat
      BY <1>1, <1>2, RowMapIs
    <2> QED
      BY <1>2, <2>1 DEF DateAfter
  <1>6. /\ row \in Row /\ row.facts = q.listing[m].facts
        /\ row.deprecatedAt = DateAfter(q, m) /\ row.deprecation = rows[m].deprecation
    BY <1>3, <1>4, <1>5 DEF Row
  <1>7. /\ s \in Locals /\ s.pc = "tell" /\ s.about = {m} /\ s.event = "model.updated"
        /\ s.todo = q.todo /\ s.prior = q.prior /\ s.listing = q.listing
        /\ s.hasPage = q.hasPage /\ s.page = q.page /\ s.at = q.at /\ s.alone = q.alone
    BY <1>2 DEF Locals, EventTypes
  <1> HIDE DEF row, s
  <1>8. Alike(p) /\ poll'[p] = s
    BY <1>1, <1>7, OneMoves
  <1>9. /\ rows' \in RowMaps /\ DOMAIN rows' = DOMAIN rows \cup {m} /\ rows'[m] = row
        /\ \A x \in DOMAIN rows \ {m} : rows'[x] = rows[x]
    BY <1>1, <1>6, PutRowTyped
  <1> QED
    BY <1>1, <1>3, <1>6, <1>7, <1>8, <1>9 DEF Fetched

LEMMA RemoveIs ==
  ASSUME TypeInv, NEW p \in Pollers, NEW m \in Models, RemoveModel(p, m)
  PROVE  /\ poll[p].pc = "missing" /\ m \in poll[p].todo /\ m \in DOMAIN poll[p].prior
         /\ poll'[p].pc = "tell" /\ poll'[p].todo = poll[p].todo
         /\ poll'[p].about = {m} /\ poll'[p].event = "model.removed"
         /\ poll'[p].prior = poll[p].prior
         /\ m \in DOMAIN rows /\ DOMAIN rows' = DOMAIN rows
         /\ rows'[m].deprecatedAt = poll[p].at
         /\ rows'[m].deprecation = rows[m].deprecation
         /\ \A x \in DOMAIN rows \ {m} : rows'[x] = rows[x]
         /\ rows' \in RowMaps /\ feed' = feed /\ polled' = {}
         /\ Alike(p) /\ Fetched(p) /\ UNCHANGED <<polls, crashes, overlapped>>
  <1> DEFINE q == poll[p]
             row == [rows[m] EXCEPT !.deprecatedAt = q.at]
             s == [q EXCEPT !.pc = "tell", !.about = {m}, !.event = "model.removed"]
  <1>1. /\ q.pc = "missing" /\ m \in q.todo
        /\ PutRow(m, row) /\ poll' = [poll EXCEPT ![p] = s]
        /\ feed' = feed /\ polled' = {} /\ UNCHANGED <<polls, crashes, overlapped>>
    BY DEF RemoveModel
  <1>2. q \in Locals /\ q.at \in Nat
    BY PollIs
  <1>3. m \in DOMAIN q.prior /\ m \in DOMAIN rows /\ rows[m] \in Row
    BY <1>1, PollIs, RowMapIs DEF Shape, Missing, Reads, TypeInv
  <1>4. row \in Row /\ row.deprecatedAt = q.at /\ row.deprecation = rows[m].deprecation
    BY <1>2, <1>3 DEF Row
  <1>5. /\ s \in Locals /\ s.pc = "tell" /\ s.about = {m} /\ s.event = "model.removed"
        /\ s.todo = q.todo /\ s.prior = q.prior /\ s.listing = q.listing
        /\ s.hasPage = q.hasPage /\ s.page = q.page /\ s.at = q.at /\ s.alone = q.alone
    BY <1>2 DEF Locals, EventTypes
  <1> HIDE DEF row, s
  <1>6. Alike(p) /\ poll'[p] = s
    BY <1>1, <1>5, OneMoves
  <1>7. /\ rows' \in RowMaps /\ DOMAIN rows' = DOMAIN rows \cup {m} /\ rows'[m] = row
        /\ \A x \in DOMAIN rows \ {m} : rows'[x] = rows[x]
    BY <1>1, <1>4, PutRowTyped
  <1> QED
    BY <1>1, <1>3, <1>4, <1>5, <1>6, <1>7 DEF Fetched

LEMMA KeepIs ==
  ASSUME TypeInv, NEW p \in Pollers, NEW m \in Models, KeepModel(p, m)
  PROVE  /\ poll[p].pc = "walk" /\ m \in poll[p].todo /\ m \in DOMAIN poll[p].prior
         /\ ~ Dirty(poll[p], m)
         /\ poll'[p].pc = "walk" /\ poll'[p].todo = poll[p].todo \ {m}
         /\ poll'[p].about = poll[p].about /\ poll'[p].prior = poll[p].prior
         /\ Alike(p) /\ Fetched(p)
         /\ UNCHANGED <<rows, feed, polls, crashes, overlapped, polled>>
  <1> DEFINE q == poll[p]
             s == [q EXCEPT !.todo = poll[p].todo \ {m}]
  <1>1. q \in Locals
    BY PollIs
  <1>2. /\ s \in Locals /\ s.pc = q.pc /\ s.todo = q.todo \ {m} /\ s.about = q.about
        /\ s.prior = q.prior /\ s.listing = q.listing
        /\ s.hasPage = q.hasPage /\ s.page = q.page /\ s.at = q.at /\ s.alone = q.alone
    BY <1>1 DEF Locals
  <1>3. /\ q.pc = "walk" /\ m \in q.todo /\ m \in DOMAIN q.prior /\ ~ Dirty(q, m)
        /\ poll' = [poll EXCEPT ![p] = s]
        /\ UNCHANGED <<rows, feed, polls, crashes, overlapped, polled>>
    BY DEF KeepModel
  <1> HIDE DEF s
  <1>4. Alike(p) /\ poll'[p] = s
    BY <1>2, <1>3, OneMoves
  <1> QED
    BY <1>2, <1>3, <1>4 DEF Fetched

LEMMA WalkDoneIs ==
  ASSUME TypeInv, NEW p \in Pollers, WalkDone(p)
  PROVE  /\ poll[p].pc = "walk" /\ poll[p].todo = {} /\ poll'[p].pc = "missing"
         /\ poll'[p].about = poll[p].about /\ poll'[p].prior = poll[p].prior
         /\ poll'[p].todo = {m \in DOMAIN poll[p].prior \ DOMAIN poll[p].listing :
                                poll[p].prior[m].deprecatedAt = 0}
         /\ Alike(p) /\ Fetched(p)
         /\ UNCHANGED <<rows, feed, polls, crashes, overlapped, polled>>
  <1> DEFINE q == poll[p]
             T == {m \in DOMAIN q.prior \ DOMAIN q.listing : q.prior[m].deprecatedAt = 0}
             s == [q EXCEPT !.pc = "missing", !.todo = T]
  <1>1. q \in Locals /\ DOMAIN q.prior \subseteq Models
    BY PollIs, RowMapIs
  <1>2. T \in SUBSET Models
    BY <1>1
  <1>3. /\ q.pc = "walk" /\ q.todo = {} /\ poll' = [poll EXCEPT ![p] = s]
        /\ UNCHANGED <<rows, feed, polls, crashes, overlapped, polled>>
    BY DEF WalkDone
  <1> HIDE DEF T
  <1>4. /\ s \in Locals /\ s.pc = "missing" /\ s.todo = T /\ s.about = q.about
        /\ s.prior = q.prior /\ s.listing = q.listing
        /\ s.hasPage = q.hasPage /\ s.page = q.page /\ s.at = q.at /\ s.alone = q.alone
    BY <1>1, <1>2 DEF Locals
  <1> HIDE DEF s
  <1>5. Alike(p) /\ poll'[p] = s
    BY <1>3, <1>4, OneMoves
  <1> QED
    BY <1>3, <1>4, <1>5 DEF Fetched, T

LEMMA ReadDeprecationsIs ==
  ASSUME TypeInv, NEW p \in Pollers, ReadDeprecations(p)
  PROVE  /\ poll[p].pc = "missing" /\ poll[p].todo = {} /\ poll[p].hasPage
         /\ poll'[p].pc = "page" /\ poll'[p].about = poll[p].about /\ poll'[p].prior = rows
         /\ poll'[p].todo = {m \in DOMAIN rows \cup DOMAIN poll[p].page :
                                StoredEntry(m) # Named(poll[p], m)}
         /\ Alike(p) /\ Fetched(p)
         /\ UNCHANGED <<rows, feed, polls, crashes, overlapped, polled>>
  <1> DEFINE q == poll[p]
             T == {m \in DOMAIN rows \cup DOMAIN q.page : StoredEntry(m) # Named(q, m)}
             s == [q EXCEPT !.pc = "page", !.prior = rows, !.todo = T]
  <1>1. /\ q \in Locals /\ rows \in RowMaps /\ DOMAIN rows \subseteq Models
        /\ DOMAIN q.page \subseteq Models
    BY PollIs, RowMapIs, PageIs DEF TypeInv
  <1>2. T \in SUBSET Models
    BY <1>1
  <1>3. /\ q.pc = "missing" /\ q.todo = {} /\ q.hasPage /\ poll' = [poll EXCEPT ![p] = s]
        /\ UNCHANGED <<rows, feed, polls, crashes, overlapped, polled>>
    BY DEF ReadDeprecations
  <1> HIDE DEF T
  <1>4. /\ s \in Locals /\ s.pc = "page" /\ s.todo = T /\ s.about = q.about
        /\ s.prior = rows /\ s.listing = q.listing
        /\ s.hasPage = q.hasPage /\ s.page = q.page /\ s.at = q.at /\ s.alone = q.alone
    BY <1>1, <1>2 DEF Locals
  <1> HIDE DEF s
  <1>5. Alike(p) /\ poll'[p] = s
    BY <1>3, <1>4, OneMoves
  <1> QED
    BY <1>3, <1>4, <1>5 DEF Fetched, T

(* The change that goes with an applied entry.                              *)
Applied(q, m) == Event("model.deprecated", Was(q, m), Named(q, m), q.alone)

LEMMA ApplyIs ==
  ASSUME TypeInv, NEW p \in Pollers, ApplyDeprecations(p)
  PROVE  \E slice \in SUBSET poll[p].todo :
            /\ poll[p].pc = "page" /\ poll'[p].pc = "page"
            /\ \A m \in slice : m \in DOMAIN poll[p].prior \/ m \notin DOMAIN rows
            /\ poll'[p].todo = poll[p].todo \ slice /\ poll'[p].about = poll[p].about
            /\ poll'[p].prior = poll[p].prior
            /\ DOMAIN rows' = DOMAIN rows \cup slice
            /\ \A m \in slice : rows'[m] = PageRow(poll[p], m)
            /\ \A m \in DOMAIN rows \ slice : rows'[m] = rows[m]
            /\ feed' = [m \in Models |-> IF m \in slice
                    THEN Append(feed[m], Applied(poll[p], m)) ELSE feed[m]]
            /\ rows' \in RowMaps /\ polled' = {}
            /\ Alike(p) /\ Fetched(p) /\ UNCHANGED <<polls, crashes, overlapped>>
  <1> DEFINE q == poll[p]
  <1>1. PICK slice \in SUBSET (q.todo \ Clashes(q)) :
            /\ rows' = [m \in DOMAIN rows \cup slice |->
                            IF m \in slice THEN PageRow(q, m) ELSE rows[m]]
            /\ feed' = [m \in Models |-> IF m \in slice
                    THEN Append(feed[m], Event("model.deprecated", Was(q, m),
                                               Named(q, m), q.alone))
                    ELSE feed[m]]
            /\ poll' = [poll EXCEPT ![p] = [@ EXCEPT !.todo = poll[p].todo \ slice]]
    BY DEF ApplyDeprecations
  <1> DEFINE s == [q EXCEPT !.todo = poll[p].todo \ slice]
  <1>2. q.pc = "page" /\ polled' = {} /\ UNCHANGED <<polls, crashes, overlapped>>
    BY DEF ApplyDeprecations
  <1>3. q \in Locals /\ slice \subseteq q.todo /\ q.todo \subseteq Models
    BY PollIs
  <1>4. /\ s \in Locals /\ s.pc = q.pc /\ s.todo = q.todo \ slice /\ s.about = q.about
        /\ s.prior = q.prior /\ s.listing = q.listing
        /\ s.hasPage = q.hasPage /\ s.page = q.page /\ s.at = q.at /\ s.alone = q.alone
    BY <1>3 DEF Locals
  <1>5. poll' = [poll EXCEPT ![p] = s]
    BY <1>1
  <1> HIDE DEF s
  <1>6. Alike(p) /\ poll'[p] = s
    BY <1>4, <1>5, OneMoves
  <1>7. DOMAIN rows \subseteq Models /\ \A m \in DOMAIN rows : rows[m] \in Row
    BY RowMapIs DEF TypeInv
  <1>8. \A m \in slice : PageRow(q, m) \in Row
    BY <1>2, <1>3, PageRowIs
  <1>9. rows' \in [DOMAIN rows \cup slice -> Row] /\ DOMAIN rows \cup slice \in SUBSET Models
    BY <1>1, <1>3, <1>7, <1>8
  <1>10. rows' \in RowMaps
    BY <1>9 DEF RowMaps
  <1>11. /\ DOMAIN rows' = DOMAIN rows \cup slice
         /\ \A m \in slice : rows'[m] = PageRow(q, m)
         /\ \A m \in DOMAIN rows \ slice : rows'[m] = rows[m]
    BY <1>1
  <1>12. \A m \in slice : m \in DOMAIN q.prior \/ m \notin DOMAIN rows
    BY <1>3 DEF Clashes
  <1>13. feed' = [m \in Models |-> IF m \in slice
                     THEN Append(feed[m], Applied(q, m)) ELSE feed[m]]
    BY <1>1 DEF Applied
  <1> QED
    BY <1>2, <1>3, <1>4, <1>6, <1>10, <1>11, <1>12, <1>13 DEF Fetched

LEMMA TellIs ==
  ASSUME TypeInv, NEW p \in Pollers, Tell(p)
  PROVE  \E m \in poll[p].todo :
            /\ poll[p].pc = "tell" /\ poll[p].about = {m}
            /\ poll[p].event \in {"model.added", "model.updated", "model.removed"}
            /\ feed' = [feed EXCEPT ![m] = Append(@, Plain(poll[p].event))]
            /\ poll'[p].pc = IF poll[p].event = "model.removed" THEN "missing" ELSE "walk"
            /\ poll'[p].todo = poll[p].todo \ {m} /\ poll'[p].about = {}
            /\ poll'[p].prior = poll[p].prior
            /\ rows' = rows /\ polled' = {}
            /\ Alike(p) /\ Fetched(p) /\ UNCHANGED <<polls, crashes, overlapped>>
  <1> DEFINE q == poll[p]
             pc == IF q.event = "model.removed" THEN "missing" ELSE "walk"
  <1>1. PICK m \in q.about :
            /\ feed' = [feed EXCEPT ![m] = Append(@, Plain(q.event))]
            /\ poll' = [poll EXCEPT ![p] = [@ EXCEPT
                    !.pc = IF q.event = "model.removed" THEN "missing" ELSE "walk",
                    !.about = {}, !.event = "none", !.todo = poll[p].todo \ {m}]]
    BY DEF Tell
  <1> DEFINE s == [q EXCEPT !.pc = pc, !.about = {}, !.event = "none", !.todo = poll[p].todo \ {m}]
  <1>2. /\ q.pc = "tell" /\ rows' = rows /\ polled' = {}
        /\ UNCHANGED <<polls, crashes, overlapped>>
    BY DEF Tell
  <1>3. /\ m \in q.todo /\ q.about = {m}
        /\ q.event \in {"model.added", "model.updated", "model.removed"}
    BY <1>2, PollIs DEF Shape
  <1>4. poll' = [poll EXCEPT ![p] = s]
    BY <1>1
  <1>5. q \in Locals /\ pc \in {"missing", "walk"}
    BY PollIs
  <1> HIDE DEF pc
  <1>6. /\ s \in Locals /\ s.pc = pc /\ s.todo = q.todo \ {m} /\ s.about = {}
        /\ s.prior = q.prior /\ s.listing = q.listing
        /\ s.hasPage = q.hasPage /\ s.page = q.page /\ s.at = q.at /\ s.alone = q.alone
    BY <1>5 DEF Locals
  <1> HIDE DEF s
  <1>7. Alike(p) /\ poll'[p] = s
    BY <1>4, <1>6, OneMoves
  <1> QED
    BY <1>1, <1>2, <1>3, <1>6, <1>7 DEF Fetched, pc

LEMMA StartIs ==
  ASSUME TypeInv, NEW p \in Pollers, StartPoll(p)
  PROVE  /\ poll[p].pc = "idle" /\ poll'[p].pc = "walk" /\ poll'[p].prior = rows
         /\ poll'[p].hasPage \/ DOMAIN poll'[p].page = {}
         /\ poll'[p].todo = DOMAIN poll'[p].listing /\ poll'[p].about = {}
         /\ poll'[p].at = polls + 1
         /\ poll'[p].alone <=> Others(p) = {}
         /\ poll' \in [Pollers -> Locals]
         /\ \A o \in Pollers \ {p} :
                /\ poll'[o] = [poll[o] EXCEPT !.alone = poll'[o].alone]
                /\ poll'[o].alone <=> poll[o].alone /\ o \notin Others(p)
         /\ polls' = polls + 1 /\ polls < MaxPolls
         /\ overlapped' <=> overlapped \/ Others(p) # {}
         /\ overlapped' \in BOOLEAN
         /\ UNCHANGED <<rows, feed, crashes, polled>>
  <1>1. PICK listing \in Listings, hasPage \in BOOLEAN, page \in Pages :
            /\ hasPage \/ page = EmptyMap
            /\ poll' = [o \in Pollers |->
                  IF o = p
                  THEN [NoPoll EXCEPT !.pc = "walk", !.listing = listing,
                          !.hasPage = hasPage, !.page = page, !.prior = rows,
                          !.todo = DOMAIN listing, !.at = polls + 1,
                          !.alone = Others(p) = {}]
                  ELSE [poll[o] EXCEPT !.alone = @ /\ o \notin Others(p)]]
    BY DEF StartPoll
  <1> DEFINE clear == Others(p) = {}
             s == [pc |-> "walk", listing |-> listing, hasPage |-> hasPage, page |-> page,
                   prior |-> rows, todo |-> DOMAIN listing, about |-> {}, event |-> "none",
                   at |-> polls + 1, alone |-> clear]
  <1>2. /\ poll[p].pc = "idle" /\ polls < MaxPolls /\ polls' = polls + 1
        /\ overlapped' = (overlapped \/ Others(p) # {})
        /\ UNCHANGED <<rows, feed, crashes, polled>>
    BY DEF StartPoll
  <1>3. poll'[p] = s
    BY <1>1 DEF NoPoll
  <1>4. s \in Locals
    <2>1. DOMAIN listing \subseteq Models
      BY ListingIs
    <2>2. polls + 1 \in Nat /\ rows \in RowMaps /\ clear \in BOOLEAN
      BY DEF TypeInv
    <2> HIDE DEF clear
    <2> QED
      BY <2>1, <2>2 DEF Locals
  <1>5. /\ s.pc = "walk" /\ s.prior = rows /\ s.listing = listing
        /\ s.hasPage = hasPage /\ s.page = page /\ s.at = polls + 1
        /\ s.todo = DOMAIN listing /\ s.about = {} /\ s.alone = clear
    OBVIOUS
  <1>6. hasPage \/ DOMAIN page = {}
    BY <1>1, EmptyMapIs
  <1>7. ASSUME NEW o \in Pollers \ {p}
        PROVE  /\ poll'[o] \in Locals
               /\ poll'[o] = [poll[o] EXCEPT !.alone = poll'[o].alone]
               /\ poll'[o].alone <=> poll[o].alone /\ o \notin Others(p)
    <2> DEFINE b == poll[o].alone /\ o \notin Others(p)
    <2>1. poll'[o] = [poll[o] EXCEPT !.alone = b]
      BY <1>1
    <2>2. poll[o] \in Locals /\ b \in BOOLEAN
      BY PollIs
    <2> HIDE DEF b
    <2>3. /\ [poll[o] EXCEPT !.alone = b] \in Locals
          /\ [poll[o] EXCEPT !.alone = b].alone = b
      BY <2>2 DEF Locals
    <2> QED
      BY <2>1, <2>3 DEF b
  <1> HIDE DEF s
  <1>8. poll' \in [Pollers -> Locals]
    BY <1>1, <1>3, <1>4, <1>7
  <1>9. overlapped' \in BOOLEAN /\ (overlapped' <=> overlapped \/ Others(p) # {})
    BY <1>2 DEF TypeInv
  <1> QED
    BY <1>2, <1>3, <1>5, <1>6, <1>7, <1>8, <1>9

LEMMA EndIs ==
  ASSUME TypeInv, NEW p \in Pollers, PollEnds(p)
  PROVE  /\ poll[p].pc # "tell" \/ CrashPoll(p)
         /\ poll[p].pc # "idle"
         /\ poll'[p] = NoPoll /\ Alike(p)
         /\ UNCHANGED <<rows, feed, polls, overlapped>>
         /\ crashes' = crashes \/ (crashes' = crashes + 1 /\ crashes < MaxCrashes)
         /\ crashes' = crashes \/ CrashPoll(p)
  <1>1. poll' = [poll EXCEPT ![p] = NoPoll]
    BY DEF PollEnds, FailInsert, FinishPoll, CrashPoll
  <1>2. Alike(p) /\ poll'[p] = NoPoll
    BY <1>1, NoPollIs, OneMoves
  <1> QED
    BY <1>2 DEF PollEnds, FailInsert, FinishPoll, CrashPoll

(* A poll keeps what it has fetched, goes on, and no row goes.              *)
LEMMA PollContinues ==
  ASSUME TypeInv, NEW p \in Pollers, PollMoves(p)
  PROVE  /\ Fetched(p) /\ Alike(p)
         /\ polls' = polls /\ crashes' = crashes /\ overlapped' = overlapped
         /\ poll[p].pc # "idle" /\ poll'[p].pc # "idle"
         /\ DOMAIN rows \subseteq DOMAIN rows' /\ rows' \in RowMaps
         /\ poll'[p].prior = poll[p].prior \/ poll'[p].prior = rows
  <1>1. ASSUME NEW m \in Models, InsertModel(p, m) \/ UpdateModel(p, m)
                                  \/ KeepModel(p, m) \/ RemoveModel(p, m)
        PROVE  /\ Fetched(p) /\ Alike(p)
               /\ polls' = polls /\ crashes' = crashes /\ overlapped' = overlapped
               /\ poll[p].pc # "idle" /\ poll'[p].pc # "idle"
               /\ DOMAIN rows \subseteq DOMAIN rows' /\ rows' \in RowMaps
               /\ poll'[p].prior = poll[p].prior \/ poll'[p].prior = rows
    BY <1>1, InsertIs, UpdateIs, KeepIs, RemoveIs DEF TypeInv
  <1>2. CASE WalkDone(p) \/ ReadDeprecations(p)
    BY <1>2, WalkDoneIs, ReadDeprecationsIs DEF TypeInv
  <1>3. CASE Tell(p)
    BY <1>3, TellIs DEF TypeInv
  <1>4. CASE ApplyDeprecations(p)
    BY <1>4, ApplyIs DEF TypeInv
  <1> QED
    BY <1>1, <1>2, <1>3, <1>4 DEF PollMoves

(* The feed: one change more at the end of a model's history.               *)
LEMMA FeedGrows ==
  ASSUME NEW h \in Seq(Events), NEW e \in Events
  PROVE  /\ Append(h, e) \in Seq(Events)
         /\ Len(h) \in Nat /\ DOMAIN h = 1..Len(h)
         /\ DOMAIN Append(h, e) = DOMAIN h \cup {Len(h) + 1}
         /\ Append(h, e)[Len(h) + 1] = e
         /\ \A i \in DOMAIN h : /\ Append(h, e)[i] = h[i]
                                /\ i \in Nat /\ 1 <= i /\ i < Len(h) + 1
         /\ h = <<>> <=> Len(h) = 0
  <1>1. Len(h) \in Nat /\ DOMAIN h = 1..Len(h) /\ (h = <<>> <=> Len(h) = 0)
    OBVIOUS
  <1>2. Append(h, e) \in Seq(Events) /\ Len(Append(h, e)) = Len(h) + 1
    OBVIOUS
  <1>3. DOMAIN Append(h, e) = 1..(Len(h) + 1)
    BY <1>2
  <1>4. 1..(Len(h) + 1) = 1..Len(h) \cup {Len(h) + 1}
    BY <1>1
  <1>5. Append(h, e)[Len(h) + 1] = e /\ \A i \in 1..Len(h) : Append(h, e)[i] = h[i]
    BY <1>1
  <1> QED
    BY <1>1, <1>2, <1>3, <1>4, <1>5

LEMMA PlainIs ==
  ASSUME NEW type \in EventTypes
  PROVE  /\ Plain(type) \in Events /\ Plain(type).type = type
         /\ Plain(type).before = NoEntry /\ Plain(type).after = NoEntry
  BY DEF Plain, Event, Events, EntryOrNone

LEMMA AppliedIs ==
  ASSUME TypeInv, NEW p \in Pollers, NEW m
  PROVE  LET e == Applied(poll[p], m)
         IN  /\ e \in Events /\ e.type = "model.deprecated" /\ e.alone = poll[p].alone
             /\ e.before = Was(poll[p], m) /\ e.after = Named(poll[p], m)
  <1>1. Was(poll[p], m) \in EntryOrNone /\ Named(poll[p], m) \in EntryOrNone
        /\ poll[p].alone \in BOOLEAN
    BY EntriesTyped, PollIs
  <1> QED
    BY <1>1 DEF Applied, Event, Events, EventTypes

-----------------------------------------------------------------------------
(* Type correctness.                                                       *)

LEMMA ShapeMoves ==
  ASSUME TypeInv, NEW p \in Pollers, PollMoves(p)
  PROVE  Shape(poll'[p]) /\ Reads(poll[p])'
  <1>1. /\ Fetched(p) /\ poll[p].pc # "idle" /\ Shape(poll[p]) /\ Reads(poll[p])
        /\ DOMAIN rows \subseteq DOMAIN rows'
        /\ poll'[p].prior = poll[p].prior \/ poll'[p].prior = rows
    BY PollContinues, PollIs
  <1>2. ASSUME NEW m \in Models, InsertModel(p, m)
        PROVE  Shape(poll'[p]) /\ Reads(poll[p])'
    <2>1. /\ poll'[p].pc = "tell" /\ poll'[p].todo = poll[p].todo /\ m \in poll[p].todo
          /\ poll'[p].about = {m} /\ poll'[p].event = "model.added" /\ poll[p].pc = "walk"
          /\ poll'[p].prior = poll[p].prior /\ DOMAIN rows' = DOMAIN rows \cup {m}
      BY <1>2, InsertIs
    <2>2. Shape(poll'[p])
      BY <1>1, <2>1 DEF Shape, Listing, Missing, Fetched
    <2>3. Reads(poll[p])'
      BY <1>1, <2>1 DEF Reads
    <2> QED
      BY <2>2, <2>3
  <1>3. ASSUME NEW m \in Models, UpdateModel(p, m)
        PROVE  Shape(poll'[p]) /\ Reads(poll[p])'
    BY <1>1, <1>3, UpdateIs DEF Shape, Reads, Listing, Missing, Fetched
  <1>4. ASSUME NEW m \in Models, KeepModel(p, m)
        PROVE  Shape(poll'[p]) /\ Reads(poll[p])'
    BY <1>1, <1>4, KeepIs DEF Shape, Reads, Listing, Missing, Fetched
  <1>5. ASSUME NEW m \in Models, RemoveModel(p, m)
        PROVE  Shape(poll'[p]) /\ Reads(poll[p])'
    BY <1>1, <1>5, RemoveIs DEF Shape, Reads, Listing, Missing, Fetched
  <1>6. CASE WalkDone(p)
    BY <1>1, <1>6, WalkDoneIs DEF Shape, Reads, Listing, Missing, Fetched
  <1>7. CASE Tell(p)
    BY <1>1, <1>7, TellIs DEF Shape, Reads, Listing, Missing, Fetched
  <1>8. CASE ReadDeprecations(p)
    <2>1. /\ poll[p].hasPage /\ poll'[p].pc = "page" /\ poll'[p].about = poll[p].about
          /\ poll[p].pc = "missing" /\ poll'[p].prior = rows /\ rows' = rows
          /\ poll'[p].todo = {m \in DOMAIN rows \cup DOMAIN poll[p].page :
                                StoredEntry(m) # Named(poll[p], m)}
      BY <1>8, ReadDeprecationsIs
    <2>2. \A m : /\ Was(poll'[p], m) = StoredEntry(m)
                 /\ Named(poll'[p], m) = Named(poll[p], m)
      BY <1>1, <2>1 DEF Was, StoredEntry, Named, Fetched
    <2> QED
      BY <1>1, <2>1, <2>2 DEF Shape, Reads, Listing, Missing, Fetched
  <1>9. CASE ApplyDeprecations(p)
    <2>1. /\ poll[p].pc = "page" /\ poll'[p].pc = "page"
          /\ poll'[p].todo \subseteq poll[p].todo /\ poll'[p].about = poll[p].about
          /\ poll'[p].prior = poll[p].prior
      BY <1>9, ApplyIs
    <2>2. \A m : /\ Was(poll'[p], m) = Was(poll[p], m)
                 /\ Named(poll'[p], m) = Named(poll[p], m)
      BY <1>1, <2>1 DEF Was, Named, Fetched
    <2> QED
      BY <1>1, <2>1, <2>2 DEF Shape, Reads, Listing, Missing, Fetched
  <1> QED
    BY <1>2, <1>3, <1>4, <1>5, <1>6, <1>7, <1>8, <1>9 DEF PollMoves

LEMMA FeedTyped ==
  ASSUME TypeInv, [PollNext]_vars
  PROVE  feed' \in [Models -> Seq(Events)]
  <1>1. feed \in [Models -> Seq(Events)]
    BY DEF TypeInv
  <1>2. ASSUME NEW p \in Pollers, Tell(p) PROVE feed' \in [Models -> Seq(Events)]
    <2>1. PICK m \in poll[p].todo :
              /\ poll[p].event \in {"model.added", "model.updated", "model.removed"}
              /\ feed' = [feed EXCEPT ![m] = Append(@, Plain(poll[p].event))]
      BY <1>2, TellIs
    <2>2. Plain(poll[p].event) \in Events /\ m \in Models
      BY <2>1, PlainIs, PollIs DEF EventTypes
    <2>3. Append(feed[m], Plain(poll[p].event)) \in Seq(Events)
      BY <1>1, <2>2, FeedGrows
    <2> QED
      BY <1>1, <2>1, <2>2, <2>3
  <1>3. ASSUME NEW p \in Pollers, ApplyDeprecations(p) PROVE feed' \in [Models -> Seq(Events)]
    <2>1. PICK slice \in SUBSET poll[p].todo :
              feed' = [m \in Models |-> IF m \in slice
                           THEN Append(feed[m], Applied(poll[p], m)) ELSE feed[m]]
      BY <1>3, ApplyIs
    <2>2. \A m \in Models : Applied(poll[p], m) \in Events
      BY AppliedIs
    <2>3. \A m \in Models : Append(feed[m], Applied(poll[p], m)) \in Seq(Events)
      BY <1>1, <2>2, FeedGrows
    <2> QED
      BY <1>1, <2>1, <2>3
  <1>4. \/ feed' = feed \/ \E p \in Pollers : Tell(p) \/ ApplyDeprecations(p)
    BY DEF PollNext, StartPoll, WalkDone, ReadDeprecations, FinishPoll, CrashPoll, FailInsert,
           InsertModel, UpdateModel, KeepModel, RemoveModel, vars
  <1> QED
    BY <1>1, <1>2, <1>3, <1>4

(* The locals of the pollers that do not move.                              *)
LEMMA OthersStay ==
  ASSUME TypeInv, NEW p \in Pollers, Alike(p), DOMAIN rows \subseteq DOMAIN rows',
         Shape(poll'[p]), Reads(poll[p])'
  PROVE  \A o \in Pollers : Shape(poll[o])' /\ Reads(poll[o])'
  <1> SUFFICES ASSUME NEW o \in Pollers, o # p PROVE Shape(poll[o])' /\ Reads(poll[o])'
    OBVIOUS
  <1>1. poll'[o] = poll[o] /\ Shape(poll[o]) /\ Reads(poll[o])
    BY PollIs DEF Alike
  <1> QED
    BY <1>1 DEF Reads

LEMMA TypeStep ==
  ASSUME TypeInv, [PollNext]_vars
  PROVE  TypeInv'
  <1>0. feed' \in [Models -> Seq(Events)]
    BY FeedTyped
  <1>1. ASSUME NEW p \in Pollers, PollMoves(p) PROVE TypeInv'
    <2>1. /\ Alike(p) /\ polls' = polls /\ crashes' = crashes /\ overlapped' = overlapped
          /\ DOMAIN rows \subseteq DOMAIN rows' /\ rows' \in RowMaps
      BY <1>1, PollContinues
    <2>2. Shape(poll'[p]) /\ Reads(poll[p])'
      BY <1>1, ShapeMoves
    <2>3. \A o \in Pollers : Shape(poll[o])' /\ Reads(poll[o])'
      BY <2>1, <2>2, OthersStay
    <2> QED
      BY <1>0, <2>1, <2>3 DEF TypeInv, Alike
  <1>2. ASSUME NEW p \in Pollers, StartPoll(p) PROVE TypeInv'
    <2>1. /\ poll'[p].pc = "walk" /\ poll'[p].prior = rows
          /\ poll'[p].todo = DOMAIN poll'[p].listing /\ poll'[p].about = {}
          /\ poll'[p].hasPage \/ DOMAIN poll'[p].page = {}
          /\ poll'[p].at = polls + 1 /\ polls' = polls + 1 /\ polls < MaxPolls
          /\ poll' \in [Pollers -> Locals] /\ UNCHANGED <<rows, feed, crashes>>
          /\ overlapped' \in BOOLEAN
      BY <1>2, StartIs
    <2>2. Shape(poll'[p]) /\ Reads(poll[p])'
      <3>1. polls + 1 # 0
        BY DEF TypeInv
      <3> QED
        BY <2>1, <3>1 DEF Shape, Reads, Listing, Missing
    <2>3. ASSUME NEW o \in Pollers, o # p PROVE Shape(poll[o])' /\ Reads(poll[o])'
      <3>1. poll'[o] = [poll[o] EXCEPT !.alone = poll'[o].alone]
        BY <1>2, <2>3, StartIs
      <3>2. poll[o] \in Locals /\ Shape(poll[o]) /\ Reads(poll[o])
        BY PollIs
      <3>3. /\ poll'[o].pc = poll[o].pc /\ poll'[o].listing = poll[o].listing
            /\ poll'[o].hasPage = poll[o].hasPage /\ poll'[o].page = poll[o].page
            /\ poll'[o].prior = poll[o].prior /\ poll'[o].todo = poll[o].todo
            /\ poll'[o].about = poll[o].about /\ poll'[o].event = poll[o].event
            /\ poll'[o].at = poll[o].at
        BY <3>1, <3>2 DEF Locals
      <3> QED
        BY <2>1, <3>2, <3>3 DEF Shape, Reads, Listing, Missing, Was, Named
    <2>4. polls' \in 0..MaxPolls
      BY <2>1, PollAssumption DEF TypeInv
    <2> QED
      BY <1>0, <2>1, <2>2, <2>3, <2>4 DEF TypeInv
  <1>3. ASSUME NEW p \in Pollers, PollEnds(p) PROVE TypeInv'
    <2>1. /\ poll'[p] = NoPoll /\ Alike(p) /\ UNCHANGED <<rows, feed, polls, overlapped>>
          /\ crashes' = crashes \/ (crashes' = crashes + 1 /\ crashes < MaxCrashes)
      BY <1>3, EndIs
    <2>2. Shape(poll'[p]) /\ Reads(poll[p])'
      BY <2>1, NoPollIs DEF Reads
    <2>3. \A o \in Pollers : Shape(poll[o])' /\ Reads(poll[o])'
      BY <2>1, <2>2, OthersStay
    <2>4. crashes' \in 0..MaxCrashes
      BY <2>1, PollAssumption DEF TypeInv
    <2> QED
      BY <1>0, <2>1, <2>3, <2>4 DEF TypeInv, Alike
  <1>4. CASE UNCHANGED vars
    BY <1>4 DEF vars, TypeInv, Reads
  <1> QED
    BY <1>1, <1>2, <1>3, <1>4, NextSplits

LEMMA TypeInit == PollInit => TypeInv
  <1> SUFFICES ASSUME PollInit PROVE TypeInv
    OBVIOUS
  <1>1. rows = EmptyMap /\ poll = [p \in Pollers |-> NoPoll] /\ polls = 0 /\ crashes = 0
        /\ feed = [m \in Models |-> <<>>] /\ overlapped = FALSE
    BY DEF PollInit
  <1>2. feed \in [Models -> Seq(Events)]
    BY <1>1
  <1>3. \A p \in Pollers : Shape(poll[p]) /\ Reads(poll[p])
    BY <1>1, NoPollIs DEF Reads
  <1>4. poll \in [Pollers -> Locals] /\ rows \in RowMaps
    BY <1>1, EmptyMapIs, NoPollIs
  <1>5. polls \in 0..MaxPolls /\ crashes \in 0..MaxCrashes
    BY <1>1, PollAssumption
  <1> QED
    BY <1>1, <1>2, <1>3, <1>4, <1>5 DEF TypeInv

(* The rows, the feed and the polls under way keep their types, for any     *)
(* listings and pages the provider serves, however polls overlap and        *)
(* wherever they are cut off.                                               *)
THEOREM PollTyped == PollSpec => []PollTypeOK
  <1>1. TypeInv => PollTypeOK
    BY RowMapIs DEF TypeInv, PollTypeOK, Locals
  <1> QED
    BY TypeInit, TypeStep, <1>1, PTL DEF PollSpec

-----------------------------------------------------------------------------
(* How far a poll that runs alone has come.                                *)

Ahead(q) == q.todo \ q.about

(* A listed row says what the listing says.                                 *)
Listed(q, m) == /\ rows[m].facts = q.listing[m].facts
                /\ rows[m].deprecatedAt = 0 <=> ~ Deprecated(q, m)

ListingInv(q) ==
    Listing(q) =>
        /\ DOMAIN rows = DOMAIN q.prior \cup (DOMAIN q.listing \ Ahead(q))
        /\ \A m \in DOMAIN q.prior :
                m \in Ahead(q) \/ m \notin DOMAIN q.listing => rows[m] = q.prior[m]
        /\ \A m \in DOMAIN q.listing \ Ahead(q) : Listed(q, m)

MissingInv(q) ==
    Missing(q) =>
        /\ q.todo \subseteq DOMAIN q.prior \ DOMAIN q.listing
        /\ DOMAIN rows = DOMAIN q.prior \cup DOMAIN q.listing
        /\ \A m \in DOMAIN q.listing : Listed(q, m)
        /\ \A m \in DOMAIN q.prior \ DOMAIN q.listing :
                rows[m].deprecatedAt = 0 <=> m \in Ahead(q)

(* Until the page is applied the entries are those the poll read.           *)
EntryInv(q) ==
    q.pc \in {"walk", "tell", "missing"} =>
        \A m \in DOMAIN rows : rows[m].deprecation = Was(q, m)

(* The entries yet to be applied are on rows as the poll read them.         *)
PageInv(q) ==
    q.pc = "page" =>
        /\ q.hasPage
        /\ q.todo = {m \in DOMAIN rows \cup DOMAIN q.page : StoredEntry(m) # Named(q, m)}
        /\ \A m \in q.todo : /\ m \in DOMAIN q.prior <=> m \in DOMAIN rows
                             /\ m \in DOMAIN rows => rows[m] = q.prior[m]
        /\ DOMAIN q.listing \subseteq DOMAIN rows
        /\ \A m \in DOMAIN rows :
            /\ m \in DOMAIN q.listing => rows[m].facts = q.listing[m].facts
            /\ rows[m].deprecatedAt = 0 <=>
                    /\ m \in DOMAIN q.listing
                    /\ ~ q.listing[m].deprecated
                    /\ Named(q, m) = NoEntry

(* A row whose entry states a date has that date, also while the poll that  *)
(* will take the entry away has not come to it.                             *)
DateStated(row) ==
    row.deprecation # NoEntry /\ StatedAt[row.deprecation] # 0 =>
        row.deprecatedAt = StatedAt[row.deprecation]

Clean == crashes = 0 /\ ~ overlapped

DateInv(q) ==
    Clean =>
        /\ q.pc # "page" => \A m \in DOMAIN q.prior : DateStated(q.prior[m])
        /\ \A m \in DOMAIN rows :
                (q.hasPage => rows[m].deprecation = Named(q, m)) => DateStated(rows[m])

Progress(q) == ListingInv(q) /\ MissingInv(q) /\ EntryInv(q) /\ PageInv(q) /\ DateInv(q)

(* A poll is alone when no other has run beside it, and as long as none has *)
(* overlapped every poll is.                                                *)
AloneInv ==
    /\ \A p \in Pollers : poll[p].alone /\ poll[p].pc # "idle" =>
            \A o \in Pollers \ {p} : poll[o].pc = "idle"
    /\ ~ overlapped => \A p \in Pollers : poll[p].alone

ProgressInv ==
    \A p \in Pollers : poll[p].alone /\ poll[p].pc # "idle" => Progress(poll[p])

AllIdle == \A p \in Pollers : poll[p].pc = "idle"

RestInv == Clean /\ AllIdle => \A m \in DOMAIN rows : DateStated(rows[m])

(* A step of the poll that reads no rows judges every model as before.      *)
LEMMA VerdictsKept ==
  ASSUME NEW p, Fetched(p), poll'[p].prior = poll[p].prior
  PROVE  \A m : /\ Named(poll'[p], m) = Named(poll[p], m)
                /\ Was(poll'[p], m) = Was(poll[p], m)
                /\ Deprecated(poll'[p], m) <=> Deprecated(poll[p], m)
                /\ m \in DOMAIN rows /\ rows'[m] = rows[m] =>
                        (Listed(poll[p], m)' <=> Listed(poll[p], m))
  <1>1. \A m : /\ Named(poll'[p], m) = Named(poll[p], m)
               /\ Was(poll'[p], m) = Was(poll[p], m)
    BY DEF Fetched, Named, Was
  <1>2. \A m : Deprecated(poll'[p], m) <=> Deprecated(poll[p], m)
    BY <1>1 DEF Fetched, Deprecated, RowDeprecation
  <1> QED
    BY <1>1, <1>2 DEF Fetched, Listed

LEMMA ProgressInsert ==
  ASSUME TypeInv, NEW p \in Pollers, Progress(poll[p]), NEW m \in Models, InsertModel(p, m)
  PROVE  Progress(poll[p])'
  <1>0. /\ PollMoves(p) /\ Fetched(p) /\ poll[p].about = {} /\ poll[p].at # 0
        /\ poll[p].at \in Nat /\ Shape(poll[p])
    BY PollContinues, PollIs DEF PollMoves, Shape, InsertModel
  <1>1. /\ poll'[p].listing = poll[p].listing /\ poll'[p].hasPage = poll[p].hasPage
        /\ poll'[p].page = poll[p].page
        /\ Clean' <=> Clean
    BY <1>0, PollContinues DEF Fetched, Clean
  <1>2. /\ poll[p].pc = "walk" /\ m \in poll[p].todo /\ m \notin DOMAIN poll[p].prior
        /\ poll'[p].pc = "tell" /\ poll'[p].todo = poll[p].todo
        /\ poll'[p].prior = poll[p].prior
        /\ poll'[p].about = {m} /\ poll'[p].event = "model.added"
        /\ DOMAIN rows' = DOMAIN rows \cup {m}
        /\ rows'[m].facts = poll[p].listing[m].facts
        /\ rows'[m].deprecatedAt = IF Deprecated(poll[p], m) THEN poll[p].at ELSE 0
        /\ rows'[m].deprecation = NoEntry
        /\ \A x \in DOMAIN rows \ {m} : rows'[x] = rows[x]
    BY InsertIs
  <1>3. /\ Ahead(poll[p]) = poll[p].todo /\ Ahead(poll'[p]) = poll[p].todo \ {m}
        /\ Listing(poll[p]) /\ Listing(poll'[p]) /\ ~ Missing(poll'[p])
    BY <1>0, <1>2 DEF Ahead, Listing, Missing
  <1>4. m \in DOMAIN poll[p].listing
    BY <1>0, <1>2, <1>3 DEF Shape
  <1>5. /\ DOMAIN rows = DOMAIN poll[p].prior \cup (DOMAIN poll[p].listing \ Ahead(poll[p]))
        /\ \A x \in DOMAIN poll[p].prior :
                x \in Ahead(poll[p]) \/ x \notin DOMAIN poll[p].listing =>
                    rows[x] = poll[p].prior[x]
        /\ \A x \in DOMAIN poll[p].listing \ Ahead(poll[p]) : Listed(poll[p], x)
    BY <1>3 DEF Progress, ListingInv
  <1>6. Listed(poll[p], m)'
    BY <1>0, <1>1, <1>2, VerdictsKept DEF Listed
  <1>7. \A x \in DOMAIN poll[p].listing \ Ahead(poll'[p]) : Listed(poll[p], x)'
    BY <1>0, <1>2, <1>3, <1>5, <1>6, VerdictsKept
  <1>8. ListingInv(poll[p])'
    BY <1>1, <1>2, <1>3, <1>4, <1>5, <1>7 DEF ListingInv
  <1>9. EntryInv(poll[p])'
    <2>1. Was(poll[p], m) = NoEntry
      BY <1>2 DEF Was
    <2>2. \A x : Was(poll'[p], x) = Was(poll[p], x)
      BY <1>2 DEF Was
    <2>3. \A x \in DOMAIN rows : rows[x].deprecation = Was(poll[p], x)
      BY <1>2 DEF Progress, EntryInv
    <2>4. \A x \in DOMAIN rows' : rows'[x].deprecation = Was(poll'[p], x)
      BY <1>2, <2>1, <2>2, <2>3
    <2> QED
      BY <2>4 DEF EntryInv
  <1>10. DateInv(poll[p])'
    BY <1>0, <1>1, <1>2, VerdictsKept DEF Progress, DateInv, DateStated
  <1> QED
    BY <1>0, <1>1, <1>2, <1>3, <1>8, <1>9, <1>10 DEF Progress, MissingInv, PageInv

LEMMA ProgressUpdate ==
  ASSUME TypeInv, NEW p \in Pollers, Progress(poll[p]), NEW m \in Models, UpdateModel(p, m)
  PROVE  Progress(poll[p])'
  <1>0. /\ PollMoves(p) /\ Fetched(p) /\ poll[p].about = {} /\ poll[p].at # 0
        /\ poll[p].at \in Nat /\ Shape(poll[p])
    BY PollContinues, PollIs DEF PollMoves, Shape, UpdateModel
  <1>1. /\ poll'[p].listing = poll[p].listing /\ poll'[p].hasPage = poll[p].hasPage
        /\ poll'[p].page = poll[p].page
        /\ Clean' <=> Clean
    BY <1>0, PollContinues DEF Fetched, Clean
  <1>2. /\ poll[p].pc = "walk" /\ m \in poll[p].todo /\ m \in DOMAIN poll[p].prior
        /\ poll'[p].pc = "tell" /\ poll'[p].todo = poll[p].todo
        /\ poll'[p].prior = poll[p].prior
        /\ poll'[p].about = {m} /\ poll'[p].event = "model.updated"
        /\ m \in DOMAIN rows /\ DOMAIN rows' = DOMAIN rows
        /\ rows'[m].facts = poll[p].listing[m].facts
        /\ rows'[m].deprecatedAt = DateAfter(poll[p], m)
        /\ rows'[m].deprecation = rows[m].deprecation
        /\ \A x \in DOMAIN rows \ {m} : rows'[x] = rows[x]
    BY UpdateIs
  <1>3. /\ Ahead(poll[p]) = poll[p].todo /\ Ahead(poll'[p]) = poll[p].todo \ {m}
        /\ Listing(poll[p]) /\ Listing(poll'[p]) /\ ~ Missing(poll'[p])
    BY <1>0, <1>2 DEF Ahead, Listing, Missing
  <1>4. m \in DOMAIN poll[p].listing
    BY <1>0, <1>2, <1>3 DEF Shape
  <1>5. /\ DOMAIN rows = DOMAIN poll[p].prior \cup (DOMAIN poll[p].listing \ Ahead(poll[p]))
        /\ \A x \in DOMAIN poll[p].prior :
                x \in Ahead(poll[p]) \/ x \notin DOMAIN poll[p].listing =>
                    rows[x] = poll[p].prior[x]
        /\ \A x \in DOMAIN poll[p].listing \ Ahead(poll[p]) : Listed(poll[p], x)
    BY <1>3 DEF Progress, ListingInv
  <1>6. Listed(poll[p], m)'
    <2>1. DateAfter(poll[p], m) = 0 <=> ~ Deprecated(poll[p], m)
      BY <1>0 DEF DateAfter
    <2> QED
      BY <1>0, <1>1, <1>2, <2>1, VerdictsKept DEF Listed
  <1>7. \A x \in DOMAIN poll[p].listing \ Ahead(poll'[p]) : Listed(poll[p], x)'
    BY <1>0, <1>2, <1>3, <1>5, <1>6, VerdictsKept
  <1>8. ListingInv(poll[p])'
    BY <1>1, <1>2, <1>3, <1>4, <1>5, <1>7 DEF ListingInv
  <1>9. EntryInv(poll[p])'
    BY <1>0, <1>1, <1>2, VerdictsKept DEF Progress, EntryInv
  <1>10. rows[m] = poll[p].prior[m]
    BY <1>2, <1>3, <1>5
  <1>11. DateInv(poll[p])'
    <2>1. ASSUME Clean, poll[p].hasPage => rows[m].deprecation = Named(poll[p], m),
                 rows[m].deprecation # NoEntry, StatedAt[rows[m].deprecation] # 0
          PROVE  DateAfter(poll[p], m) = StatedAt[rows[m].deprecation]
      <3>1. RowDeprecation(poll[p], m) = rows[m].deprecation
        BY <1>2, <1>10, <2>1 DEF RowDeprecation, Was
      <3>2. Deprecated(poll[p], m)
        BY <2>1, <3>1 DEF Deprecated
      <3>3. poll[p].prior[m].deprecatedAt = StatedAt[rows[m].deprecation]
        BY <1>2, <1>10, <2>1 DEF Progress, DateInv, DateStated
      <3> QED
        BY <2>1, <3>2, <3>3 DEF DateAfter
    <2>2. Clean => \A x \in DOMAIN rows' :
              (poll[p].hasPage => rows'[x].deprecation = Named(poll[p], x))
                  => DateStated(rows'[x])
      BY <1>2, <2>1 DEF Progress, DateInv, DateStated
    <2>3. Clean => \A x \in DOMAIN poll[p].prior : DateStated(poll[p].prior[x])
      BY <1>2 DEF Progress, DateInv
    <2>4. \A x : Named(poll'[p], x) = Named(poll[p], x)
      BY <1>0, <1>2, VerdictsKept
    <2> QED
      BY <1>1, <1>2, <2>2, <2>3, <2>4 DEF DateInv, DateStated
  <1> QED
    BY <1>0, <1>1, <1>2, <1>3, <1>8, <1>9, <1>11 DEF Progress, MissingInv, PageInv

LEMMA ProgressKeep ==
  ASSUME TypeInv, NEW p \in Pollers, Progress(poll[p]), NEW m \in Models, KeepModel(p, m)
  PROVE  Progress(poll[p])'
  <1>0. /\ PollMoves(p) /\ Fetched(p) /\ poll[p].about = {} /\ poll[p].at # 0
        /\ poll[p].at \in Nat /\ Shape(poll[p])
    BY PollContinues, PollIs DEF PollMoves, Shape, KeepModel
  <1>1. /\ poll'[p].listing = poll[p].listing /\ poll'[p].hasPage = poll[p].hasPage
        /\ poll'[p].page = poll[p].page
        /\ Clean' <=> Clean
    BY <1>0, PollContinues DEF Fetched, Clean
  <1>2. /\ poll[p].pc = "walk" /\ m \in poll[p].todo /\ m \in DOMAIN poll[p].prior
        /\ ~ Dirty(poll[p], m)
        /\ poll'[p].pc = "walk" /\ poll'[p].todo = poll[p].todo \ {m}
        /\ poll'[p].about = poll[p].about /\ poll'[p].prior = poll[p].prior /\ rows' = rows
    BY KeepIs
  <1>3. /\ Ahead(poll[p]) = poll[p].todo /\ Ahead(poll'[p]) = poll[p].todo \ {m}
        /\ Listing(poll[p]) /\ Listing(poll'[p]) /\ ~ Missing(poll'[p])
    BY <1>0, <1>2 DEF Ahead, Listing, Missing
  <1>4. m \in DOMAIN poll[p].listing
    BY <1>0, <1>2, <1>3 DEF Shape
  <1>5. /\ DOMAIN rows = DOMAIN poll[p].prior \cup (DOMAIN poll[p].listing \ Ahead(poll[p]))
        /\ \A x \in DOMAIN poll[p].prior :
                x \in Ahead(poll[p]) \/ x \notin DOMAIN poll[p].listing =>
                    rows[x] = poll[p].prior[x]
        /\ \A x \in DOMAIN poll[p].listing \ Ahead(poll[p]) : Listed(poll[p], x)
    BY <1>3 DEF Progress, ListingInv
  <1>6. Listed(poll[p], m)
    <2>1. rows[m] = poll[p].prior[m]
      BY <1>2, <1>3, <1>5
    <2>2. /\ poll[p].listing[m].facts = poll[p].prior[m].facts
          /\ Deprecated(poll[p], m) <=> poll[p].prior[m].deprecatedAt # 0
      BY <1>2 DEF Dirty, Deprecated
    <2> QED
      BY <2>1, <2>2 DEF Listed
  <1>7. \A x \in DOMAIN poll[p].listing \ Ahead(poll'[p]) : Listed(poll[p], x)'
    BY <1>0, <1>2, <1>3, <1>5, <1>6, VerdictsKept
  <1>8. ListingInv(poll[p])'
    BY <1>1, <1>2, <1>3, <1>4, <1>5, <1>7 DEF ListingInv
  <1>9. EntryInv(poll[p])'
    BY <1>0, <1>1, <1>2, VerdictsKept DEF Progress, EntryInv
  <1>10. DateInv(poll[p])'
    BY <1>0, <1>1, <1>2, VerdictsKept DEF Progress, DateInv, DateStated
  <1> QED
    BY <1>0, <1>1, <1>2, <1>3, <1>8, <1>9, <1>10 DEF Progress, MissingInv, PageInv

LEMMA ProgressRemove ==
  ASSUME TypeInv, NEW p \in Pollers, Progress(poll[p]), NEW m \in Models, RemoveModel(p, m)
  PROVE  Progress(poll[p])'
  <1>0. /\ PollMoves(p) /\ Fetched(p) /\ poll[p].about = {} /\ poll[p].at # 0
        /\ poll[p].at \in Nat /\ Shape(poll[p])
    BY PollContinues, PollIs DEF PollMoves, Shape, RemoveModel
  <1>1. /\ poll'[p].listing = poll[p].listing /\ poll'[p].hasPage = poll[p].hasPage
        /\ poll'[p].page = poll[p].page
        /\ Clean' <=> Clean
    BY <1>0, PollContinues DEF Fetched, Clean
  <1>2. /\ poll[p].pc = "missing" /\ m \in poll[p].todo /\ m \in DOMAIN poll[p].prior
        /\ poll'[p].pc = "tell" /\ poll'[p].todo = poll[p].todo
        /\ poll'[p].prior = poll[p].prior
        /\ poll'[p].about = {m} /\ poll'[p].event = "model.removed"
        /\ m \in DOMAIN rows /\ DOMAIN rows' = DOMAIN rows
        /\ rows'[m].deprecatedAt = poll[p].at
        /\ rows'[m].deprecation = rows[m].deprecation
        /\ \A x \in DOMAIN rows \ {m} : rows'[x] = rows[x]
    BY RemoveIs
  <1>3. /\ Ahead(poll[p]) = poll[p].todo /\ Ahead(poll'[p]) = poll[p].todo \ {m}
        /\ Missing(poll[p]) /\ Missing(poll'[p]) /\ ~ Listing(poll'[p])
    BY <1>0, <1>2 DEF Ahead, Listing, Missing
  <1>4. /\ poll[p].todo \subseteq DOMAIN poll[p].prior \ DOMAIN poll[p].listing
        /\ DOMAIN rows = DOMAIN poll[p].prior \cup DOMAIN poll[p].listing
        /\ \A x \in DOMAIN poll[p].listing : Listed(poll[p], x)
        /\ \A x \in DOMAIN poll[p].prior \ DOMAIN poll[p].listing :
                rows[x].deprecatedAt = 0 <=> x \in Ahead(poll[p])
    BY <1>3 DEF Progress, MissingInv
  <1>5. \A x \in DOMAIN poll[p].listing : Listed(poll[p], x)'
    BY <1>0, <1>2, <1>4, VerdictsKept
  <1>6. MissingInv(poll[p])'
    BY <1>0, <1>1, <1>2, <1>3, <1>4, <1>5 DEF MissingInv
  <1>7. EntryInv(poll[p])'
    BY <1>0, <1>1, <1>2, VerdictsKept DEF Progress, EntryInv
  <1>8. rows[m].deprecatedAt = 0
    BY <1>2, <1>3, <1>4
  <1>9. DateInv(poll[p])'
    BY <1>0, <1>1, <1>2, <1>8, VerdictsKept DEF Progress, DateInv, DateStated
  <1> QED
    BY <1>0, <1>1, <1>2, <1>3, <1>6, <1>7, <1>9 DEF Progress, ListingInv, PageInv

LEMMA ProgressTell ==
  ASSUME TypeInv, NEW p \in Pollers, Progress(poll[p]), Tell(p)
  PROVE  Progress(poll[p])'
  <1>0. PollMoves(p) /\ Fetched(p)
    BY PollContinues DEF PollMoves
  <1>1. /\ poll'[p].listing = poll[p].listing /\ poll'[p].hasPage = poll[p].hasPage
        /\ poll'[p].page = poll[p].page
        /\ Clean' <=> Clean
    BY <1>0, PollContinues DEF Fetched, Clean
  <1>2. PICK m \in poll[p].todo :
            /\ poll[p].pc = "tell" /\ poll[p].about = {m}
            /\ poll[p].event \in {"model.added", "model.updated", "model.removed"}
            /\ poll'[p].pc = IF poll[p].event = "model.removed" THEN "missing" ELSE "walk"
            /\ poll'[p].todo = poll[p].todo \ {m} /\ poll'[p].about = {}
            /\ poll'[p].prior = poll[p].prior /\ rows' = rows
    BY TellIs
  <1>3. /\ Ahead(poll'[p]) = Ahead(poll[p])
        /\ Listing(poll'[p]) <=> Listing(poll[p])
        /\ Missing(poll'[p]) <=> Missing(poll[p])
    BY <1>2 DEF Ahead, Listing, Missing
  <1>4. \A x \in DOMAIN rows : Listed(poll[p], x) <=> Listed(poll[p], x)'
    BY <1>0, <1>2, VerdictsKept
  <1>5. ListingInv(poll[p])'
    BY <1>1, <1>2, <1>3, <1>4 DEF Progress, ListingInv
  <1>6. MissingInv(poll[p])'
    BY <1>1, <1>2, <1>3, <1>4 DEF Progress, MissingInv
  <1>7. EntryInv(poll[p])'
    BY <1>0, <1>1, <1>2, VerdictsKept DEF Progress, EntryInv
  <1>8. DateInv(poll[p])'
    BY <1>0, <1>1, <1>2, VerdictsKept DEF Progress, DateInv, DateStated
  <1> QED
    BY <1>0, <1>1, <1>2, <1>5, <1>6, <1>7, <1>8 DEF Progress, PageInv

LEMMA ProgressWalkDone ==
  ASSUME TypeInv, NEW p \in Pollers, Progress(poll[p]), WalkDone(p)
  PROVE  Progress(poll[p])'
  <1>0. /\ PollMoves(p) /\ Fetched(p) /\ poll[p].about = {} /\ poll[p].at # 0
        /\ poll[p].at \in Nat /\ Shape(poll[p])
    BY PollContinues, PollIs DEF PollMoves, Shape, WalkDone
  <1>1. /\ poll'[p].listing = poll[p].listing /\ poll'[p].hasPage = poll[p].hasPage
        /\ poll'[p].page = poll[p].page
        /\ Clean' <=> Clean
    BY <1>0, PollContinues DEF Fetched, Clean
  <1>2. /\ poll[p].pc = "walk" /\ poll[p].todo = {} /\ poll'[p].pc = "missing"
        /\ poll'[p].about = poll[p].about /\ poll'[p].prior = poll[p].prior
        /\ poll'[p].todo = {m \in DOMAIN poll[p].prior \ DOMAIN poll[p].listing :
                            poll[p].prior[m].deprecatedAt = 0}
        /\ rows' = rows
    BY WalkDoneIs
  <1>3. /\ Ahead(poll[p]) = {} /\ Ahead(poll'[p]) = poll'[p].todo
        /\ Listing(poll[p]) /\ Missing(poll'[p]) /\ ~ Listing(poll'[p])
    BY <1>0, <1>2 DEF Ahead, Listing, Missing
  <1>4. /\ DOMAIN rows = DOMAIN poll[p].prior \cup DOMAIN poll[p].listing
        /\ \A x \in DOMAIN poll[p].prior :
                x \notin DOMAIN poll[p].listing => rows[x] = poll[p].prior[x]
        /\ \A x \in DOMAIN poll[p].listing : Listed(poll[p], x)
    BY <1>3 DEF Progress, ListingInv
  <1>5. \A x \in DOMAIN poll[p].listing : Listed(poll[p], x)'
    BY <1>0, <1>2, <1>4, VerdictsKept
  <1>6. MissingInv(poll[p])'
    BY <1>1, <1>2, <1>3, <1>4, <1>5 DEF MissingInv
  <1>7. EntryInv(poll[p])'
    BY <1>0, <1>1, <1>2, VerdictsKept DEF Progress, EntryInv
  <1>8. DateInv(poll[p])'
    BY <1>0, <1>1, <1>2, VerdictsKept DEF Progress, DateInv, DateStated
  <1> QED
    BY <1>0, <1>1, <1>2, <1>3, <1>6, <1>7, <1>8 DEF Progress, ListingInv, PageInv

LEMMA ProgressReadDeprecations ==
  ASSUME TypeInv, NEW p \in Pollers, Progress(poll[p]), ReadDeprecations(p)
  PROVE  Progress(poll[p])'
  <1>0. /\ PollMoves(p) /\ Fetched(p) /\ poll[p].about = {} /\ poll[p].at # 0
        /\ poll[p].at \in Nat /\ Shape(poll[p])
    BY PollContinues, PollIs DEF PollMoves, Shape, ReadDeprecations
  <1>1. /\ poll'[p].listing = poll[p].listing /\ poll'[p].hasPage = poll[p].hasPage
        /\ poll'[p].page = poll[p].page
        /\ Clean' <=> Clean
    BY <1>0, PollContinues DEF Fetched, Clean
  <1>2. /\ poll[p].pc = "missing" /\ poll[p].todo = {} /\ poll[p].hasPage
        /\ poll'[p].pc = "page" /\ poll'[p].prior = rows
        /\ poll'[p].todo = {m \in DOMAIN rows \cup DOMAIN poll[p].page :
                                StoredEntry(m) # Named(poll[p], m)}
        /\ rows' = rows
    BY ReadDeprecationsIs
  <1>3. Ahead(poll[p]) = {} /\ Missing(poll[p]) /\ ~ Listing(poll'[p]) /\ ~ Missing(poll'[p])
    BY <1>0, <1>2 DEF Ahead, Listing, Missing
  <1>4. /\ DOMAIN rows = DOMAIN poll[p].prior \cup DOMAIN poll[p].listing
        /\ \A x \in DOMAIN poll[p].listing : Listed(poll[p], x)
        /\ \A x \in DOMAIN poll[p].prior \ DOMAIN poll[p].listing : rows[x].deprecatedAt # 0
    BY <1>3 DEF Progress, MissingInv
  <1>5. \A x : Deprecated(poll[p], x) <=>
                poll[p].listing[x].deprecated \/ Named(poll[p], x) # NoEntry
    BY <1>2 DEF Deprecated, RowDeprecation
  <1>6. \A x \in DOMAIN rows :
            /\ x \in DOMAIN poll[p].listing => rows[x].facts = poll[p].listing[x].facts
            /\ rows[x].deprecatedAt = 0 <=>
                    /\ x \in DOMAIN poll[p].listing
                    /\ ~ poll[p].listing[x].deprecated
                    /\ Named(poll[p], x) = NoEntry
    BY <1>4, <1>5 DEF Listed
  <1>7. \A x : Named(poll'[p], x) = Named(poll[p], x) /\ StoredEntry(x)' = StoredEntry(x)
    BY <1>1, <1>2 DEF Named, StoredEntry
  <1>8. PageInv(poll[p])'
    BY <1>1, <1>2, <1>4, <1>6, <1>7 DEF PageInv
  <1>9. DateInv(poll[p])'
    BY <1>0, <1>1, <1>2, <1>7 DEF Progress, DateInv, DateStated
  <1> QED
    BY <1>0, <1>1, <1>2, <1>3, <1>8, <1>9 DEF Progress, ListingInv, MissingInv, EntryInv

LEMMA ProgressApply ==
  ASSUME TypeInv, NEW p \in Pollers, Progress(poll[p]), ApplyDeprecations(p)
  PROVE  Progress(poll[p])'
  <1>0. PollMoves(p) /\ Fetched(p) /\ poll[p].pc = "page"
    BY PollContinues DEF PollMoves, ApplyDeprecations
  <1>1. /\ poll'[p].listing = poll[p].listing /\ poll'[p].hasPage = poll[p].hasPage
        /\ poll'[p].page = poll[p].page
        /\ Clean' <=> Clean
    BY <1>0, PollContinues DEF Fetched, Clean
  <1>2. PICK slice \in SUBSET poll[p].todo :
            /\ poll[p].pc = "page" /\ poll'[p].pc = "page"
            /\ poll'[p].todo = poll[p].todo \ slice /\ poll'[p].about = poll[p].about
            /\ DOMAIN rows' = DOMAIN rows \cup slice
            /\ \A m \in slice : rows'[m] = PageRow(poll[p], m)
            /\ \A m \in DOMAIN rows \ slice : rows'[m] = rows[m]
            /\ poll'[p].prior = poll[p].prior
    BY ApplyIs
  <1>3. /\ poll[p].hasPage
        /\ poll[p].todo = {m \in DOMAIN rows \cup DOMAIN poll[p].page :
                                StoredEntry(m) # Named(poll[p], m)}
        /\ \A m \in poll[p].todo : /\ m \in DOMAIN poll[p].prior <=> m \in DOMAIN rows
                                   /\ m \in DOMAIN rows => rows[m] = poll[p].prior[m]
        /\ DOMAIN poll[p].listing \subseteq DOMAIN rows
        /\ \A m \in DOMAIN rows :
            /\ m \in DOMAIN poll[p].listing => rows[m].facts = poll[p].listing[m].facts
            /\ rows[m].deprecatedAt = 0 <=>
                    /\ m \in DOMAIN poll[p].listing
                    /\ ~ poll[p].listing[m].deprecated
                    /\ Named(poll[p], m) = NoEntry
    BY <1>0 DEF Progress, PageInv
  <1>4. \A x : Named(poll'[p], x) = Named(poll[p], x)
    BY <1>0, <1>2, VerdictsKept
  <1>5. \A x \in slice : StoredEntry(x)' = Named(poll[p], x)
    BY <1>0, <1>2, PageRowIs DEF StoredEntry
  <1>6. \A x : x \notin slice => StoredEntry(x)' = StoredEntry(x)
    BY <1>2 DEF StoredEntry
  <1>7. poll'[p].todo = {m \in DOMAIN rows' \cup DOMAIN poll'[p].page :
                            StoredEntry(m)' # Named(poll'[p], m)}
    BY <1>1, <1>2, <1>3, <1>4, <1>5, <1>6
  <1>8. ASSUME NEW x \in slice
        PROVE  /\ x \in DOMAIN poll[p].listing => rows'[x].facts = poll[p].listing[x].facts
               /\ rows'[x].deprecatedAt = 0 <=>
                        /\ x \in DOMAIN poll[p].listing
                        /\ ~ poll[p].listing[x].deprecated
                        /\ Named(poll[p], x) = NoEntry
    <2>1. rows'[x] = PageRow(poll[p], x)
      BY <1>2
    <2>2. CASE x \in DOMAIN rows
      BY <1>0, <1>3, <2>1, <2>2, PageRowIs
    <2>3. CASE x \notin DOMAIN rows
      <3>1. Named(poll[p], x) # NoEntry /\ x \notin DOMAIN poll[p].listing
        BY <1>3, <2>3 DEF StoredEntry
      <3> QED
        BY <1>0, <2>1, <3>1, PageRowIs
    <2> QED
      BY <2>2, <2>3
  <1>9. PageInv(poll[p])'
    <2>1. DOMAIN poll[p].listing \subseteq DOMAIN rows'
      BY <1>2, <1>3
    <2>2. \A x \in DOMAIN rows' :
            /\ x \in DOMAIN poll[p].listing => rows'[x].facts = poll[p].listing[x].facts
            /\ rows'[x].deprecatedAt = 0 <=>
                    /\ x \in DOMAIN poll[p].listing
                    /\ ~ poll[p].listing[x].deprecated
                    /\ Named(poll[p], x) = NoEntry
      BY <1>2, <1>3, <1>8
    <2>3. \A x \in poll'[p].todo :
              /\ x \in DOMAIN poll[p].prior <=> x \in DOMAIN rows'
              /\ x \in DOMAIN rows' => rows'[x] = poll[p].prior[x]
      BY <1>2, <1>3
    <2> QED
      BY <1>1, <1>2, <1>3, <1>4, <1>7, <2>1, <2>2, <2>3 DEF PageInv
  <1>10. DateInv(poll[p])'
    <2>1. \A x \in slice : DateStated(rows'[x])
      BY <1>0, <1>2, PageRowIs DEF DateStated
    <2>2. Clean => \A x \in DOMAIN rows' :
              (poll[p].hasPage => rows'[x].deprecation = Named(poll[p], x))
                  => DateStated(rows'[x])
      BY <1>0, <1>2, <2>1 DEF Progress, DateInv
    <2> QED
      BY <1>1, <1>2, <1>4, <2>2 DEF DateInv, DateStated
  <1> QED
    BY <1>0, <1>1, <1>2, <1>9, <1>10
       DEF Progress, ListingInv, MissingInv, EntryInv, Listing, Missing

LEMMA ProgressMoves ==
  ASSUME TypeInv, NEW p \in Pollers, Progress(poll[p]), PollMoves(p)
  PROVE  Progress(poll[p])'
  BY ProgressInsert, ProgressUpdate, ProgressKeep, ProgressRemove, ProgressTell,
     ProgressWalkDone, ProgressReadDeprecations, ProgressApply DEF PollMoves

LEMMA ProgressStart ==
  ASSUME TypeInv, NEW p \in Pollers, StartPoll(p),
         Clean => \A m \in DOMAIN rows : DateStated(rows[m])
  PROVE  Progress(poll[p])'
  <1>1. /\ poll'[p].pc = "walk" /\ poll'[p].prior = rows
        /\ poll'[p].todo = DOMAIN poll'[p].listing /\ poll'[p].about = {}
        /\ rows' = rows /\ crashes' = crashes /\ (overlapped' <=> overlapped \/ Others(p) # {})
    BY StartIs
  <1>2. Clean' => Clean
    BY <1>1 DEF Clean
  <1>3. Ahead(poll'[p]) = DOMAIN poll'[p].listing /\ Listing(poll'[p]) /\ ~ Missing(poll'[p])
    BY <1>1 DEF Ahead, Listing, Missing
  <1>4. ListingInv(poll[p])'
    BY <1>1, <1>3 DEF ListingInv
  <1>5. EntryInv(poll[p])'
    BY <1>1 DEF EntryInv, Was
  <1>6. DateInv(poll[p])'
    BY <1>1, <1>2 DEF DateInv, DateStated
  <1> QED
    BY <1>1, <1>3, <1>4, <1>5, <1>6 DEF Progress, MissingInv, PageInv

(* A poll that has nothing left to apply has every entry the page names.    *)
LEMMA PageApplied ==
  ASSUME TypeInv, NEW p \in Pollers, Progress(poll[p]), FinishPoll(p), poll[p].hasPage
  PROVE  /\ poll[p].pc = "page"
         /\ \A m \in DOMAIN rows : rows[m].deprecation = Named(poll[p], m)
         /\ DOMAIN poll[p].page \subseteq DOMAIN rows
  <1>1. poll[p].pc = "page" /\ poll[p].todo = {}
    BY DEF FinishPoll
  <1>2. \A m \in DOMAIN rows \cup DOMAIN poll[p].page : StoredEntry(m) = Named(poll[p], m)
    BY <1>1 DEF Progress, PageInv
  <1>3. \A m \in DOMAIN poll[p].page : Named(poll[p], m) # NoEntry
    <2>1. poll[p].page \in Pages
      BY PollIs
    <2> QED
      BY <2>1, PageIs, PollAssumption DEF Named
  <1> QED
    BY <1>1, <1>2, <1>3 DEF StoredEntry

(* A poll that runs alone finds no row inserted behind its back.            *)
LEMMA NoClash ==
  ASSUME TypeInv, NEW p \in Pollers, Progress(poll[p])
  PROVE  ~ FailInsert(p)
  <1>1. CASE poll[p].pc = "walk"
    <2>1. Listing(poll[p]) /\ poll[p].about = {} /\ poll[p].todo \subseteq DOMAIN poll[p].listing
      BY <1>1, PollIs DEF Listing, Shape
    <2>2. DOMAIN rows = DOMAIN poll[p].prior \cup (DOMAIN poll[p].listing \ poll[p].todo)
      BY <2>1 DEF Progress, ListingInv, Ahead
    <2> QED
      BY <2>1, <2>2 DEF FailInsert, Clashes
  <1>2. CASE poll[p].pc = "page"
    BY <1>2 DEF FailInsert, Clashes, Progress, PageInv
  <1> QED
    BY <1>1, <1>2 DEF FailInsert

LEMMA RestAfter ==
  ASSUME TypeInv, NEW p \in Pollers, Progress(poll[p]), FinishPoll(p), Clean
  PROVE  \A m \in DOMAIN rows : DateStated(rows[m])
  <1>1. poll[p].hasPage => \A m \in DOMAIN rows : rows[m].deprecation = Named(poll[p], m)
    BY PageApplied
  <1> QED
    BY <1>1 DEF Progress, DateInv

(* Who runs alone.                                                          *)
LEMMA AloneStep ==
  ASSUME TypeInv, AloneInv, [PollNext]_vars
  PROVE  AloneInv'
  <1>1. ASSUME NEW p \in Pollers, PollMoves(p) PROVE AloneInv'
    BY <1>1, PollContinues DEF AloneInv, Fetched, Alike
  <1>2. ASSUME NEW p \in Pollers, StartPoll(p) PROVE AloneInv'
    <2>1. /\ poll[p].pc = "idle" /\ (poll'[p].alone <=> Others(p) = {})
          /\ overlapped' <=> overlapped \/ Others(p) # {}
      BY <1>2, StartIs
    <2>2. ASSUME NEW o \in Pollers, o # p
          PROVE  /\ poll'[o].pc = poll[o].pc
                 /\ poll'[o].alone <=> poll[o].alone /\ o \notin Others(p)
                 /\ o \notin Others(p) <=> poll[o].pc = "idle"
      <3>1. poll'[o] = [poll[o] EXCEPT !.alone = poll'[o].alone] /\ poll[o] \in Locals
            /\ (poll'[o].alone <=> poll[o].alone /\ o \notin Others(p))
        BY <1>2, <2>2, StartIs, PollIs
      <3>2. poll'[o].pc = poll[o].pc
        BY <3>1 DEF Locals
      <3> QED
        BY <2>2, <3>1, <3>2 DEF Others
    <2>3. ASSUME NEW x \in Pollers, poll'[x].alone, poll'[x].pc # "idle",
                 NEW o \in Pollers \ {x}
          PROVE  poll'[o].pc = "idle"
      <3>1. CASE x = p
        BY <2>1, <2>2, <2>3, <3>1
      <3>2. CASE x # p
        BY <2>2, <2>3, <3>2
      <3> QED
        BY <3>1, <3>2
    <2>4. ASSUME ~ overlapped', NEW x \in Pollers PROVE poll'[x].alone
      <3>1. poll[x].alone /\ Others(p) = {}
        BY <2>1, <2>4 DEF AloneInv
      <3> QED
        BY <2>1, <2>2, <3>1
    <2> QED
      BY <2>3, <2>4 DEF AloneInv
  <1>3. ASSUME NEW p \in Pollers, PollEnds(p) PROVE AloneInv'
    BY <1>3, EndIs, NoPollIs DEF AloneInv, Alike
  <1>4. CASE UNCHANGED vars
    BY <1>4 DEF vars, AloneInv
  <1> QED
    BY <1>1, <1>2, <1>3, <1>4, NextSplits

LEMMA ProgressStep ==
  ASSUME TypeInv, AloneInv, ProgressInv, RestInv, [PollNext]_vars
  PROVE  ProgressInv' /\ RestInv'
  <1>0. AloneInv'
    BY AloneStep
  <1>1. ASSUME NEW p \in Pollers, PollMoves(p) PROVE ProgressInv' /\ RestInv'
    <2>1. /\ poll[p].pc # "idle" /\ poll'[p].pc # "idle" /\ poll'[p].alone = poll[p].alone
      BY <1>1, PollContinues DEF Fetched
    <2>2. ~ AllIdle'
      BY <2>1 DEF AllIdle
    <2>3. ASSUME NEW o \in Pollers, poll'[o].alone, poll'[o].pc # "idle"
          PROVE  Progress(poll[o])'
      <3>1. o = p
        BY <1>0, <2>1, <2>3 DEF AloneInv
      <3>2. Progress(poll[p])
        BY <2>1, <2>3, <3>1 DEF ProgressInv
      <3> QED
        BY <1>1, <3>1, <3>2, ProgressMoves
    <2> QED
      BY <2>2, <2>3 DEF ProgressInv, RestInv
  <1>2. ASSUME NEW p \in Pollers, StartPoll(p) PROVE ProgressInv' /\ RestInv'
    <2>1. /\ poll[p].pc = "idle" /\ poll'[p].pc = "walk"
          /\ poll'[p].alone <=> Others(p) = {}
      BY <1>2, StartIs
    <2>2. ~ AllIdle'
      BY <2>1 DEF AllIdle
    <2>3. ASSUME NEW o \in Pollers, poll'[o].alone, poll'[o].pc # "idle"
          PROVE  Progress(poll[o])'
      <3>1. o = p
        BY <1>0, <2>1, <2>3 DEF AloneInv
      <3>2. AllIdle
        BY <2>1, <2>3, <3>1 DEF AllIdle, Others
      <3> QED
        BY <1>2, <3>1, <3>2, ProgressStart DEF RestInv
    <2> QED
      BY <2>2, <2>3 DEF ProgressInv, RestInv
  <1>3. ASSUME NEW p \in Pollers, PollEnds(p) PROVE ProgressInv' /\ RestInv'
    <2>1. /\ poll[p].pc # "idle" /\ poll'[p].pc = "idle" /\ Alike(p)
          /\ rows' = rows /\ overlapped' = overlapped
          /\ crashes' = crashes \/ (CrashPoll(p) /\ crashes' = crashes + 1)
      BY <1>3, EndIs, NoPollIs
    <2>2. ASSUME NEW o \in Pollers, poll'[o].alone, poll'[o].pc # "idle"
          PROVE  FALSE
      <3>1. o # p /\ poll'[o] = poll[o]
        BY <2>1, <2>2 DEF Alike
      <3> QED
        BY <2>1, <2>2, <3>1 DEF AloneInv
    <2>3. ASSUME Clean' PROVE \A m \in DOMAIN rows : DateStated(rows[m])
      <3>1. Clean /\ ~ CrashPoll(p)
        BY <2>1, <2>3 DEF Clean, TypeInv, CrashPoll
      <3>2. poll[p].alone
        BY <3>1 DEF Clean, AloneInv
      <3>3. Progress(poll[p])
        BY <2>1, <3>2 DEF ProgressInv
      <3>4. FinishPoll(p)
        BY <1>3, <3>1, <3>3, NoClash DEF PollEnds
      <3> QED
        BY <3>1, <3>3, <3>4, RestAfter
    <2> QED
      BY <2>1, <2>2, <2>3 DEF ProgressInv, RestInv, DateStated
  <1>4. CASE UNCHANGED vars
    <2>1. /\ rows' = rows /\ poll' = poll /\ (Clean' <=> Clean)
      BY <1>4 DEF vars, Clean
    <2>2. \A p \in Pollers : Progress(poll[p])' <=> Progress(poll[p])
      BY <2>1 DEF Progress, ListingInv, MissingInv, EntryInv, PageInv, DateInv, Listed,
                  StoredEntry
    <2> QED
      BY <2>1, <2>2 DEF ProgressInv, RestInv, AllIdle
  <1> QED
    BY <1>1, <1>2, <1>3, <1>4, NextSplits

LEMMA ProgressInit == PollInit => AloneInv /\ ProgressInv /\ RestInv
  BY NoPollIs, EmptyMapIs DEF PollInit, AloneInv, ProgressInv, RestInv

LEMMA FinishMatches ==
  ASSUME TypeInv, NEW p \in Pollers, Progress(poll[p]), FinishPoll(p), poll[p].alone
  PROVE  PolledMatchesListing'
  <1> DEFINE q == poll[p]
             done == [listing |-> q.listing, hasPage |-> q.hasPage, page |-> q.page]
             date(m) == rows[m].deprecatedAt = 0 <=>
                            /\ m \in DOMAIN q.listing
                            /\ ~ q.listing[m].deprecated
                            /\ rows[m].deprecation = NoEntry
             facts(m) == m \in DOMAIN q.listing => rows[m].facts = q.listing[m].facts
  <1>1. /\ polled' = {done} /\ rows' = rows /\ crashes' = crashes
        /\ overlapped' = overlapped /\ q.todo = {} /\ q.pc # "idle"
    BY DEF FinishPoll
  <1>2. done.listing = q.listing /\ done.hasPage = q.hasPage /\ done.page = q.page
    OBVIOUS
  <1> HIDE DEF done
  <1>3. CASE q.hasPage
    <2>1. /\ q.pc = "page"
          /\ \A m \in DOMAIN rows : rows[m].deprecation = Named(q, m)
          /\ DOMAIN q.page \subseteq DOMAIN rows
      BY <1>3, PageApplied
    <2>2. DOMAIN q.listing \subseteq DOMAIN rows
          /\ \A m \in DOMAIN rows : facts(m) /\ date(m)
      BY <2>1 DEF Progress, PageInv
    <2>3. Clean => \A m \in DOMAIN rows : DateStated(rows[m])
      BY RestAfter
    <2> QED
      BY <1>1, <1>2, <2>1, <2>2, <2>3 DEF PolledMatchesListing, DateStated, Named, Clean
  <1>4. CASE ~ q.hasPage
    <2>1. DOMAIN q.page = {} /\ q.pc = "missing" /\ Missing(q)
      BY <1>4, PollIs DEF FinishPoll, Missing, Shape
    <2>2. Ahead(q) = {}
      BY <1>1 DEF Ahead
    <2>3. /\ DOMAIN rows = DOMAIN q.prior \cup DOMAIN q.listing
          /\ \A m \in DOMAIN q.listing : Listed(q, m)
          /\ \A m \in DOMAIN rows \ DOMAIN q.listing : rows[m].deprecatedAt # 0
      BY <2>1, <2>2 DEF Progress, MissingInv
    <2>4. \A m \in DOMAIN rows : rows[m].deprecation = RowDeprecation(q, m)
      BY <1>4, <2>1 DEF Progress, EntryInv, RowDeprecation
    <2>5. \A m \in DOMAIN rows : facts(m) /\ date(m)
      BY <2>3, <2>4 DEF Listed, Deprecated
    <2>6. Clean => \A m \in DOMAIN rows : DateStated(rows[m])
      BY RestAfter
    <2> QED
      BY <1>1, <1>2, <1>4, <2>1, <2>3, <2>5, <2>6 DEF PolledMatchesListing, DateStated, Clean
  <1> QED
    BY <1>3, <1>4

LEMMA PolledStep ==
  ASSUME TypeInv, AloneInv, ProgressInv, PolledMatchesListing, [PollNext]_vars
  PROVE  PolledMatchesListing'
  <1>1. CASE polled' = {}
    BY <1>1 DEF PolledMatchesListing
  <1>2. ASSUME NEW p \in Pollers, FinishPoll(p), poll[p].alone PROVE PolledMatchesListing'
    <2>1. Progress(poll[p])
      BY <1>2 DEF FinishPoll, ProgressInv
    <2> QED
      BY <1>2, <2>1, FinishMatches
  <1>3. CASE polled' = polled /\ rows' = rows /\ (Clean' => Clean)
    BY <1>3 DEF PolledMatchesListing, Clean
  <1>4. \/ polled' = {}
        \/ polled' = polled /\ rows' = rows /\ (Clean' => Clean)
        \/ \E p \in Pollers : FinishPoll(p) /\ poll[p].alone
    <2>1. ASSUME NEW p \in Pollers, PollMoves(p)
          PROVE  \/ polled' = {}
                 \/ polled' = polled /\ rows' = rows /\ (Clean' => Clean)
      BY <2>1 DEF PollMoves, WalkDone, Tell, ReadDeprecations, ApplyDeprecations,
                  InsertModel, UpdateModel, KeepModel, RemoveModel, Clean
    <2>2. ASSUME NEW p \in Pollers, StartPoll(p)
          PROVE  polled' = polled /\ rows' = rows /\ (Clean' => Clean)
      BY <2>2, StartIs DEF Clean
    <2>3. ASSUME NEW p \in Pollers, FailInsert(p) \/ FinishPoll(p)
          PROVE  \/ polled' = polled /\ rows' = rows /\ (Clean' => Clean)
                 \/ FinishPoll(p) /\ poll[p].alone
      BY <2>3 DEF FailInsert, FinishPoll, Clean
    <2>4. ASSUME NEW p \in Pollers, CrashPoll(p)
          PROVE  polled' = polled /\ rows' = rows /\ (Clean' => Clean)
      BY <2>4 DEF CrashPoll, Clean, TypeInv
    <2>5. CASE UNCHANGED vars
      BY <2>5 DEF vars, Clean
    <2> QED
      BY <2>1, <2>2, <2>3, <2>4, <2>5, NextSplits DEF PollEnds
  <1> QED
    BY <1>1, <1>2, <1>3, <1>4

(* A poll that completed with no other beside it left the rows as its       *)
(* listing and its page said, whatever earlier polls had left half done or  *)
(* overwritten, and they stay so until the next write.                      *)
THEOREM PollsSettle == PollSpec => []PolledMatchesListing
  <1> DEFINE Inv == TypeInv /\ AloneInv /\ ProgressInv /\ RestInv /\ PolledMatchesListing
  <1>1. PollInit => Inv
    <2>1. PollInit => PolledMatchesListing
      BY DEF PollInit, PolledMatchesListing
    <2> QED
      BY <2>1, TypeInit, ProgressInit
  <1>2. Inv /\ [PollNext]_vars => Inv'
    BY TypeStep, AloneStep, ProgressStep, PolledStep
  <1> QED
    BY <1>1, <1>2, PTL DEF PollSpec

-----------------------------------------------------------------------------
(* The deprecation changes of one model chain.                              *)

Of(h, type) == {i \in DOMAIN h : h[i].type = type}
Deprecations(h) == Of(h, "model.deprecated")
Earlier(h, i) == {j \in Deprecations(h) : j < i}
Latest(S) == CHOOSE j \in S : \A k \in S : k <= j
LeftBy(h, S) == IF S = {} THEN NoEntry ELSE h[Latest(S)].after

(* A set of changes has a latest one: true of every finite set, and carried *)
(* along here because the histories grow by one change at a time.           *)
HasLatest(S) == S # {} => \E j \in S : \A k \in S : k <= j

(* No entry, or one that some change of S has told.                         *)
ToldBy(h, S, x) == x = NoEntry \/ \E j \in S : h[j].after = x

Chained(h, entry) ==
    /\ HasLatest(Deprecations(h))
    /\ LeftBy(h, Deprecations(h)) = entry
    /\ \A i \in Deprecations(h) :
        /\ HasLatest(Earlier(h, i))
        /\ h[i].after # h[i].before
        /\ ToldBy(h, Earlier(h, i), h[i].before)
        /\ h[i].alone => h[i].before = LeftBy(h, Earlier(h, i))

ChainInv == \A m \in Models : Chained(feed[m], StoredEntry(m))

(* What a poll is about to tell as replaced has been told.                  *)
ToldInv ==
    \A p \in Pollers : poll[p].pc = "page" =>
        \A m \in poll[p].todo : ToldBy(feed[m], Deprecations(feed[m]), Was(poll[p], m))

LEMMA LatestIs ==
  ASSUME NEW S, HasLatest(S), S # {}
  PROVE  Latest(S) \in S /\ \A k \in S : k <= Latest(S)
  BY DEF HasLatest, Latest

LEMMA LatestAdded ==
  ASSUME NEW n \in Nat, NEW S \in SUBSET Nat, \A k \in S : k < n
  PROVE  HasLatest(S \cup {n}) /\ Latest(S \cup {n}) = n
  <1> DEFINE T == S \cup {n}
  <1>1. n \in T /\ \A k \in T : k \in Nat /\ k <= n
    OBVIOUS
  <1>2. HasLatest(T) /\ T # {}
    BY <1>1 DEF HasLatest
  <1>3. Latest(T) \in T /\ \A k \in T : k <= Latest(T)
    BY <1>2, LatestIs
  <1>4. Latest(T) <= n /\ n <= Latest(T) /\ Latest(T) \in Nat
    BY <1>1, <1>3
  <1> HIDE DEF T
  <1>5. Latest(T) = n
    BY <1>4
  <1> QED
    BY <1>2, <1>5 DEF T

(* A change appended leaves what earlier changes left ...                   *)
LEMMA LeftByKept ==
  ASSUME NEW h \in Seq(Events), NEW e \in Events, NEW S \in SUBSET DOMAIN h, HasLatest(S)
  PROVE  LeftBy(Append(h, e), S) = LeftBy(h, S)
  <1>1. CASE S = {}
    BY <1>1 DEF LeftBy
  <1>2. CASE S # {}
    <2>1. Latest(S) \in DOMAIN h
      BY <1>2, LatestIs
    <2>2. Append(h, e)[Latest(S)] = h[Latest(S)]
      BY <2>1, FeedGrows
    <2> QED
      BY <1>2, <2>2 DEF LeftBy
  <1> QED
    BY <1>1, <1>2

LEMMA EarlierKept ==
  ASSUME NEW h \in Seq(Events), NEW e \in Events
  PROVE  /\ Deprecations(Append(h, e)) =
                IF e.type = "model.deprecated"
                THEN Deprecations(h) \cup {Len(h) + 1} ELSE Deprecations(h)
         /\ \A i \in DOMAIN h : Earlier(Append(h, e), i) = Earlier(h, i)
         /\ Earlier(Append(h, e), Len(h) + 1) = Deprecations(h)
  <1> DEFINE g == Append(h, e)
  <1>1. /\ Len(h) \in Nat /\ DOMAIN g = DOMAIN h \cup {Len(h) + 1} /\ g[Len(h) + 1] = e
        /\ \A i \in DOMAIN h : g[i] = h[i] /\ i \in Nat /\ i < Len(h) + 1
    BY FeedGrows
  <1> HIDE DEF g
  <1>2. Deprecations(g) = IF e.type = "model.deprecated"
                          THEN Deprecations(h) \cup {Len(h) + 1} ELSE Deprecations(h)
    BY <1>1 DEF Deprecations, Of
  <1>3. ASSUME NEW i \in DOMAIN h PROVE Earlier(g, i) = Earlier(h, i)
    <2>1. ~ (Len(h) + 1 < i)
      BY <1>1
    <2> QED
      BY <1>2, <2>1 DEF Earlier
  <1>4. Earlier(g, Len(h) + 1) = Deprecations(h)
    <2>1. Deprecations(h) \subseteq DOMAIN h /\ ~ (Len(h) + 1 < Len(h) + 1)
      BY <1>1 DEF Deprecations, Of
    <2> QED
      BY <1>1, <1>2, <2>1 DEF Earlier
  <1> QED
    BY <1>2, <1>3, <1>4 DEF g

(* ... so the chain holds after a change of another kind ...                *)
LEMMA ChainKept ==
  ASSUME NEW h \in Seq(Events), NEW e \in Events, NEW entry, Chained(h, entry),
         e.type # "model.deprecated"
  PROVE  Chained(Append(h, e), entry)
  <1>1. /\ Deprecations(Append(h, e)) = Deprecations(h) /\ Deprecations(h) \subseteq DOMAIN h
        /\ \A i \in DOMAIN h : Append(h, e)[i] = h[i]
        /\ \A i \in Deprecations(h) : /\ Earlier(Append(h, e), i) = Earlier(h, i)
                                      /\ Earlier(h, i) \subseteq DOMAIN h
    BY EarlierKept, FeedGrows DEF Deprecations, Of, Earlier
  <1>2. LeftBy(Append(h, e), Deprecations(h)) = entry
    BY <1>1, LeftByKept DEF Chained
  <1>3. \A i \in Deprecations(h) :
            LeftBy(Append(h, e), Earlier(h, i)) = LeftBy(h, Earlier(h, i))
    BY <1>1, LeftByKept DEF Chained
  <1>4. \A i \in Deprecations(h) :
            ToldBy(Append(h, e), Earlier(h, i), h[i].before)
    BY <1>1 DEF Chained, ToldBy
  <1> QED
    BY <1>1, <1>2, <1>3, <1>4 DEF Chained

(* ... and after a deprecation that replaces an entry told before, the last *)
(* one if its poll ran alone.                                               *)
LEMMA ChainGrows ==
  ASSUME NEW h \in Seq(Events), NEW e \in Events, NEW entry, Chained(h, entry),
         e.type = "model.deprecated", e.after # e.before,
         ToldBy(h, Deprecations(h), e.before), e.alone => e.before = entry
  PROVE  Chained(Append(h, e), e.after)
  <1> DEFINE g == Append(h, e)
             n == Len(h) + 1
             D == Deprecations(h)
  <1>1. /\ n \in Nat /\ g[n] = e /\ D \subseteq DOMAIN h
        /\ \A i \in DOMAIN h : g[i] = h[i]
        /\ \A i \in D : /\ Earlier(g, i) = Earlier(h, i)
                        /\ i \in Nat /\ i < n
                        /\ Earlier(h, i) \subseteq DOMAIN h
    BY EarlierKept, FeedGrows DEF Deprecations, Of, Earlier
  <1>2. Deprecations(g) = D \cup {n} /\ Earlier(g, n) = D
    BY EarlierKept
  <1>3. HasLatest(D \cup {n}) /\ Latest(D \cup {n}) = n
    BY <1>1, LatestAdded
  <1>4. LeftBy(g, D) = entry /\ HasLatest(D)
    BY <1>1, LeftByKept DEF Chained
  <1>5. \A i \in D : /\ LeftBy(g, Earlier(h, i)) = LeftBy(h, Earlier(h, i))
                     /\ HasLatest(Earlier(h, i))
                     /\ h[i].after # h[i].before
                     /\ ToldBy(h, Earlier(h, i), h[i].before)
                     /\ h[i].alone => h[i].before = LeftBy(h, Earlier(h, i))
    BY <1>1, LeftByKept DEF Chained
  <1>6. /\ ToldBy(g, D, e.before)
        /\ \A i \in D : ToldBy(g, Earlier(h, i), h[i].before)
    BY <1>1, <1>5 DEF ToldBy
  <1> HIDE DEF g, n, D
  <1>7. LeftBy(g, Deprecations(g)) = e.after
    BY <1>1, <1>2, <1>3 DEF LeftBy
  <1>8. \A i \in D :
            /\ HasLatest(Earlier(g, i))
            /\ g[i].after # g[i].before
            /\ ToldBy(g, Earlier(g, i), g[i].before)
            /\ g[i].alone => g[i].before = LeftBy(g, Earlier(g, i))
    BY <1>1, <1>5, <1>6
  <1>9. /\ HasLatest(Earlier(g, n))
        /\ g[n].after # g[n].before
        /\ ToldBy(g, Earlier(g, n), g[n].before)
        /\ g[n].alone => g[n].before = LeftBy(g, Earlier(g, n))
    BY <1>1, <1>2, <1>4, <1>6
  <1>10. Chained(g, e.after)
    BY <1>2, <1>3, <1>7, <1>8, <1>9 DEF Chained
  <1> QED
    BY <1>10 DEF g

LEMMA ChainTold ==
  ASSUME TypeInv, NEW p \in Pollers, ChainInv, Tell(p)
  PROVE  ChainInv'
  <1> DEFINE e == Plain(poll[p].event)
  <1>1. PICK m \in poll[p].todo :
            /\ poll[p].event \in {"model.added", "model.updated", "model.removed"}
            /\ feed' = [feed EXCEPT ![m] = Append(@, e)]
            /\ rows' = rows
    BY TellIs
  <1>2. e \in Events /\ e.type # "model.deprecated"
    BY <1>1, PlainIs DEF EventTypes
  <1> HIDE DEF e
  <1>3. feed \in [Models -> Seq(Events)]
    BY DEF TypeInv
  <1>4. ASSUME NEW x \in Models PROVE Chained(feed'[x], StoredEntry(x))
    <2>1. feed[x] \in Seq(Events) /\ Chained(feed[x], StoredEntry(x))
      BY <1>3 DEF ChainInv
    <2>2. Chained(Append(feed[x], e), StoredEntry(x))
      BY <1>2, <2>1, ChainKept
    <2>3. feed'[x] = IF x = m THEN Append(feed[x], e) ELSE feed[x]
      BY <1>1, <1>3
    <2> QED
      BY <2>1, <2>2, <2>3
  <1>5. \A x : StoredEntry(x)' = StoredEntry(x)
    BY <1>1 DEF StoredEntry
  <1> QED
    BY <1>4, <1>5 DEF ChainInv

LEMMA ChainApplied ==
  ASSUME TypeInv, NEW p \in Pollers, ProgressInv, ChainInv, ToldInv, ApplyDeprecations(p)
  PROVE  ChainInv'
  <1> DEFINE q == poll[p]
             e(m) == Applied(q, m)
  <1>1. PICK slice \in SUBSET poll[p].todo :
            /\ poll[p].pc = "page"
            /\ \A m \in slice : m \in DOMAIN poll[p].prior \/ m \notin DOMAIN rows
            /\ DOMAIN rows' = DOMAIN rows \cup slice
            /\ \A m \in slice : rows'[m] = PageRow(poll[p], m)
            /\ \A m \in DOMAIN rows \ slice : rows'[m] = rows[m]
            /\ feed' = [m \in Models |-> IF m \in slice
                    THEN Append(feed[m], Applied(poll[p], m)) ELSE feed[m]]
    BY ApplyIs
  <1>2. \A m : /\ e(m) \in Events /\ e(m).type = "model.deprecated" /\ e(m).alone = q.alone
               /\ e(m).before = Was(q, m) /\ e(m).after = Named(q, m)
    BY AppliedIs
  <1>3. \A m \in slice : Was(q, m) # Named(q, m)
    BY <1>1, PollIs DEF Shape
  <1>4. \A m \in slice : StoredEntry(m)' = Named(q, m)
    BY <1>1, PageRowIs DEF StoredEntry
  <1>5. \A m : m \notin slice => StoredEntry(m)' = StoredEntry(m)
    BY <1>1 DEF StoredEntry
  <1>6. ASSUME q.alone, NEW m \in slice PROVE Was(q, m) = StoredEntry(m)
    <2>1. Progress(q)
      BY <1>1, <1>6 DEF ProgressInv
    <2>2. /\ m \in DOMAIN q.prior <=> m \in DOMAIN rows
          /\ m \in DOMAIN rows => rows[m] = q.prior[m]
      BY <1>1, <1>6, <2>1 DEF Progress, PageInv
    <2> QED
      BY <2>2 DEF Was, StoredEntry
  <1>7. \A m \in slice : ToldBy(feed[m], Deprecations(feed[m]), Was(q, m))
    BY <1>1 DEF ToldInv
  <1>8. ASSUME NEW x \in Models PROVE Chained(feed'[x], StoredEntry(x)')
    <2>1. feed[x] \in Seq(Events) /\ Chained(feed[x], StoredEntry(x))
      BY DEF ChainInv, TypeInv
    <2>2. CASE x \in slice
      <3>1. /\ e(x) \in Events /\ e(x).type = "model.deprecated" /\ e(x).after # e(x).before
            /\ ToldBy(feed[x], Deprecations(feed[x]), e(x).before)
            /\ e(x).alone => e(x).before = StoredEntry(x)
            /\ e(x).after = StoredEntry(x)'
        BY <1>2, <1>3, <1>4, <1>6, <1>7, <2>2
      <3>2. feed'[x] = Append(feed[x], e(x))
        BY <1>1, <2>2
      <3> HIDE DEF e
      <3>3. Chained(Append(feed[x], e(x)), e(x).after)
        BY <2>1, <3>1, ChainGrows
      <3> QED
        BY <3>1, <3>2, <3>3
    <2>3. CASE x \notin slice
      BY <1>1, <1>5, <2>1, <2>3
    <2> QED
      BY <2>2, <2>3
  <1> QED
    BY <1>8 DEF ChainInv

(* No other step tells a deprecation, and none writes an entry: a row that  *)
(* is inserted was not there, one that is updated or removed keeps its.     *)
LEMMA EntriesKept ==
  ASSUME TypeInv, [PollNext]_vars,
         \A p \in Pollers : ~ Tell(p) /\ ~ ApplyDeprecations(p)
  PROVE  feed' = feed /\ \A x : StoredEntry(x)' = StoredEntry(x)
  <1>1. ASSUME NEW p \in Pollers, NEW m \in Models, InsertModel(p, m)
        PROVE  feed' = feed /\ \A x : StoredEntry(x)' = StoredEntry(x)
    BY <1>1, InsertIs DEF StoredEntry
  <1>2. ASSUME NEW p \in Pollers, NEW m \in Models, UpdateModel(p, m) \/ RemoveModel(p, m)
        PROVE  feed' = feed /\ \A x : StoredEntry(x)' = StoredEntry(x)
    BY <1>2, UpdateIs, RemoveIs DEF StoredEntry
  <1>3. CASE rows' = rows /\ feed' = feed
    BY <1>3 DEF StoredEntry
  <1>4. \/ rows' = rows /\ feed' = feed
        \/ \E p \in Pollers, m \in Models :
                InsertModel(p, m) \/ UpdateModel(p, m) \/ RemoveModel(p, m)
    BY DEF PollNext, StartPoll, WalkDone, ReadDeprecations, FailInsert, FinishPoll,
           CrashPoll, KeepModel, vars
  <1> QED
    BY <1>1, <1>2, <1>3, <1>4

LEMMA ChainStep ==
  ASSUME TypeInv, ProgressInv, ChainInv, ToldInv, [PollNext]_vars
  PROVE  ChainInv'
  <1>1. CASE \A p \in Pollers : ~ Tell(p) /\ ~ ApplyDeprecations(p)
    BY <1>1, EntriesKept DEF ChainInv
  <1> QED
    BY <1>1, ChainTold, ChainApplied

(* What has been told stays told.                                           *)
LEMMA HistoriesGrow ==
  ASSUME TypeInv, [PollNext]_vars, NEW m \in Models
  PROVE  feed'[m] = feed[m] \/ \E e \in Events : feed'[m] = Append(feed[m], e)
  <1>1. feed \in [Models -> Seq(Events)]
    BY DEF TypeInv
  <1>2. ASSUME NEW p \in Pollers, Tell(p)
        PROVE  feed'[m] = feed[m] \/ \E e \in Events : feed'[m] = Append(feed[m], e)
    <2>1. PICK x \in poll[p].todo :
              /\ poll[p].event \in {"model.added", "model.updated", "model.removed"}
              /\ feed' = [feed EXCEPT ![x] = Append(@, Plain(poll[p].event))]
      BY <1>2, TellIs
    <2>2. Plain(poll[p].event) \in Events
      BY <2>1, PlainIs DEF EventTypes
    <2> QED
      BY <1>1, <2>1, <2>2
  <1>3. ASSUME NEW p \in Pollers, ApplyDeprecations(p)
        PROVE  feed'[m] = feed[m] \/ \E e \in Events : feed'[m] = Append(feed[m], e)
    <2>1. PICK slice \in SUBSET poll[p].todo :
              feed' = [x \in Models |-> IF x \in slice
                           THEN Append(feed[x], Applied(poll[p], x)) ELSE feed[x]]
      BY <1>3, ApplyIs
    <2>2. Applied(poll[p], m) \in Events
      BY AppliedIs
    <2> QED
      BY <2>1, <2>2
  <1>4. \/ feed' = feed \/ \E p \in Pollers : Tell(p) \/ ApplyDeprecations(p)
    BY DEF PollNext, StartPoll, WalkDone, ReadDeprecations, FinishPoll, CrashPoll, FailInsert,
           InsertModel, UpdateModel, KeepModel, RemoveModel, vars
  <1> QED
    BY <1>2, <1>3, <1>4

LEMMA ToldStays ==
  ASSUME TypeInv, [PollNext]_vars, NEW m \in Models, NEW x,
         ToldBy(feed[m], Deprecations(feed[m]), x)
  PROVE  ToldBy(feed'[m], Deprecations(feed'[m]), x)
  <1>1. CASE feed'[m] = feed[m]
    BY <1>1
  <1>2. ASSUME NEW e \in Events, feed'[m] = Append(feed[m], e)
        PROVE  ToldBy(feed'[m], Deprecations(feed'[m]), x)
    <2>1. feed[m] \in Seq(Events)
      BY DEF TypeInv
    <2>2. /\ Deprecations(feed[m]) \subseteq Deprecations(feed'[m])
          /\ \A i \in Deprecations(feed[m]) : feed'[m][i] = feed[m][i]
      BY <1>2, <2>1, EarlierKept, FeedGrows DEF Deprecations, Of
    <2> QED
      BY <2>2 DEF ToldBy
  <1> QED
    BY <1>1, <1>2, HistoriesGrow

LEMMA StoredTold ==
  ASSUME ChainInv, NEW m \in Models
  PROVE  ToldBy(feed[m], Deprecations(feed[m]), StoredEntry(m))
  <1>1. /\ HasLatest(Deprecations(feed[m]))
        /\ LeftBy(feed[m], Deprecations(feed[m])) = StoredEntry(m)
    BY DEF ChainInv, Chained
  <1>2. Deprecations(feed[m]) # {} => Latest(Deprecations(feed[m])) \in Deprecations(feed[m])
    BY <1>1, LatestIs
  <1> QED
    BY <1>1, <1>2 DEF ToldBy, LeftBy

LEMMA ToldStep ==
  ASSUME TypeInv, ChainInv, ToldInv, [PollNext]_vars
  PROVE  ToldInv'
  <1> DEFINE told(m, x) == ToldBy(feed[m], Deprecations(feed[m]), x)
             told2(m, x) == ToldBy(feed'[m], Deprecations(feed'[m]), x)
             fits(p) == poll'[p].pc = "page" =>
                            \A m \in poll'[p].todo : told2(m, Was(poll'[p], m))
  <1>1. \A m \in Models : \A x : told(m, x) => told2(m, x)
    BY ToldStays
  <1>2. \A p \in Pollers : poll[p].pc = "page" =>
            \A m \in poll[p].todo : m \in Models /\ told2(m, Was(poll[p], m))
    BY <1>1, PollIs DEF ToldInv
  <1> HIDE DEF told2
  <1>3. ASSUME NEW o \in Pollers, poll'[o].pc = poll[o].pc, poll'[o].todo \subseteq poll[o].todo,
               poll'[o].prior = poll[o].prior
        PROVE  fits(o)
    BY <1>2, <1>3 DEF Was
  <1>4. ASSUME NEW p \in Pollers, PollMoves(p), NEW o \in Pollers PROVE fits(o)
    <2>1. CASE o # p
      <3>1. poll'[o] = poll[o]
        BY <1>4, <2>1, PollContinues DEF Alike
      <3> QED
        BY <1>3, <3>1
    <2>2. ASSUME ReadDeprecations(p), o = p PROVE fits(p)
      <3>1. poll'[p].prior = rows /\ poll'[p].todo \subseteq Models
        <4>1. Alike(p) /\ poll'[p].prior = rows
          BY <2>2, ReadDeprecationsIs
        <4>2. poll'[p] \in Locals
          BY <4>1 DEF Alike
        <4> QED
          BY <4>1, <4>2 DEF Locals
      <3>2. \A m : Was(poll'[p], m) = StoredEntry(m)
        BY <3>1 DEF Was, StoredEntry
      <3>3. \A m \in Models : told(m, StoredEntry(m))
        BY StoredTold
      <3> QED
        BY <1>1, <3>1, <3>2, <3>3
    <2>3. ASSUME ApplyDeprecations(p), o = p PROVE fits(p)
      <3>1. /\ poll[p].pc = "page" /\ poll'[p].pc = "page" /\ poll'[p].prior = poll[p].prior
            /\ poll'[p].todo \subseteq poll[p].todo
        BY <2>3, ApplyIs
      <3> QED
        BY <1>3, <3>1
    <2>4. ASSUME o = p, ~ ReadDeprecations(p), ~ ApplyDeprecations(p) PROVE poll'[p].pc # "page"
      <3>1. ASSUME NEW m \in Models, InsertModel(p, m) \/ UpdateModel(p, m)
                       \/ KeepModel(p, m) \/ RemoveModel(p, m)
            PROVE  poll'[p].pc # "page"
        BY <3>1, InsertIs, UpdateIs, KeepIs, RemoveIs
      <3>2. CASE WalkDone(p)
        BY <3>2, WalkDoneIs
      <3>3. CASE Tell(p)
        BY <3>3, TellIs
      <3> QED
        BY <1>4, <2>4, <3>1, <3>2, <3>3 DEF PollMoves
    <2> QED
      BY <2>1, <2>2, <2>3, <2>4
  <1>5. ASSUME NEW p \in Pollers, StartPoll(p), NEW o \in Pollers PROVE fits(o)
    <2>1. CASE o = p
      BY <1>5, <2>1, StartIs
    <2>2. CASE o # p
      <3>1. poll'[o] = [poll[o] EXCEPT !.alone = poll'[o].alone] /\ poll[o] \in Locals
        BY <1>5, <2>2, StartIs, PollIs
      <3>2. poll'[o].pc = poll[o].pc /\ poll'[o].todo = poll[o].todo
            /\ poll'[o].prior = poll[o].prior
        BY <3>1 DEF Locals
      <3> QED
        BY <1>3, <3>2
    <2> QED
      BY <2>1, <2>2
  <1>6. ASSUME NEW p \in Pollers, PollEnds(p), NEW o \in Pollers PROVE fits(o)
    <2>1. CASE o = p
      BY <1>6, <2>1, EndIs, NoPollIs
    <2>2. CASE o # p
      <3>1. poll'[o] = poll[o]
        BY <1>6, <2>2, EndIs DEF Alike
      <3> QED
        BY <1>3, <3>1
    <2> QED
      BY <2>1, <2>2
  <1>7. ASSUME UNCHANGED vars, NEW o \in Pollers PROVE fits(o)
    BY <1>3, <1>7 DEF vars
  <1>8. \A o \in Pollers : fits(o)
    BY <1>4, <1>5, <1>6, <1>7, NextSplits
  <1> QED
    BY <1>8 DEF ToldInv, told2, Was

LEMMA ChainInit == PollInit => ChainInv /\ ToldInv
  <1> SUFFICES ASSUME PollInit PROVE ChainInv /\ ToldInv
    OBVIOUS
  <1>1. ASSUME NEW m \in Models PROVE Chained(feed[m], StoredEntry(m))
    <2>1. feed[m] = <<>> /\ DOMAIN rows = {}
      BY EmptyMapIs DEF PollInit
    <2>2. Deprecations(feed[m]) = {}
      BY <2>1 DEF Deprecations, Of
    <2> QED
      BY <2>1, <2>2 DEF Chained, LeftBy, HasLatest, StoredEntry
  <1>2. ToldInv
    BY NoPollIs DEF PollInit, ToldInv
  <1> QED
    BY <1>1, <1>2 DEF ChainInv

LEMMA ChainTells == ChainInv => DeprecationChain
  <1> SUFFICES ASSUME ChainInv, NEW m \in Models
               PROVE  LET E == EventsOf(m, "model.deprecated")
                          Before(i) == {j \in E : j < i}
                          Left(S) == IF S = {} THEN NoEntry
                                     ELSE feed[m][CHOOSE j \in S : \A k \in S : k <= j].after
                      IN /\ Left(E) = StoredEntry(m)
                         /\ \A i \in E :
                              /\ feed[m][i].after # feed[m][i].before
                              /\ \/ feed[m][i].before = NoEntry
                                 \/ \E j \in Before(i) : feed[m][j].after = feed[m][i].before
                              /\ feed[m][i].alone => feed[m][i].before = Left(Before(i))
    BY DEF DeprecationChain
  <1>1. /\ LeftBy(feed[m], Deprecations(feed[m])) = StoredEntry(m)
        /\ \A i \in Deprecations(feed[m]) :
              /\ feed[m][i].after # feed[m][i].before
              /\ ToldBy(feed[m], Earlier(feed[m], i), feed[m][i].before)
              /\ feed[m][i].alone => feed[m][i].before = LeftBy(feed[m], Earlier(feed[m], i))
    BY DEF ChainInv, Chained
  <1> QED
    BY <1>1 DEF LeftBy, Latest, ToldBy, Earlier, Deprecations, Of, EventsOf

(* However polls overlap and wherever they are cut off, the deprecation     *)
(* changes alone tell each row's entry: the last one left what the row      *)
(* holds, each replaces an entry told before, and one told by a poll that   *)
(* ran alone replaces what the change before it left.                       *)
THEOREM DeprecationsChain == PollSpec => []DeprecationChain
  <1> DEFINE Inv == /\ TypeInv /\ AloneInv /\ ProgressInv /\ RestInv
                    /\ ChainInv /\ ToldInv
  <1>1. PollInit => Inv
    BY TypeInit, ProgressInit, ChainInit
  <1>2. Inv /\ [PollNext]_vars => Inv'
    BY TypeStep, AloneStep, ProgressStep, ChainStep, ToldStep
  <1>3. Inv => DeprecationChain
    BY ChainTells
  <1> QED
    BY <1>1, <1>2, <1>3, PTL DEF PollSpec
-----------------------------------------------------------------------------
(* Every row's birth is told, and only once.                                *)

WellBorn(h) ==
    /\ h # <<>>
    /\ h[1].type \in {"model.added", "model.deprecated"}
    /\ h[1].before = NoEntry
    /\ Of(h, "model.added") \subseteq {1}

(* The row was told removed and nothing since has told it back.             *)
ToldGone(h) ==
    \E i \in Of(h, "model.removed") :
        \A k \in Of(h, "model.updated") : k < i

(* Between two removals the row was told back.                              *)
ToldBack(h) ==
    \A i, j \in Of(h, "model.removed") :
        i < j => \E k \in Of(h, "model.updated") : i < k /\ k < j

(* The change q has yet to tell of the row it has just written.             *)
Tells(q, m, type) == q.pc = "tell" /\ m \in q.about /\ q.event = type

(* How model m's row, its history and what q has yet to tell go together    *)
(* while no other poll runs.                                                *)
Born(q, m) ==
    /\ m \notin DOMAIN rows \/ Tells(q, m, "model.added") => feed[m] = <<>>
    /\ m \in DOMAIN rows /\ ~ Tells(q, m, "model.added") => WellBorn(feed[m])
    /\ ToldGone(feed[m]) =>
        /\ m \in DOMAIN rows
        /\ rows[m].deprecatedAt # 0 \/ Tells(q, m, "model.updated")
        /\ ~ Tells(q, m, "model.removed")
    /\ ToldBack(feed[m])

BirthInv ==
    Clean =>
        /\ \A p \in Pollers : poll[p].pc # "idle" => \A m \in Models : Born(poll[p], m)
        /\ AllIdle => \A m \in Models : Born(NoPoll, m)

(* However polls overlap, only the one whose insert succeeded tells a model *)
(* added ...                                                                *)
AddedOnce(m) ==
    /\ m \notin DOMAIN rows => Of(feed[m], "model.added") = {}
    /\ \A i, j \in Of(feed[m], "model.added") : i = j
    /\ \A p \in Pollers : Tells(poll[p], m, "model.added") =>
        /\ Of(feed[m], "model.added") = {}
        /\ \A o \in Pollers : Tells(poll[o], m, "model.added") => o = p

AddedInv == \A m \in Models : AddedOnce(m)

(* ... and unless a poll was cut off, a row's birth has been told or is     *)
(* about to be.                                                             *)
BirthIn(h) == \E i \in DOMAIN h : IsBirth(h[i])

AnnouncedInv ==
    crashes = 0 => \A m \in DOMAIN rows :
        BirthIn(feed[m]) \/ \E p \in Pollers : Tells(poll[p], m, "model.added")

LEMMA OfGrows ==
  ASSUME NEW h \in Seq(Events), NEW e \in Events, NEW type
  PROVE  /\ Of(Append(h, e), type) =
                IF e.type = type THEN Of(h, type) \cup {Len(h) + 1} ELSE Of(h, type)
         /\ Len(h) + 1 \in Nat
         /\ \A i \in Of(h, type) : i \in Nat /\ i < Len(h) + 1
         /\ Of(Append(h, e), type) \subseteq Of(h, type) \cup {Len(h) + 1}
         /\ h = <<>> => Of(h, type) = {} /\ Len(h) + 1 = 1
  <1> DEFINE g == Append(h, e)
  <1>1. /\ Len(h) \in Nat /\ DOMAIN g = DOMAIN h \cup {Len(h) + 1} /\ g[Len(h) + 1] = e
        /\ \A i \in DOMAIN h : g[i] = h[i] /\ i \in Nat /\ i < Len(h) + 1
        /\ h = <<>> <=> Len(h) = 0
    BY FeedGrows
  <1> HIDE DEF g
  <1>2. Of(g, type) = IF e.type = type THEN Of(h, type) \cup {Len(h) + 1} ELSE Of(h, type)
    BY <1>1 DEF Of
  <1>3. \A i \in Of(h, type) : i \in Nat /\ i < Len(h) + 1
    BY <1>1 DEF Of
  <1>4. h = <<>> => Of(h, type) = {} /\ Len(h) + 1 = 1
    BY <1>1 DEF Of
  <1> QED
    BY <1>1, <1>2, <1>3, <1>4 DEF g

(* A birth starts a history, and what follows it is no second birth.        *)
LEMMA BirthStarts ==
  ASSUME NEW h \in Seq(Events), NEW e \in Events, h = <<>>, e.before = NoEntry,
         e.type \in {"model.added", "model.deprecated"}
  PROVE  WellBorn(Append(h, e))
  <1>1. Append(h, e) # <<>> /\ Append(h, e)[1] = e
    BY FeedGrows
  <1>2. Of(h, "model.added") = {} /\ Len(h) + 1 = 1
    BY OfGrows
  <1>3. Of(Append(h, e), "model.added") \subseteq Of(h, "model.added") \cup {Len(h) + 1}
    BY OfGrows
  <1>4. Of(Append(h, e), "model.added") \subseteq {1}
    BY <1>2, <1>3
  <1> QED
    BY <1>1, <1>4 DEF WellBorn

LEMMA BirthKept ==
  ASSUME NEW h \in Seq(Events), NEW e \in Events, WellBorn(h), e.type # "model.added"
  PROVE  WellBorn(Append(h, e))
  <1>1. 1 \in DOMAIN h
    BY FeedGrows DEF WellBorn
  <1>2. Append(h, e) # <<>> /\ Append(h, e)[1] = h[1]
    BY <1>1, FeedGrows
  <1>3. Of(Append(h, e), "model.added") = Of(h, "model.added")
    BY OfGrows
  <1> QED
    BY <1>2, <1>3 DEF WellBorn

(* What a change tells of the row's coming and going.                       *)
LEMMA UpdateTellsBack ==
  ASSUME NEW h \in Seq(Events), NEW e \in Events, e.type = "model.updated"
  PROVE  ~ ToldGone(Append(h, e)) /\ (ToldBack(h) => ToldBack(Append(h, e)))
  <1> DEFINE g == Append(h, e)
             n == Len(h) + 1
  <1>1. /\ Of(g, "model.updated") = Of(h, "model.updated") \cup {n}
        /\ Of(g, "model.removed") = Of(h, "model.removed")
        /\ n \in Nat /\ \A i \in Of(h, "model.removed") : i \in Nat /\ i < n
    BY OfGrows
  <1> HIDE DEF g, n
  <1>2. ~ ToldGone(g)
    <2>1. \A i \in Of(g, "model.removed") : ~ (n < i)
      BY <1>1
    <2> QED
      BY <1>1, <2>1 DEF ToldGone
  <1>3. ToldBack(h) => ToldBack(g)
    BY <1>1 DEF ToldBack
  <1> QED
    BY <1>2, <1>3 DEF g

LEMMA OthersTellNothing ==
  ASSUME NEW h \in Seq(Events), NEW e \in Events,
         e.type \notin {"model.updated", "model.removed"}
  PROVE  /\ ToldGone(Append(h, e)) <=> ToldGone(h)
         /\ ToldBack(Append(h, e)) <=> ToldBack(h)
  <1>1. /\ Of(Append(h, e), "model.updated") = Of(h, "model.updated")
        /\ Of(Append(h, e), "model.removed") = Of(h, "model.removed")
    BY OfGrows
  <1> QED
    BY <1>1 DEF ToldGone, ToldBack

LEMMA RemovalTellsGone ==
  ASSUME NEW h \in Seq(Events), NEW e \in Events, e.type = "model.removed",
         ~ ToldGone(h), ToldBack(h)
  PROVE  ToldBack(Append(h, e))
  <1> DEFINE g == Append(h, e)
             n == Len(h) + 1
  <1>1. /\ Of(g, "model.removed") = Of(h, "model.removed") \cup {n}
        /\ Of(g, "model.updated") = Of(h, "model.updated")
        /\ n \in Nat
        /\ \A i \in Of(h, "model.removed") : i \in Nat /\ i < n
        /\ \A k \in Of(h, "model.updated") : k \in Nat /\ k < n
    BY OfGrows
  <1>2. \A i \in Of(h, "model.removed") : i \notin Of(h, "model.updated")
    BY DEF Of
  <1> HIDE DEF g, n
  <1>3. ASSUME NEW i \in Of(h, "model.removed")
        PROVE  \E k \in Of(h, "model.updated") : i < k /\ k < n
    <2>1. PICK k \in Of(h, "model.updated") : ~ (k < i)
      BY DEF ToldGone
    <2>2. k # i
      BY <1>2
    <2>3. i < k /\ k < n
      BY <1>1, <2>1, <2>2
    <2> QED
      BY <2>3
  <1>4. ASSUME NEW i \in Of(g, "model.removed"), NEW j \in Of(g, "model.removed"), i < j
        PROVE  \E k \in Of(g, "model.updated") : i < k /\ k < j
    <2>1. CASE i = n
      <3>1. ~ (n < j)
        BY <1>1
      <3> QED
        BY <1>4, <2>1, <3>1
    <2>2. CASE i # n /\ j = n
      BY <1>1, <1>3, <2>2
    <2>3. CASE i # n /\ j # n
      BY <1>1, <1>4, <2>3 DEF ToldBack
    <2> QED
      BY <2>1, <2>2, <2>3
  <1>5. ToldBack(g)
    BY <1>4 DEF ToldBack
  <1> QED
    BY <1>5 DEF g

LEMMA NothingTold ==
  ASSUME NEW h, h = <<>>
  PROVE  ~ ToldGone(h) /\ ToldBack(h)
  <1>1. \A type : Of(h, type) = {}
    BY DEF Of
  <1> QED
    BY <1>1 DEF ToldGone, ToldBack

(* A model whose history is as it was, and of which nothing is to be told.  *)
LEMMA BornQuiet ==
  ASSUME NEW q, NEW s, NEW m \in Models, Born(q, m), feed'[m] = feed[m],
         m \in DOMAIN rows' <=> m \in DOMAIN rows,
         m \in DOMAIN rows => rows'[m].deprecatedAt # 0 \/ rows[m].deprecatedAt = 0,
         q.pc # "tell" \/ m \notin q.about,
         s.pc # "tell" \/ m \notin s.about
  PROVE  /\ m \notin DOMAIN rows' \/ Tells(s, m, "model.added") => feed'[m] = <<>>
         /\ m \in DOMAIN rows' /\ ~ Tells(s, m, "model.added") => WellBorn(feed'[m])
         /\ ToldGone(feed'[m]) =>
                /\ m \in DOMAIN rows'
                /\ rows'[m].deprecatedAt # 0 \/ Tells(s, m, "model.updated")
                /\ ~ Tells(s, m, "model.removed")
         /\ ToldBack(feed'[m])
  BY DEF Born, Tells

(* The row of a change about to be told is written.                         *)
LEMMA BornWritten ==
  ASSUME TypeInv, NEW p \in Pollers, Progress(poll[p]), \A x \in Models : Born(poll[p], x),
         NEW m \in Models, InsertModel(p, m) \/ UpdateModel(p, m) \/ RemoveModel(p, m)
  PROVE  \A x \in Models : Born(poll[p], x)'
  <1>1. /\ poll[p].pc # "tell" /\ poll'[p].pc = "tell" /\ poll'[p].about = {m}
        /\ m \in poll[p].todo
        /\ DOMAIN rows' = DOMAIN rows \cup {m} /\ feed' = feed
        /\ \A x \in DOMAIN rows \ {m} : rows'[x] = rows[x]
    BY InsertIs, UpdateIs, RemoveIs
  <1>2. /\ m \notin DOMAIN rows => feed[m] = <<>>
        /\ m \in DOMAIN rows => WellBorn(feed[m])
        /\ ToldGone(feed[m]) => m \in DOMAIN rows /\ rows[m].deprecatedAt # 0
        /\ ToldBack(feed[m])
    BY <1>1 DEF Born, Tells
  <1>3. poll[p].about = {}
    BY <1>1, PollIs DEF Shape
  <1>4. ASSUME InsertModel(p, m) PROVE Born(poll[p], m)'
    <2>1. poll'[p].event = "model.added" /\ m \notin DOMAIN rows
      BY <1>4, InsertIs
    <2>2. feed'[m] = <<>> /\ m \in DOMAIN rows' /\ Tells(poll'[p], m, "model.added")
      BY <1>1, <1>2, <2>1 DEF Tells
    <2> QED
      BY <2>2, NothingTold DEF Born
  <1>5. ASSUME UpdateModel(p, m) PROVE Born(poll[p], m)'
    <2>1. poll'[p].event = "model.updated" /\ m \in DOMAIN rows
      BY <1>5, UpdateIs
    <2> QED
      BY <1>1, <1>2, <2>1 DEF Born, Tells
  <1>6. ASSUME RemoveModel(p, m) PROVE Born(poll[p], m)'
    <2>1. /\ poll'[p].event = "model.removed" /\ m \in DOMAIN rows
          /\ m \in DOMAIN poll[p].prior /\ poll[p].pc = "missing"
      BY <1>6, RemoveIs
    <2>2. m \in Ahead(poll[p]) /\ Missing(poll[p])
      BY <1>1, <1>3, <2>1 DEF Ahead, Missing
    <2>3. rows[m].deprecatedAt = 0
      BY <1>1, <2>1, <2>2 DEF Progress, MissingInv
    <2> QED
      BY <1>1, <1>2, <2>1, <2>3 DEF Born, Tells
  <1>7. ASSUME NEW x \in Models, x # m PROVE Born(poll[p], x)'
    <2>1. /\ poll[p].pc # "tell" \/ x \notin poll[p].about
          /\ poll'[p].pc # "tell" \/ x \notin poll'[p].about
          /\ feed'[x] = feed[x] /\ (x \in DOMAIN rows' <=> x \in DOMAIN rows)
          /\ x \in DOMAIN rows => rows'[x] = rows[x]
      BY <1>1, <1>7
    <2> QED
      BY <2>1, BornQuiet DEF Born
  <1> QED
    BY <1>4, <1>5, <1>6, <1>7

(* The change itself.                                                       *)
LEMMA BornTold ==
  ASSUME TypeInv, NEW p \in Pollers, Progress(poll[p]), \A x \in Models : Born(poll[p], x),
         Tell(p)
  PROVE  \A x \in Models : Born(poll[p], x)'
  <1> DEFINE type == poll[p].event
             e == Plain(type)
  <1>1. PICK m \in poll[p].todo :
            /\ poll[p].pc = "tell" /\ poll[p].about = {m}
            /\ poll[p].event \in {"model.added", "model.updated", "model.removed"}
            /\ feed' = [feed EXCEPT ![m] = Append(@, e)]
            /\ poll'[p].pc = IF poll[p].event = "model.removed" THEN "missing" ELSE "walk"
            /\ rows' = rows
    BY TellIs
  <1>2. e \in Events /\ e.type = type /\ e.before = NoEntry
    BY <1>1, PlainIs DEF EventTypes
  <1>3. m \in Models /\ feed \in [Models -> Seq(Events)]
    BY PollIs DEF TypeInv
  <1> HIDE DEF e
  <1> DEFINE h == feed[m]
             g == Append(h, e)
  <1>4. h \in Seq(Events) /\ feed'[m] = g
    BY <1>1, <1>3
  <1>5. /\ type = "model.added" => h = <<>>
        /\ m \in DOMAIN rows /\ type # "model.added" => WellBorn(h)
        /\ type = "model.removed" => ~ ToldGone(h)
        /\ ToldBack(h)
    BY <1>1, <1>3 DEF Born, Tells
  <1>6. m \notin Ahead(poll[p]) /\ m \in DOMAIN rows
    BY <1>1, PollIs DEF Ahead, Reads
  <1>7. type = "model.removed" => rows[m].deprecatedAt # 0
    BY <1>1, <1>6 DEF Progress, MissingInv, Missing
  <1> HIDE DEF g, h
  <1>8. WellBorn(g)
    <2>1. CASE type = "model.added"
      BY <1>2, <1>4, <1>5, <2>1, BirthStarts DEF g
    <2>2. CASE type # "model.added"
      BY <1>2, <1>4, <1>5, <1>6, <2>2, BirthKept DEF g
    <2> QED
      BY <2>1, <2>2
  <1>9. ToldBack(g) /\ (ToldGone(g) => rows[m].deprecatedAt # 0)
    <2>1. CASE type = "model.added"
      <3>1. ~ ToldGone(h)
        BY <1>5, <2>1, NothingTold
      <3>2. /\ ToldGone(g) <=> ToldGone(h)
            /\ ToldBack(g) <=> ToldBack(h)
        BY <1>2, <1>4, <2>1, OthersTellNothing DEF g
      <3> QED
        BY <1>5, <3>1, <3>2
    <2>2. CASE type = "model.updated"
      BY <1>2, <1>4, <1>5, <2>2, UpdateTellsBack DEF g
    <2>3. CASE type = "model.removed"
      BY <1>2, <1>4, <1>5, <1>7, <2>3, RemovalTellsGone DEF g
    <2> QED
      BY <1>1, <2>1, <2>2, <2>3
  <1>10. poll'[p].pc # "tell"
    BY <1>1
  <1>11. Born(poll[p], m)'
    BY <1>1, <1>4, <1>6, <1>8, <1>9, <1>10 DEF Born, Tells
  <1>12. ASSUME NEW x \in Models, x # m PROVE Born(poll[p], x)'
    <2>1. feed'[x] = feed[x]
      BY <1>1, <1>3, <1>12
    <2>2. poll[p].pc # "tell" \/ x \notin poll[p].about
      BY <1>1, <1>12
    <2> QED
      BY <1>1, <1>10, <2>1, <2>2, BornQuiet DEF Born
  <1> QED
    BY <1>11, <1>12

LEMMA BornApplied ==
  ASSUME TypeInv, NEW p \in Pollers, Progress(poll[p]), \A x \in Models : Born(poll[p], x),
         ApplyDeprecations(p)
  PROVE  \A x \in Models : Born(poll[p], x)'
  <1> DEFINE e(m) == Applied(poll[p], m)
  <1>1. PICK slice \in SUBSET poll[p].todo :
            /\ poll[p].pc = "page" /\ poll'[p].pc = "page"
            /\ DOMAIN rows' = DOMAIN rows \cup slice
            /\ \A m \in slice : rows'[m] = PageRow(poll[p], m)
            /\ \A m \in DOMAIN rows \ slice : rows'[m] = rows[m]
            /\ feed' = [m \in Models |-> IF m \in slice
                    THEN Append(feed[m], Applied(poll[p], m)) ELSE feed[m]]
    BY ApplyIs
  <1>2. \A m : /\ e(m) \in Events /\ e(m).type = "model.deprecated"
               /\ e(m).before = Was(poll[p], m)
    BY AppliedIs
  <1>3. feed' = [m \in Models |-> IF m \in slice THEN Append(feed[m], e(m)) ELSE feed[m]]
    BY <1>1
  <1> HIDE DEF e
  <1>4. ASSUME NEW x \in Models, x \notin slice PROVE Born(poll[p], x)'
    <2>1. feed'[x] = feed[x]
      BY <1>3, <1>4
    <2>2. /\ x \in DOMAIN rows' <=> x \in DOMAIN rows
          /\ x \in DOMAIN rows => rows'[x] = rows[x]
      BY <1>1, <1>4
    <2> QED
      BY <1>1, <2>1, <2>2, BornQuiet DEF Born
  <1>5. ASSUME NEW x \in Models, x \in slice PROVE Born(poll[p], x)'
    <2> DEFINE h == feed[x]
               g == Append(h, e(x))
    <2>1. h \in Seq(Events) /\ feed'[x] = g /\ x \in DOMAIN rows'
      BY <1>1, <1>3, <1>5 DEF TypeInv
    <2>2. /\ x \notin DOMAIN rows => h = <<>>
          /\ x \in DOMAIN rows => WellBorn(h)
          /\ ToldGone(h) => x \in DOMAIN rows /\ rows[x].deprecatedAt # 0
          /\ ToldBack(h)
      BY <1>1 DEF Born, Tells
    <2> HIDE DEF g, h
    <2>3. WellBorn(g)
      <3>1. CASE x \notin DOMAIN rows
        <4>1. x \notin DOMAIN poll[p].prior
          BY <3>1, PollIs DEF Reads
        <4>2. e(x).before = NoEntry /\ h = <<>>
          BY <1>2, <2>2, <3>1, <4>1 DEF Was
        <4> QED
          BY <1>2, <2>1, <4>2, BirthStarts DEF g
      <3>2. CASE x \in DOMAIN rows
        BY <1>2, <2>1, <2>2, <3>2, BirthKept DEF g
      <3> QED
        BY <3>1, <3>2
    <2>4. /\ ToldGone(g) <=> ToldGone(h)
          /\ ToldBack(g) <=> ToldBack(h)
      BY <1>2, <2>1, OthersTellNothing DEF g
    <2>5. ToldGone(h) => rows'[x].deprecatedAt # 0
      <3>1. /\ Named(poll[p], x) # NoEntry => PageRow(poll[p], x).deprecatedAt # 0
            /\ Named(poll[p], x) = NoEntry =>
                    PageRow(poll[p], x).deprecatedAt = rows[x].deprecatedAt
        BY <1>1, <1>5, PageRowIs
      <3>2. rows'[x] = PageRow(poll[p], x)
        BY <1>1, <1>5
      <3> QED
        BY <2>2, <3>1, <3>2
    <2> QED
      BY <1>1, <2>1, <2>2, <2>3, <2>4, <2>5 DEF Born, Tells
  <1> QED
    BY <1>4, <1>5

LEMMA BornMoves ==
  ASSUME TypeInv, NEW p \in Pollers, Progress(poll[p]), \A x \in Models : Born(poll[p], x),
         PollMoves(p)
  PROVE  \A x \in Models : Born(poll[p], x)'
  <1>1. CASE WalkDone(p) \/ ReadDeprecations(p) \/ \E m \in Models : KeepModel(p, m)
    <2>1. poll[p].pc # "tell" /\ poll'[p].pc # "tell" /\ feed' = feed /\ rows' = rows
      BY <1>1, WalkDoneIs, ReadDeprecationsIs, KeepIs
    <2> QED
      BY <2>1 DEF Born, Tells
  <1> QED
    BY <1>1, BornWritten, BornTold, BornApplied DEF PollMoves

LEMMA BirthStep ==
  ASSUME TypeInv, AloneInv, ProgressInv, BirthInv, [PollNext]_vars
  PROVE  BirthInv'
  <1>0. AloneInv'
    BY AloneStep
  <1>1. ASSUME NEW p \in Pollers, PollMoves(p), Clean' PROVE BirthInv'
    <2>1. /\ poll[p].pc # "idle" /\ poll'[p].pc # "idle" /\ Clean
          /\ poll[p].alone /\ poll'[p].alone
      BY <1>0, <1>1, PollContinues DEF Clean, AloneInv
    <2>2. \A x \in Models : Born(poll[p], x)'
      BY <1>1, <2>1, BornMoves DEF BirthInv, ProgressInv
    <2>3. \A o \in Pollers : poll'[o].pc # "idle" => o = p
      BY <1>0, <2>1 DEF AloneInv
    <2> QED
      BY <2>1, <2>2, <2>3 DEF BirthInv, AllIdle
  <1>2. ASSUME NEW p \in Pollers, StartPoll(p), Clean' PROVE BirthInv'
    <2>1. /\ poll[p].pc = "idle" /\ poll'[p].pc = "walk" /\ rows' = rows /\ feed' = feed
          /\ crashes' = crashes /\ (overlapped' <=> overlapped \/ Others(p) # {})
      BY <1>2, StartIs
    <2>2. Clean /\ AllIdle
      BY <1>2, <2>1 DEF Clean, AllIdle, Others
    <2>3. \A x \in Models : Born(poll[p], x)'
      BY <2>1, <2>2, NoPollIs DEF BirthInv, Born, Tells
    <2>4. \A o \in Pollers : poll'[o].pc # "idle" => o = p
      BY <1>0, <1>2, <2>1 DEF AloneInv, Clean
    <2> QED
      BY <2>1, <2>3, <2>4 DEF BirthInv, AllIdle
  <1>3. ASSUME NEW p \in Pollers, PollEnds(p), Clean' PROVE BirthInv'
    <2>1. /\ poll[p].pc # "idle" /\ poll'[p] = NoPoll /\ Alike(p) /\ rows' = rows /\ feed' = feed
          /\ crashes' = crashes \/ (CrashPoll(p) /\ crashes' = crashes + 1)
          /\ overlapped' = overlapped
      BY <1>3, EndIs
    <2>2. Clean /\ ~ CrashPoll(p)
      BY <1>3, <2>1 DEF Clean, TypeInv, CrashPoll
    <2>3. poll[p].pc # "tell" /\ poll[p].alone
      BY <1>3, <2>2, EndIs DEF Clean, AloneInv
    <2>4. \A o \in Pollers : poll'[o].pc = "idle"
      BY <2>1, <2>3, NoPollIs DEF AloneInv, Alike
    <2>5. \A x \in Models : Born(poll[p], x)
      BY <2>1, <2>2 DEF BirthInv
    <2>6. \A x \in Models : Born(NoPoll, x)'
      BY <2>1, <2>3, <2>5, NoPollIs DEF Born, Tells
    <2> QED
      BY <2>4, <2>6 DEF BirthInv
  <1>4. CASE UNCHANGED vars
    BY <1>4 DEF vars, BirthInv, Born, Clean, AllIdle
  <1>5. CASE ~ Clean'
    BY <1>5 DEF BirthInv
  <1> QED
    BY <1>1, <1>2, <1>3, <1>4, <1>5, NextSplits

(* The polls that may overlap.  A row that is inserted was not there, and   *)
(* every row has one insert.                                                *)
LEMMA AddedTold ==
  ASSUME TypeInv, AddedInv, NEW p \in Pollers, Tell(p)
  PROVE  AddedInv'
  <1> DEFINE type == poll[p].event
             e == Plain(type)
  <1>1. PICK m \in poll[p].todo :
            /\ poll[p].pc = "tell" /\ poll[p].about = {m}
            /\ poll[p].event \in {"model.added", "model.updated", "model.removed"}
            /\ feed' = [feed EXCEPT ![m] = Append(@, e)]
            /\ poll'[p].pc = IF poll[p].event = "model.removed" THEN "missing" ELSE "walk"
            /\ rows' = rows /\ Alike(p)
    BY TellIs
  <1>2. e \in Events /\ e.type = type
    BY <1>1, PlainIs DEF EventTypes
  <1>3. m \in Models /\ feed \in [Models -> Seq(Events)] /\ m \in DOMAIN rows
    BY <1>1, PollIs DEF TypeInv, Reads
  <1> HIDE DEF e
  <1>4. /\ poll'[p].pc # "tell" /\ \A o \in Pollers : o # p => poll'[o] = poll[o]
    BY <1>1 DEF Alike
  <1>5. ASSUME NEW x \in Models, x # m PROVE AddedOnce(x)'
    <2>1. feed'[x] = feed[x] /\ AddedOnce(x)
      BY <1>1, <1>3, <1>5 DEF AddedInv
    <2> QED
      BY <1>1, <1>4, <2>1 DEF AddedOnce, Tells
  <1>6. AddedOnce(m)'
    <2> DEFINE h == feed[m]
               n == Len(h) + 1
    <2>1. Of(feed'[m], "model.added") =
                IF e.type = "model.added" THEN Of(h, "model.added") \cup {n}
                ELSE Of(h, "model.added")
      <3>1. h \in Seq(Events) /\ feed'[m] = Append(h, e)
        BY <1>1, <1>3
      <3> HIDE DEF h
      <3>2. Of(Append(h, e), "model.added") =
                IF e.type = "model.added" THEN Of(h, "model.added") \cup {n}
                ELSE Of(h, "model.added")
        BY <1>2, <3>1, OfGrows
      <3> QED
        BY <3>1, <3>2
    <2>2. AddedOnce(m)
      BY <1>3 DEF AddedInv
    <2> HIDE DEF h, n
    <2>3. CASE type = "model.added"
      <3>1. /\ Of(h, "model.added") = {}
            /\ \A o \in Pollers : Tells(poll[o], m, "model.added") => o = p
        BY <1>1, <2>2, <2>3 DEF AddedOnce, Tells, h
      <3>2. \A o \in Pollers : ~ Tells(poll'[o], m, "model.added")
        BY <1>4, <3>1 DEF Tells
      <3> QED
        BY <1>1, <1>2, <1>3, <2>1, <2>3, <3>1, <3>2 DEF AddedOnce
    <2>4. CASE type # "model.added"
      <3>1. Of(feed'[m], "model.added") = Of(feed[m], "model.added")
        BY <1>2, <2>1, <2>4 DEF h
      <3>2. \A o \in Pollers :
                Tells(poll'[o], m, "model.added") => Tells(poll[o], m, "model.added")
        BY <1>4 DEF Tells
      <3> QED
        BY <1>1, <1>3, <2>2, <3>1, <3>2 DEF AddedOnce
    <2> QED
      BY <2>3, <2>4
  <1> QED
    BY <1>5, <1>6 DEF AddedInv

LEMMA AddedApplied ==
  ASSUME TypeInv, AddedInv, NEW p \in Pollers, ApplyDeprecations(p)
  PROVE  AddedInv'
  <1>1. PICK slice \in SUBSET poll[p].todo :
            /\ poll[p].pc = "page" /\ poll'[p].pc = "page"
            /\ DOMAIN rows' = DOMAIN rows \cup slice
            /\ feed' = [m \in Models |-> IF m \in slice
                    THEN Append(feed[m], Applied(poll[p], m)) ELSE feed[m]]
            /\ Alike(p)
    BY ApplyIs
  <1>2. ASSUME NEW x \in Models PROVE AddedOnce(x)'
    <2>1. Of(feed'[x], "model.added") = Of(feed[x], "model.added")
      <3>1. /\ feed[x] \in Seq(Events) /\ Applied(poll[p], x) \in Events
            /\ Applied(poll[p], x).type # "model.added"
        BY AppliedIs DEF TypeInv
      <3>2. Of(Append(feed[x], Applied(poll[p], x)), "model.added") = Of(feed[x], "model.added")
        BY <3>1, OfGrows
      <3> QED
        BY <1>1, <3>2
    <2>2. \A o \in Pollers : Tells(poll'[o], x, "model.added") <=> Tells(poll[o], x, "model.added")
      BY <1>1 DEF Alike, Tells
    <2> QED
      BY <1>1, <2>1, <2>2 DEF AddedInv, AddedOnce
  <1> QED
    BY <1>2 DEF AddedInv

LEMMA AddedInserted ==
  ASSUME TypeInv, AddedInv, NEW p \in Pollers, NEW m \in Models, InsertModel(p, m)
  PROVE  AddedInv'
  <1>1. /\ poll[p].pc = "walk" /\ m \notin DOMAIN rows /\ DOMAIN rows' = DOMAIN rows \cup {m}
        /\ poll'[p].about = {m} /\ feed' = feed /\ Alike(p)
    BY InsertIs
  <1>2. \A o \in Pollers : m \notin poll[o].about
    BY <1>1, PollIs DEF Reads
  <1>3. \A o \in Pollers : o # p => poll'[o] = poll[o]
    BY <1>1 DEF Alike
  <1>4. AddedOnce(m)'
    <2>1. Of(feed[m], "model.added") = {}
      BY <1>1 DEF AddedInv, AddedOnce
    <2>2. \A o \in Pollers : Tells(poll'[o], m, "model.added") => o = p
      BY <1>2, <1>3 DEF Tells
    <2> QED
      BY <1>1, <2>1, <2>2 DEF AddedOnce
  <1>5. ASSUME NEW x \in Models, x # m PROVE AddedOnce(x)'
    <2>1. \A o \in Pollers :
              Tells(poll'[o], x, "model.added") => Tells(poll[o], x, "model.added")
      BY <1>1, <1>3, <1>5 DEF Tells
    <2> QED
      BY <1>1, <1>5, <2>1 DEF AddedInv, AddedOnce
  <1> QED
    BY <1>4, <1>5 DEF AddedInv

(* The other steps give nobody a model to tell added.                       *)
LEMMA NobodyAdds ==
  ASSUME TypeInv, [PollNext]_vars,
         \A p \in Pollers : ~ Tell(p) /\ ~ ApplyDeprecations(p)
                            /\ \A m \in Models : ~ InsertModel(p, m)
  PROVE  /\ feed' = feed /\ DOMAIN rows' = DOMAIN rows
         /\ \A o \in Pollers : \A x :
                Tells(poll'[o], x, "model.added") => Tells(poll[o], x, "model.added")
         /\ \A o \in Pollers : \A x : crashes' = 0 /\ Tells(poll[o], x, "model.added") =>
                Tells(poll'[o], x, "model.added")
  <1>1. feed' = feed
    BY EntriesKept
  <1> DEFINE same(o) ==
        /\ \A x : Tells(poll'[o], x, "model.added") => Tells(poll[o], x, "model.added")
        /\ \A x : crashes' = 0 /\ Tells(poll[o], x, "model.added") =>
                      Tells(poll'[o], x, "model.added")
  <1>2. ASSUME NEW p \in Pollers, PollMoves(p)
        PROVE  DOMAIN rows' = DOMAIN rows /\ \A o \in Pollers : same(o)
    <2>1. /\ DOMAIN rows' = DOMAIN rows /\ poll[p].pc # "tell"
          /\ poll'[p].pc # "tell" \/ poll'[p].event # "model.added"
      BY <1>2, UpdateIs, KeepIs, RemoveIs, WalkDoneIs, ReadDeprecationsIs DEF PollMoves
    <2>2. \A o \in Pollers : o # p => poll'[o] = poll[o]
      BY <1>2, PollContinues DEF Alike
    <2> QED
      BY <2>1, <2>2 DEF Tells
  <1>3. ASSUME NEW p \in Pollers, StartPoll(p)
        PROVE  DOMAIN rows' = DOMAIN rows /\ \A o \in Pollers : same(o)
    <2>1. rows' = rows /\ poll[p].pc = "idle" /\ poll'[p].pc = "walk"
      BY <1>3, StartIs
    <2>2. ASSUME NEW o \in Pollers, o # p
          PROVE  /\ poll'[o].pc = poll[o].pc /\ poll'[o].about = poll[o].about
                 /\ poll'[o].event = poll[o].event
      <3>1. poll'[o] = [poll[o] EXCEPT !.alone = poll'[o].alone] /\ poll[o] \in Locals
        BY <1>3, <2>2, StartIs, PollIs
      <3> QED
        BY <3>1 DEF Locals
    <2> QED
      BY <2>1, <2>2 DEF Tells
  <1>4. ASSUME NEW p \in Pollers, PollEnds(p)
        PROVE  DOMAIN rows' = DOMAIN rows /\ \A o \in Pollers : same(o)
    <2>1. /\ rows' = rows /\ poll'[p] = NoPoll /\ Alike(p)
          /\ poll[p].pc # "tell" \/ CrashPoll(p)
      BY <1>4, EndIs
    <2>2. CrashPoll(p) => crashes' # 0
      BY DEF CrashPoll, TypeInv
    <2>3. \A o \in Pollers : o # p => poll'[o] = poll[o]
      BY <2>1 DEF Alike
    <2> QED
      BY <2>1, <2>2, <2>3, NoPollIs DEF Tells
  <1>5. CASE UNCHANGED vars
    BY <1>5 DEF vars
  <1> QED
    BY <1>1, <1>2, <1>3, <1>4, <1>5, NextSplits

LEMMA AddedStep ==
  ASSUME TypeInv, AddedInv, [PollNext]_vars
  PROVE  AddedInv'
  <1>1. CASE \A p \in Pollers : ~ Tell(p) /\ ~ ApplyDeprecations(p)
                                /\ \A m \in Models : ~ InsertModel(p, m)
    BY <1>1, NobodyAdds DEF AddedInv, AddedOnce
  <1> QED
    BY <1>1, AddedTold, AddedApplied, AddedInserted

(* A birth that has been told stays told.                                   *)
LEMMA BirthStays ==
  ASSUME TypeInv, [PollNext]_vars, NEW m \in Models, BirthIn(feed[m])
  PROVE  BirthIn(feed'[m])
  <1>1. ASSUME NEW e \in Events, feed'[m] = Append(feed[m], e) PROVE BirthIn(feed'[m])
    <2>1. feed[m] \in Seq(Events)
      BY DEF TypeInv
    <2>2. \A i \in DOMAIN feed[m] : i \in DOMAIN feed'[m] /\ feed'[m][i] = feed[m][i]
      BY <1>1, <2>1, FeedGrows
    <2> QED
      BY <2>2 DEF BirthIn
  <1> QED
    BY <1>1, HistoriesGrow

LEMMA BirthAdded ==
  ASSUME NEW h \in Seq(Events), NEW e \in Events, IsBirth(e)
  PROVE  BirthIn(Append(h, e))
  BY FeedGrows DEF BirthIn

LEMMA AnnouncedStep ==
  ASSUME TypeInv, AnnouncedInv, [PollNext]_vars
  PROVE  AnnouncedInv'
  <1> SUFFICES ASSUME crashes' = 0, NEW m \in DOMAIN rows'
               PROVE  \/ BirthIn(feed'[m])
                      \/ \E p \in Pollers : Tells(poll'[p], m, "model.added")
    BY DEF AnnouncedInv
  <1>0. m \in Models /\ crashes = 0
    <2>1. TypeInv'
      BY TypeStep
    <2>2. m \in Models
      BY <2>1, RowMapIs DEF TypeInv
    <2>3. crashes' = crashes \/ crashes' = crashes + 1
      BY NextSplits, StartIs, PollContinues, EndIs DEF vars
    <2>4. crashes \in Nat
      BY DEF TypeInv
    <2> QED
      BY <2>2, <2>3, <2>4
  <1>1. m \in DOMAIN rows => \/ BirthIn(feed'[m])
                             \/ \E p \in Pollers : Tells(poll[p], m, "model.added")
    BY <1>0, BirthStays DEF AnnouncedInv
  <1>2. CASE \A p \in Pollers : ~ Tell(p) /\ ~ ApplyDeprecations(p)
                                /\ \A x \in Models : ~ InsertModel(p, x)
    BY <1>1, <1>2, NobodyAdds
  <1>3. ASSUME NEW p \in Pollers, Tell(p)
        PROVE  \/ BirthIn(feed'[m])
               \/ \E o \in Pollers : Tells(poll'[o], m, "model.added")
    <2>1. PICK x \in poll[p].todo :
              /\ poll[p].about = {x}
              /\ poll[p].event \in {"model.added", "model.updated", "model.removed"}
              /\ feed' = [feed EXCEPT ![x] = Append(@, Plain(poll[p].event))]
              /\ rows' = rows /\ Alike(p)
      BY <1>3, TellIs
    <2>2. ASSUME Tells(poll[p], m, "model.added") PROVE BirthIn(feed'[m])
      <3>1. Plain("model.added") \in Events /\ IsBirth(Plain("model.added"))
        BY PlainIs DEF EventTypes, IsBirth
      <3>2. feed[m] \in Seq(Events) /\ feed'[m] = Append(feed[m], Plain("model.added"))
        BY <1>0, <2>1, <2>2 DEF Tells, TypeInv
      <3> QED
        BY <3>1, <3>2, BirthAdded
    <2>3. \A o \in Pollers : o # p => poll'[o] = poll[o]
      BY <2>1 DEF Alike
    <2> QED
      BY <1>1, <2>1, <2>2, <2>3
  <1>4. ASSUME NEW p \in Pollers, ApplyDeprecations(p)
        PROVE  \/ BirthIn(feed'[m])
               \/ \E o \in Pollers : Tells(poll'[o], m, "model.added")
    <2>1. PICK slice \in SUBSET poll[p].todo :
              /\ poll[p].pc = "page" /\ poll'[p].pc = "page"
              /\ DOMAIN rows' = DOMAIN rows \cup slice
              /\ feed' = [x \in Models |-> IF x \in slice
                      THEN Append(feed[x], Applied(poll[p], x)) ELSE feed[x]]
              /\ Alike(p)
      BY <1>4, ApplyIs
    <2>2. CASE m \in DOMAIN rows
      BY <1>1, <2>1, <2>2 DEF Alike, Tells
    <2>3. CASE m \notin DOMAIN rows
      <3>1. m \in slice /\ m \notin DOMAIN poll[p].prior
        BY <2>1, <2>3, PollIs DEF Reads
      <3>2. Applied(poll[p], m) \in Events /\ IsBirth(Applied(poll[p], m))
        BY <3>1, AppliedIs DEF IsBirth, Was
      <3>3. feed[m] \in Seq(Events) /\ feed'[m] = Append(feed[m], Applied(poll[p], m))
        BY <1>0, <2>1, <3>1 DEF TypeInv
      <3> QED
        BY <3>2, <3>3, BirthAdded
    <2> QED
      BY <2>2, <2>3
  <1>5. ASSUME NEW p \in Pollers, NEW x \in Models, InsertModel(p, x)
        PROVE  \/ BirthIn(feed'[m])
               \/ \E o \in Pollers : Tells(poll'[o], m, "model.added")
    <2>1. /\ poll[p].pc = "walk" /\ DOMAIN rows' = DOMAIN rows \cup {x}
          /\ poll'[p].pc = "tell" /\ poll'[p].about = {x} /\ poll'[p].event = "model.added"
          /\ Alike(p)
      BY <1>5, InsertIs
    <2>2. CASE m = x
      BY <2>1, <2>2 DEF Tells
    <2>3. CASE m # x
      BY <1>1, <2>1, <2>3 DEF Alike, Tells
    <2> QED
      BY <2>2, <2>3
  <1> QED
    BY <1>2, <1>3, <1>4, <1>5

LEMMA BirthInit == PollInit => BirthInv /\ AddedInv /\ AnnouncedInv
  <1> SUFFICES ASSUME PollInit PROVE BirthInv /\ AddedInv /\ AnnouncedInv
    OBVIOUS
  <1>1. DOMAIN rows = {} /\ \A p \in Pollers : poll[p] = NoPoll
    BY EmptyMapIs DEF PollInit
  <1>2. ASSUME NEW m \in Models PROVE Born(NoPoll, m) /\ Of(feed[m], "model.added") = {}
    <2>1. feed[m] = <<>>
      BY DEF PollInit
    <2> QED
      BY <1>1, <2>1, NothingTold, NoPollIs DEF Born, Tells, Of
  <1> QED
    BY <1>1, <1>2, NoPollIs DEF BirthInv, AddedInv, AddedOnce, AnnouncedInv, Tells

(* No model is told added twice, however polls overlap.  Between polls, as  *)
(* long as none was cut off between a row and its change, every row's birth *)
(* has been told; and if polls never overlapped, its history starts with it *)
(* and a row told removed twice was told back in between.                   *)
THEOREM BirthsAnnounced == PollSpec => []BirthAnnounced
  <1> DEFINE Inv == /\ TypeInv /\ AloneInv /\ ProgressInv /\ RestInv
                    /\ BirthInv /\ AddedInv /\ AnnouncedInv
  <1>1. PollInit => Inv
    BY TypeInit, ProgressInit, BirthInit
  <1>2. Inv /\ [PollNext]_vars => Inv'
    BY TypeStep, AloneStep, ProgressStep, BirthStep, AddedStep, AnnouncedStep
  <1>3. Inv => BirthAnnounced
    <2> SUFFICES ASSUME Inv, NEW m \in Models
                 PROVE  /\ \A i, j \in EventsOf(m, "model.added") : i = j
                        /\ (m \in DOMAIN rows /\ crashes = 0 /\ AllIdle) =>
                            /\ \E i \in DOMAIN feed[m] :
                                    IsBirth(feed[m][i]) /\ (overlapped \/ i = 1)
                            /\ ~ overlapped =>
                                /\ EventsOf(m, "model.added") \subseteq {1}
                                /\ \A i, j \in EventsOf(m, "model.removed") :
                                    i < j => \E k \in EventsOf(m, "model.updated") : i < k /\ k < j
      BY DEF BirthAnnounced, AllIdle
    <2>1. \A i, j \in EventsOf(m, "model.added") : i = j
      BY DEF AddedInv, AddedOnce, Of, EventsOf
    <2>2. ASSUME m \in DOMAIN rows, crashes = 0, AllIdle
          PROVE  \E i \in DOMAIN feed[m] : IsBirth(feed[m][i])
      BY <2>2 DEF AnnouncedInv, AllIdle, Tells, BirthIn
    <2>3. ASSUME m \in DOMAIN rows, crashes = 0, AllIdle, ~ overlapped
          PROVE  /\ \E i \in DOMAIN feed[m] : IsBirth(feed[m][i]) /\ i = 1
                 /\ EventsOf(m, "model.added") \subseteq {1}
                 /\ \A i, j \in EventsOf(m, "model.removed") :
                     i < j => \E k \in EventsOf(m, "model.updated") : i < k /\ k < j
      <3>1. WellBorn(feed[m]) /\ ToldBack(feed[m])
        BY <2>3, NoPollIs DEF BirthInv, Clean, Born, Tells
      <3>2. 1 \in DOMAIN feed[m] /\ IsBirth(feed[m][1])
        <4>1. feed[m] \in Seq(Events) /\ feed[m] # <<>>
          BY <3>1 DEF TypeInv, WellBorn
        <4>2. 1 \in DOMAIN feed[m]
          BY <4>1
        <4> QED
          BY <3>1, <4>2 DEF WellBorn, IsBirth
      <3> QED
        BY <3>1, <3>2 DEF WellBorn, ToldBack, Of, EventsOf
    <2> QED
      BY <2>1, <2>2, <2>3
  <1> QED
    BY <1>1, <1>2, <1>3, PTL DEF PollSpec

=============================================================================
