-------------------------- MODULE FalPricing_proofs --------------------------
(***************************************************************************)
(* Proofs about FAL's pricing, which PriceCards and FalWalk model: what    *)
(* the poll and the extract write, for any number of rows, sections,       *)
(* prices, polls, extracts and edits; and how the extract's cursor walks   *)
(* the rows, for any roster, sections, caps, failures and cut-offs.        *)
(***************************************************************************)
EXTENDS PriceCards, FalWalk, FiniteSetTheorems, TLAPS

-----------------------------------------------------------------------------
(* What is written: PriceCards.                                            *)

(* A row with a card has a hash. *)
Sourced(row) == row.src # None \/ row.card = None

Polls == [pc : {"idle", "read", "rows"},
          listed : [Rows -> Texts \cup {"none", "unavailable"}],
          old : [Rows -> Row], doubtful : SUBSET Rows, todo : SUBSET Rows]

Extracts == [pc : {"idle", "rows"}, old : [Rows -> Row], over : SUBSET Promos,
             fetched : [Rows -> Texts \cup {None}],
             todo : SUBSET Rows, queue : SUBSET Rows]

(* The extract's clock is not ahead, and it has the page of every leftover. *)
ExtractFits(e) ==
    e.over \subseteq ended /\ \A r \in e.queue : e.fetched[r] # None

(* What a poll puts back is a row the table once had. *)
TypeInv ==
    /\ page \in [Rows -> Texts] /\ cache \in [Rows -> Texts \cup {None}]
    /\ ended \subseteq Promos
    /\ rows \in [Rows -> Row] /\ told \in [Rows -> Prices]
    /\ poll \in Polls /\ extract \in Extracts
    /\ ExtractFits(extract)
    /\ polls \in 0 .. MaxPolls
    /\ doubtful \subseteq Rows
    /\ \A r \in Rows : Sourced(rows[r]) /\ Sourced(poll.old[r])

(* A card's price is one of the prices. *)
LEMMA PriceIsPrice ==
    ASSUME NEW card \in Cards \cup {None}
    PROVE  Price(card) \in Prices
  BY DEF Price, Prices, Cards

(* The card of a section has the price the section asks for, a listed card  *)
(* the one it names; no card stands for no price.                           *)
LEMMA CardOfIs ==
    ASSUME NEW t \in Texts, NEW over
    PROVE  /\ CardOf(t, over) \in Cards \cup {None}
           /\ Price(CardOf(t, over)) = PriceNow(t, over)
           /\ Listed(t) \in Cards /\ Listed(t) # None
           /\ Price(Listed(t)) = PriceNow(t, {})
<1>1. PriceNow(t, over) \in Prices /\ PriceOf[t] \in Prices /\ PriceNow(t, {}) = PriceOf[t]
  BY DEF PriceNow, Prices
<1> DEFINE card == [of |-> t, price |-> PriceNow(t, over)]
           listed == [of |-> t, price |-> PriceOf[t]]
<1>2. /\ card \in Cards /\ card.price = PriceNow(t, over)
      /\ listed \in Cards /\ listed.price = PriceOf[t]
  BY <1>1 DEF Cards
<1>3. card # None /\ listed # None
  BY <1>2, NoneAssumption
<1>4. /\ CardOf(t, over) = IF PriceNow(t, over) = NoPrice THEN None ELSE card
      /\ Listed(t) = listed
  BY DEF CardOf, Listed
<1> HIDE DEF card, listed
<1> QED BY <1>1, <1>2, <1>3, <1>4 DEF Price

(* The empty locals have their types. *)
LEMMA EmptyLocals ==
    NoRow \in Row /\ NoPoll \in Polls /\ NoExtract \in Extracts /\ ExtractFits(NoExtract)
  BY PricesAssumption
    DEF NoRow, Row, AllNoRow, NoPoll, NoExtract, Polls, Extracts, ExtractFits

(* A step on row r leaves the other rows alone, with what is noted of them. *)
OthersKept(r) ==
    \A q \in Rows \ {r} :
        /\ rows'[q] = rows[q] /\ told'[q] = told[q]
        /\ q \in doubtful => q \in doubtful'
        /\ q \in unsaid => q \in unsaid'
        /\ q \in mixed => q \in mixed'

(* What a poll makes of a row: it leaves it; stores the listing's card with *)
(* its hash, or neither when the gate refuses it; or puts back the card and *)
(* the hash it read.                                                        *)
LEMMA PollRowWrites ==
    ASSUME TypeInv, NEW r \in Rows, NEW moved \in BOOLEAN, NEW refused \in BOOLEAN,
           PollRow(r, moved, refused)
    PROVE  /\ rows' \in [Rows -> Row] /\ told' \in [Rows -> Prices]
           /\ doubtful' \subseteq Rows /\ OthersKept(r)
           /\ \/ UNCHANGED <<rows, told, histories>>
              \/ /\ rows'[r].prov = rows'[r].fact
                 /\ \/ /\ poll.listed[r] \in Texts
                       /\ \/ /\ rows'[r].card = Listed(poll.listed[r])
                             /\ rows'[r].src = poll.listed[r]
                          \/ rows'[r].card = None /\ rows'[r].src = None
                    \/ /\ rows'[r].card = poll.old[r].card
                       /\ rows'[r].src = poll.old[r].src
                       /\ r \in poll.doubtful => r \in doubtful'
                       /\ rows[r] = poll.old[r] \/ r \in unsaid'
                 /\ \/ told'[r] = Price(rows'[r].card)
                    \/ /\ told'[r] = told[r]
                       /\ Price(rows'[r].card) = Price(poll.old[r].card)
                       /\ rows[r] = poll.old[r] \/ r \in unsaid'
                       /\ r \in unsaid => r \in unsaid'
<1> DEFINE old == poll.old[r]
           l == poll.listed[r]
           card == ListedCard(r, refused)[1]
           src == ListedCard(r, refused)[2]
           priced == Price(card) # Price(old.card)
           fact == IF moved THEN polls ELSE old.fact
           row == [card |-> card, src |-> src, fact |-> fact, prov |-> fact]
<1>1. /\ old \in Row
      /\ old.card \in Cards \cup {None} /\ old.src \in Texts \cup {None}
      /\ old.fact \in 0 .. MaxPolls
  BY DEF TypeInv, Polls, Row
<1>2. \/ l \in Texts /\ card = Listed(l) /\ src = l
      \/ l \in Texts /\ card = None /\ src = None
      \/ l \notin Texts /\ card = old.card /\ src = old.src
  BY DEF ListedCard
<1>3. card \in Cards \cup {None} /\ src \in Texts \cup {None}
  <2> HIDE DEF card, src, l, old
  <2> QED BY <1>1, <1>2, CardOfIs
<1>4. row \in Row
  <2>1. fact \in 0 .. MaxPolls
    BY <1>1 DEF TypeInv
  <2> HIDE DEF fact, card, src
  <2> QED BY <1>3, <2>1 DEF Row
<1>5. CASE ~ (priced \/ moved)
  <2>1. UNCHANGED <<rows, told, histories>>
    BY <1>5 DEF PollRow
  <2> QED BY <2>1 DEF TypeInv, OthersKept, histories
<1>6. CASE priced \/ moved
  <2>1. /\ rows' = [rows EXCEPT ![r] = row]
        /\ told' = IF priced THEN [told EXCEPT ![r] = Price(card)] ELSE told
        /\ unsaid' = IF ~ priced /\ rows[r] # old THEN unsaid \cup {r}
                     ELSE IF priced THEN unsaid \ {r} ELSE unsaid
        /\ mixed' = mixed \ {r}
        /\ doubtful' = IF l \notin Texts /\ r \in poll.doubtful
                       THEN doubtful \cup {r} ELSE doubtful \ {r}
    BY <1>6 DEF PollRow
  <2>2. /\ rows \in [Rows -> Row] /\ told \in [Rows -> Prices]
        /\ doubtful \subseteq Rows
    BY DEF TypeInv
  <2>3. Price(card) \in Prices
    BY <1>3, PriceIsPrice
  <2>4. rows'[r] = row /\ row.card = card /\ row.src = src /\ row.prov = row.fact
    BY <2>1, <2>2
  <2> HIDE DEF row, card, src, l, old
  <2>5. rows' \in [Rows -> Row] /\ told' \in [Rows -> Prices]
    BY <1>4, <2>1, <2>2, <2>3
  <2>6. doubtful' \subseteq Rows
    BY <2>1, <2>2
  <2>7. OthersKept(r)
    BY <2>1, <2>2 DEF OthersKept
  <2>8. \/ /\ l \in Texts
           /\ \/ rows'[r].card = Listed(l) /\ rows'[r].src = l
              \/ rows'[r].card = None /\ rows'[r].src = None
        \/ /\ rows'[r].card = old.card /\ rows'[r].src = old.src
           /\ r \in poll.doubtful => r \in doubtful'
           /\ rows[r] = old \/ r \in unsaid'
    BY <1>2, <2>1, <2>4
  <2>9. CASE priced
    <3>1. told'[r] = Price(rows'[r].card)
      BY <2>1, <2>2, <2>4, <2>9
    <3> QED BY <2>4, <2>5, <2>6, <2>7, <2>8, <3>1 DEF old, l
  <2>10. CASE ~ priced
    <3>1. /\ told'[r] = told[r] /\ Price(rows'[r].card) = Price(old.card)
          /\ rows[r] = old \/ r \in unsaid'
          /\ r \in unsaid => r \in unsaid'
      BY <2>1, <2>4, <2>10
    <3> QED BY <2>4, <2>5, <2>6, <2>7, <2>8, <3>1 DEF old, l
  <2> QED BY <2>9, <2>10
<1> QED BY <1>5, <1>6

(* What an extract makes of a row it writes: the fetched section's hash is  *)
(* stamped, with the card kept, or with the section's card, or none, told.  *)
LEMMA ExtractWritesRow ==
    ASSUME TypeInv, NEW r \in Rows, ExtractWrites(r)
    PROVE  /\ rows' \in [Rows -> Row] /\ told' \in [Rows -> Prices]
           /\ doubtful' \subseteq Rows /\ OthersKept(r)
           /\ extract.fetched[r] \in Texts
           /\ rows'[r].src = extract.fetched[r] /\ rows'[r].fact = rows[r].fact
           /\ rows'[r].prov = rows[r].prov \/ r \in mixed'
           /\ r \in mixed => r \in mixed'
           /\ \/ /\ rows'[r].card = rows[r].card /\ told'[r] = told[r]
                 /\ r \in unsaid => r \in unsaid'
                 /\ \/ r \in doubtful'
                    \/ Price(rows[r].card) = PriceNow(extract.fetched[r], extract.over)
                    \/ rows[r].card = None /\ PriceOf[extract.fetched[r]] # NoPrice
              \/ /\ Price(rows'[r].card) = PriceNow(extract.fetched[r], extract.over)
                 /\ told'[r] = Price(rows'[r].card)
                 /\ rows'[r].card # None \/ PriceOf[extract.fetched[r]] = NoPrice
<1> DEFINE old == extract.old[r]
           t == extract.fetched[r]
           card == CardOf(t, extract.over)
<1>1. /\ old \in Row /\ old.prov \in 0 .. MaxPolls
      /\ rows \in [Rows -> Row] /\ told \in [Rows -> Prices]
      /\ doubtful \subseteq Rows /\ NoPrice \notin extract.over
  BY PricesAssumption DEF TypeInv, Extracts, Row
<1>2. t \in Texts /\ t # None
  <2>1. t # None
    BY DEF ExtractWrites, WriteWalked, Due, WriteLeftover, StampLeftover, TypeInv,
           ExtractFits
  <2>2. t \in Texts \cup {None}
    BY DEF TypeInv, Extracts
  <2> QED BY <2>1, <2>2
<1>3. /\ card \in Cards \cup {None} /\ Price(card) = PriceNow(t, extract.over)
      /\ Price(card) \in Prices
  BY <1>2, CardOfIs, PriceIsPrice
<1>4. ASSUME Stamp(r, t)
      PROVE  /\ rows' \in [Rows -> Row]
             /\ \A q \in Rows \ {r} : rows'[q] = rows[q]
             /\ rows'[r].src = t /\ rows'[r].fact = rows[r].fact
             /\ rows'[r].prov = old.prov /\ rows'[r].card = rows[r].card
  <2> DEFINE row == [rows[r] EXCEPT !.src = t, !.prov = old.prov]
  <2>1. /\ row \in Row /\ row.src = t /\ row.prov = old.prov
        /\ row.fact = rows[r].fact /\ row.card = rows[r].card
    BY <1>1, <1>2 DEF Row
  <2>2. rows' = [rows EXCEPT ![r] = row]
    BY <1>1, <1>4 DEF Stamp, Row
  <2> HIDE DEF row
  <2> QED BY <1>1, <2>1, <2>2
<1>5. ASSUME NoteSources(r)
      PROVE  /\ \A q \in Rows : q \in mixed => q \in mixed'
             /\ old.prov = rows[r].prov \/ r \in mixed'
  BY <1>5 DEF NoteSources
<1> HIDE DEF t, old, card
<1>6. ASSUME WritePricing(r, t, card)
      PROVE  /\ rows' \in [Rows -> Row] /\ told' \in [Rows -> Prices]
             /\ doubtful' \subseteq Rows
             /\ \A q \in Rows \ {r} :
                  /\ rows'[q] = rows[q] /\ told'[q] = told[q]
                  /\ q \in doubtful => q \in doubtful'
                  /\ q \in unsaid => q \in unsaid'
             /\ rows'[r].src = t /\ rows'[r].fact = rows[r].fact
             /\ rows'[r].prov = old.prov
             /\ \/ /\ rows'[r].card = rows[r].card /\ told'[r] = told[r]
                   /\ r \in unsaid => r \in unsaid'
                   /\ r \in doubtful' \/ Price(rows[r].card) = Price(card)
                \/ /\ rows'[r].card = card /\ told'[r] = Price(rows'[r].card)
  <2>1. CASE Price(card) = Price(old.card)
    <3>1. /\ Stamp(r, t)
          /\ doubtful' = IF rows[r].card # old.card THEN doubtful \cup {r}
                         ELSE doubtful \ {r}
          /\ UNCHANGED <<told, unsaid>>
      BY <1>6, <2>1 DEF WritePricing, old
    <3>2. r \in doubtful' \/ Price(rows[r].card) = Price(card)
      BY <2>1, <3>1
    <3> QED BY <1>1, <1>4, <3>1, <3>2
  <2>2. CASE Price(card) # Price(old.card)
    <3> DEFINE row == [rows[r] EXCEPT !.card = card, !.src = t, !.prov = old.prov]
    <3>1. /\ row \in Row /\ row.src = t /\ row.prov = old.prov
          /\ row.fact = rows[r].fact /\ row.card = card
      BY <1>1, <1>2, <1>3 DEF Row
    <3>2. /\ told' = [told EXCEPT ![r] = Price(card)]
          /\ doubtful' = doubtful \ {r}
          /\ unsaid' = unsaid \ {r}
      BY <1>6, <2>2 DEF WritePricing, old
    <3>3. rows' = [rows EXCEPT ![r] = row]
      <4>1. rows' = [rows EXCEPT ![r].card = card, ![r].src = t, ![r].prov = old.prov]
        BY <1>6, <2>2 DEF WritePricing, old
      <4> QED BY <1>1, <4>1 DEF Row
    <3> HIDE DEF row
    <3>4. /\ rows' \in [Rows -> Row] /\ told' \in [Rows -> Prices]
          /\ doubtful' \subseteq Rows
      BY <1>1, <1>3, <3>1, <3>2, <3>3
    <3>5. \A q \in Rows \ {r} :
            /\ rows'[q] = rows[q] /\ told'[q] = told[q]
            /\ q \in doubtful => q \in doubtful'
            /\ q \in unsaid => q \in unsaid'
      BY <1>1, <3>2, <3>3
    <3>6. rows'[r] = row /\ told'[r] = Price(card)
      BY <1>1, <3>2, <3>3
    <3> QED BY <3>1, <3>4, <3>5, <3>6
  <2> QED BY <2>1, <2>2
<1>7. /\ NoteSources(r)
      /\ \/ /\ PriceOf[t] = NoPrice \/ card # None
            /\ WritePricing(r, t, card)
         \/ /\ PriceOf[t] \in extract.over \/ old.card = None
            /\ StampPricingHash(r, t)
  BY DEF ExtractWrites, WriteWalked, WriteLeftover, StampLeftover, t, card, old
<1>8. CASE WritePricing(r, t, card) /\ (PriceOf[t] = NoPrice \/ card # None)
  BY <1>2, <1>3, <1>5, <1>6, <1>7, <1>8 DEF OthersKept, t
<1>9. CASE StampPricingHash(r, t)
  <2>1. /\ Stamp(r, t)
        /\ doubtful' = IF rows[r].card # None THEN doubtful \cup {r} ELSE doubtful \ {r}
        /\ UNCHANGED <<told, unsaid>>
    BY <1>9 DEF StampPricingHash
  <2>2. \/ r \in doubtful'
        \/ rows[r].card = None
           /\ (PriceOf[t] # NoPrice \/ Price(rows[r].card) = PriceNow(t, extract.over))
    BY <1>1, <2>1 DEF Price, PriceNow
  <2> QED BY <1>1, <1>2, <1>4, <1>5, <1>7, <2>1, <2>2 DEF OthersKept, t
<1> QED BY <1>7, <1>8, <1>9

-----------------------------------------------------------------------------
(* One row that a poll settles or an extract writes. *)
RowStep(r) ==
    \/ \E moved, refused \in BOOLEAN : PollRow(r, moved, refused)
    \/ ExtractWrites(r)

(* What a step does that settles no row. *)
LEMMA QuietSteps ==
    ASSUME [PricesNext]_vars,
           ~ \E r \in Rows : RowStep(r)
    PROVE  UNCHANGED <<rows, told, histories>>
  BY DEF PricesNext, vars, EditPage, EndPromo, Expire, ListModels, ReadRows, KillPoll,
         StartExtract, KillExtract, ExtractReads, FetchPage, LeaveRow, QueueRow,
         KeepLeftover, RowStep

(* An extract goes on with the rows and leftovers it has left, or ends. *)
LEMMA RemainingFits ==
    ASSUME TypeInv, NEW todo \in SUBSET Rows, NEW queue \in SUBSET Rows,
           \A r \in queue : extract.fetched[r] # None,
           Remaining(todo, queue)
    PROVE  extract' \in Extracts /\ ExtractFits(extract')
  <1>1. CASE todo \cup queue = {}
    BY <1>1, EmptyLocals DEF Remaining
  <1>2. CASE todo \cup queue # {}
    BY <1>2 DEF Remaining, TypeInv, Extracts, ExtractFits
  <1> QED BY <1>1, <1>2

(* A job goes on with fewer rows to do, or ends. *)
LEMMA LocalsAfterRow ==
    ASSUME TypeInv, NEW r \in Rows, RowStep(r)
    PROVE  /\ poll' \in Polls /\ extract' \in Extracts /\ ExtractFits(extract')
           /\ \/ poll'.old = poll.old /\ poll'.doubtful = poll.doubtful
              \/ poll' = NoPoll
           /\ UNCHANGED <<page, cache, ended, polls>>
<1>1. poll \in Polls /\ extract \in Extracts /\ ExtractFits(extract)
  BY DEF TypeInv
<1>2. ASSUME NEW moved \in BOOLEAN, NEW refused \in BOOLEAN, PollRow(r, moved, refused)
      PROVE  /\ poll' = NoPoll \/ poll' = [poll EXCEPT !.todo = @ \ {r}]
             /\ extract' = extract /\ UNCHANGED <<page, cache, ended, polls>>
  BY <1>2 DEF PollRow, pages
<1>3. ASSUME ExtractWrites(r)
      PROVE  /\ extract' \in Extracts /\ ExtractFits(extract')
             /\ poll' = poll /\ UNCHANGED <<page, cache, ended, polls>>
  <2>1. poll' = poll /\ UNCHANGED <<page, cache, ended, polls>>
    BY <1>3 DEF ExtractWrites, WriteWalked, WriteLeftover, StampLeftover, pages
  <2>2. /\ extract.todo \in SUBSET Rows /\ extract.queue \in SUBSET Rows
        /\ \A q \in extract.queue : extract.fetched[q] # None
    BY <1>1 DEF Extracts, ExtractFits
  <2>3. \/ Remaining(extract.todo \ {r}, extract.queue)
        \/ Remaining({}, extract.queue \ {r})
    BY <1>3 DEF ExtractWrites, WriteWalked, WriteLeftover, StampLeftover
  <2>4. CASE Remaining(extract.todo \ {r}, extract.queue)
    BY <2>1, <2>2, <2>4, RemainingFits
  <2>5. CASE Remaining({}, extract.queue \ {r})
    BY <2>1, <2>2, <2>5, RemainingFits
  <2> QED BY <2>3, <2>4, <2>5
<1>4. CASE \E moved, refused \in BOOLEAN : PollRow(r, moved, refused)
  BY <1>1, <1>2, <1>4, EmptyLocals DEF Polls, ExtractFits
<1>5. CASE ExtractWrites(r)
  BY <1>1, <1>3, <1>5
<1> QED BY <1>4, <1>5 DEF RowStep

(* Every write keeps the types, and a card its hash. *)
LEMMA TypeInvNext ==
    ASSUME TypeInv, [PricesNext]_vars
    PROVE  TypeInv'
<1>1. ASSUME NEW r \in Rows, RowStep(r)
      PROVE  TypeInv'
  <2>1. /\ rows' \in [Rows -> Row] /\ told' \in [Rows -> Prices]
        /\ doubtful' \subseteq Rows
        /\ \A q \in Rows \ {r} : rows'[q] = rows[q]
        /\ Sourced(rows'[r])
    <3>1. ASSUME NEW moved \in BOOLEAN, NEW refused \in BOOLEAN, PollRow(r, moved, refused)
          PROVE  /\ rows' \in [Rows -> Row] /\ told' \in [Rows -> Prices]
                 /\ doubtful' \subseteq Rows
                 /\ \A q \in Rows \ {r} : rows'[q] = rows[q]
                 /\ \/ rows'[r] = rows[r]
                    \/ rows'[r].src \in Texts
                    \/ rows'[r].card = None
                    \/ rows'[r].card = poll.old[r].card /\ rows'[r].src = poll.old[r].src
      BY <3>1, PollRowWrites DEF OthersKept
    <3>2. ASSUME ExtractWrites(r)
          PROVE  /\ rows' \in [Rows -> Row] /\ told' \in [Rows -> Prices]
                 /\ doubtful' \subseteq Rows
                 /\ \A q \in Rows \ {r} : rows'[q] = rows[q]
                 /\ rows'[r].src \in Texts
      BY <3>2, ExtractWritesRow DEF OthersKept
    <3> QED BY <1>1, <3>1, <3>2, PricesAssumption DEF RowStep, Sourced, TypeInv
  <2>2. \A q \in Rows : Sourced(rows'[q])
    BY <2>1 DEF TypeInv, Sourced
  <2>3. poll'.old = poll.old \/ poll' = NoPoll
    BY <1>1, LocalsAfterRow
  <2>4. \A q \in Rows : Sourced(poll'.old[q])
    BY <2>3 DEF TypeInv, Sourced, NoPoll, AllNoRow, NoRow
  <2> QED BY <1>1, <2>1, <2>2, <2>4, LocalsAfterRow DEF TypeInv, Sourced, ExtractFits
<1>2. ASSUME ~ \E r \in Rows : RowStep(r)
      PROVE  TypeInv'
  <2>1. UNCHANGED <<rows, told, histories>>
    BY <1>2, QuietSteps
  <2>2. CASE UNCHANGED vars
    BY <2>2, <2>1 DEF vars, pages, histories, TypeInv, Sourced, ExtractFits
  <2>3. ASSUME NEW r \in Rows, NEW t \in Texts, EditPage(r, t) PROVE TypeInv'
    BY <2>1, <2>3 DEF EditPage, histories, TypeInv, Sourced, ExtractFits
  <2>4. ASSUME NEW r \in Rows, Expire(r) PROVE TypeInv'
    BY <2>1, <2>4 DEF Expire, histories, TypeInv, Sourced, ExtractFits
  <2>5. ASSUME NEW p \in Promos, EndPromo(p) PROVE TypeInv'
    BY <2>1, <2>5 DEF EndPromo, histories, TypeInv, Sourced, ExtractFits
  <2>6. ASSUME NEW failed, ListModels(failed) PROVE TypeInv'
    <3> DEFINE l == [r \in Rows |->
                       IF r \in failed THEN "unavailable"
                       ELSE IF r \in chat /\ PriceOf[Seen(r)] \notin Promos \cup {NoPrice}
                       THEN Seen(r)
                       ELSE "none"]
               p == [NoPoll EXCEPT !.pc = "read", !.listed = l]
    <3>1. \A r \in Rows : Seen(r) \in Texts
      BY DEF Seen, TypeInv
    <3>2. l \in [Rows -> Texts \cup {"none", "unavailable"}]
      BY <3>1
    <3>3. p \in Polls /\ p.old = AllNoRow
      BY <3>2, EmptyLocals DEF Polls, NoPoll
    <3>4. poll' = p
      BY <2>6 DEF ListModels
    <3>5. cache' \in [Rows -> Texts \cup {None}]
      BY <2>6, <3>1 DEF ListModels, TypeInv
    <3>6. polls' \in 0 .. MaxPolls
      BY <2>6, PricesAssumption DEF ListModels, TypeInv
    <3>7. \A r \in Rows : Sourced(p.old[r])
      BY <3>3 DEF AllNoRow, NoRow, Sourced
    <3>8. page' = page /\ ended' = ended /\ extract' = extract
      BY <2>6 DEF ListModels
    <3> HIDE DEF p
    <3> QED BY <2>1, <3>3, <3>4, <3>5, <3>6, <3>7, <3>8
          DEF TypeInv, Sourced, histories, ExtractFits
  <2>7. CASE ReadRows
    <3>1. /\ poll' \in Polls /\ poll'.old = rows
      BY <2>7 DEF ReadRows, TypeInv, Polls
    <3> QED BY <2>1, <2>7, <3>1 DEF ReadRows, pages, histories, TypeInv, Sourced, ExtractFits
  <2>8. CASE KillPoll
    BY <2>1, <2>8, EmptyLocals
      DEF KillPoll, pages, histories, TypeInv, Sourced, NoPoll, AllNoRow, NoRow, ExtractFits
  <2>9. ASSUME extract' \in Extracts, ExtractFits(extract'),
               UNCHANGED <<pages, poll, polls>>
        PROVE  TypeInv'
    BY <2>1, <2>9 DEF pages, histories, TypeInv, Sourced, ExtractFits
  <2>10. CASE StartExtract
    <3>1. extract' \in Extracts /\ ExtractFits(extract')
      BY <2>10, EmptyLocals DEF StartExtract, TypeInv, Extracts, ExtractFits, NoExtract
    <3> QED BY <2>9, <2>10, <3>1 DEF StartExtract
  <2>11. ASSUME NEW r \in Rows, FetchPage(r) PROVE TypeInv'
    <3>1. page[r] \in Texts /\ page[r] # None /\ extract \in Extracts /\ ExtractFits(extract)
      BY PricesAssumption DEF TypeInv
    <3>2. extract' = [extract EXCEPT !.fetched = [@ EXCEPT ![r] = page[r]]]
      BY <2>11, <3>1 DEF FetchPage, Extracts
    <3>3. extract' \in Extracts
      BY <3>1, <3>2 DEF Extracts
    <3>4. ExtractFits(extract')
      BY <3>1, <3>2 DEF Extracts, ExtractFits
    <3> QED BY <2>9, <2>11, <3>3, <3>4 DEF FetchPage
  <2>12. ASSUME NEW r \in Rows, LeaveRow(r) \/ QueueRow(r) \/ KeepLeftover(r) PROVE TypeInv'
    <3>1. /\ extract.todo \in SUBSET Rows /\ extract.queue \in SUBSET Rows
          /\ \A q \in extract.queue : extract.fetched[q] # None
      BY DEF TypeInv, Extracts, ExtractFits
    <3>2. UNCHANGED <<pages, poll, polls>>
      BY <2>12 DEF LeaveRow, QueueRow, KeepLeftover
    <3>3. CASE LeaveRow(r)
      <4>1. Remaining(extract.todo \ {r}, extract.queue)
        BY <3>3 DEF LeaveRow
      <4> QED BY <2>9, <3>1, <3>2, <4>1, RemainingFits
    <3>4. CASE QueueRow(r)
      <4>1. Remaining(extract.todo \ {r}, extract.queue \cup {r}) /\ extract.fetched[r] # None
        BY <3>4 DEF QueueRow, Due
      <4> QED BY <2>9, <3>1, <3>2, <4>1, RemainingFits
    <3>5. CASE KeepLeftover(r)
      <4>1. Remaining({}, extract.queue \ {r})
        BY <3>5 DEF KeepLeftover
      <4> QED BY <2>9, <3>1, <3>2, <4>1, RemainingFits
    <3> QED BY <2>12, <3>3, <3>4, <3>5
  <2>13. CASE KillExtract
    BY <2>9, <2>13, EmptyLocals DEF KillExtract
  <2> QED BY <1>2, <2>2, <2>3, <2>4, <2>5, <2>6, <2>7, <2>8, <2>10, <2>11, <2>12, <2>13
        DEF PricesNext, RowStep, ExtractReads
<1> QED BY <1>1, <1>2

(* At first there is no card and nothing under way. *)
LEMMA TypeInvInit == PricesInit => TypeInv
  BY PricesAssumption, EmptyLocals
    DEF PricesInit, TypeInv, Prices, AllNoRow, NoRow, Sourced, NoPoll

(* Rows, pages, copies and snapshots keep their types, and no row has a     *)
(* card without a hash, in every reachable state.                           *)
THEOREM PricesTyped == PricesSpec => []PricesTypeOK
<1>1. TypeInv => PricesTypeOK
  BY DEF TypeInv, PricesTypeOK, Sourced, Polls, Extracts
<1> QED BY <1>1, TypeInvInit, TypeInvNext, PTL DEF PricesSpec

-----------------------------------------------------------------------------
(* The feed: a price moves with its change, or is noted as put back. *)
LEMMA FeedStep ==
    ASSUME TypeInv, FeedTellsCards, [PricesNext]_vars
    PROVE  FeedTellsCards'
<1>1. ASSUME NEW r \in Rows, NEW moved \in BOOLEAN, NEW refused \in BOOLEAN,
             PollRow(r, moved, refused)
      PROVE  FeedTellsCards'
  <2>1. Price(rows'[r].card) = told'[r] \/ r \in unsaid'
    BY <1>1, PollRowWrites DEF FeedTellsCards, histories
  <2>2. \A q \in Rows \ {r} : Price(rows'[q].card) = told'[q] \/ q \in unsaid'
    BY <1>1, PollRowWrites DEF FeedTellsCards, OthersKept
  <2> QED BY <2>1, <2>2 DEF FeedTellsCards, Price
<1>2. ASSUME NEW r \in Rows, ExtractWrites(r)
      PROVE  FeedTellsCards'
  <2>1. Price(rows'[r].card) = told'[r] \/ r \in unsaid'
    BY <1>2, ExtractWritesRow DEF FeedTellsCards
  <2>2. \A q \in Rows \ {r} : Price(rows'[q].card) = told'[q] \/ q \in unsaid'
    BY <1>2, ExtractWritesRow DEF FeedTellsCards, OthersKept
  <2> QED BY <2>1, <2>2 DEF FeedTellsCards, Price
<1>3. ASSUME UNCHANGED <<rows, told, histories>> PROVE FeedTellsCards'
  BY <1>3 DEF FeedTellsCards, histories, Price
<1> QED BY <1>1, <1>2, <1>3, QuietSteps DEF RowStep

(* A row's price is the one the feed last gave it, but for rows a poll put  *)
(* back from before an extract's write.                                     *)
THEOREM FeedFollowsCards == PricesSpec => []FeedTellsCards
<1>1. PricesInit => TypeInv /\ FeedTellsCards
  BY TypeInvInit DEF PricesInit, FeedTellsCards, AllNoRow, NoRow, Price
<1>2. TypeInv /\ FeedTellsCards /\ [PricesNext]_vars => (TypeInv /\ FeedTellsCards)'
  BY TypeInvNext, FeedStep
<1> QED BY <1>1, <1>2, PTL DEF PricesSpec

-----------------------------------------------------------------------------
(* Provenance: a poll writes facts and sources together, an extract notes   *)
(* the sources it puts back.                                                *)
LEMMA ProvenanceStep ==
    ASSUME TypeInv, ProvenanceKept, [PricesNext]_vars
    PROVE  ProvenanceKept'
<1>1. ASSUME NEW r \in Rows, NEW moved \in BOOLEAN, NEW refused \in BOOLEAN,
             PollRow(r, moved, refused)
      PROVE  ProvenanceKept'
  BY <1>1, PollRowWrites DEF ProvenanceKept, histories, OthersKept
<1>2. ASSUME NEW r \in Rows, ExtractWrites(r)
      PROVE  ProvenanceKept'
  BY <1>2, ExtractWritesRow DEF ProvenanceKept, OthersKept
<1>3. ASSUME UNCHANGED <<rows, told, histories>> PROVE ProvenanceKept'
  BY <1>3 DEF ProvenanceKept, histories
<1> QED BY <1>1, <1>2, <1>3, QuietSteps DEF RowStep

(* A row's sources are those of its facts, but for rows whose sources an    *)
(* extract put back from before a poll's write.                             *)
THEOREM ProvenanceHolds == PricesSpec => []ProvenanceKept
<1>1. PricesInit => TypeInv /\ ProvenanceKept
  BY TypeInvInit DEF PricesInit, ProvenanceKept, AllNoRow, NoRow
<1>2. TypeInv /\ ProvenanceKept /\ [PricesNext]_vars => (TypeInv /\ ProvenanceKept)'
  BY TypeInvNext, ProvenanceStep
<1> QED BY <1>1, <1>2, PTL DEF PricesSpec

-----------------------------------------------------------------------------
(* A card may go: its page names no price, the write gate refuses the       *)
(* listing's, or an older row comes back.                                   *)
LossExplained ==
    \A r \in Rows :
        (rows[r].card # None /\ rows'[r].card = None) =>
            \/ /\ extract # extract' /\ extract.fetched[r] \in Texts
               /\ PriceOf[extract.fetched[r]] = NoPrice
            \/ poll # poll' /\ poll.listed[r] \in Texts
            \/ r \in unsaid'

(* Only an extract that read a stub, or a poll whose listed card is refused *)
(* or whose row is older, drops it.                                         *)
LEMMA LossStep ==
    ASSUME TypeInv, [PricesNext]_vars
    PROVE  LossExplained
<1>1. ASSUME NEW r \in Rows, NEW moved \in BOOLEAN, NEW refused \in BOOLEAN,
             PollRow(r, moved, refused)
      PROVE  LossExplained
  <2>1. poll # poll'
    BY <1>1 DEF PollRow, NoPoll, TypeInv, Polls
  <2>2. ASSUME rows[r].card # None, rows'[r].card = None
        PROVE  poll.listed[r] \in Texts \/ r \in unsaid'
    BY <1>1, <2>2, PollRowWrites
  <2>3. \A q \in Rows \ {r} : rows'[q] = rows[q]
    BY <1>1, PollRowWrites DEF OthersKept
  <2> QED BY <2>1, <2>2, <2>3 DEF LossExplained
<1>2. ASSUME NEW r \in Rows, ExtractWrites(r)
      PROVE  LossExplained
  <2>1. extract # extract'
    <3>1. /\ r \in extract.todo \/ r \in extract.queue
          /\ \/ Remaining(extract.todo \ {r}, extract.queue) /\ r \in extract.todo
             \/ Remaining({}, extract.queue \ {r}) /\ r \in extract.queue
      BY <1>2 DEF ExtractWrites, WriteWalked, Due, WriteLeftover, StampLeftover
    <3>2. extract \in Extracts
      BY DEF TypeInv
    <3>3. CASE Remaining(extract.todo \ {r}, extract.queue) /\ r \in extract.todo
      <4>1. r \notin extract'.todo
        BY <3>2, <3>3 DEF Remaining, NoExtract, Extracts
      <4> QED BY <3>3, <4>1
    <3>4. CASE Remaining({}, extract.queue \ {r}) /\ r \in extract.queue
      <4>1. r \notin extract'.queue
        BY <3>2, <3>4 DEF Remaining, NoExtract, Extracts
      <4> QED BY <3>4, <4>1
    <3> QED BY <3>1, <3>3, <3>4
  <2>2. extract.fetched[r] \in Texts /\ \A q \in Rows \ {r} : rows'[q] = rows[q]
    BY <1>2, ExtractWritesRow DEF OthersKept
  <2>3. ASSUME rows[r].card # None, rows'[r].card = None
        PROVE  PriceOf[extract.fetched[r]] = NoPrice
    BY <1>2, <2>3, ExtractWritesRow
  <2> QED BY <2>1, <2>2, <2>3 DEF LossExplained
<1>3. ASSUME UNCHANGED <<rows, told, histories>> PROVE LossExplained
  BY <1>3 DEF LossExplained
<1> QED BY <1>1, <1>2, <1>3, QuietSteps DEF RowStep

(* No card is lost in any step of any behaviour without one of the reasons. *)
THEOREM LossesExplained == PricesSpec => LostForAReason
<1>1. TypeInv /\ [PricesNext]_vars => [LossExplained]_vars
  BY LossStep
<1>2. LossExplained <=>
        (\A r \in Rows :
          (rows[r].card # None /\ rows'[r].card = None) =>
            \/ /\ extract # extract' /\ extract.fetched[r] \in Texts
               /\ PriceOf[extract.fetched[r]] = NoPrice
            \/ poll # poll' /\ poll.listed[r] \in Texts
            \/ r \in unsaid')
  BY DEF LossExplained
<1> QED BY <1>1, <1>2, TypeInvInit, TypeInvNext, PTL DEF PricesSpec, LostForAReason

-----------------------------------------------------------------------------
(* A row whose hash would make the extract skip it has its page's price,    *)
(* with the promos in over ended.                                           *)
Safe(row, noted, over) ==
    \A t \in Texts :
        ShouldSkip(row, t, over) => Price(row.card) = PriceNow(t, over) \/ noted

(* The poll's snapshot is as safe as the table was when it was read. *)
SkipInv ==
    /\ TypeInv
    /\ \A r \in Rows : Safe(rows[r], r \in doubtful, ended)
    /\ \A r \in Rows : Safe(poll.old[r], r \in poll.doubtful, ended)

(* A row without a card or a hash is safe. *)
LEMMA NoRowSafe == ASSUME NEW noted, NEW over PROVE Safe(NoRow, noted, over)
  BY PricesAssumption DEF Safe, NoRow, ShouldSkip, StoredHash

(* A promo's end leaves a safe row safe: a card at that price is no longer  *)
(* skipped, and another section's price does not change.                    *)
LEMMA SafeAfterEnd ==
    ASSUME NEW row, NEW noted \in BOOLEAN, NEW over \in SUBSET Promos, NEW p \in Promos,
           Safe(row, noted, over)
    PROVE  Safe(row, noted, over \cup {p})
<1> SUFFICES ASSUME NEW t \in Texts, ShouldSkip(row, t, over \cup {p}), ~ noted
             PROVE  Price(row.card) = PriceNow(t, over \cup {p})
  BY DEF Safe
<1>1. row.card = None \/ Price(row.card) \notin over \cup {p}
  BY DEF ShouldSkip, Expired
<1>2. ShouldSkip(row, t, over)
  BY <1>1 DEF ShouldSkip, Expired
<1>3. Price(row.card) = PriceNow(t, over)
  BY <1>2 DEF Safe
<1>4. row.card = None => Price(row.card) = NoPrice
  BY DEF Price
<1>5. PriceOf[t] # p \/ p \in over
  BY <1>1, <1>3, <1>4, PricesAssumption DEF PriceNow
<1> QED BY <1>3, <1>5 DEF PriceNow

(* The promos that end between the clock of an extract and its write leave  *)
(* what it writes safe.                                                     *)
LEMMA WrittenSafe ==
    ASSUME NEW row, NEW noted, NEW t \in Texts,
           NEW over \in SUBSET Promos, NEW now \in SUBSET Promos, over \subseteq now,
           row.src = t, Price(row.card) = PriceNow(t, over)
    PROVE  Safe(row, noted, now)
<1> SUFFICES ASSUME NEW u \in Texts, ShouldSkip(row, u, now)
             PROVE  Price(row.card) = PriceNow(u, now)
  BY DEF Safe
<1>1. u = t
  BY PricesAssumption DEF ShouldSkip, StoredHash
<1>2. row.card = None \/ Price(row.card) \notin now
  BY <1>1 DEF ShouldSkip, Expired
<1>3. row.card = None => Price(row.card) = NoPrice /\ PriceOf[t] = NoPrice
  BY <1>1 DEF Price, ShouldSkip
<1>4. PriceOf[t] \in now => PriceOf[t] \in over
  BY <1>2, <1>3, PricesAssumption DEF PriceNow
<1> QED BY <1>1, <1>4 DEF PriceNow

(* A poll writes a listed card with its hash, neither, or a row as safe as  *)
(* the one it read; an extract stamps what it noted, priced, or left        *)
(* without card.                                                            *)
LEMMA SkipInvNext ==
    ASSUME SkipInv, [PricesNext]_vars
    PROVE  SkipInv'
<1> USE DEF SkipInv
<1>1. TypeInv'
  BY TypeInvNext
<1>2. ASSUME NEW r \in Rows, RowStep(r),
             Safe(rows'[r], r \in doubtful', ended), OthersKept(r)
      PROVE  SkipInv'
  <2>1. \A q \in Rows : Safe(rows'[q], q \in doubtful', ended)
    BY <1>2 DEF OthersKept, Safe
  <2>2. /\ \/ poll'.old = poll.old /\ poll'.doubtful = poll.doubtful
           \/ poll' = NoPoll
        /\ ended' = ended
    BY <1>2, LocalsAfterRow
  <2>3. \A q \in Rows : Safe(poll'.old[q], q \in poll'.doubtful, ended)
    BY <2>2, NoRowSafe DEF NoPoll, AllNoRow
  <2> QED BY <1>1, <2>1, <2>2, <2>3
        DEF Safe, ShouldSkip, StoredHash, Price, PriceNow, Expired
<1>3. ASSUME NEW r \in Rows, NEW moved \in BOOLEAN, NEW refused \in BOOLEAN,
             PollRow(r, moved, refused)
      PROVE  SkipInv'
  <2>1. /\ OthersKept(r)
        /\ \/ rows'[r] = rows[r] /\ doubtful' = doubtful
           \/ /\ poll.listed[r] \in Texts
              /\ rows'[r].card = Listed(poll.listed[r])
              /\ rows'[r].src = poll.listed[r]
           \/ rows'[r].card = None /\ rows'[r].src = None
           \/ /\ rows'[r].card = poll.old[r].card
              /\ rows'[r].src = poll.old[r].src
              /\ r \in poll.doubtful => r \in doubtful'
    BY <1>3, PollRowWrites DEF histories
  <2>2. CASE rows'[r] = rows[r] /\ doubtful' = doubtful
    BY <1>2, <1>3, <2>1, <2>2 DEF RowStep
  <2>3. CASE /\ poll.listed[r] \in Texts
             /\ rows'[r].card = Listed(poll.listed[r])
             /\ rows'[r].src = poll.listed[r]
    <3>1. Price(rows'[r].card) = PriceNow(poll.listed[r], {})
      BY <2>3, CardOfIs
    <3>2. ended \in SUBSET Promos
      BY DEF TypeInv
    <3>3. Safe(rows'[r], r \in doubtful', ended)
      BY <2>3, <3>1, <3>2, WrittenSafe
    <3> QED BY <1>2, <1>3, <2>1, <3>3 DEF RowStep
  <2>4. CASE rows'[r].card = None /\ rows'[r].src = None
    <3>1. Safe(rows'[r], r \in doubtful', ended)
      BY <2>4, PricesAssumption DEF Safe, ShouldSkip, StoredHash
    <3> QED BY <1>2, <1>3, <2>1, <3>1 DEF RowStep
  <2>5. CASE /\ rows'[r].card = poll.old[r].card
             /\ rows'[r].src = poll.old[r].src
             /\ r \in poll.doubtful => r \in doubtful'
    <3>1. Safe(poll.old[r], r \in poll.doubtful, ended)
      OBVIOUS
    <3>2. Safe(rows'[r], r \in doubtful', ended)
      BY <2>5, <3>1 DEF Safe, ShouldSkip, StoredHash, Price, Expired
    <3> QED BY <1>2, <1>3, <2>1, <3>2 DEF RowStep
  <2> QED BY <2>1, <2>2, <2>3, <2>4, <2>5
<1>4. ASSUME NEW r \in Rows, ExtractWrites(r)
      PROVE  SkipInv'
  <2> DEFINE t == extract.fetched[r]
  <2>1. /\ OthersKept(r) /\ t \in Texts
        /\ rows'[r].src = t
        /\ \/ r \in doubtful'
           \/ Price(rows'[r].card) = PriceNow(t, extract.over)
           \/ rows'[r].card = None /\ PriceOf[t] # NoPrice
    BY <1>4, ExtractWritesRow
  <2>2. /\ ended \in SUBSET Promos /\ extract.over \in SUBSET Promos
        /\ extract.over \subseteq ended
    BY DEF TypeInv, Extracts, ExtractFits
  <2> HIDE DEF t
  <2>3. CASE r \in doubtful'
    <3>1. Safe(rows'[r], r \in doubtful', ended)
      BY <2>3 DEF Safe
    <3> QED BY <1>2, <1>4, <2>1, <3>1 DEF RowStep
  <2>4. CASE Price(rows'[r].card) = PriceNow(t, extract.over)
    <3>1. Safe(rows'[r], r \in doubtful', ended)
      BY <2>1, <2>2, <2>4, WrittenSafe
    <3> QED BY <1>2, <1>4, <2>1, <3>1 DEF RowStep
  <2>5. CASE rows'[r].card = None /\ PriceOf[t] # NoPrice
    <3>1. Safe(rows'[r], r \in doubtful', ended)
      BY <2>1, <2>5, PricesAssumption DEF Safe, ShouldSkip, StoredHash
    <3> QED BY <1>2, <1>4, <2>1, <3>1 DEF RowStep
  <2> QED BY <2>1, <2>3, <2>4, <2>5
<1>5. ASSUME UNCHANGED <<rows, told, histories>>, ended' = ended,
             \A r \in Rows : Safe(poll'.old[r], r \in poll'.doubtful, ended)
      PROVE  SkipInv'
  BY <1>1, <1>5 DEF histories, Safe, ShouldSkip, StoredHash, Price, PriceNow, Expired
<1>6. ASSUME ~ \E r \in Rows : RowStep(r)
      PROVE  SkipInv'
  <2>1. UNCHANGED <<rows, told, histories>>
    BY <1>6, QuietSteps
  <2>2. ASSUME poll' = poll, ended' = ended PROVE SkipInv'
    BY <1>5, <2>1, <2>2
  <2>3. ASSUME poll'.old = AllNoRow, ended' = ended PROVE SkipInv'
    BY <1>5, <2>1, <2>3, NoRowSafe DEF AllNoRow
  <2>4. ASSUME NEW failed, ListModels(failed) PROVE SkipInv'
    BY <2>3, <2>4 DEF ListModels, NoPoll
  <2>5. CASE ReadRows
    <3>1. poll'.old = rows /\ poll'.doubtful = doubtful
      BY <2>5 DEF ReadRows, TypeInv, Polls
    <3>2. ended' = ended
      BY <2>5 DEF ReadRows, pages
    <3> QED BY <1>5, <2>1, <3>1, <3>2
  <2>6. CASE KillPoll
    BY <2>3, <2>6 DEF KillPoll, NoPoll, pages
  <2>7. ASSUME NEW p \in Promos, EndPromo(p) PROVE SkipInv'
    <3>1. ended' = ended \cup {p} /\ poll' = poll /\ ended \in SUBSET Promos
      BY <2>7 DEF EndPromo, TypeInv
    <3>2. ASSUME NEW r \in Rows
          PROVE  /\ Safe(rows[r], r \in doubtful, ended \cup {p})
                 /\ Safe(poll.old[r], r \in poll.doubtful, ended \cup {p})
      <4>1. Safe(rows[r], r \in doubtful, ended)
        OBVIOUS
      <4>2. Safe(poll.old[r], r \in poll.doubtful, ended)
        OBVIOUS
      <4>3. (r \in doubtful) \in BOOLEAN /\ (r \in poll.doubtful) \in BOOLEAN
        OBVIOUS
      <4> HIDE DEF SkipInv
      <4>4. Safe(rows[r], r \in doubtful, ended \cup {p})
        BY <3>1, <4>1, <4>3, SafeAfterEnd
      <4>5. Safe(poll.old[r], r \in poll.doubtful, ended \cup {p})
        BY <3>1, <4>2, <4>3, SafeAfterEnd
      <4> QED BY <4>4, <4>5
    <3> QED BY <1>1, <2>1, <3>1, <3>2
          DEF histories, Safe, ShouldSkip, StoredHash, Price, PriceNow, Expired
  <2>8. ASSUME NEW r \in Rows,
               (\E t \in Texts : EditPage(r, t)) \/ Expire(r) \/ ExtractReads(r)
        PROVE  poll' = poll /\ ended' = ended
    BY <2>8 DEF EditPage, Expire, ExtractReads, FetchPage, LeaveRow, QueueRow,
                KeepLeftover, pages
  <2>9. ASSUME StartExtract \/ KillExtract \/ UNCHANGED vars
        PROVE  poll' = poll /\ ended' = ended
    BY <2>9 DEF StartExtract, KillExtract, vars, pages
  <2> QED BY <1>6, <2>2, <2>4, <2>5, <2>6, <2>7, <2>8, <2>9 DEF PricesNext, RowStep
<1> QED BY <1>3, <1>4, <1>6 DEF RowStep

(* A row the extract would skip has the price its page asks for now, but    *)
(* for rows on which a hash was stamped beside another card.                *)
THEOREM SkippingIsSafe == PricesSpec => []SkipIsSafe
<1>1. PricesInit => SkipInv
  BY TypeInvInit, NoRowSafe DEF PricesInit, SkipInv, NoPoll, AllNoRow
<1>2. SkipInv => SkipIsSafe
  BY DEF SkipInv, Safe, SkipIsSafe
<1> QED BY <1>1, <1>2, SkipInvNext, PTL DEF PricesSpec

-----------------------------------------------------------------------------
(* How the cursor walks: FalWalk.                                          *)

Runs == [pc: {"idle", "walk", "rewind", "save"}, order: Seq(Candidates),
         i: Nat \ {0}, start: 0..N, last: 0..N, frozen: BOOLEAN, streak: Nat,
         queue: Seq(Candidates), before: [Candidates -> 0..N],
         open: SUBSET {Section[r] : r \in Candidates}, failed: SUBSET Candidates,
         heldBefore: 0..N, passedBy: SUBSET Candidates]

(* The order lists no row twice, and the walk ends one past it.             *)
OrderInv ==
    /\ Len(run.order) <= N
    /\ run.i <= Len(run.order) + 1
    /\ \A p, q \in DOMAIN run.order : run.order[p] = run.order[q] => p = q

WalkTypes ==
    /\ roster \subseteq Candidates /\ cursor \in 0..N /\ held \in 0..N
    /\ run \in Runs
    /\ OrderInv

LEMMA OrderIs ==
  ASSUME roster \subseteq Candidates, NEW c, NEW order \in WalkOrders(c)
  PROVE  /\ order \in Seq(Candidates) /\ Len(order) <= N
         /\ \A p, q \in DOMAIN order : order[p] = order[q] => p = q
  <1> DEFINE k == Cardinality(roster)
             Lap(r) == IF r > c THEN r ELSE r + N
  <1>1. k \in Nat /\ k <= N
    <2>1. IsFiniteSet(Candidates) /\ Cardinality(Candidates) = N
      BY FS_Interval, WalkAssumption DEF Candidates
    <2> QED
      BY <2>1, FS_Subset, FS_CardinalityType
  <1>2. /\ order \in [1..k -> roster]
        /\ \A p, q \in DOMAIN order : p < q => Lap(order[p]) < Lap(order[q])
    BY DEF WalkOrders
  <1>3. \A r \in roster : Lap(r) \in Nat
    BY WalkAssumption DEF Candidates
  <1> HIDE DEF k, Lap
  <1>4. order \in Seq(Candidates) /\ Len(order) = k
    BY <1>1, <1>2
  <1>5. ASSUME NEW p \in DOMAIN order, NEW q \in DOMAIN order, order[p] = order[q]
        PROVE  p = q
    <2>1. p \in Nat /\ q \in Nat /\ Lap(order[p]) \in Nat
      BY <1>2, <1>3
    <2>2. ~ (p < q) /\ ~ (q < p)
      BY <1>2, <1>5, <2>1
    <2> QED
      BY <2>1, <2>2
  <1> QED
    BY <1>1, <1>4, <1>5

(* The row the walk has come to.                                            *)
LEMMA CandidateIs ==
  ASSUME WalkTypes, Walking
  PROVE  /\ run.pc = "walk" /\ run.i \in DOMAIN run.order /\ run.i <= Len(run.order)
         /\ Candidate \in Candidates /\ Candidate \in 0..N /\ Candidate # 0
         /\ Candidate = run.order[run.i]
         /\ Marked \in 0..N
  <1>1. /\ run.pc = "walk" /\ run.i <= Len(run.order)
        /\ run.order \in Seq(Candidates) /\ run.i \in Nat \ {0} /\ run.last \in 0..N
    BY DEF WalkTypes, Walking, Runs
  <1>2. run.i \in 1..Len(run.order)
    BY <1>1
  <1>3. run.i \in DOMAIN run.order /\ Candidate \in Candidates
    BY <1>1, <1>2 DEF Candidate
  <1>4. Candidate \in 0..N /\ Candidate # 0
    BY <1>3, WalkAssumption DEF Candidates
  <1> QED
    BY <1>1, <1>3, <1>4 DEF Marked, Candidate

LEMMA NoRunIs ==
  /\ NoRun \in Runs /\ NoRun.pc = "idle" /\ NoRun.order = <<>> /\ NoRun.i = 1
  BY WalkAssumption DEF NoRun, Runs

LEMMA Steps ==
  ASSUME run \in Runs
  PROVE  run.i + 1 \in Nat \ {0} /\ run.streak + 1 \in Nat /\ 0 \in Nat
  <1>1. run.i \in Nat \ {0} /\ run.streak \in Nat
    BY DEF Runs
  <1> QED
    BY <1>1

(* What each way of dealing with a row writes.                              *)
LEMMA SettledIs ==
  ASSUME WalkTypes, WalkSettled
  PROVE  /\ Walking /\ run' \in Runs /\ run'.pc = "walk" /\ run'.order = run.order
         /\ run'.i = run.i + 1 /\ run'.last = Marked /\ run'.frozen = run.frozen
         /\ run'.queue = run.queue /\ run'.before = run.before
         /\ run'.failed = run.failed /\ run'.passedBy = run.passedBy
         /\ UNCHANGED stored
  <1>1. Walking /\ run.pc = "walk" /\ run \in Runs /\ Marked \in 0..N /\ UNCHANGED stored
    BY CandidateIs DEF WalkSettled, WalkTypes
  <1> DEFINE next == run.i + 1
  <1>2. run' = [run EXCEPT !.i = next, !.streak = 0, !.last = Marked]
    BY DEF WalkSettled
  <1>3. next \in Nat \ {0} /\ 0 \in Nat
    BY <1>1, Steps
  <1> HIDE DEF next
  <1>4. /\ run' \in Runs /\ run'.pc = "walk" /\ run'.order = run.order
        /\ run'.i = next /\ run'.last = Marked /\ run'.frozen = run.frozen
        /\ run'.queue = run.queue /\ run'.before = run.before
        /\ run'.failed = run.failed /\ run'.passedBy = run.passedBy
    BY <1>1, <1>2, <1>3 DEF Runs
  <1> QED
    BY <1>1, <1>4 DEF next

LEMMA PastCapIs ==
  ASSUME WalkTypes, WalkPastCap
  PROVE  /\ Walking /\ run' \in Runs /\ run'.pc = "walk" /\ run'.order = run.order
         /\ run'.i = run.i + 1 /\ run'.last = run.last /\ run'.frozen = TRUE
         /\ run'.queue = run.queue /\ run'.before = run.before
         /\ run'.failed = run.failed /\ run'.passedBy = run.passedBy \cup {Candidate}
         /\ UNCHANGED stored
  <1>1. Walking /\ run.pc = "walk" /\ run \in Runs /\ Candidate \in Candidates
        /\ UNCHANGED stored
    BY CandidateIs DEF WalkPastCap, WalkTypes
  <1> DEFINE next == run.i + 1
             passed == run.passedBy \cup {Candidate}
  <1>2. run' = [run EXCEPT !.i = next, !.streak = 0, !.frozen = TRUE, !.passedBy = passed]
    BY DEF WalkPastCap
  <1>3. next \in Nat \ {0} /\ 0 \in Nat /\ passed \in SUBSET Candidates
    BY <1>1, Steps DEF Runs
  <1> HIDE DEF next, passed
  <1>4. /\ run' \in Runs /\ run'.pc = "walk" /\ run'.order = run.order
        /\ run'.i = next /\ run'.last = run.last /\ run'.frozen = TRUE
        /\ run'.queue = run.queue /\ run'.before = run.before
        /\ run'.failed = run.failed /\ run'.passedBy = passed
    BY <1>1, <1>2, <1>3 DEF Runs
  <1> QED
    BY <1>1, <1>4 DEF next, passed

LEMMA FailedIs ==
  ASSUME WalkTypes, WalkFailed
  PROVE  /\ Walking /\ run' \in Runs /\ run'.pc = "walk" /\ run'.order = run.order
         /\ run'.i = run.i + 1 \/ run'.i = Len(run.order) + 1
         /\ run'.last = run.last /\ run'.frozen = TRUE
         /\ run'.queue = run.queue /\ run'.before = run.before
         /\ run'.failed = run.failed /\ run'.passedBy = run.passedBy \cup {Candidate}
         /\ UNCHANGED stored
  <1>1. Walking /\ run.pc = "walk" /\ run \in Runs /\ Candidate \in Candidates
        /\ UNCHANGED stored
    BY CandidateIs DEF WalkFailed, WalkTypes
  <1> DEFINE next == IF run.streak + 1 >= FailAbort THEN Len(run.order) + 1 ELSE run.i + 1
             streak == run.streak + 1
             passed == run.passedBy \cup {Candidate}
  <1>2. run' = [run EXCEPT !.i = next, !.streak = streak, !.frozen = TRUE, !.passedBy = passed]
    BY DEF WalkFailed
  <1>3. /\ next = run.i + 1 \/ next = Len(run.order) + 1
        /\ next \in Nat \ {0} /\ streak \in Nat /\ passed \in SUBSET Candidates
    BY <1>1, Steps DEF Runs
  <1> HIDE DEF next, streak, passed
  <1>4. /\ run' \in Runs /\ run'.pc = "walk" /\ run'.order = run.order
        /\ run'.i = next /\ run'.last = run.last /\ run'.frozen = TRUE
        /\ run'.queue = run.queue /\ run'.before = run.before
        /\ run'.failed = run.failed /\ run'.passedBy = passed
    BY <1>1, <1>2, <1>3 DEF Runs
  <1> QED
    BY <1>1, <1>3, <1>4 DEF passed

LEMMA LeftoverIs ==
  ASSUME WalkTypes, WalkLeftover
  PROVE  /\ Walking /\ run' \in Runs /\ run'.pc = "walk" /\ run'.order = run.order
         /\ run'.i = run.i + 1 /\ run'.last = Marked /\ run'.frozen = run.frozen
         /\ run'.queue = Append(run.queue, Candidate)
         /\ run'.before = [run.before EXCEPT ![Candidate] = run.last]
         /\ run'.failed = run.failed /\ run'.passedBy = run.passedBy
         /\ UNCHANGED stored
  <1>1. /\ Walking /\ run.pc = "walk" /\ run \in Runs /\ Marked \in 0..N
        /\ Candidate \in Candidates /\ UNCHANGED stored
    BY CandidateIs DEF WalkLeftover, WalkTypes
  <1> DEFINE next == run.i + 1
             open == run.open \cup {Section[Candidate]}
             before == [run.before EXCEPT ![Candidate] = run.last]
             queue == Append(run.queue, Candidate)
  <1>2. run' = [run EXCEPT !.i = next, !.streak = 0, !.last = Marked, !.open = open,
                           !.queue = queue, !.before = before]
    BY DEF WalkLeftover
  <1>3. /\ queue \in Seq(Candidates) /\ before \in [Candidates -> 0..N]
        /\ open \in SUBSET {Section[r] : r \in Candidates}
        /\ next \in Nat \ {0} /\ 0 \in Nat
    BY <1>1, Steps DEF Runs
  <1> HIDE DEF next, open, before, queue
  <1>4. /\ run' \in Runs /\ run'.pc = "walk" /\ run'.order = run.order
        /\ run'.i = next /\ run'.last = Marked /\ run'.frozen = run.frozen
        /\ run'.queue = queue /\ run'.before = before
        /\ run'.failed = run.failed /\ run'.passedBy = run.passedBy
    BY <1>1, <1>2, <1>3 DEF Runs
  <1> QED
    BY <1>1, <1>4 DEF next, before, queue

(* What the rest of a run writes.                                           *)
LEMMA ExtractIs ==
  ASSUME WalkTypes, Extract
  PROVE  /\ run.pc = "walk" /\ run' \in Runs /\ run'.pc = "rewind"
         /\ run'.order = run.order /\ run'.i = run.i /\ run'.last = run.last
         /\ run'.frozen = run.frozen /\ run'.queue = run.queue
         /\ run'.before = run.before /\ run'.passedBy = run.passedBy
         /\ run'.failed \subseteq {run.queue[q] : q \in DOMAIN run.queue}
         /\ UNCHANGED stored
  <1>1. /\ run.pc = "walk" /\ run \in Runs /\ held \in 0..N /\ UNCHANGED stored
    BY DEF Extract, WalkTypes
  <1> DEFINE queued == {run.queue[q] : q \in DOMAIN run.queue}
  <1>2. PICK failed \in SUBSET queued :
            run' = [run EXCEPT !.pc = "rewind", !.failed = failed, !.heldBefore = held]
    BY DEF Extract
  <1>3. queued \subseteq Candidates
    BY <1>1 DEF Runs
  <1>4. failed \in SUBSET Candidates
    BY <1>3
  <1> HIDE DEF queued
  <1>5. /\ run' \in Runs /\ run'.pc = "rewind"
        /\ run'.order = run.order /\ run'.i = run.i /\ run'.last = run.last
        /\ run'.frozen = run.frozen /\ run'.queue = run.queue
        /\ run'.before = run.before /\ run'.passedBy = run.passedBy
        /\ run'.failed = failed
    BY <1>1, <1>2, <1>4 DEF Runs
  <1> QED
    BY <1>1, <1>5 DEF queued

LEMMA SaveHeldIs ==
  ASSUME WalkTypes, SaveHeld
  PROVE  /\ run.pc = "rewind" /\ run' \in Runs /\ run'.pc = "save"
         /\ run'.order = run.order /\ run'.i = run.i
         /\ run'.failed = run.failed /\ run'.passedBy = run.passedBy
         /\ run'.heldBefore = run.heldBefore
         /\ roster' = roster /\ cursor' = cursor /\ held' \in 0..N
         /\ \E q \in DOMAIN run.queue :
              IsFirstRetry(q) /\ run'.last = run.before[run.queue[q]]
  <1>1. run.pc = "rewind" /\ run \in Runs /\ roster' = roster /\ cursor' = cursor
    BY DEF SaveHeld, WalkTypes
  <1>2. PICK q \in DOMAIN run.queue :
            /\ IsFirstRetry(q) /\ held' = run.queue[q]
            /\ run' = [run EXCEPT !.pc = "save", !.last = run.before[run.queue[q]]]
    BY DEF SaveHeld
  <1> DEFINE last == run.before[run.queue[q]]
  <1>3. run.queue[q] \in Candidates /\ last \in 0..N
    BY <1>1 DEF Runs
  <1>4. held' \in 0..N
    BY <1>2, <1>3, WalkAssumption DEF Candidates
  <1>5. run' = [run EXCEPT !.pc = "save", !.last = last]
    BY <1>2
  <1> HIDE DEF last
  <1>6. /\ run' \in Runs /\ run'.pc = "save"
        /\ run'.order = run.order /\ run'.i = run.i
        /\ run'.failed = run.failed /\ run'.passedBy = run.passedBy
        /\ run'.heldBefore = run.heldBefore /\ run'.last = last
    BY <1>1, <1>3, <1>5 DEF Runs
  <1> QED
    BY <1>1, <1>2, <1>4, <1>6 DEF last

LEMMA KeepHeldIs ==
  ASSUME WalkTypes, KeepHeld
  PROVE  /\ run.pc = "rewind" /\ Retry = {} /\ run' \in Runs /\ run'.pc = "save"
         /\ run'.order = run.order /\ run'.i = run.i /\ run'.last = run.last
         /\ run'.failed = run.failed /\ run'.passedBy = run.passedBy
         /\ run'.heldBefore = run.heldBefore
         /\ UNCHANGED stored
  BY DEF WalkTypes, KeepHeld, Runs

LEMMA StartRunIs ==
  ASSUME WalkTypes, StartRun
  PROVE  /\ run' \in Runs /\ run'.pc = "walk" /\ run'.i = 1 /\ run'.last = 0
         /\ run'.queue = <<>> /\ run'.failed = {} /\ run'.passedBy = {}
         /\ OrderInv'
         /\ UNCHANGED stored
  <1>1. PICK order \in WalkOrders(cursor) :
            run' = [NoRun EXCEPT !.pc = "walk", !.order = order, !.start = cursor]
    BY DEF StartRun
  <1>2. /\ order \in Seq(Candidates) /\ Len(order) <= N
        /\ \A p, q \in DOMAIN order : order[p] = order[q] => p = q
    BY OrderIs DEF WalkTypes
  <1>3. cursor \in 0..N /\ UNCHANGED stored /\ NoRun \in Runs
    BY NoRunIs DEF WalkTypes, StartRun
  <1>4. /\ NoRun.i = 1 /\ NoRun.last = 0 /\ NoRun.queue = <<>>
        /\ NoRun.failed = {} /\ NoRun.passedBy = {}
    BY DEF NoRun
  <1>5. /\ run' \in Runs /\ run'.pc = "walk" /\ run'.order = order /\ run'.i = 1
        /\ run'.last = 0 /\ run'.queue = <<>> /\ run'.failed = {} /\ run'.passedBy = {}
    BY <1>1, <1>2, <1>3, <1>4 DEF Runs
  <1>6. OrderInv'
    BY <1>2, <1>5 DEF OrderInv
  <1> QED
    BY <1>3, <1>5, <1>6

(* A run ends, by being saved or cut off.                                   *)
LEMMA EndIs ==
  ASSUME run' = NoRun
  PROVE  run' \in Runs /\ run'.pc = "idle" /\ OrderInv'
  <1>1. run' \in Runs /\ run'.pc = "idle" /\ run'.order = <<>> /\ run'.i = 1
    BY NoRunIs
  <1>2. OrderInv'
    BY <1>1, WalkAssumption DEF OrderInv
  <1> QED
    BY <1>1, <1>2

LEMMA WalkTypesStep ==
  ASSUME WalkTypes, WalkNext
  PROVE  WalkTypes'
  <1>1. run \in Runs /\ OrderInv /\ roster \subseteq Candidates /\ cursor \in 0..N /\ held \in 0..N
    BY DEF WalkTypes
  <1>2. /\ run.order \in Seq(Candidates) /\ Len(run.order) \in Nat /\ run.i \in Nat
        /\ run.last \in 0..N
    BY <1>1 DEF Runs
  <1>3. ASSUME run'.order = run.order, UNCHANGED stored, run' \in Runs,
               \/ run'.i = run.i
               \/ run'.i = Len(run.order) + 1
               \/ run'.i = run.i + 1 /\ Walking
        PROVE  WalkTypes'
    <2>1. run'.i <= Len(run.order) + 1
      BY <1>1, <1>2, <1>3 DEF Walking, OrderInv
    <2>2. OrderInv'
      BY <1>1, <1>3, <2>1 DEF OrderInv
    <2> QED
      BY <1>1, <1>3, <2>2 DEF WalkTypes, stored
  <1>4. ASSUME run' \in Runs, OrderInv', roster' = roster, cursor' \in 0..N, held' = held
        PROVE  WalkTypes'
    BY <1>1, <1>4 DEF WalkTypes
  <1>5. CASE StartRun
    BY <1>1, <1>4, <1>5, StartRunIs DEF stored
  <1>6. CASE WalkSettled
    BY <1>3, <1>6, SettledIs
  <1>7. CASE WalkLeftover
    BY <1>3, <1>7, LeftoverIs
  <1>8. CASE WalkPastCap
    BY <1>3, <1>8, PastCapIs
  <1>9. CASE WalkFailed
    BY <1>3, <1>9, FailedIs
  <1>10. CASE Extract
    <2>1. run' \in Runs /\ run'.order = run.order /\ run'.i = run.i /\ UNCHANGED stored
      BY <1>10, ExtractIs
    <2> QED
      BY <1>3, <2>1
  <1>11. CASE SaveHeld
    <2>1. /\ run' \in Runs /\ run'.order = run.order /\ run'.i = run.i
          /\ roster' = roster /\ cursor' = cursor /\ held' \in 0..N
      BY <1>11, SaveHeldIs
    <2>2. OrderInv'
      BY <1>1, <2>1 DEF OrderInv
    <2> QED
      BY <1>1, <2>1, <2>2 DEF WalkTypes
  <1>12. CASE KeepHeld
    <2>1. run' \in Runs /\ run'.order = run.order /\ run'.i = run.i /\ UNCHANGED stored
      BY <1>12, KeepHeldIs
    <2> QED
      BY <1>3, <2>1
  <1>13. CASE SaveCursor
    BY <1>1, <1>2, <1>4, <1>13, EndIs DEF SaveCursor
  <1>14. CASE Cut
    BY <1>1, <1>4, <1>14, EndIs DEF Cut, stored
  <1>15. CASE \E r \in Candidates : Turnover(r)
    <2>1. roster' \subseteq Candidates /\ UNCHANGED <<cursor, held, run>>
      BY <1>1, <1>15 DEF Turnover
    <2> QED
      BY <1>1, <2>1 DEF WalkTypes, OrderInv
  <1> QED
    BY <1>5, <1>6, <1>7, <1>8, <1>9, <1>10, <1>11, <1>12, <1>13, <1>14, <1>15
       DEF WalkNext, RunStep

LEMMA WalkTypesInit == WalkInit => WalkTypes
  <1> SUFFICES ASSUME WalkInit PROVE WalkTypes
    OBVIOUS
  <1>1. run \in Runs /\ run.order = <<>> /\ run.i = 1
    BY NoRunIs DEF WalkInit
  <1> QED
    BY <1>1, WalkAssumption DEF WalkInit, WalkTypes, OrderInv, Candidates

LEMMA WalkTypesNext == WalkTypes /\ [WalkNext]_walkVars => WalkTypes'
  <1>1. ASSUME WalkTypes, UNCHANGED walkVars PROVE WalkTypes'
    BY <1>1 DEF WalkTypes, OrderInv, walkVars, stored
  <1> QED
    BY <1>1, WalkTypesStep

(* Every run keeps to the roster's rows: the order names them, none twice,  *)
(* and the walk ends one past the last.                                     *)
THEOREM WalkTyped == WalkSpec => []WalkTypeOK
<1>1. WalkTypes => WalkTypeOK
  <2> SUFFICES ASSUME WalkTypes PROVE WalkTypeOK
    OBVIOUS
  <2>1. /\ run \in Runs /\ run.i <= Len(run.order) + 1 /\ Len(run.order) <= N
        /\ roster \subseteq Candidates /\ cursor \in 0..N /\ held \in 0..N
    BY DEF WalkTypes, OrderInv
  <2>2. /\ run.pc \in {"idle", "walk", "rewind", "save"} /\ run.i \in Nat \ {0}
        /\ run.last \in 0..N /\ run.order \in Seq(Candidates)
        /\ run.queue \in Seq(Candidates) /\ run.failed \subseteq Candidates
    BY <2>1 DEF Runs
  <2>3. run.i \in 1..(N + 1)
    <3>1. Len(run.order) \in Nat
      BY <2>2
    <3> QED
      BY <2>1, <2>2, <3>1, WalkAssumption
  <2> QED
    BY <2>1, <2>2, <2>3 DEF WalkTypeOK
<1> QED BY <1>1, WalkTypesInit, WalkTypesNext, PTL DEF WalkSpec

-----------------------------------------------------------------------------
(* What the cursor leaves behind.                                          *)

(* Where a row stands in this run; no row at all stands before the first.   *)
Place(order, c) == IF c = 0 THEN 0 ELSE CHOOSE p \in DOMAIN order : order[p] = c

Fetched(order, i, r) == \E p \in DOMAIN order : p < i /\ order[p] = r

Resumes(order, i, c) == c = 0 \/ Fetched(order, i, c)

(* The cursor stands on a fetched row or none: the row before the walk's    *)
(* until something freezes it, and short of everything passed by.           *)
ReachInv ==
    run.pc \in {"walk", "rewind"} =>
        /\ Resumes(run.order, run.i, run.last)
        /\ ~ run.frozen => Place(run.order, run.last) = run.i - 1
        /\ \A r \in run.passedBy :
              /\ Fetched(run.order, run.i, r)
              /\ Place(run.order, run.last) < Place(run.order, r)

(* A queued row was fetched, and the cursor a rewind onto it would restore  *)
(* stands before it and no further than the cursor does now.                *)
Rewindable(t, r) ==
    /\ r # 0
    /\ Fetched(t.order, t.i, r)
    /\ Resumes(t.order, t.i, t.before[r])
    /\ Place(t.order, t.before[r]) < Place(t.order, r)
    /\ Place(t.order, t.before[r]) <= Place(t.order, t.last)

(* The queue is in walking order, so the first row to retry is the first    *)
(* that failed of those with a second chance left.                          *)
QueueInv ==
    run.pc \in {"walk", "rewind"} =>
        /\ \A q \in DOMAIN run.queue : Rewindable(run, run.queue[q])
        /\ \A p, q \in DOMAIN run.queue :
              p < q => Place(run.order, run.queue[p]) < Place(run.order, run.queue[q])
        /\ run.failed \subseteq {run.queue[q] : q \in DOMAIN run.queue}

LEMMA PlaceIs ==
  ASSUME WalkTypes, NEW p \in DOMAIN run.order
  PROVE  /\ Place(run.order, run.order[p]) = p
         /\ run.order[p] \in Candidates /\ run.order[p] # 0
         /\ p \in Nat /\ 1 <= p /\ p <= Len(run.order)
  <1>1. /\ run.order \in Seq(Candidates)
        /\ \A q \in DOMAIN run.order : run.order[q] = run.order[p] => q = p
    BY DEF WalkTypes, OrderInv, Runs
  <1>2. run.order[p] \in Candidates /\ p \in Nat /\ 1 <= p /\ p <= Len(run.order)
    BY <1>1
  <1>3. run.order[p] # 0
    BY <1>2 DEF Candidates
  <1> QED
    BY <1>1, <1>2, <1>3 DEF Place

LEMMA FetchedIs ==
  ASSUME WalkTypes, NEW r, Fetched(run.order, run.i, r)
  PROVE  /\ r # 0 /\ r \in Candidates
         /\ Place(run.order, r) \in DOMAIN run.order
         /\ run.order[Place(run.order, r)] = r
         /\ Place(run.order, r) \in Nat /\ 1 <= Place(run.order, r)
         /\ Place(run.order, r) < run.i
  <1>1. PICK p \in DOMAIN run.order : p < run.i /\ run.order[p] = r
    BY DEF Fetched
  <1> QED
    BY <1>1, PlaceIs

LEMMA ResumesIs ==
  ASSUME WalkTypes, NEW c, Resumes(run.order, run.i, c)
  PROVE  Place(run.order, c) \in Nat /\ Place(run.order, c) < run.i
  <1>1. run.i \in Nat \ {0}
    BY DEF WalkTypes, Runs
  <1>2. c = 0 => Place(run.order, c) = 0
    BY DEF Place
  <1> QED
    BY <1>1, <1>2, FetchedIs DEF Resumes

(* A walk goes on from the row it fetched: that one stands behind all the   *)
(* others fetched so far, and they stay fetched.                            *)
LEMMA WalkOn ==
  ASSUME WalkTypes, Walking, NEW i \in Nat, i > run.i
  PROVE  /\ Fetched(run.order, i, Candidate) /\ Candidate # 0
         /\ Place(run.order, Candidate) = run.i
         /\ \A r : Fetched(run.order, run.i, r) => Fetched(run.order, i, r) /\ r # Candidate
         /\ \A c : Resumes(run.order, run.i, c) => Resumes(run.order, i, c)
  <1>1. run.i \in DOMAIN run.order /\ Candidate = run.order[run.i] /\ run.i \in Nat
    BY CandidateIs DEF WalkTypes, Runs
  <1>2. Place(run.order, Candidate) = run.i /\ Candidate # 0
    BY <1>1, PlaceIs
  <1>3. Fetched(run.order, i, Candidate)
    BY <1>1 DEF Fetched
  <1>4. ASSUME NEW r, Fetched(run.order, run.i, r)
        PROVE  Fetched(run.order, i, r) /\ r # Candidate
    <2>1. PICK p \in DOMAIN run.order : p < run.i /\ run.order[p] = r
      BY <1>4 DEF Fetched
    <2>2. p \in Nat /\ Place(run.order, r) = p
      BY <2>1, PlaceIs
    <2>3. p < i
      BY <1>1, <2>1, <2>2
    <2> QED
      BY <1>1, <1>2, <2>1, <2>2, <2>3 DEF Fetched
  <1> QED
    BY <1>2, <1>3, <1>4 DEF Resumes

LEMMA MarkedIs ==
  ASSUME WalkTypes, ReachInv, Walking
  PROVE  /\ Resumes(run.order, run.i + 1, Marked)
         /\ Place(run.order, run.last) <= Place(run.order, Marked)
         /\ ~ run.frozen => Place(run.order, Marked) = run.i
         /\ \A r \in run.passedBy : Place(run.order, Marked) < Place(run.order, r)
  <1> DEFINE i == run.i + 1
  <1>1. run.pc = "walk" /\ run.i \in Nat /\ i \in Nat /\ i > run.i
    BY CandidateIs DEF WalkTypes, Runs
  <1> HIDE DEF i
  <1>2. /\ Resumes(run.order, run.i, run.last)
        /\ ~ run.frozen => Place(run.order, run.last) = run.i - 1
        /\ \A r \in run.passedBy :
              /\ Fetched(run.order, run.i, r)
              /\ Place(run.order, run.last) < Place(run.order, r)
    BY <1>1 DEF ReachInv
  <1>3. Place(run.order, run.last) \in Nat /\ Place(run.order, run.last) < run.i
    BY <1>2, ResumesIs
  <1>4. /\ Fetched(run.order, i, Candidate) /\ Place(run.order, Candidate) = run.i
        /\ Resumes(run.order, i, run.last)
    BY <1>1, <1>2, WalkOn
  <1>5. CASE run.frozen
    <2>1. Marked = run.last
      BY <1>5 DEF Marked
    <2> QED
      BY <1>2, <1>3, <1>4, <1>5, <2>1 DEF i
  <1>6. CASE ~ run.frozen
    <2>1. Marked = Candidate
      BY <1>6 DEF Marked
    <2>2. ASSUME NEW r \in run.passedBy PROVE FALSE
      <3>1. Place(run.order, r) \in Nat /\ Place(run.order, r) < run.i
            /\ run.i - 1 < Place(run.order, r)
        BY <1>2, <1>6, FetchedIs
      <3> QED
        BY <1>1, <3>1
    <2>3. Resumes(run.order, i, Marked)
      BY <1>4, <2>1 DEF Resumes
    <2>4. Place(run.order, run.last) <= Place(run.order, Marked)
      BY <1>1, <1>3, <1>4, <2>1
    <2> QED
      BY <1>4, <2>1, <2>2, <2>3, <2>4 DEF i
  <1> QED
    BY <1>5, <1>6

LEMMA ReachStep ==
  ASSUME WalkTypes, ReachInv, WalkNext
  PROVE  ReachInv'
  <1> DEFINE i == run.i + 1
  <1>1. run \in Runs /\ run.i \in Nat /\ Len(run.order) \in Nat /\ i \in Nat /\ i > run.i
    BY DEF WalkTypes, Runs
  <1>2. ASSUME run.pc = "walk"
        PROVE  /\ Resumes(run.order, run.i, run.last)
               /\ \A r \in run.passedBy :
                     /\ Fetched(run.order, run.i, r)
                     /\ Place(run.order, run.last) < Place(run.order, r)
    BY <1>2 DEF ReachInv
  <1>3. ASSUME Walking, run'.order = run.order, run'.i = run.i + 1, run'.last = Marked,
               run'.frozen = run.frozen, run'.passedBy = run.passedBy
        PROVE  ReachInv'
    <2>1. run.pc = "walk"
      BY <1>3, CandidateIs
    <2>2. \A r \in run.passedBy : Fetched(run.order, i, r)
      BY <1>1, <1>2, <1>3, <2>1, WalkOn
    <2>3. run'.i = i /\ run'.i - 1 = run.i
      BY <1>1, <1>3
    <2>4. /\ Resumes(run.order, i, Marked)
          /\ ~ run.frozen => Place(run.order, Marked) = run.i
          /\ \A r \in run.passedBy : Place(run.order, Marked) < Place(run.order, r)
      BY <1>3, MarkedIs
    <2> HIDE DEF i
    <2> QED
      BY <1>3, <2>2, <2>3, <2>4 DEF ReachInv
  <1>4. ASSUME Walking, run'.order = run.order, NEW j \in Nat, run'.i = j, j > run.i,
               run'.last = run.last, run'.frozen = TRUE,
               run'.passedBy = run.passedBy \cup {Candidate}
        PROVE  ReachInv'
    <2>1. run.pc = "walk"
      BY <1>4, CandidateIs
    <2>2. /\ Resumes(run.order, run.i, run.last)
          /\ \A r \in run.passedBy :
                /\ Fetched(run.order, run.i, r)
                /\ Place(run.order, run.last) < Place(run.order, r)
      BY <1>2, <2>1
    <2>3. /\ Fetched(run.order, j, Candidate) /\ Place(run.order, Candidate) = run.i
          /\ Resumes(run.order, j, run.last)
          /\ \A r \in run.passedBy : Fetched(run.order, j, r)
      BY <1>4, <2>2, WalkOn
    <2>4. Place(run.order, run.last) < run.i
      BY <2>2, ResumesIs
    <2>5. \A r \in run.passedBy \cup {Candidate} :
             /\ Fetched(run.order, j, r)
             /\ Place(run.order, run.last) < Place(run.order, r)
      BY <2>2, <2>3, <2>4
    <2> QED
      BY <1>4, <2>3, <2>5 DEF ReachInv
  <1>5. CASE StartRun
    BY <1>5, StartRunIs DEF ReachInv, Resumes, Place
  <1>6. CASE WalkSettled
    BY <1>3, <1>6, SettledIs
  <1>7. CASE WalkLeftover
    BY <1>3, <1>7, LeftoverIs
  <1>8. CASE WalkPastCap
    BY <1>1, <1>4, <1>8, PastCapIs
  <1>9. CASE WalkFailed
    <2>1. Walking /\ (run'.i = run.i + 1 \/ run'.i = Len(run.order) + 1)
      BY <1>9, FailedIs
    <2>2. run'.i \in Nat /\ run'.i > run.i
      BY <1>1, <2>1, CandidateIs
    <2> QED
      BY <1>4, <1>9, <2>2, FailedIs
  <1>10. CASE Extract
    BY <1>10, ExtractIs DEF ReachInv
  <1>11. CASE SaveHeld
    BY <1>11, SaveHeldIs DEF ReachInv
  <1>12. CASE KeepHeld
    BY <1>12, KeepHeldIs DEF ReachInv
  <1>13. CASE SaveCursor \/ Cut
    BY <1>13, EndIs DEF SaveCursor, Cut, ReachInv
  <1>14. CASE \E r \in Candidates : Turnover(r)
    BY <1>14 DEF Turnover, ReachInv
  <1> QED
    BY <1>5, <1>6, <1>7, <1>8, <1>9, <1>10, <1>11, <1>12, <1>13, <1>14 DEF WalkNext, RunStep

(* What is queued stays so while the walk goes on and the cursor does too.  *)
LEMMA RewindableOn ==
  ASSUME WalkTypes, ReachInv, QueueInv, Walking, run'.order = run.order,
         run'.i \in Nat, run'.i > run.i, NEW q \in DOMAIN run.queue,
         run'.before[run.queue[q]] = run.before[run.queue[q]],
         run'.last = run.last \/ run'.last = Marked
  PROVE  Rewindable(run', run.queue[q])
  <1> DEFINE r == run.queue[q]
  <1>1. /\ run.pc = "walk" /\ run.i \in Nat
    BY CandidateIs DEF WalkTypes, Runs
  <1>2. /\ r # 0 /\ Fetched(run.order, run.i, r)
        /\ Resumes(run.order, run.i, run.before[r])
        /\ Place(run.order, run.before[r]) < Place(run.order, r)
        /\ Place(run.order, run.before[r]) <= Place(run.order, run.last)
    BY <1>1 DEF QueueInv, Rewindable
  <1>3. Fetched(run.order, run'.i, r) /\ Resumes(run.order, run'.i, run.before[r])
    BY <1>2, WalkOn
  <1>4. /\ Resumes(run.order, run.i, run.last)
        /\ Place(run.order, run.last) <= Place(run.order, Marked)
    BY <1>1, MarkedIs DEF ReachInv
  <1>5. Resumes(run.order, run.i + 1, Marked)
    BY MarkedIs
  <1>6. /\ Place(run.order, run.last) \in Nat /\ Place(run.order, run.before[r]) \in Nat
    BY <1>2, <1>4, ResumesIs
  <1>7. Place(run.order, Marked) \in Nat
    <2>1. CASE run.frozen
      BY <1>6, <2>1 DEF Marked
    <2>2. CASE ~ run.frozen
      BY <1>1, <2>2, MarkedIs
    <2> QED
      BY <2>1, <2>2
  <1>8. Place(run.order, run.before[r]) <= Place(run.order, run'.last)
    BY <1>2, <1>4, <1>6, <1>7
  <1>9. run'.before[r] = run.before[r]
    OBVIOUS
  <1> HIDE DEF r
  <1>10. /\ r # 0 /\ Fetched(run'.order, run'.i, r)
         /\ Resumes(run'.order, run'.i, run'.before[r])
         /\ Place(run'.order, run'.before[r]) < Place(run'.order, r)
         /\ Place(run'.order, run'.before[r]) <= Place(run'.order, run'.last)
    BY <1>2, <1>3, <1>8, <1>9
  <1>11. Rewindable(run', r)
    BY <1>10 DEF Rewindable
  <1> QED
    BY <1>11 DEF r

LEMMA QueueWalks ==
  ASSUME WalkTypes, ReachInv, QueueInv, Walking, run'.order = run.order,
         run'.i \in Nat, run'.i > run.i, run'.queue = run.queue,
         run'.before = run.before, run'.failed = run.failed,
         run'.last = run.last \/ run'.last = Marked
  PROVE  QueueInv'
  <1>1. \A q \in DOMAIN run.queue : Rewindable(run', run.queue[q])
    BY RewindableOn
  <1>2. /\ \A p, q \in DOMAIN run.queue :
              p < q => Place(run.order, run.queue[p]) < Place(run.order, run.queue[q])
        /\ run.failed \subseteq {run.queue[q] : q \in DOMAIN run.queue}
    BY CandidateIs DEF QueueInv
  <1>3. \A q \in DOMAIN run'.queue : Rewindable(run', run'.queue[q])
    BY <1>1
  <1> QED
    BY <1>2, <1>3 DEF QueueInv

LEMMA QueueGrows ==
  ASSUME WalkTypes, ReachInv, QueueInv, WalkLeftover
  PROVE  QueueInv'
  <1>1. /\ Walking /\ run'.order = run.order /\ run'.i = run.i + 1
        /\ run'.last = Marked /\ run'.queue = Append(run.queue, Candidate)
        /\ run'.before = [run.before EXCEPT ![Candidate] = run.last]
        /\ run'.failed = run.failed
    BY LeftoverIs
  <1>2. /\ run.pc = "walk" /\ run.i \in Nat /\ run.queue \in Seq(Candidates)
        /\ Candidate \in Candidates /\ run.before \in [Candidates -> 0..N]
    BY <1>1, CandidateIs DEF WalkTypes, Runs
  <1>3. run'.i \in Nat /\ run'.i > run.i
    BY <1>1, <1>2
  <1> DEFINE n == Len(run.queue)
  <1>4. /\ n \in Nat /\ DOMAIN run.queue = 1..n /\ DOMAIN run'.queue = 1..(n + 1)
        /\ \A q \in 1..n : run'.queue[q] = run.queue[q]
        /\ run'.queue[n + 1] = Candidate
    BY <1>1, <1>2
  <1>5. /\ \A q \in 1..n : Rewindable(run, run.queue[q])
        /\ \A p, q \in 1..n :
              p < q => Place(run.order, run.queue[p]) < Place(run.order, run.queue[q])
        /\ run.failed \subseteq {run.queue[q] : q \in DOMAIN run.queue}
    BY <1>2, <1>4 DEF QueueInv
  <1> HIDE DEF n
  <1>6. \A q \in 1..n : /\ Fetched(run.order, run.i, run.queue[q])
                        /\ run.queue[q] # Candidate
                        /\ Place(run.order, run.queue[q]) < run.i
    BY <1>1, <1>3, <1>5, WalkOn, FetchedIs DEF Rewindable
  <1>7. ASSUME NEW q \in 1..n PROVE Rewindable(run', run.queue[q])
    <2>1. q \in DOMAIN run.queue
      BY <1>4
    <2>2. run.queue[q] \in Candidates
      BY <1>2, <2>1
    <2>3. run.queue[q] # Candidate
      BY <1>6
    <2>4. run'.before[run.queue[q]] = run.before[run.queue[q]]
      BY <1>1, <1>2, <2>2, <2>3
    <2> QED
      BY <1>1, <1>3, <2>1, <2>4, RewindableOn
  <1>8. Rewindable(run', Candidate)
    <2>1. /\ Resumes(run.order, run.i, run.last)
          /\ Place(run.order, run.last) <= Place(run.order, Marked)
      BY <1>1, <1>2, MarkedIs DEF ReachInv
    <2>2. /\ Candidate # 0 /\ Fetched(run.order, run'.i, Candidate)
          /\ Place(run.order, Candidate) = run.i
          /\ Resumes(run.order, run'.i, run.last)
      BY <1>1, <1>3, <2>1, WalkOn
    <2>3. Place(run.order, run.last) < run.i
      BY <2>1, ResumesIs
    <2>4. run'.before[Candidate] = run.last
      BY <1>1, <1>2
    <2> DEFINE c == Candidate
    <2>5. /\ c # 0 /\ Fetched(run'.order, run'.i, c)
          /\ Resumes(run'.order, run'.i, run'.before[c])
          /\ Place(run'.order, run'.before[c]) < Place(run'.order, c)
          /\ Place(run'.order, run'.before[c]) <= Place(run'.order, run'.last)
      BY <1>1, <2>1, <2>2, <2>3, <2>4
    <2> QED
      BY <2>5 DEF Rewindable
  <1>9. \A q \in DOMAIN run'.queue : Rewindable(run', run'.queue[q])
    BY <1>4, <1>7, <1>8
  <1>10. ASSUME NEW p \in 1..(n + 1), NEW q \in 1..(n + 1), p < q
         PROVE  Place(run.order, run'.queue[p]) < Place(run.order, run'.queue[q])
    <2>1. p \in 1..n
      BY <1>4, <1>10
    <2>2. CASE q \in 1..n
      BY <1>4, <1>5, <1>10, <2>1, <2>2
    <2>3. CASE q = n + 1
      <3>1. Place(run.order, Candidate) = run.i
        BY <1>1, <1>3, WalkOn
      <3> QED
        BY <1>4, <1>6, <2>1, <2>3, <3>1
    <2> QED
      BY <1>4, <2>2, <2>3
  <1>11. run'.failed \subseteq {run'.queue[q] : q \in DOMAIN run'.queue}
    <2>1. \A q \in DOMAIN run.queue : q \in DOMAIN run'.queue /\ run'.queue[q] = run.queue[q]
      BY <1>4
    <2> QED
      BY <1>1, <1>5, <2>1
  <1> QED
    BY <1>1, <1>4, <1>9, <1>10, <1>11 DEF QueueInv

LEMMA QueueStep ==
  ASSUME WalkTypes, ReachInv, QueueInv, WalkNext
  PROVE  QueueInv'
  <1>1. run \in Runs /\ run.i \in Nat /\ Len(run.order) \in Nat
    BY DEF WalkTypes, Runs
  <1>2. run.i + 1 \in Nat /\ run.i + 1 > run.i
    BY <1>1
  <1>3. CASE StartRun
    <2>1. run'.queue = <<>> /\ run'.failed = {}
      BY <1>3, StartRunIs
    <2> QED
      BY <2>1 DEF QueueInv
  <1>4. CASE WalkSettled
    BY <1>2, <1>4, SettledIs, QueueWalks
  <1>5. CASE WalkLeftover
    BY <1>5, QueueGrows
  <1>6. CASE WalkPastCap
    BY <1>2, <1>6, PastCapIs, QueueWalks
  <1>7. CASE WalkFailed
    <2>1. Walking /\ (run'.i = run.i + 1 \/ run'.i = Len(run.order) + 1)
      BY <1>7, FailedIs
    <2>2. run'.i \in Nat /\ run'.i > run.i
      BY <1>1, <2>1, CandidateIs
    <2> QED
      BY <1>7, <2>1, <2>2, FailedIs, QueueWalks
  <1>8. CASE Extract
    <2>1. /\ run.pc = "walk" /\ run'.order = run.order /\ run'.i = run.i
          /\ run'.last = run.last /\ run'.queue = run.queue /\ run'.before = run.before
          /\ run'.failed \subseteq {run.queue[q] : q \in DOMAIN run.queue}
      BY <1>8, ExtractIs
    <2>2. /\ \A q \in DOMAIN run.queue : Rewindable(run, run.queue[q])
          /\ \A p, q \in DOMAIN run.queue :
                p < q => Place(run.order, run.queue[p]) < Place(run.order, run.queue[q])
      BY <2>1 DEF QueueInv
    <2>3. ASSUME NEW q \in DOMAIN run.queue PROVE Rewindable(run', run.queue[q])
      BY <2>1, <2>2 DEF Rewindable
    <2> QED
      BY <2>1, <2>2, <2>3 DEF QueueInv
  <1>9. CASE SaveHeld
    BY <1>9, SaveHeldIs DEF QueueInv
  <1>10. CASE KeepHeld
    BY <1>10, KeepHeldIs DEF QueueInv
  <1>11. CASE SaveCursor \/ Cut
    BY <1>11, EndIs DEF SaveCursor, Cut, QueueInv
  <1>12. CASE \E r \in Candidates : Turnover(r)
    BY <1>12 DEF Turnover, QueueInv
  <1> QED
    BY <1>3, <1>4, <1>5, <1>6, <1>7, <1>8, <1>9, <1>10, <1>11, <1>12 DEF WalkNext, RunStep

(* The rows left behind stand no further than the cursor.                   *)
LEMMA BehindIs ==
  ASSUME WalkTypes, run'.order = run.order, Resumes(run.order, run.i, run'.last),
         NEW r \in Passed'
  PROVE  /\ Place(run.order, r) \in Nat
         /\ Place(run.order, r) <= Place(run.order, run'.last)
  <1>1. run'.last # 0 /\ r \in {run'.order[p] : p \in 1..Place(run'.order, run'.last)}
    BY DEF Passed, Place
  <1>2. /\ Place(run.order, run'.last) \in DOMAIN run.order
        /\ Place(run.order, run'.last) \in Nat
    BY <1>1, FetchedIs DEF Resumes
  <1>3. PICK p \in 1..Place(run.order, run'.last) : r = run.order[p]
    BY <1>1
  <1>4. p \in DOMAIN run.order
    <2>1. run.order \in Seq(Candidates)
      BY DEF WalkTypes, Runs
    <2> QED
      BY <1>2, <2>1
  <1>5. Place(run.order, r) = p
    BY <1>3, <1>4, PlaceIs
  <1> QED
    BY <1>2, <1>5

(* The rewind: everything with a second chance left stands behind the row   *)
(* the cursor goes back before.                                             *)
LEMMA RewindIs ==
  ASSUME WalkTypes, ReachInv, QueueInv, SaveHeld
  PROVE  /\ Resumes(run.order, run.i, run'.last)
         /\ Place(run.order, run'.last) <= Place(run.order, run.last)
         /\ \A r \in Retry : Place(run.order, run'.last) < Place(run.order, r)
  <1>1. PICK q \in DOMAIN run.queue :
            IsFirstRetry(q) /\ run'.last = run.before[run.queue[q]]
    BY SaveHeldIs
  <1>2. run.pc = "rewind" /\ run.queue \in Seq(Candidates)
    BY SaveHeldIs DEF WalkTypes, Runs
  <1>3. /\ Resumes(run.order, run.i, run'.last)
        /\ Place(run.order, run'.last) < Place(run.order, run.queue[q])
        /\ Place(run.order, run'.last) <= Place(run.order, run.last)
        /\ Fetched(run.order, run.i, run.queue[q])
    BY <1>1, <1>2 DEF QueueInv, Rewindable
  <1>4. ASSUME NEW r \in Retry
        PROVE  Place(run.order, run'.last) < Place(run.order, r)
    <2>1. PICK j \in DOMAIN run.queue : run.queue[j] = r
      BY <1>2 DEF Retry, QueueInv
    <2>2. q \in Nat /\ j \in Nat /\ 1 <= j
      BY <1>2
    <2>3. ~ (j < q)
      BY <1>1, <2>1, <2>2 DEF IsFirstRetry
    <2>4. q < j => Place(run.order, run.queue[q]) < Place(run.order, r)
      BY <1>2, <2>1 DEF QueueInv
    <2>5. Fetched(run.order, run.i, r)
      BY <1>2, <2>1 DEF QueueInv, Rewindable
    <2>6. /\ Place(run.order, r) \in Nat /\ Place(run.order, run.queue[q]) \in Nat
          /\ Place(run.order, run'.last) \in Nat
      BY <1>3, <2>5, FetchedIs, ResumesIs
    <2>7. CASE q = j
      BY <1>3, <2>1, <2>7
    <2>8. CASE q < j
      BY <1>3, <2>4, <2>6, <2>8
    <2> QED
      BY <2>2, <2>3, <2>7, <2>8
  <1> QED
    BY <1>3, <1>4

LEMMA LeapfrogStep ==
  ASSUME WalkTypes, ReachInv, QueueInv, NoLeapfrog, WalkNext
  PROVE  NoLeapfrog'
  <1>1. ASSUME run.pc = "rewind", run'.order = run.order, run'.passedBy = run.passedBy,
               run'.failed = run.failed, run'.heldBefore = run.heldBefore,
               Resumes(run.order, run.i, run'.last),
               Place(run.order, run'.last) <= Place(run.order, run.last),
               \A r \in Retry : Place(run.order, run'.last) < Place(run.order, r)
        PROVE  NoLeapfrog'
    <2>1. Place(run.order, run'.last) \in Nat
      BY <1>1, ResumesIs
    <2>2. ASSUME NEW r \in Passed', r \in run.passedBy PROVE FALSE
      <3>1. /\ Fetched(run.order, run.i, r) /\ Resumes(run.order, run.i, run.last)
            /\ Place(run.order, run.last) < Place(run.order, r)
        BY <1>1, <2>2 DEF ReachInv
      <3>2. Place(run.order, run.last) \in Nat
        BY <3>1, ResumesIs
      <3>3. /\ Place(run.order, r) \in Nat
            /\ Place(run.order, r) <= Place(run.order, run'.last)
        BY <1>1, BehindIs
      <3> QED
        BY <1>1, <2>1, <3>1, <3>2, <3>3
    <2>3. ASSUME NEW r \in Passed', r \in run.failed, r # run.heldBefore PROVE FALSE
      <3>1. Place(run.order, run'.last) < Place(run.order, r)
        BY <1>1, <2>3 DEF Retry
      <3>2. /\ Place(run.order, r) \in Nat
            /\ Place(run.order, r) <= Place(run.order, run'.last)
        BY <1>1, BehindIs
      <3> QED
        BY <2>1, <3>1, <3>2
    <2> QED
      BY <1>1, <2>2, <2>3 DEF NoLeapfrog
  <1>2. CASE SaveHeld
    BY <1>1, <1>2, SaveHeldIs, RewindIs
  <1>3. CASE KeepHeld
    <2>1. /\ run.pc = "rewind" /\ Retry = {} /\ run'.order = run.order
          /\ run'.last = run.last /\ run'.failed = run.failed
          /\ run'.passedBy = run.passedBy /\ run'.heldBefore = run.heldBefore
      BY <1>3, KeepHeldIs
    <2>2. Resumes(run.order, run.i, run.last)
      BY <2>1 DEF ReachInv
    <2>3. Place(run.order, run.last) \in Nat
      BY <2>2, ResumesIs
    <2> QED
      BY <1>1, <2>1, <2>2, <2>3
  <1>4. CASE WalkSettled \/ WalkLeftover \/ WalkPastCap \/ WalkFailed
    <2>1. run'.pc = "walk"
      BY <1>4, SettledIs, LeftoverIs, PastCapIs, FailedIs
    <2> QED
      BY <2>1 DEF NoLeapfrog
  <1>5. CASE StartRun \/ Extract
    <2>1. run'.pc # "save"
      BY <1>5, StartRunIs, ExtractIs
    <2> QED
      BY <2>1 DEF NoLeapfrog
  <1>6. CASE SaveCursor \/ Cut
    <2>1. run'.pc = "idle"
      BY <1>6, EndIs DEF SaveCursor, Cut
    <2> QED
      BY <2>1 DEF NoLeapfrog
  <1>7. CASE \E r \in Candidates : Turnover(r)
    BY <1>7 DEF Turnover, NoLeapfrog, Passed
  <1> QED
    BY <1>2, <1>3, <1>4, <1>5, <1>6, <1>7 DEF WalkNext, RunStep

WalkInv == WalkTypes /\ ReachInv /\ QueueInv /\ NoLeapfrog

LEMMA WalkInvNext == WalkInv /\ [WalkNext]_walkVars => WalkInv'
  <1>1. ASSUME WalkInv, WalkNext PROVE WalkInv'
    BY <1>1, WalkTypesStep, ReachStep, QueueStep, LeapfrogStep DEF WalkInv
  <1>2. ASSUME WalkInv, UNCHANGED walkVars PROVE WalkInv'
    <2>1. UNCHANGED <<roster, cursor, held, run>>
      BY <1>2 DEF walkVars, stored
    <2> QED
      BY <1>2, <2>1 DEF WalkInv, WalkTypes, OrderInv, ReachInv, QueueInv, NoLeapfrog, Passed
  <1> QED
    BY <1>1, <1>2

(* The cursor a run stores never leaves behind a page that failed or a      *)
(* section that found no room, nor a failed extract but the one row that    *)
(* already had its second chance.                                           *)
THEOREM NothingLeapfrogged == WalkSpec => []NoLeapfrog
<1>1. WalkInit => WalkInv
  <2> SUFFICES ASSUME WalkInit PROVE WalkInv
    OBVIOUS
  <2>1. run.pc = "idle"
    BY NoRunIs DEF WalkInit
  <2> QED
    BY <2>1, WalkTypesInit DEF WalkInv, ReachInv, QueueInv, NoLeapfrog
<1>2. WalkInv => NoLeapfrog
  BY DEF WalkInv
<1> QED BY <1>1, <1>2, WalkInvNext, PTL DEF WalkSpec

=============================================================================
