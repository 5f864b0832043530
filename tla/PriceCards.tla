------------------------------ MODULE PriceCards ------------------------------
(***************************************************************************)
(* FAL's prices, which two jobs write: the 15-minute poll                  *)
(* (pollProviderModels of src/server/ingest/poll-models.ts) and the nightly *)
(* extract (src/server/ingest/extract-fal-pricing.ts).  Each reads the     *)
(* rows when it begins and later writes back what it then read: the poll a *)
(* whole row when any fact of it moved, the extract all of factSources.    *)
(* The poll prices the chat rows itself, from pages it keeps in KV for six *)
(* hours (src/server/providers/fal.ts).                                    *)
(*                                                                         *)
(* A page's Pricing section is its text, and the text's hash is the text.  *)
(* A card is the text it was read from and the price it gives; the price   *)
(* of a promo, whose card has an expiresAt, holds until the promo ends.    *)
(* FalWalk has the order and the caps of the extract's walk and ModelPoll  *)
(* the rest of the poll: here rows are taken in any order, and one may be  *)
(* left alone.  A row and its change are written together here; ModelPoll  *)
(* has the step between.                                                   *)
(***************************************************************************)
EXTENDS Naturals, FiniteSets

CONSTANTS
    Rows,           \* FAL's models rows
    Texts,          \* Pricing sections
    PriceOf,        \* PriceOf[t]: the price section t names
    Promos,         \* the prices that are promos
    RegularOf,      \* RegularOf[t]: what t names for after its promo
    NoPrice,        \* of a section that names none (a stub)
    None,           \* no card, no hash
    MaxPolls, MaxExtracts, MaxEdits     \* bounds

ASSUME PricesAssumption ==
    /\ None \notin Texts
    /\ DOMAIN PriceOf = Texts /\ DOMAIN RegularOf = Texts
    /\ NoPrice \notin Promos /\ \A t \in Texts : RegularOf[t] \notin Promos
    /\ {MaxPolls, MaxExtracts, MaxEdits} \subseteq Nat

VARIABLES
    chat,       \* the chat rows, whose sections compile to token cards
    ended,      \* the promos that have ended
    page,       \* page[r]: the Pricing section r's llms.txt has now
    cache,      \* cache[r]: the section KV holds for chat row r, or None
    rows,       \* the models rows
    told,       \* told[r]: the price the newest change about r gave it
    poll,       \* the locals of the poll under way
    extract,    \* the locals of the extract under way
    polls, extracts, edits,
    doubtful,   \* history: rows whose hash may not be that of their card
    unsaid,     \* history: rows whose price was put back without a change
    mixed       \* history: rows whose provenance an extract put back

pages == <<chat, page, cache, ended, edits>>
histories == <<doubtful, unsaid, mixed>>
vars == <<pages, rows, told, poll, extract, polls, extracts, histories>>

Prices == {NoPrice} \cup {PriceOf[t] : t \in Texts} \cup {RegularOf[t] : t \in Texts}

Cards == [of : Texts, price : Prices]

ASSUME NoneAssumption == None \notin Cards

(* What section t asks for once the promos in over have ended.              *)
PriceNow(t, over) == IF PriceOf[t] \in over THEN RegularOf[t] ELSE PriceOf[t]

CardOf(t, over) ==
    IF PriceNow(t, over) = NoPrice THEN None ELSE [of |-> t, price |-> PriceNow(t, over)]

(* card: the stored card.  src: sources.pricing.sourceHash.  fact: the *)
(* poll that last moved the row's other facts; prov: the one whose listing  *)
(* factSources names as theirs.                                             *)
Row == [card : Cards \cup {None}, src : Texts \cup {None},
        fact : 0..MaxPolls, prov : 0..MaxPolls]

NoRow == [card |-> None, src |-> None, fact |-> 0, prov |-> 0]
AllNoRow == [r \in Rows |-> NoRow]
NoPoll == [pc |-> "idle", listed |-> [r \in Rows |-> "none"], old |-> AllNoRow,
           doubtful |-> {}, todo |-> {}]
(* over: the promos over at its clock.  fetched: the sections it has read.  *)
(* queue: the leftovers, for the extract model.                             *)
NoExtract == [pc |-> "idle", old |-> AllNoRow, over |-> {},
              fetched |-> [r \in Rows |-> None], todo |-> {}, queue |-> {}]

Price(card) == IF card = None THEN NoPrice ELSE card.price

Expired(card, over) == card # None /\ Price(card) \in over

PricesInit ==
    /\ chat \in SUBSET Rows
    /\ ended = {}
    /\ page \in [Rows -> Texts]
    /\ cache = [r \in Rows |-> None]
    /\ rows = AllNoRow
    /\ told = [r \in Rows |-> NoPrice]
    /\ poll = NoPoll
    /\ extract = NoExtract
    /\ polls = 0 /\ extracts = 0 /\ edits = 0
    /\ doubtful = {} /\ unsaid = {} /\ mixed = {}

-----------------------------------------------------------------------------
(* FAL's pages and promos, and the KV copies' time to live.                *)

EditPage(r, t) ==
    /\ edits < MaxEdits
    /\ t # page[r]
    /\ edits' = edits + 1
    /\ page' = [page EXCEPT ![r] = t]
    /\ UNCHANGED <<chat, cache, ended, rows, told, poll, extract, polls, extracts,
                   histories>>

EndPromo(p) ==
    /\ p \notin ended
    /\ ended' = ended \cup {p}
    /\ UNCHANGED <<chat, page, cache, edits, rows, told, poll, extract, polls, extracts,
                   histories>>

Expire(r) ==
    /\ cache[r] # None
    /\ cache' = [cache EXCEPT ![r] = None]
    /\ UNCHANGED <<chat, page, ended, edits, rows, told, poll, extract, polls, extracts,
                   histories>>

-----------------------------------------------------------------------------
(* The poll.                                                               *)

(* loadChatTokenPrices: the KV copy, or the page, then kept.                *)
Seen(r) == IF cache[r] # None THEN cache[r] ELSE page[r]

(* listModels.  For each chat row it gives a token card, no price (a stub,  *)
(* or a section it does not compile, as a promo's), or says that the page   *)
(* could not be read.                                                       *)
ListModels(failed) ==
    /\ poll.pc = "idle" /\ polls < MaxPolls
    /\ polls' = polls + 1
    /\ cache' = [r \in Rows |-> IF r \in chat \ failed THEN Seen(r) ELSE cache[r]]
    /\ poll' = [NoPoll EXCEPT !.pc = "read", !.listed =
            [r \in Rows |-> IF r \in failed THEN "unavailable"
                            ELSE IF r \in chat /\ PriceOf[Seen(r)] \notin Promos \cup {NoPrice}
                            THEN Seen(r)
                            ELSE "none"]]
    /\ UNCHANGED <<chat, page, ended, edits, rows, told, extract, extracts, histories>>

ReadRows ==
    /\ poll.pc = "read"
    /\ poll' = [poll EXCEPT !.pc = "rows", !.old = rows, !.todo = Rows,
                            !.doubtful = doubtful]
    /\ UNCHANGED <<pages, rows, told, extract, polls, extracts, histories>>

(* What a listed card stores.                                               *)
Listed(l) == [of |-> l, price |-> PriceOf[l]]

(* Mutant: a row without a listed price loses its card unless the docs gave *)
(* it.                                                                      *)
ListedCardNulled(r, refused) ==
    LET old == poll.old[r] l == poll.listed[r] IN
    IF l = "unavailable" THEN <<old.card, old.src>>
    ELSE IF l = "none" \/ refused THEN <<None, None>>
    ELSE <<Listed(l), l>>

(* Mutant: the listing's card is stored without the hash of its page.       *)
ListedCardUnsourced(r, refused) ==
    LET old == poll.old[r] l == poll.listed[r] IN
    IF l \notin Texts THEN <<old.card, old.src>>
    ELSE IF refused THEN <<None, None>>
    ELSE <<Listed(l), None>>

(* The pricing decision, as a card and the hash of its source.  A row the   *)
(* listing gives no card for keeps the stored one, whether it is docs-      *)
(* extracted, unavailable or merely missing.  A listed card the write gate  *)
(* refuses is stored as none (observePricingWrite), its source with it.     *)
ListedCard(r, refused) ==
    LET old == poll.old[r] l == poll.listed[r] IN
    IF l \notin Texts THEN <<old.card, old.src>>
    ELSE IF refused THEN <<None, None>>
    ELSE <<Listed(l), l>>

(* One row: written whole when its price or another fact moved.             *)
PollRow(r, moved, refused) ==
    /\ poll.pc = "rows" /\ r \in poll.todo
    /\ LET old == poll.old[r]
           card == ListedCard(r, refused)[1]
           priced == Price(card) # Price(old.card)
           fact == IF moved THEN polls ELSE old.fact
       IN  IF ~ (priced \/ moved) THEN UNCHANGED <<rows, told, histories>>
           ELSE /\ rows' = [rows EXCEPT ![r] = [card |-> card, src |-> ListedCard(r, refused)[2],
                                                fact |-> fact, prov |-> fact]]
                /\ told' = IF priced THEN [told EXCEPT ![r] = Price(card)] ELSE told
                /\ unsaid' = IF ~ priced /\ rows[r] # old THEN unsaid \cup {r}
                             ELSE IF priced THEN unsaid \ {r} ELSE unsaid
                /\ mixed' = mixed \ {r}
                /\ doubtful' = IF poll.listed[r] \notin Texts /\ r \in poll.doubtful
                               THEN doubtful \cup {r} ELSE doubtful \ {r}
    /\ poll' = IF poll.todo = {r} THEN NoPoll ELSE [poll EXCEPT !.todo = @ \ {r}]
    /\ UNCHANGED <<pages, extract, polls, extracts>>

KillPoll ==
    /\ poll.pc # "idle"
    /\ poll' = NoPoll
    /\ UNCHANGED <<pages, rows, told, extract, polls, extracts, histories>>

-----------------------------------------------------------------------------
(* The extract.                                                            *)

(* Its clock is read here, once, and so are its candidates' rows.           *)
StartExtract ==
    /\ extract.pc = "idle" /\ extracts < MaxExtracts
    /\ extracts' = extracts + 1
    /\ extract' = [NoExtract EXCEPT !.pc = "rows", !.old = rows, !.over = ended,
                                    !.todo = Rows]
    /\ UNCHANGED <<pages, rows, told, poll, polls, histories>>

(* A window of llms.txt pages is fetched ahead of the walk.                 *)
FetchPage(r) ==
    /\ r \in extract.todo /\ extract.fetched[r] = None
    /\ extract' = [extract EXCEPT !.fetched[r] = page[r]]
    /\ UNCHANGED <<pages, rows, told, poll, polls, extracts, histories>>

StoredHash(row) ==
    IF row.src # None THEN row.src ELSE IF row.card # None THEN row.card.of ELSE None

(* Mutant: a card past its expiresAt counts like any other.                 *)
ShouldSkipExpired(row, t, over) ==
    StoredHash(row) = t /\ (row.card # None \/ PriceOf[t] = NoPrice)

(* shouldSkipExtract.                                                       *)
ShouldSkip(row, t, over) ==
    /\ StoredHash(row) = t
    /\ row.card # None \/ PriceOf[t] = NoPrice
    /\ ~ Expired(row.card, over)

(* Mutant: factSources is only the pricing source.                          *)
StampOnly(r, t) ==
    rows' = [rows EXCEPT ![r].src = t, ![r].prov = 0]

(* factSources is written whole: what the candidate had, with a new pricing *)
(* source.                                                                  *)
Stamp(r, t) ==
    rows' = [rows EXCEPT ![r].src = t, ![r].prov = extract.old[r].prov]

(* Mutant: the card is written whether or not its facts differ.             *)
WritePricingAlways(r, t, card) ==
    LET old == extract.old[r] IN
    /\ rows' = [rows EXCEPT ![r].card = card, ![r].src = t, ![r].prov = old.prov]
    /\ told' = IF Price(card) = Price(old.card) THEN told ELSE [told EXCEPT ![r] = Price(card)]
    /\ doubtful' = doubtful \ {r}
    /\ UNCHANGED unsaid

(* writePricing: card is None for a stub.  The card is written, and told,   *)
(* only when its facts differ from those the extract read.                  *)
WritePricing(r, t, card) ==
    LET old == extract.old[r] IN
    IF Price(card) = Price(old.card)
    THEN /\ Stamp(r, t)
         /\ doubtful' = IF rows[r].card # old.card THEN doubtful \cup {r} ELSE doubtful \ {r}
         /\ UNCHANGED <<told, unsaid>>
    ELSE /\ rows' = [rows EXCEPT ![r].card = card, ![r].src = t, ![r].prov = old.prov]
         /\ told' = [told EXCEPT ![r] = Price(card)]
         /\ doubtful' = doubtful \ {r}
         /\ unsaid' = unsaid \ {r}

(* stampPricingHash.                                                        *)
StampPricingHash(r, t) ==
    /\ Stamp(r, t)
    /\ doubtful' = IF rows[r].card # None THEN doubtful \cup {r} ELSE doubtful \ {r}
    /\ UNCHANGED <<told, unsaid>>

(* The walk has a page of r that the stored hash does not let it skip.      *)
Due(r) ==
    /\ r \in extract.todo /\ extract.fetched[r] # None
    /\ ~ ShouldSkip(extract.old[r], extract.fetched[r], extract.over)

(* The run goes on with these rows to walk and these leftovers, or ends.    *)
Remaining(todo, queue) ==
    extract' = IF todo \cup queue = {} THEN NoExtract
               ELSE [extract EXCEPT !.todo = todo, !.queue = queue]

(* The row's sources are put back as the extract read them.                 *)
NoteSources(r) ==
    mixed' = IF rows[r].prov # extract.old[r].prov THEN mixed \cup {r} ELSE mixed

(* A row is passed over: no page, an unchanged hash, a card the write gate  *)
(* refuses, or a section past the cap.                                      *)
LeaveRow(r) ==
    /\ r \in extract.todo
    /\ Due(r) => PriceOf[extract.fetched[r]] # NoPrice
    /\ Remaining(extract.todo \ {r}, extract.queue)
    /\ UNCHANGED <<pages, rows, told, poll, polls, extracts, histories>>

(* A stub is written as no card; a section whose card is known or compiled, *)
(* as that card.                                                            *)
WriteWalked(r) ==
    /\ Due(r)
    /\ LET t == extract.fetched[r] card == CardOf(t, extract.over) IN
        /\ PriceOf[t] = NoPrice \/ card # None
        /\ WritePricing(r, t, card)
    /\ NoteSources(r)
    /\ Remaining(extract.todo \ {r}, extract.queue)
    /\ UNCHANGED <<pages, poll, polls, extracts>>

(* Any other section waits for the extract model.                           *)
QueueRow(r) ==
    /\ Due(r)
    /\ PriceOf[extract.fetched[r]] # NoPrice
    /\ r \in chat => PriceOf[extract.fetched[r]] \in Promos
    /\ Remaining(extract.todo \ {r}, extract.queue \cup {r})
    /\ UNCHANGED <<pages, rows, told, poll, polls, extracts, histories>>

(* After the walk, a leftover's card from the extract model.                *)
WriteLeftover(r) ==
    /\ extract.todo = {} /\ r \in extract.queue
    /\ LET t == extract.fetched[r] card == CardOf(t, extract.over) IN
        card # None /\ WritePricing(r, t, card)
    /\ NoteSources(r)
    /\ Remaining({}, extract.queue \ {r})
    /\ UNCHANGED <<pages, poll, polls, extracts>>

(* "unverified", which checkExtractedCard takes of a section with a price   *)
(* when its promo is over; or no card, where the row has none to keep.      *)
StampLeftover(r) ==
    /\ extract.todo = {} /\ r \in extract.queue
    /\ PriceOf[extract.fetched[r]] \in extract.over \/ extract.old[r].card = None
    /\ StampPricingHash(r, extract.fetched[r])
    /\ NoteSources(r)
    /\ Remaining({}, extract.queue \ {r})
    /\ UNCHANGED <<pages, poll, polls, extracts>>

(* No card from the extract model, or a refused one: the stored one stays.  *)
KeepLeftover(r) ==
    /\ extract.todo = {} /\ r \in extract.queue
    /\ extract.old[r].card # None
    /\ Remaining({}, extract.queue \ {r})
    /\ UNCHANGED <<pages, rows, told, poll, polls, extracts, histories>>

ExtractWrites(r) == WriteWalked(r) \/ WriteLeftover(r) \/ StampLeftover(r)

ExtractReads(r) == FetchPage(r) \/ LeaveRow(r) \/ QueueRow(r) \/ KeepLeftover(r)

KillExtract ==
    /\ extract.pc # "idle"
    /\ extract' = NoExtract
    /\ UNCHANGED <<pages, rows, told, poll, polls, extracts, histories>>

PricesNext ==
    \/ \E r \in Rows :
        \/ \E t \in Texts : EditPage(r, t)
        \/ Expire(r)
        \/ \E moved, refused \in BOOLEAN : PollRow(r, moved, refused)
        \/ ExtractReads(r)
        \/ ExtractWrites(r)
    \/ \E p \in Promos : EndPromo(p)
    \/ \E failed \in SUBSET {r \in chat : cache[r] = None} : ListModels(failed)
    \/ ReadRows \/ KillPoll \/ StartExtract \/ KillExtract

PricesSpec == PricesInit /\ [][PricesNext]_vars

-----------------------------------------------------------------------------
(* Properties.                                                             *)

PricesTypeOK ==
    /\ page \in [Rows -> Texts] /\ cache \in [Rows -> Texts \cup {None}]
    /\ rows \in [Rows -> Row]
    /\ poll.old \in [Rows -> Row] /\ extract.old \in [Rows -> Row]
    /\ \A r \in Rows : rows[r].src # None \/ rows[r].card = None

(* shouldSkipExtract: "Unchanged Pricing hash skips extract unless a promo  *)
(* expiresAt is already in the past".  Skipping a row leaves it with the    *)
(* price its page asks for now, promos over included, unless an extract     *)
(* stamped the page's hash on a row that had another card: a poll had put   *)
(* that back after the extract read it, or the page's price could not be    *)
(* verified.                                                                *)
SkipIsSafe ==
    \A r \in Rows, t \in Texts :
        ShouldSkip(rows[r], t, ended) =>
            Price(rows[r].card) = PriceNow(t, ended) \/ r \in doubtful

(* A row's price is the one the changes feed last gave it, unless a poll    *)
(* whose rows were read before an extract wrote has put an older row back.  *)
FeedTellsCards ==
    \A r \in Rows : Price(rows[r].card) = told[r] \/ r \in unsaid

(* factSources names the listing each fact came from, unless an extract     *)
(* that read the row before a poll wrote it has put the older sources back. *)
ProvenanceKept ==
    \A r \in Rows : rows[r].prov = rows[r].fact \/ r \in mixed

(* ingest-signals.ts: "A docs parser that yields nothing for one model used *)
(* to null its stored card with no signal ... A write-gate refusal still    *)
(* nulls the card".  A card goes only when the extract read a page that     *)
(* names no price, when the poll had a card listed for the row and the      *)
(* write gate refused it, or with a row that an older poll puts back.       *)
LostForAReason ==
    [][\A r \in Rows :
        (rows[r].card # None /\ rows'[r].card = None) =>
            \/ /\ extract # extract' /\ extract.fetched[r] \in Texts
               /\ PriceOf[extract.fetched[r]] = NoPrice
            \/ poll # poll' /\ poll.listed[r] \in Texts
            \/ r \in unsaid']_vars

=============================================================================
