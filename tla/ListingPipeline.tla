-------------------------- MODULE ListingPipeline --------------------------
(***************************************************************************)
(* What a spider process does to the database with the items it scrapes:   *)
(* PostgresPipeline (collection/pipelines.py) over SyncDb                  *)
(* (collection/db.py), whose methods commit one by one.  A listing goes    *)
(* through offer, match, observation, evidence and page; the process may   *)
(* be killed, or the item dropped, between any two of them.  The database  *)
(* is that of one source: all of these tables are keyed by source.         *)
(*                                                                         *)
(* A spider is identified with the run it collects for.  Left out: the     *)
(* seller row that nothing but the offer reads, the history of inactive    *)
(* matches, and the category pages, which no count looks at.               *)
(***************************************************************************)
EXTENDS Integers, FiniteSets

CONSTANTS
    Runs,          \* collection runs of the source, one spider process each
    Offers,        \* external_listing_id values
    Sellers, Variants, Prices,
    Urls,          \* pages kept as evidence; a search page shows many offers
    MaxOpen,       \* spiders alive at a time; compose.yaml allows one
    Keep,          \* evidence_retention_per_url
    MaxClock,      \* bound: items scraped over a behaviour
    MaxSqlErrors,  \* bound: statements the server refuses
    NoSeller, NoVariant, NoPrice, NoOffer,
    BadPrice       \* an amount or currency Money.from_decimal refuses

ASSUME KeepAssumption == Keep \in Nat \ {0}
ASSUME LimitsAssumption == MaxOpen \in Nat /\ MaxClock \in Nat /\ MaxSqlErrors \in Nat
ASSUME NoneAssumption ==
    /\ NoSeller \notin Sellers /\ NoVariant \notin Variants /\ NoOffer \notin Offers
    /\ NoPrice \notin Prices /\ BadPrice \notin Prices \cup {NoPrice}

VARIABLES
    clock,         \* time; every item gets an instant of its own
    sqlErrors,     \* statements refused so far
    spider,        \* one process per run
    overlapped,    \* history: two spiders were alive at once
    offer,         \* offer rows
    match,         \* the active offer_match of each offer
    rejections,    \* listing_rejection
    observations,  \* price_observation, with the seller the page named (history)
    evidence,      \* evidence
    page,          \* discovered_page.status of the product pages
    written        \* history: every evidence row ever inserted

vars == <<clock, sqlErrors, spider, overlapped, offer, match, rejections,
          observations, evidence, page, written>>

Time == 1..MaxClock
Never == 0  \* a timestamp that is NULL
Listing == [offer : Offers, seller : Sellers, variant : Variants \cup {NoVariant},
            price : Prices \cup {BadPrice}, url : Urls]
Stage == {"access", "extraction", "matching"}

(* "ready" waits for an item; the other steps name the commit to come. *)
Busy == {"offer", "match", "observe", "evidence", "page", "mark"}
IdleProcess == [pc : {"new", "ready", "closed"}, healthy : BOOLEAN]
BusyProcess == [pc : Busy, item : Listing, at : Time]
Process == IdleProcess \cup BusyProcess
OfferRow == [seller : Sellers \cup {NoSeller}, price : Prices \cup {NoPrice},
             verified : Time \cup {Never}, changed : Time \cup {Never}]
MatchRow == [variant : Variants \cup {NoVariant}, at : Time \cup {Never}]
Rejection == [run : Runs, stage : Stage, offer : Offers \cup {NoOffer}, at : Time]
Observation == [offer : Offers, run : Runs, at : Time, price : Prices, seller : Sellers]
Evidence == [run : Runs, url : Urls, offer : Offers, at : Time]

NoRow == [seller |-> NoSeller, price |-> NoPrice, verified |-> Never, changed |-> Never]
Unmatched == [variant |-> NoVariant, at |-> Never]

Init ==
    /\ clock = 0 /\ sqlErrors = 0
    /\ spider = [r \in Runs |-> [pc |-> "new", healthy |-> TRUE]]
    /\ overlapped = FALSE
    /\ offer = [o \in Offers |-> NoRow]
    /\ match = [o \in Offers |-> Unmatched]
    /\ rejections = {} /\ observations = {} /\ evidence = {} /\ written = {}
    /\ page = [u \in Urls |-> "unknown"]

-----------------------------------------------------------------------------
(* The process *)

At(r, step) == spider[r].pc = step
Alive == {r \in Runs : ~ At(r, "new") /\ ~ At(r, "closed")}
Goto(r, step) == spider' = [spider EXCEPT ![r].pc = step]
Ready(ok) == [pc |-> "ready", healthy |-> ok]

Open(r) ==
    /\ At(r, "new")
    /\ Cardinality(Alive) < MaxOpen
    /\ Goto(r, "ready")
    /\ overlapped' = (overlapped \/ Alive # {})
    /\ UNCHANGED <<clock, sqlErrors, offer, match, rejections, observations, evidence,
                   page, written>>

(* close_spider after the crawl, or a process that dies between commits. *)
Exit(r) ==
    /\ r \in Alive
    /\ spider' = [spider EXCEPT ![r] = [pc |-> "closed", healthy |-> TRUE]]
    /\ UNCHANGED <<overlapped, clock, sqlErrors, offer, match, rejections,
                   observations, evidence, page, written>>

(* A statement fails: a CHECK refuses a price that rounds to zero cents,   *)
(* the unique index a second active match, the server goes away.  The      *)
(* exception drops the item, and nobody rolls back or reconnects: every    *)
(* later statement is refused, and the spider goes on without saving.      *)
SqlError(r) ==
    /\ sqlErrors < MaxSqlErrors
    /\ spider[r].pc \in Busy
    /\ sqlErrors' = sqlErrors + 1
    /\ spider' = [spider EXCEPT ![r] = Ready(FALSE)]
    /\ UNCHANGED <<overlapped, clock, offer, match, rejections, observations, evidence,
                   page, written>>

(* An item reaches a pipeline that can save it; `now` is read here. *)
Arrives(r) ==
    /\ At(r, "ready") /\ spider[r].healthy
    /\ clock < MaxClock
    /\ clock' = clock + 1

-----------------------------------------------------------------------------
(* Items that are one commit *)

DiscoverPage(r, u) ==
    /\ At(r, "ready") /\ spider[r].healthy
    /\ page[u] = "unknown"  \* ON CONFLICT leaves the status
    /\ page' = [page EXCEPT ![u] = "pending"]
    /\ UNCHANGED <<overlapped, clock, sqlErrors, spider, offer, match, rejections,
                   observations, evidence, written>>

RejectListing(r, stage) ==
    /\ Arrives(r)
    /\ rejections' = rejections \cup
           {[run |-> r, stage |-> stage, offer |-> NoOffer, at |-> clock']}
    /\ UNCHANGED <<overlapped, sqlErrors, spider, offer, match, observations, evidence,
                   page, written>>

-----------------------------------------------------------------------------
(* _handle_listing: the commits of one listing, in their order *)

BeginListing(r, l) ==
    /\ Arrives(r)
    /\ spider' = [spider EXCEPT ![r] = [pc |-> "offer", item |-> l, at |-> clock']]
    /\ UNCHANGED <<overlapped, sqlErrors, offer, match, rejections, observations,
                   evidence, page, written>>

(* The seller is written when the row is inserted, and never again. *)
UpsertOffer(r) ==
    LET l == spider[r].item
    IN  /\ At(r, "offer")
        /\ offer' = [offer EXCEPT ![l.offer].seller = IF @ = NoSeller THEN l.seller ELSE @]
        /\ Goto(r, "match")
        /\ UNCHANGED <<overlapped, clock, sqlErrors, match, rejections, observations,
                       evidence, page, written>>

(* Mutant: an offer that matches no variant vanishes without a rejection. *)
MatchOfferSilently(r) ==
    LET l == spider[r].item
    IN  /\ At(r, "match")
        /\ match' = IF l.variant = NoVariant THEN match
                    ELSE [match EXCEPT ![l.offer] = [variant |-> l.variant, at |-> spider[r].at]]
        /\ Goto(r, "observe")
        /\ UNCHANGED <<overlapped, clock, sqlErrors, offer, rejections, observations,
                       evidence, page, written>>

(* l.variant is what decide_match made of the listing.  With no decision   *)
(* the reason is recorded and the match there is stays as it was.          *)
MatchOffer(r) ==
    LET l == spider[r].item
        t == spider[r].at
    IN  /\ At(r, "match")
        /\ \/ /\ l.variant # NoVariant
              /\ match' = [match EXCEPT ![l.offer] = [variant |-> l.variant, at |-> t]]
              /\ UNCHANGED rejections
           \/ /\ l.variant = NoVariant
              /\ rejections' = rejections \cup
                     {[run |-> r, stage |-> "matching", offer |-> l.offer, at |-> t]}
              /\ UNCHANGED match
        /\ Goto(r, "observe")
        /\ UNCHANGED <<overlapped, clock, sqlErrors, offer, observations, evidence,
                       page, written>>

(* Money.from_decimal raises after the match is committed. *)
PriceRefused(r) ==
    /\ At(r, "observe") /\ spider[r].item.price = BadPrice
    /\ spider' = [spider EXCEPT ![r] = Ready(TRUE)]
    /\ UNCHANGED <<overlapped, clock, sqlErrors, offer, match, rejections,
                   observations, evidence, page, written>>

(* Mutants: a late observation overwrites the row; the change date always moves. *)
SummaryAsCommitted(row, price, t) ==
    [row EXCEPT !.verified = t, !.price = price,
                !.changed = IF row.price = price THEN @ ELSE t]
SummaryAlwaysChanged(row, price, t) ==
    IF row.verified > t THEN row
    ELSE [row EXCEPT !.verified = t, !.price = price, !.changed = t]

(* UPDATE_OFFER_PRICE_SUMMARY: an observation that is late leaves the row. *)
Summary(row, price, t) ==
    IF row.verified > t THEN row
    ELSE [row EXCEPT !.verified = t, !.price = price,
                     !.changed = IF row.price = price THEN @ ELSE t]

Observed(r, o) == \E b \in observations : b.run = r /\ b.offer = o

(* One observation per offer and run; the summary moves with the insert. *)
RecordObservation(r) ==
    LET l == spider[r].item
        t == spider[r].at
    IN  /\ At(r, "observe") /\ l.price # BadPrice
        /\ \/ /\ ~ Observed(r, l.offer)
              /\ observations' = observations \cup
                     {[offer |-> l.offer, run |-> r, at |-> t, price |-> l.price, seller |-> l.seller]}
              /\ offer' = [offer EXCEPT ![l.offer] = Summary(@, l.price, t)]
           \/ /\ Observed(r, l.offer)
              /\ UNCHANGED <<observations, offer>>
        /\ Goto(r, "evidence")
        /\ UNCHANGED <<overlapped, clock, sqlErrors, match, rejections, evidence, page,
                       written>>

(* Rows of a page whose run is one of its n newest. *)
NewerRuns(E, u, r) ==
    {q \in Runs : \E e \in E : /\ e.url = u /\ e.run = q
                               /\ \A d \in E : d.url = u /\ d.run = r => d.at < e.at}
OfNewestRuns(E, n) == {e \in E : Cardinality(NewerRuns(E, e.url, e.run)) < n}

(* Mutants: one run too few is kept; rows are counted instead of runs. *)
PrunedOneTooMany(E, u) == {e \in E : e.url = u => e \in OfNewestRuns(E, Keep - 1)}
PrunedByRow(E, u) ==
    {e \in E : e.url = u => Cardinality({d \in E : d.url = u /\ d.at > e.at}) < Keep}

(* PRUNE_EVIDENCE of page u. *)
Pruned(E, u) == {e \in E : e.url = u => e \in OfNewestRuns(E, Keep)}

(* The insert and the pruning of its page are one transaction. *)
RecordEvidence(r) ==
    LET l == spider[r].item
        row == [run |-> r, url |-> l.url, offer |-> l.offer, at |-> spider[r].at]
    IN  /\ At(r, "evidence")
        /\ evidence' = Pruned(evidence \cup {row}, l.url)
        /\ written' = written \cup {row}
        /\ Goto(r, "page")
        /\ UNCHANGED <<overlapped, clock, sqlErrors, offer, match, rejections,
                       observations, page>>

UpsertPage(r) ==
    /\ At(r, "page")
    /\ page' = [page EXCEPT ![spider[r].item.url] = IF @ = "unknown" THEN "pending" ELSE @]
    /\ Goto(r, "mark")
    /\ UNCHANGED <<overlapped, clock, sqlErrors, offer, match, rejections,
                   observations, evidence, written>>

MarkCollected(r) ==
    /\ At(r, "mark")
    /\ page' = [page EXCEPT ![spider[r].item.url] = "collected"]
    /\ spider' = [spider EXCEPT ![r] = Ready(TRUE)]
    /\ UNCHANGED <<overlapped, clock, sqlErrors, offer, match, rejections,
                   observations, evidence, written>>

Next ==
    \E r \in Runs :
        \/ Open(r) \/ Exit(r) \/ SqlError(r)
        \/ \E u \in Urls : DiscoverPage(r, u)
        \/ \E stage \in {"access", "extraction"} : RejectListing(r, stage)
        \/ \E l \in Listing : BeginListing(r, l)
        \/ UpsertOffer(r) \/ MatchOffer(r) \/ PriceRefused(r) \/ RecordObservation(r)
        \/ RecordEvidence(r) \/ UpsertPage(r) \/ MarkCollected(r)

Spec == Init /\ [][Next]_vars

-----------------------------------------------------------------------------
(* Properties *)

ObservationsOf(o) == {b \in observations : b.offer = o}

(* Every row and every process has its type. *)
TypeOK ==
    /\ clock \in 0..MaxClock /\ sqlErrors \in 0..MaxSqlErrors
    /\ spider \in [Runs -> Process] /\ overlapped \in BOOLEAN
    /\ offer \in [Offers -> OfferRow]
    /\ match \in [Offers -> MatchRow]
    /\ rejections \subseteq Rejection
    /\ observations \subseteq Observation
    /\ evidence \subseteq written /\ written \subseteq Evidence
    /\ page \in [Urls -> {"unknown", "pending", "collected"}]

(* However late an observation is committed, the price and the date the    *)
(* offer row shows (UPDATE_OFFER_PRICE_SUMMARY) are those of the newest    *)
(* observation of the offer, the one the comparison query picks.           *)
SummaryIsNewestObservation ==
    \A o \in Offers :
        /\ ObservationsOf(o) = {} => offer[o].verified = Never
        /\ ObservationsOf(o) # {} =>
               \E b \in ObservationsOf(o) :
                   /\ b.at = offer[o].verified /\ b.price = offer[o].price
                   /\ \A c \in ObservationsOf(o) : c.at <= b.at

(* While spiders run one at a time, last_changed_at is the instant of the  *)
(* last price move: from it on every observation has the current price,    *)
(* and the one before it had another.                                      *)
LastChangeIsLastPriceMove ==
    \A o \in Offers : ~ overlapped /\ ObservationsOf(o) # {} =>
        LET row == offer[o]
            before == {b \in ObservationsOf(o) : b.at < row.changed}
        IN  /\ \E b \in ObservationsOf(o) : b.at = row.changed
            /\ \A b \in ObservationsOf(o) \ before : b.price = row.price
            /\ \A b \in before : \E c \in before : b.at <= c.at /\ c.price # row.price

(* No observed offer disappears silently: it is in a comparison through an *)
(* active match, or the run that observed it recorded why it is not        *)
(* (the comment of _match_offer), wherever the process was interrupted.    *)
ObservedOfferIsAccountedFor ==
    \A b \in observations :
        \/ match[b.offer].variant # NoVariant
        \/ \E j \in rejections : j.run = b.run /\ j.offer = b.offer /\ j.stage = "matching"

(* Retention keeps complete collections (config.py): while spiders run one *)
(* at a time, a page's evidence is all that its Keep newest runs wrote,    *)
(* with no row of them missing.                                            *)
RetainedEvidenceIsComplete ==
    ~ overlapped => evidence = OfNewestRuns(written, Keep)

(* A page that no longer counts as pending has evidence to show for it,    *)
(* whatever pruning and interruptions came after.                          *)
CollectedPageHasEvidence ==
    \A u \in Urls : page[u] = "collected" => \E e \in evidence : e.url = u

(* The comment of _match_offer: what an unmatched offer loses is its place *)
(* in a comparison.  Violated: the match of an earlier run stays active.   *)
UnmatchedOfferIsNotCompared ==
    \A j \in rejections : j.stage = "matching" => 
        match[j.offer].variant = NoVariant \/ match[j.offer].at > j.at
=============================================================================
