----------------------------- MODULE Extraction -----------------------------
(***************************************************************************)
(* One product page on its way through its adapter: the extractor of       *)
(* real_sources.py (extraction.py for the lab stores) reads it entry by    *)
(* entry, keeps, skips or drops each or gives the page up, and the handler *)
(* of the spider (spiders/retail.py) emits what came out of it, or asks    *)
(* for the same page in a browser.                                         *)
(*                                                                         *)
(* The first failing check of an extractor decides, so an extractor is the *)
(* list of its checks with their outcomes:                                 *)
(*    skip   the entry goes into the SkipLog and the next one is read      *)
(*    drop   the next entry is read (a bare continue)                      *)
(*    raise  ExtractionError, of which the handler knows                   *)
(*    crash  another exception, which ends the callback                    *)
(***************************************************************************)
EXTENDS ProductText

CONSTANTS
    Adapters,     \* those of AllAdapters that are observed
    Pages,        \* adapter -> the documents it may be given
    MaxOffers,    \* MAX_AGGREGATE_OFFERS
    MaxVariants,  \* MAX_PRODUCT_VARIANTS
    MaxSkips      \* MAX_RECORDED_SKIPS

Comparators == {"zoom", "bondfaro", "buscape", "two_a_finder"}
Variants == {"iplace", "samsung_shop"}      \* a page with every variant of a device
Shops == {"amazon", "carrefour", "americanas", "fast_shop", "kabum"}
AllAdapters == Comparators \cup Variants \cup Shops \cup {"lab"}

(* Whose handler turns a failure into a browser request. *)
WithBrowser == {"iplace", "amazon", "carrefour", "americanas"}

(* Prices that are not positive numbers. *)
Absent == -1
NotANumber == -2

ASSUME ExtractionAssumption ==
    /\ Adapters \subseteq AllAdapters
    /\ MaxOffers \in Nat /\ MaxVariants \in Nat /\ MaxSkips \in Nat \ {0}
    /\ \A a \in Adapters : \A p \in Pages[a] : DOMAIN p.entries = 1 .. Len(p.entries) /\ Len(p.entries) \in Nat

VARIABLES
    adapter,  \* the spider
    page,     \* the document it reads
    attempt,  \* "plain", or "browser" after the fallback
    stage,    \* where the callback is
    read,     \* entries read so far
    kept,     \* the entries that became listings, in order
    skips,    \* SkipLog.entries
    items     \* what the spider has yielded

vars == <<adapter, page, attempt, stage, read, kept, skips, items>>

-----------------------------------------------------------------------------
(* What an entry is filed as *)

TitleOf(a, p, e) ==
    CASE a \in {"zoom", "bondfaro"} -> IF e.title = <<>> THEN p.name ELSE e.title
      [] a \in {"two_a_finder", "americanas"} -> p.name
      [] a = "samsung_shop" -> e.title \o e.color
      [] OTHER -> e.title

(* The text in which storage and colour are looked for. *)
DetailsOf(a, p, e) ==
    IF a \in {"fast_shop", "kabum"} THEN e.title \o e.description ELSE TitleOf(a, p, e)

(* A comparator's page is about one device, whatever an offer's title says. *)
DeviceText(a, p, e) == IF a \in {"zoom", "bondfaro"} THEN p.name ELSE TitleOf(a, p, e)
DevicesOf(a, p, e) == CatalogIdentity(DeviceText(a, p, e))

StoragesOf(a, p, e) ==
    IF a = "fast_shop" THEN GigabytesFromText(DetailsOf(a, p, e)) ELSE StorageFromText(DetailsOf(a, p, e))

ColorText(a, p, e) == IF a = "fast_shop" /\ e.color # <<>> THEN e.color ELSE DetailsOf(a, p, e)

(* Empty where the extractor finds no canonical variant. *)
Filed(a, p, e) == Attributes(DevicesOf(a, p, e), StoragesOf(a, p, e), ColorText(a, p, e))

(* _payment_terms: one condition anywhere in the offer outweighs the rest. *)
PaymentTerms(terms) ==
    IF "conditional" \in terms THEN "conditional" ELSE IF "pix" \in terms THEN "cash" ELSE "advertised"

PriceBasis(a, e) ==
    CASE a \in {"zoom", "bondfaro", "buscape", "carrefour"} -> "cash"
      [] a \in {"two_a_finder", "americanas"} -> "advertised"
      [] a = "amazon" -> IF "pix" \in e.terms THEN "cash" ELSE "advertised"
      [] OTHER -> PaymentTerms(e.terms)

(* A substring is looked for, so "indisponivel" has "disponivel" in it:    *)
(* availability is the visible line cut where a marker could begin.        *)
VisibleInStock(e) == \E marker \in {"em estoque", "disponivel", "in stock"} : Occurs(<<marker>>, e.availability)
AmazonInStock(e) == VisibleInStock(e) \/ (e.offer /\ e.stock = "in") \/ e.cart

-----------------------------------------------------------------------------
(* The checks of the extractors, in the order of the code *)

Outcome(checks) ==
    LET failed == {i \in DOMAIN checks : checks[i][1]}
    IN  IF failed = {} THEN "keep" ELSE checks[CHOOSE i \in failed : \A j \in failed : i <= j][2]

(* _price and _brl_amount raise for all of these. *)
BadPrice(e) == e.price \in {Absent, NotANumber} \/ e.price <= 0

Unresolved(a, p, e) == Filed(a, p, e) = {}

(* A bug: as before the SkipLog. *)
ExtractZoomSilently(p, e) == <<
    <<~e.object \/ ~e.id \/ ~e.seller \/ Unresolved("zoom", p, e), "drop">>,
    <<BadPrice(e), "raise">> >>

ExtractZoom(p, e) == <<
    <<~e.object, "drop">>,
    <<~e.id \/ ~e.seller, "skip">>,
    <<Unresolved("zoom", p, e), "skip">>,
    <<BadPrice(e), "raise">> >>

(* Decimal("NaN") <= 0 raises InvalidOperation outside of the try. *)
ExtractBuscape(p, e) == <<
    <<~e.object, "drop">>,
    <<e.title = <<>> \/ ~e.seller \/ ~e.offer \/ ~e.id, "skip">>,
    <<Unresolved("buscape", p, e) \/ e.price = Absent, "skip">>,
    <<e.price = NotANumber, "crash">>,
    <<e.price <= 0, "skip">> >>

(* A row the expression does not match is not an entry for the code. *)
ExtractTwoAFinder(p, e) == <<
    <<~e.object \/ ~e.id \/ ~e.seller, "drop">>,
    <<BadPrice(e) \/ e.freight = "zero", "raise">> >>

ExtractIPlace(p, e) == <<
    <<Unresolved("iplace", p, e), "skip">>,
    <<~e.offer \/ ~e.id \/ BadPrice(e), "raise">> >>

(* The summary block of the page has no colour of its own. *)
ExtractSamsung(p, e) == <<
    <<Unresolved("samsung_shop", p, e), "skip">>,
    <<~e.offer, "raise">>,
    <<~e.id \/ e.color = <<>>, "drop">>,
    <<BadPrice(e), "raise">> >>

ExtractAmazon(p, e) == <<
    <<e.title = <<>> \/ e.price = Absent \/ ~e.seller \/ ~e.id, "raise">>,
    <<~AmazonInStock(e), "raise">>,
    <<Unresolved("amazon", p, e) \/ BadPrice(e), "raise">> >>

ExtractCarrefour(p, e) == <<
    <<~e.offer \/ ~e.id \/ "pix" \notin e.terms \/ ~e.seller, "raise">>,
    <<e.stock = "unknown" \/ e.condition = "unknown", "raise">>,
    <<Unresolved("carrefour", p, e) \/ BadPrice(e), "raise">> >>

(* The first offer that can be bought; the page is filed by its own name. *)
ExtractAmericanas(p, e) == <<
    <<~e.object \/ BadPrice(e) \/ e.stock # "in" \/ ~e.seller, "drop">>,
    <<Unresolved("americanas", p, e), "raise">> >>

ExtractFastShop(p, e) == <<
    <<~e.offer \/ Unresolved("fast_shop", p, e) \/ ~e.id \/ BadPrice(e), "raise">> >>

ExtractKabum(p, e) == <<
    <<~e.offer \/ ~e.id \/ ~e.seller \/ Unresolved("kabum", p, e) \/ BadPrice(e), "raise">> >>

(* extraction.py: the attributes come as properties, not as text. *)
ExtractLab(p, e) == <<
    <<~e.offer \/ e.title = <<>> \/ ~e.seller \/ BadPrice(e), "raise">> >>

Checks(a, p, e) ==
    CASE a \in {"zoom", "bondfaro"} -> ExtractZoom(p, e)
      [] a = "buscape" -> ExtractBuscape(p, e)
      [] a = "two_a_finder" -> ExtractTwoAFinder(p, e)
      [] a = "iplace" -> ExtractIPlace(p, e)
      [] a = "samsung_shop" -> ExtractSamsung(p, e)
      [] a = "amazon" -> ExtractAmazon(p, e)
      [] a = "carrefour" -> ExtractCarrefour(p, e)
      [] a = "americanas" -> ExtractAmericanas(p, e)
      [] a = "fast_shop" -> ExtractFastShop(p, e)
      [] a = "kabum" -> ExtractKabum(p, e)
      [] a = "lab" -> ExtractLab(p, e)

Verdict(i) == Outcome(Checks(adapter, page, page.entries[i]))

(* What must be on the page before an entry is read; a page without a     *)
(* product has no entries.                                                 *)
Malformed(a, p) ==
    \/ a \in Comparators \cup {"americanas"} /\ ~p.listed
    \/ a \in {"zoom", "bondfaro"} /\ CatalogIdentity(p.name) = {}
    \/ a = "americanas" /\ ~p.id
    \/ a = "two_a_finder" /\ CanonicalAttributes(p.name) = {}

(* offers[:60] and hits[:60] are cut before, the listings of others during *)
(* the loop; a shop has one offer.                                         *)
More ==
    /\ read < Len(page.entries)
    /\ CASE adapter \in {"zoom", "bondfaro", "buscape"} -> read < MaxOffers
         [] adapter = "two_a_finder" -> Len(kept) < MaxOffers
         [] adapter \in Variants -> Len(kept) < MaxVariants
         [] adapter = "americanas" -> kept = <<>> /\ read < MaxOffers
         [] OTHER -> read < 1

-----------------------------------------------------------------------------
(* The callback *)

Init ==
    /\ adapter \in Adapters /\ page \in Pages[adapter]
    /\ attempt = "plain" /\ stage = "open"
    /\ read = 0 /\ kept = <<>> /\ skips = <<>> /\ items = <<>>

Entry(kind, i) == [kind |-> kind, at |-> i, of |-> attempt]
Failure == [kind |-> "failure", at |-> 0, of |-> attempt]

Open ==
    /\ stage = "open" /\ ~Malformed(adapter, page)
    /\ stage' = "reading"
    /\ UNCHANGED <<adapter, page, attempt, read, kept, skips, items>>

Next1 == read + 1

At(verdict) == stage = "reading" /\ More /\ Verdict(Next1) = verdict

Keep ==
    /\ At("keep")
    /\ read' = Next1
    /\ kept' = Append(kept, Next1)
    /\ UNCHANGED <<adapter, page, attempt, stage, skips, items>>

(* SkipLog.record *)
Skip ==
    /\ At("skip")
    /\ read' = Next1
    /\ skips' = IF Len(skips) >= MaxSkips THEN skips ELSE Append(skips, Next1)
    /\ UNCHANGED <<adapter, page, attempt, stage, kept, items>>

Drop ==
    /\ At("drop")
    /\ read' = Next1
    /\ UNCHANGED <<adapter, page, attempt, stage, kept, skips, items>>

(* Scrapy logs it and counts a spider exception. *)
Crash ==
    /\ At("crash")
    /\ stage' = "broken"
    /\ UNCHANGED <<adapter, page, attempt, read, kept, skips, items>>

(* An empty offer page of Buscape is an answer while paging. *)
EndOfPage ==
    /\ stage = "reading" /\ ~More
    /\ kept # <<>> \/ adapter = "buscape"
    /\ stage' = "emitting"
    /\ UNCHANGED <<adapter, page, attempt, read, kept, skips, items>>

ExtractionError ==
    \/ stage = "open" /\ Malformed(adapter, page)
    \/ At("raise")
    \/ stage = "reading" /\ ~More /\ kept = <<>> /\ adapter # "buscape"

(* The document the browser renders is not the one the server sent. *)
AskBrowser ==
    /\ ExtractionError
    /\ adapter \in WithBrowser /\ attempt = "plain"
    /\ attempt' = "browser" /\ stage' = "open"
    /\ page' \in Pages[adapter]
    /\ read' = 0 /\ kept' = <<>> /\ skips' = <<>>
    /\ UNCHANGED <<adapter, items>>

(* One rejection for the page; the lab spider only logs. *)
GiveUp ==
    /\ ExtractionError
    /\ adapter \notin WithBrowser \/ attempt = "browser"
    /\ items' = IF adapter = "lab" THEN items ELSE Append(items, Failure)
    /\ stage' = "done"
    /\ UNCHANGED <<adapter, page, attempt, read, kept, skips>>

Emitted == Len(items)

(* listing_item: comparators give the page itself as the link, so only the *)
(* others can fail the check of its host, which raises.                    *)
OwnLink(i) == adapter \notin {"iplace", "samsung_shop", "fast_shop", "kabum"} \/ page.entries[i].own

Emit ==
    /\ stage = "emitting" /\ Emitted < Len(kept)
    /\ OwnLink(kept[Emitted + 1])
    /\ items' = Append(items, Entry("listing", kept[Emitted + 1]))
    /\ UNCHANGED <<adapter, page, attempt, stage, read, kept, skips>>

ForeignLink ==
    /\ stage = "emitting" /\ Emitted < Len(kept)
    /\ ~OwnLink(kept[Emitted + 1])
    /\ stage' = "broken"
    /\ UNCHANGED <<adapter, page, attempt, read, kept, skips, items>>

(* A bug: only a page without listings reports its skips. *)
EmitSkipsOfFailures ==
    /\ stage = "emitting" /\ Emitted = Len(kept)
    /\ items' = IF kept # <<>> THEN items ELSE items \o [i \in DOMAIN skips |-> Entry("rejection", skips[i])]
    /\ stage' = "done"
    /\ UNCHANGED <<adapter, page, attempt, read, kept, skips>>

(* skipped_items, after the listings. *)
EmitSkips ==
    /\ stage = "emitting" /\ Emitted = Len(kept)
    /\ items' = items \o [i \in DOMAIN skips |-> Entry("rejection", skips[i])]
    /\ stage' = "done"
    /\ UNCHANGED <<adapter, page, attempt, read, kept, skips>>

Next ==
    \/ Open \/ Keep \/ Skip \/ Drop \/ Crash \/ EndOfPage
    \/ AskBrowser \/ GiveUp
    \/ Emit \/ ForeignLink \/ EmitSkips

Spec == Init /\ [][Next]_vars

-----------------------------------------------------------------------------
(* Properties *)

Stages == {"open", "reading", "emitting", "done", "broken"}
Indices == 1 .. Len(page.entries)
Seen(sequence) == {sequence[i] : i \in DOMAIN sequence}
ItemOf == [kind : {"listing", "rejection", "failure"}, at : Nat, of : {"plain", "browser"}]

(* The reading stays on the page, and the log of skips within its limit. *)
TypeOK ==
    /\ adapter \in Adapters /\ page \in Pages[adapter]
    /\ attempt \in {"plain", "browser"} /\ stage \in Stages
    /\ read \in 0 .. Len(page.entries)
    /\ kept \in Seq(1 .. read)
    /\ skips \in Seq(1 .. read) /\ Len(skips) <= MaxSkips
    /\ items \in Seq(ItemOf)

(* An entry of a page that keeps a log which is an offer of its own: not   *)
(* a value of another type, nor the summary block of Samsung.              *)
IsOffer(i) ==
    LET e == page.entries[i]
    IN  CASE adapter \in {"zoom", "bondfaro", "buscape"} -> e.object
          [] adapter = "iplace" -> TRUE
          [] adapter = "samsung_shop" -> e.id /\ e.color # <<>>
          [] OTHER -> FALSE

(* No offer is passed over without a trace: as long as the log has room,   *)
(* an offer that was read is a listing or in the log, never both (the      *)
(* continue statements of the loops come after a record).                  *)
EveryDropIsLogged ==
    /\ \A i \in 1 .. read :
        IsOffer(i) => i \in Seen(kept) \cup Seen(skips) \/ Len(skips) = MaxSkips
    /\ Seen(kept) \cap Seen(skips) = {}

(* "The source has nothing" differs from "we dropped it": a page that was  *)
(* read to its end yields its listings and its log, whole, once, in this   *)
(* order and as the last document had them, and any other yields its       *)
(* failure, unless there was no offer to read on it (Buscape) or only the  *)
(* lab's spider read it (the generator of the handler, after which the log *)
(* is gone).                                                               *)
AnswerIsWhole ==
    stage = "done" =>
        \/ items = <<Failure>>
        \/ /\ Len(items) = Len(kept) + Len(skips)
           /\ \A i \in DOMAIN items :
                items[i] = IF i <= Len(kept) THEN Entry("listing", kept[i])
                                             ELSE Entry("rejection", skips[i - Len(kept)])
           /\ items = <<>> => adapter = "lab" \/ (adapter = "buscape" /\ \A i \in 1 .. read : ~IsOffer(i))

(* What the texts say of an entry, as far as they name a device, is what   *)
(* it sells; names of other devices, storages or colours are only parts of *)
(* the names of its own.                                                   *)
TellsWhatItSells(a, p, e) ==
    LET sold == e.sells
        details == DetailsOf(a, p, e)
    IN  /\ sold \in [device : Devices, storage : Storages, color : Colors]
        /\ SpeaksOf(DeviceText(a, p, e), IdentityAliases, "device", sold.device)
        /\ SpeaksOf(ColorText(a, p, e), ColorMarkers(sold.device), "color", sold.color)
        /\ \A i \in DOMAIN details :
            details[i] \in DOMAIN CapacityOf => CapacityOf[details[i]] = sold.storage

(* Model, storage and colour of a listing are those of what is sold, where *)
(* its texts tell: no shorter name or colour hides the longer one it is    *)
(* part of, however the adapter puts its text together; and a price under  *)
(* a condition is not filed as one in cash where the same offer speaks of  *)
(* Pix, too.                                                               *)
FiledAsSold ==
    \A i \in Seen(kept) :
        LET e == page.entries[i]
        IN  /\ adapter # "lab" /\ TellsWhatItSells(adapter, page, e) => Filed(adapter, page, e) = {e.sells}
            /\ adapter \in Variants \cup {"fast_shop", "kabum"} /\ "conditional" \in e.terms
                => PriceBasis(adapter, e) = "conditional"
=============================================================================
