---------------------------- MODULE SearchCrawl ----------------------------
(***************************************************************************)
(* One crawl of a retail spider (collection/spiders/retail.py): the search *)
(* of every capacity, the product pages the searches list, the rendered    *)
(* second look at a page whose HTTP answer had no evidence, the offer      *)
(* documents of Buscape, and the page budget and time limit that end the   *)
(* crawl (collection/settings.py, retry_policy.py).                        *)
(*                                                                         *)
(* Scrapy is external: its scheduler with the duplicate filter, its retry, *)
(* redirect and HTTP-error middlewares and CloseSpider are modelled from   *)
(* how the spiders use them.  A page is abstracted to its URL, and an      *)
(* answer to what the callback does with it.                               *)
(***************************************************************************)
EXTENDS Integers, FiniteSets, Sequences

CONSTANTS
    Adapters,       \* the spiders of this instance
    Capacities,     \* storages: one search each
    Pages,          \* product pages of the site
    MaxResults,     \* MAX_SEARCH_RESULTS_PER_CAPACITY
    MaxOfferPages,  \* BUSCAPE_MAX_OFFER_PAGES
    RetryTimes,     \* RETRY_TIMES
    MaxDelay,       \* MAX_DELAY_SECONDS
    AskedDelays,    \* what a Retry-After header may ask for
    Concurrency,    \* CONCURRENT_REQUESTS_PER_DOMAIN
    Budget,         \* CLOSESPIDER_PAGECOUNT of each adapter
    NoCapacity,     \* where a product page does not come from a search
    NoPage

(* Which adapter does what.  Every other name of the registry behaves like *)
(* one of these: bondfaro like zoom, americanas like amazon, samsung_shop  *)
(* and two_a_finder like fast_shop.                                        *)
Direct == {"iplace", "fast_shop"}            \* a product page, no search
RenderedSearch == {"amazon", "kabum"}
RenderedProduct == {"amazon", "carrefour", "iplace"}
PagedOffers == {"buscape"}
WholeList == {"amazon", "kabum"}             \* list(product_requests_from_search(...))

Slots == 1..MaxResults
Origins == Capacities \cup {NoCapacity}  \* of a product page: a search, or start()
OfferPages == 1..MaxOfferPages

ASSUME SearchCrawlAssumption ==
    /\ IsFiniteSet(Capacities)
    /\ MaxResults \in Nat \ {0} /\ MaxOfferPages \in Nat \ {0}
    /\ RetryTimes \in Nat /\ MaxDelay \in Nat \ {0} /\ AskedDelays \subseteq Nat
    /\ Concurrency \in Nat \ {0}
    /\ Budget \in [Adapters -> Nat \ {0}]
    /\ NoCapacity \notin Capacities /\ NoPage \notin Pages

(* The documents of a crawl, by the step of the plan that asks for them. *)
Search(c) == [kind |-> "search", cap |-> c, slot |-> 0, nth |-> 0]
RenderedSearchOf(c) == [kind |-> "rendered_search", cap |-> c, slot |-> 0, nth |-> 0]
Product(c, i) == [kind |-> "product", cap |-> c, slot |-> i, nth |-> 0]
RenderedProductOf(c, i) == [kind |-> "rendered_product", cap |-> c, slot |-> i, nth |-> 0]
Offers(c, i, n) == [kind |-> "offers", cap |-> c, slot |-> i, nth |-> n]

Documents ==
    {Search(c) : c \in Capacities} \cup {RenderedSearchOf(c) : c \in Capacities}
    \cup {Product(c, i) : c \in Origins, i \in Slots}
    \cup {RenderedProductOf(c, i) : c \in Origins, i \in Slots}
    \cup {Offers(c, i, n) : c \in Origins, i \in Slots, n \in OfferPages}

(* What became of a document.                                              *)
(*   followed  its links, or its offer document, were asked for            *)
(*   recorded  listings or rejections of it were yielded                   *)
(*   lacking   an allowed answer without evidence; the browser was asked   *)
(*   silent    an allowed answer of which nothing was yielded              *)
(*   failed    no callback, or one that raised: refused by the site, by    *)
(*             robots.txt, by the outbound policy or by the network, or    *)
(*             redirected to a page that was asked for before              *)
Fates == {"pending", "followed", "recorded", "lacking", "silent", "failed"}

VARIABLES
    adapter,   \* the spider, chosen once
    crawl,     \* "starting", "running", "closing", "finished" or "cut"
    queue,     \* requests in the scheduler
    active,    \* requests in the downloader
    seen,      \* URLs in the duplicate filter
    robots,    \* hosts whose robots.txt was asked for
    pages,     \* responses counted against the budget
    fate,      \* of each document
    owed       \* documents whose server asked for a wait that was not kept yet

vars == <<adapter, crawl, queue, active, seen, robots, pages, fate, owed>>

(* page is the product page asked for, or the one a search was redirected to. *)
Requests ==
    {r \in [doc : Documents, page : Pages \cup {NoPage}, tries : 0..RetryTimes, wait : 0..MaxDelay] :
        r.doc.kind \notin {"search", "rendered_search"} => r.page \in Pages}
Ask(d, p) == [doc |-> d, page |-> p, tries |-> 0, wait |-> 0]

Rendered(d) == d.kind \in {"rendered_search", "rendered_product"}
HttpDocument(d) ==
    IF d.kind = "rendered_search" THEN Search(d.cap) ELSE Product(d.cap, d.slot)

ProductUrl(p) == <<p, 0>>
OffersUrl(p, n) == <<p, n>>
Urls == Pages \X (0..MaxOfferPages)  \* a product id belongs to one page
Host(d) == IF d.kind = "offers" THEN "api" ELSE "site"

TypeOK ==
    /\ adapter \in Adapters
    /\ crawl \in {"starting", "running", "closing", "finished", "cut"}
    /\ queue \subseteq Requests /\ active \subseteq Requests
    /\ seen \subseteq Urls
    /\ robots \subseteq {"site", "api"}
    /\ pages \in Nat
    /\ fate \in [Documents -> Fates]
    /\ owed \subseteq Documents

Init ==
    /\ adapter \in Adapters
    /\ crawl = "starting"
    /\ queue = {} /\ active = {} /\ seen = {} /\ robots = {} /\ owed = {}
    /\ pages = 0
    /\ fate = [d \in Documents |-> "pending"]

(* The requests of start(); it raises without a canonical product, or for  *)
(* a model the adapter has no page of, and the crawl has nothing to do.    *)
Start ==
    /\ crawl = "starting"
    /\ crawl' = "running"
    /\ \/ /\ adapter \notin Direct
          /\ queue' = {Ask(Search(c), NoPage) : c \in Capacities}
          /\ UNCHANGED seen
       \/ /\ adapter \in Direct
          /\ \E p \in Pages : /\ queue' = {Ask(Product(NoCapacity, 1), p)}
                              /\ seen' = {ProductUrl(p)}
       \/ UNCHANGED <<queue, seen>>
    /\ UNCHANGED <<adapter, active, robots, pages, fate, owed>>

(* CloseSpider counts responses and closes on the one that makes the budget. *)
Count(n) ==
    /\ pages' = pages + n
    /\ crawl' = IF crawl = "running" /\ pages < Budget[adapter] /\ pages + n >= Budget[adapter]
                THEN "closing" ELSE crawl

(* A request leaves the scheduler; the first one of a host has robots.txt  *)
(* fetched, which counts when it is answered.                              *)
Send(r) ==
    /\ crawl = "running" /\ r \in queue
    /\ Cardinality(active) < Concurrency
    /\ queue' = queue \ {r}
    /\ active' = active \cup {r}
    /\ \E n \in IF Host(r.doc) \in robots THEN {0} ELSE {0, 1} : Count(n)
    /\ robots' = robots \cup {Host(r.doc)}
    /\ UNCHANGED <<adapter, seen, fate, owed>>

(* process_request of the Retry-After middleware sleeps, then lets it through. *)
Wake(r) ==
    /\ r \in active /\ r.wait > 0
    /\ active' = (active \ {r}) \cup {[r EXCEPT !.wait = 0]}
    /\ owed' = owed \ {r.doc}
    /\ UNCHANGED <<adapter, crawl, queue, seen, robots, pages, fate>>

InHand(r) == r \in active /\ r.wait = 0

(* An answer reaches its callback, which asks for new documents: the ones  *)
(* in fresh pass the duplicate filter, the ones in again have dont_filter. *)
Url(r) == IF r.doc.kind = "offers" THEN OffersUrl(r.page, r.doc.nth) ELSE ProductUrl(r.page)

Handled(r, f, fresh, again) ==
    LET new == {q \in fresh : Url(q) \notin seen}
    IN  /\ active' = active \ {r}
        /\ queue' = queue \cup new \cup again
        /\ seen' = seen \cup {Url(q) : q \in new}
        /\ fate' = [fate EXCEPT ![r.doc] = f]
        /\ Count(1)
        /\ UNCHANGED <<adapter, robots, owed>>

(* mutant: the second look at a product page passes the duplicate filter. *)
AskBrowserFiltered(r, q) ==
    IF q.page = NoPage THEN Handled(r, "lacking", {}, {q})
    ELSE Handled(r, "lacking", {q}, {})

(* browser_request_meta resolves the reviewed hosts again, and may raise. *)
AskBrowser(r, q) ==
    \/ Handled(r, "lacking", {}, {q})
    \/ Handled(r, "failed", {}, {})

(* The product requests of a search page, in the order it lists them. *)
ProductRequests(c, links) == {Ask(Product(c, i), links[i]) : i \in DOMAIN links}
Listings ==
    UNION {{l \in [1..n -> Pages] : \A i, j \in 1..n : l[i] = l[j] => i = j} : n \in 0..MaxResults}

SearchWithLinks(r, links) ==
    /\ links # <<>>
    /\ Handled(r, "followed", ProductRequests(r.doc.cap, links), {})

(* A link with another scheme or port raises: a spider that lists its      *)
(* requests first asks for none of them, the others for those before it.   *)
SearchWithUnsafeLink(r, links) ==
    /\ adapter \in WholeList => links = <<>>
    /\ Handled(r, "failed", ProductRequests(r.doc.cap, links), {})

(* mutant: a rendered search without links is rendered again. *)
SearchWithoutLinksAgain(r) ==
    IF adapter \notin RenderedSearch THEN Handled(r, "silent", {}, {})
    ELSE AskBrowser(r, Ask(RenderedSearchOf(r.doc.cap), NoPage))

SearchWithoutLinks(r) ==
    IF adapter \notin RenderedSearch THEN Handled(r, "silent", {}, {})
    ELSE IF Rendered(r.doc) THEN Handled(r, "recorded", {}, {})
    ELSE AskBrowser(r, Ask(RenderedSearchOf(r.doc.cap), NoPage))

(* The HTTP body of a search is not text. *)
SearchUnreadable(r) ==
    /\ ~Rendered(r.doc)
    /\ Handled(r, IF adapter \in {"amazon", "carrefour"} THEN "silent" ELSE "failed", {}, {})

(* The search ended on a product page: it is asked for again, as a product. *)
SearchLanded(r, p) == Handled(r, "followed", {}, {Ask(Product(r.doc.cap, 1), p)})

ParseSearch(r) ==
    /\ InHand(r) /\ r.doc.kind \in {"search", "rendered_search"}
    /\ IF r.page # NoPage THEN SearchLanded(r, r.page)
       ELSE \/ \E links \in Listings : SearchWithLinks(r, links) \/ SearchWithUnsafeLink(r, links)
            \/ SearchWithoutLinks(r)
            \/ SearchUnreadable(r)
            \/ /\ Rendered(r.doc)
               /\ \E p \in Pages : SearchLanded(r, p)

(* The Product JSON-LD names the URL of an offer, which may be refused; a  *)
(* body that is not text raises where nothing catches it.                  *)
CallbackRaises(r) ==
    /\ adapter \notin {"amazon", "carrefour"}
    /\ Handled(r, "failed", {}, {})

(* mutant: every page of offers is asked for at once. *)
ParseProductAllOffers(r) ==
    /\ InHand(r) /\ r.doc.kind = "product"
    /\ Handled(r, "followed", {Ask(Offers(r.doc.cap, r.doc.slot, n), r.page) : n \in OfferPages}, {})

ParseProduct(r) ==
    /\ InHand(r) /\ r.doc.kind = "product"
    /\ \/ /\ adapter \notin PagedOffers
          /\ Handled(r, "recorded", {}, {})
       \/ /\ adapter \in PagedOffers
          /\ Handled(r, "followed", {Ask(Offers(r.doc.cap, r.doc.slot, 1), r.page)}, {})
       \/ /\ adapter \in RenderedProduct
          /\ AskBrowser(r, Ask(RenderedProductOf(r.doc.cap, r.doc.slot), r.page))
       \/ /\ adapter \notin RenderedProduct
          /\ Handled(r, "recorded", {}, {})
       \/ CallbackRaises(r)

ParseBrowserProduct(r) ==
    /\ InHand(r) /\ r.doc.kind = "rendered_product"
    /\ Handled(r, "recorded", {}, {}) \/ CallbackRaises(r)

(* A page of offers: the next one is asked for when it is full, whatever   *)
(* was kept of it; a document that does not parse ends the pages.          *)
ParseOffers(r) ==
    /\ InHand(r) /\ r.doc.kind = "offers"
    /\ \/ \E f \in {"recorded", "silent"}, full \in BOOLEAN :
            Handled(r, f,
                    IF full /\ r.doc.nth < MaxOfferPages
                    THEN {Ask([r.doc EXCEPT !.nth = @ + 1], r.page)} ELSE {},
                    {})
       \/ Handled(r, "recorded", {}, {})
       \/ CallbackRaises(r)

(* mutant: a refused page is looked at with the browser. *)
RefusedToBrowser(r) ==
    /\ InHand(r)
    /\ IF r.doc.kind = "product" /\ adapter \in RenderedProduct
       THEN Handled(r, "failed", {}, {Ask(RenderedProductOf(r.doc.cap, r.doc.slot), r.page)})
       ELSE Handled(r, "failed", {}, {})

(* A status that is not retried, or no longer: HttpErrorMiddleware keeps   *)
(* the response from the callback, whose own status checks never see it.   *)
Refused(r) == InHand(r) /\ Handled(r, "failed", {}, {})

(* mutant: the request is copied for the retry before it is annotated. *)
RetryAtOnce(r, asked) ==
    /\ InHand(r) /\ r.tries < RetryTimes
    /\ active' = active \ {r}
    /\ queue' = queue \cup {[r EXCEPT !.tries = @ + 1]}
    /\ owed' = IF asked > 0 THEN owed \cup {r.doc} ELSE owed
    /\ UNCHANGED <<adapter, crawl, seen, robots, pages, fate>>

(* 429 and 5xx are asked for again, past the duplicate filter, a 429 after *)
(* the wait its Retry-After asks for.                                      *)
RetryLater(r, asked) ==
    LET wait == IF asked > MaxDelay THEN MaxDelay ELSE asked
    IN  /\ InHand(r) /\ r.tries < RetryTimes
        /\ active' = active \ {r}
        /\ queue' = queue \cup {[r EXCEPT !.tries = @ + 1, !.wait = wait]}
        /\ owed' = IF asked > 0 THEN owed \cup {r.doc} ELSE owed
        /\ UNCHANGED <<adapter, crawl, seen, robots, pages, fate>>

(* A search is redirected to a product page, through the duplicate filter  *)
(* unless it is a retry.  The browser follows redirects by itself; a       *)
(* product page or an offer document that is redirected is the page it     *)
(* ends on, or lost.                                                       *)
Redirected(r, p) ==
    LET known == r.tries = 0 /\ ProductUrl(p) \in seen
    IN  /\ InHand(r) /\ r.doc.kind = "search" /\ r.page = NoPage
        /\ active' = active \ {r}
        /\ queue' = IF known THEN queue ELSE queue \cup {[r EXCEPT !.page = p]}
        /\ seen' = IF r.tries = 0 THEN seen \cup {ProductUrl(p)} ELSE seen
        /\ fate' = IF known THEN [fate EXCEPT ![r.doc] = "failed"] ELSE fate
        /\ UNCHANGED <<adapter, crawl, robots, pages, owed>>

(* Disallowed by robots.txt or by the outbound policy, redirected to a     *)
(* known page, or the download failed.                                     *)
Lost(r) ==
    /\ InHand(r)
    /\ active' = active \ {r}
    /\ fate' = [fate EXCEPT ![r.doc] = "failed"]
    /\ UNCHANGED <<adapter, crawl, queue, seen, robots, pages, owed>>

(* CLOSESPIDER_TIMEOUT. *)
TimeUp ==
    /\ crawl = "running"
    /\ crawl' = "closing"
    /\ UNCHANGED <<adapter, queue, active, seen, robots, pages, fate, owed>>

(* The crawl ends when it is idle; once closing, what is queued is dropped. *)
Finish ==
    /\ active = {}
    /\ \/ crawl = "running" /\ queue = {} /\ crawl' = "finished"
       \/ crawl = "closing" /\ crawl' = "cut"
    /\ UNCHANGED <<adapter, queue, active, seen, robots, pages, fate, owed>>

Answer(r) ==
    \/ ParseSearch(r) \/ ParseProduct(r) \/ ParseBrowserProduct(r) \/ ParseOffers(r)
    \/ Refused(r) \/ Lost(r)
    \/ \E asked \in AskedDelays \cup {0} : RetryLater(r, asked)
    \/ \E p \in Pages : Redirected(r, p)

Next ==
    \/ Start \/ TimeUp \/ Finish
    \/ \E r \in queue : Send(r)
    \/ \E r \in active : Wake(r) \/ Answer(r)

Spec == Init /\ [][Next]_vars
-----------------------------------------------------------------------------
(* The documents the comments of the page budgets count: one robots.txt    *)
(* per host, a search per capacity, rendered at most once, MaxResults      *)
(* products each, and what is asked for each product.                      *)
PlanSize(a) ==
    LET perProduct == 1 + (IF a \in RenderedProduct THEN 1 ELSE 0)
                        + (IF a \in PagedOffers THEN MaxOfferPages ELSE 0)
        perSearch == 1 + (IF a \in RenderedSearch THEN 1 ELSE 0) + MaxResults * perProduct
    IN  IF a \in Direct THEN 1 + perProduct
        ELSE (IF a \in PagedOffers THEN 2 ELSE 1) + Cardinality(Capacities) * perSearch

(* A crawl never counts more responses than the plan its page budget was   *)
(* chosen for, whatever the site answers and however often it asks to      *)
(* retry (retail.py:455, :538, :636, :712).                                *)
PagesWithinPlan == pages <= PlanSize(adapter)

(* The browser looks at a page only after an allowed HTTP answer of it     *)
(* lacked the evidence: a refusal is never worked around (README.md:147).  *)
BrowserFollowsAllowedAnswer ==
    \A d \in Documents :
        Rendered(d) /\ (fate[d] # "pending" \/ \E r \in queue \cup active : r.doc = d)
            => fate[HttpDocument(d)] = "lacking"

(* A crawl that was not cut short has an outcome for every page it asked   *)
(* the browser for, and one that yielded nothing has a page that failed or *)
(* was read without a trace to show for it.                                *)
NothingIsForgotten ==
    crawl = "finished" =>
        /\ \A d \in Documents : Rendered(d) /\ fate[HttpDocument(d)] = "lacking" => fate[d] # "pending"
        /\ robots # {} => \E d \in Documents : fate[d] \in {"recorded", "failed", "silent"}

(* A page of offers is asked for only after the one before it was read. *)
OfferPagesInOrder ==
    \A r \in queue \cup active :
        r.doc.kind = "offers" /\ r.doc.nth > 1
            => fate[[r.doc EXCEPT !.nth = @ - 1]] \in {"recorded", "silent"}

(* A server that asked for a wait is not asked again before it is over     *)
(* (retry_policy.py:1-13): nobody gets an answer from it meanwhile.        *)
WaitIsKept ==
    [][\A d \in owed : d \notin owed' \/ \A r \in active : r.doc = d => r.wait > 0 \/ r \in active']_vars
=============================================================================
