------------------------- MODULE SearchCrawlProofs -------------------------
(* Theorems about SearchCrawl, for every site, adapter and bound. *)
EXTENDS SearchCrawl, FiniteSetTheorems, TLAPS

(* The fields of a document tell which one it is. *)
LEMMA DocumentForm ==
    ASSUME NEW d \in Documents
    PROVE  /\ d.kind \in {"search", "rendered_search", "product", "rendered_product", "offers"}
           /\ d.kind = "search" => d.cap \in Capacities /\ d = Search(d.cap)
           /\ d.kind = "rendered_search" => d.cap \in Capacities /\ d = RenderedSearchOf(d.cap)
           /\ d.kind = "product" =>
                d.cap \in Origins /\ d.slot \in Slots /\ d = Product(d.cap, d.slot)
           /\ d.kind = "rendered_product" =>
                d.cap \in Origins /\ d.slot \in Slots /\ d = RenderedProductOf(d.cap, d.slot)
           /\ d.kind = "offers" =>
                /\ d.cap \in Origins /\ d.slot \in Slots /\ d.nth \in OfferPages
                /\ d = Offers(d.cap, d.slot, d.nth)
    BY DEF Documents, Search, RenderedSearchOf, Product, RenderedProductOf, Offers

LEMMA NextOffers ==
    ASSUME NEW d \in Documents, d.kind = "offers"
    PROVE  [d EXCEPT !.nth = @ + 1] = Offers(d.cap, d.slot, d.nth + 1)
    BY DocumentForm DEF Offers

(* What may be asked for when document d ends with fate f. *)
Children(d, f) ==
    CASE f = "lacking" /\ d.kind = "search" -> {RenderedSearchOf(d.cap)}
      [] f = "lacking" /\ d.kind = "product" -> {RenderedProductOf(d.cap, d.slot)}
      [] f # "lacking" /\ d.kind \in {"search", "rendered_search"} -> {Product(d.cap, i) : i \in Slots}
      [] f # "lacking" /\ d.kind = "product" -> {Offers(d.cap, d.slot, 1)}
      [] f \in {"recorded", "silent"} /\ d.kind = "offers" -> {Offers(d.cap, d.slot, d.nth + 1)}
      [] OTHER -> {}

(* An answer that reaches its callback asks for children of its document,  *)
(* each once, and for the kinds of documents its adapter knows.            *)
Expansion(r, f, fresh, again) ==
    /\ f \in Fates \ {"pending"}
    /\ fresh \cup again \subseteq Requests
    /\ \A q \in fresh : q.doc.kind \in {"product", "offers"}
    /\ \A q \in fresh \cup again : q.doc \in Children(r.doc, f)
    /\ f = "followed" => fresh \cup again # {}
    /\ f = "lacking" => again # {}
    /\ r.doc.kind = "search" /\ r.page # NoPage => f = "failed" \/ (f = "followed" /\ again # {})
    /\ \A p, q \in fresh \cup again : p.doc = q.doc => p = q
    /\ f = "lacking" => \/ r.doc.kind = "search" /\ adapter \in RenderedSearch
                        \/ r.doc.kind = "product" /\ adapter \in RenderedProduct
    /\ r.doc.kind = "product" /\ f # "lacking" /\ fresh \cup again # {} => adapter \in PagedOffers

LEMMA AskIsRequest ==
    ASSUME NEW d \in Documents, NEW p \in Pages \cup {NoPage},
           d.kind \notin {"search", "rendered_search"} => p \in Pages
    PROVE  Ask(d, p) \in Requests /\ Ask(d, p).doc = d
    BY SearchCrawlAssumption DEF Ask, Requests

LEMMA ParseSearchExpands ==
    ASSUME TypeOK, NEW r, ParseSearch(r)
    PROVE  \E f, fresh, again : Expansion(r, f, fresh, again) /\ Handled(r, f, fresh, again)
PROOF
  <1> DEFINE c == r.doc.cap
             Goal == \E f, fresh, again : Expansion(r, f, fresh, again) /\ Handled(r, f, fresh, again)
  <1>1. /\ r \in Requests /\ r.doc \in Documents
        /\ r.doc.kind \in {"search", "rendered_search"}
        /\ r.page \in Pages \cup {NoPage} /\ c \in Capacities /\ c \in Origins
    BY DocumentForm DEF ParseSearch, InHand, TypeOK, Requests, Origins
  <1>2. ASSUME NEW f \in Fates \ {"pending", "lacking", "followed"}, Handled(r, f, {}, {}),
               r.page = NoPage
        PROVE  Goal
    <2>1. Expansion(r, f, {}, {})
      BY <1>2 DEF Expansion
    <2> QED BY <1>2, <2>1
  <1>3. ASSUME NEW p \in Pages, SearchLanded(r, p)
        PROVE  Goal
    <2> DEFINE q == Ask(Product(c, 1), p)
    <2>1. 1 \in Slots
      BY SearchCrawlAssumption DEF Slots
    <2>2. Product(c, 1) \in Documents /\ Product(c, 1).kind = "product"
      BY <1>1, <2>1 DEF Documents, Product
    <2>3. q \in Requests /\ q.doc = Product(c, 1)
      BY <2>2, AskIsRequest
    <2>4. q.doc \in Children(r.doc, "followed")
      BY <1>1, <2>1, <2>3 DEF Children
    <2>5. Expansion(r, "followed", {}, {q})
      BY <1>1, <2>3, <2>4 DEF Expansion, Fates
    <2> HIDE DEF q
    <2> QED BY <1>3, <2>5 DEF SearchLanded, q
  <1>4. ASSUME NEW links \in Listings, NEW f \in Fates \ {"pending", "lacking"},
               Handled(r, f, ProductRequests(c, links), {}),
               r.page = NoPage, f = "followed" => links # <<>>
        PROVE  Goal
    <2> DEFINE new == ProductRequests(c, links)
    <2>1. PICK n \in 0..MaxResults : links \in [1..n -> Pages]
      BY <1>4 DEF Listings
    <2>2. \A i \in DOMAIN links : i \in Slots /\ links[i] \in Pages
      BY <2>1, SearchCrawlAssumption DEF Slots
    <2>3. ASSUME NEW q \in new
          PROVE  \E i \in DOMAIN links :
                    /\ q = Ask(Product(c, i), links[i])
                    /\ q \in Requests /\ q.doc = Product(c, i) /\ i \in Slots
      <3>1. PICK i \in DOMAIN links : q = Ask(Product(c, i), links[i])
        BY <2>3 DEF ProductRequests
      <3>2. Product(c, i) \in Documents /\ Product(c, i).kind = "product"
        BY <1>1, <2>2 DEF Documents, Product
      <3>3. q \in Requests /\ q.doc = Product(c, i)
        BY <2>2, <3>1, <3>2, AskIsRequest
      <3> QED BY <2>2, <3>1, <3>3
    <2> HIDE DEF new
    <2>4. new \cup {} \subseteq Requests
      BY <2>3
    <2>5. \A q \in new : q.doc.kind \in {"product", "offers"}
      <3>1. \A i \in Slots : Product(c, i).kind = "product"
        BY DEF Product
      <3> QED BY <2>3, <3>1
    <2>6. \A q \in new \cup {} : q.doc \in Children(r.doc, f)
      BY <1>1, <1>4, <2>3 DEF Children
    <2>7. \A p, q \in new \cup {} : p.doc = q.doc => p = q
      <3>1. \A i, j \in Slots : Product(c, i) = Product(c, j) => i = j
        BY DEF Product
      <3> QED BY <2>3, <3>1
    <2>8. f = "followed" => new # {}
      <3>1. ASSUME links # <<>> PROVE 1 \in DOMAIN links
        <4>1. n # 0
          BY <2>1, <3>1
        <4>2. 1 \in 1..n
          BY <4>1, SearchCrawlAssumption
        <4> QED BY <2>1, <4>2
      <3> QED BY <1>4, <3>1 DEF new, ProductRequests
    <2>9. Expansion(r, f, new, {})
      BY <1>1, <1>4, <2>4, <2>5, <2>6, <2>7, <2>8 DEF Expansion
    <2> QED BY <1>4, <2>9 DEF new
  <1>5. ASSUME SearchWithoutLinks(r), r.page = NoPage
        PROVE  Goal
    <2> DEFINE q == Ask(RenderedSearchOf(c), NoPage)
    <2>1. CASE \/ Handled(r, "silent", {}, {}) \/ Handled(r, "recorded", {}, {})
               \/ Handled(r, "failed", {}, {})
      BY <1>2, <1>5, <2>1 DEF Fates
    <2>2. CASE /\ r.doc.kind = "search" /\ adapter \in RenderedSearch
               /\ Handled(r, "lacking", {}, {q})
      <3>1. RenderedSearchOf(c) \in Documents /\ RenderedSearchOf(c).kind = "rendered_search"
        BY <1>1 DEF Documents, RenderedSearchOf
      <3>2. q \in Requests /\ q.doc = RenderedSearchOf(c)
        BY <3>1, AskIsRequest
      <3>3. q.doc \in Children(r.doc, "lacking")
        BY <2>2, <3>2 DEF Children
      <3>4. Expansion(r, "lacking", {}, {q})
        BY <1>1, <1>5, <2>2, <3>2, <3>3 DEF Expansion, Fates
      <3> HIDE DEF q
      <3> QED BY <2>2, <3>4
    <2> QED BY <1>1, <1>5, <2>1, <2>2 DEF SearchWithoutLinks, AskBrowser, Rendered
  <1>6. CASE r.page # NoPage
    BY <1>1, <1>3, <1>6 DEF ParseSearch
  <1>7. CASE r.page = NoPage
    <2>1. ASSUME NEW links \in Listings, SearchWithLinks(r, links) \/ SearchWithUnsafeLink(r, links)
          PROVE  Goal
      BY <1>4, <1>7, <2>1 DEF SearchWithLinks, SearchWithUnsafeLink, Fates
    <2>2. CASE SearchUnreadable(r)
      BY <1>2, <1>7, <2>2 DEF SearchUnreadable, Fates
    <2> QED BY <1>3, <1>5, <1>7, <2>1, <2>2 DEF ParseSearch
  <1> QED BY <1>6, <1>7

LEMMA ParseProductExpands ==
    ASSUME TypeOK, NEW r, ParseProduct(r) \/ ParseBrowserProduct(r)
    PROVE  \E f, fresh, again : Expansion(r, f, fresh, again) /\ Handled(r, f, fresh, again)
PROOF
  <1> DEFINE d == r.doc
             Goal == \E f, fresh, again : Expansion(r, f, fresh, again) /\ Handled(r, f, fresh, again)
  <1>1. /\ r \in Requests /\ d \in Documents
        /\ d.kind \in {"product", "rendered_product"}
        /\ r.page \in Pages /\ d.cap \in Origins /\ d.slot \in Slots
    BY DocumentForm DEF ParseProduct, ParseBrowserProduct, InHand, TypeOK, Requests
  <1>2. ASSUME NEW f \in Fates \ {"pending", "lacking", "followed"}, Handled(r, f, {}, {})
        PROVE  Goal
    <2>1. Expansion(r, f, {}, {})
      BY <1>1, <1>2 DEF Expansion
    <2> QED BY <1>2, <2>1
  <1>3. ASSUME adapter \in PagedOffers, d.kind = "product",
               Handled(r, "followed", {Ask(Offers(d.cap, d.slot, 1), r.page)}, {})
        PROVE  Goal
    <2> DEFINE q == Ask(Offers(d.cap, d.slot, 1), r.page)
    <2>1. 1 \in OfferPages
      BY SearchCrawlAssumption DEF OfferPages
    <2>2. Offers(d.cap, d.slot, 1) \in Documents /\ Offers(d.cap, d.slot, 1).kind = "offers"
      BY <1>1, <2>1 DEF Documents, Offers
    <2>3. q \in Requests /\ q.doc = Offers(d.cap, d.slot, 1)
      BY <1>1, <2>2, AskIsRequest
    <2>4. q.doc \in Children(d, "followed")
      BY <1>3, <2>3 DEF Children
    <2> HIDE DEF q
    <2>5. Expansion(r, "followed", {q}, {})
      BY <1>3, <2>2, <2>3, <2>4 DEF Expansion, Fates
    <2> QED BY <1>3, <2>5 DEF q
  <1>4. ASSUME adapter \in RenderedProduct, d.kind = "product",
               Handled(r, "lacking", {}, {Ask(RenderedProductOf(d.cap, d.slot), r.page)})
        PROVE  Goal
    <2> DEFINE q == Ask(RenderedProductOf(d.cap, d.slot), r.page)
    <2>1. /\ RenderedProductOf(d.cap, d.slot) \in Documents
          /\ RenderedProductOf(d.cap, d.slot).kind = "rendered_product"
      BY <1>1 DEF Documents, RenderedProductOf
    <2>2. q \in Requests /\ q.doc = RenderedProductOf(d.cap, d.slot)
      BY <1>1, <2>1, AskIsRequest
    <2>3. q.doc \in Children(d, "lacking")
      BY <1>4, <2>2 DEF Children
    <2> HIDE DEF q
    <2>4. Expansion(r, "lacking", {}, {q})
      BY <1>4, <2>2, <2>3 DEF Expansion, Fates
    <2> QED BY <1>4, <2>4 DEF q
  <1>5. \/ Handled(r, "recorded", {}, {}) \/ Handled(r, "failed", {}, {})
        \/ /\ adapter \in PagedOffers /\ d.kind = "product"
           /\ Handled(r, "followed", {Ask(Offers(d.cap, d.slot, 1), r.page)}, {})
        \/ /\ adapter \in RenderedProduct /\ d.kind = "product"
           /\ Handled(r, "lacking", {}, {Ask(RenderedProductOf(d.cap, d.slot), r.page)})
    BY DEF ParseProduct, ParseBrowserProduct, CallbackRaises, AskBrowser
  <1> QED BY <1>2, <1>3, <1>4, <1>5 DEF Fates

LEMMA ParseOffersExpands ==
    ASSUME TypeOK, NEW r, ParseOffers(r)
    PROVE  \E f, fresh, again : Expansion(r, f, fresh, again) /\ Handled(r, f, fresh, again)
PROOF
  <1> DEFINE d == r.doc
             Goal == \E f, fresh, again : Expansion(r, f, fresh, again) /\ Handled(r, f, fresh, again)
             q == Ask([d EXCEPT !.nth = @ + 1], r.page)
  <1>1. /\ r \in Requests /\ d \in Documents /\ d.kind = "offers" /\ r.page \in Pages
        /\ d.cap \in Origins /\ d.slot \in Slots /\ d.nth \in OfferPages
    BY DocumentForm DEF ParseOffers, InHand, TypeOK, Requests
  <1>2. ASSUME NEW f \in Fates \ {"pending", "lacking", "followed"}, Handled(r, f, {}, {})
        PROVE  Goal
    <2>1. Expansion(r, f, {}, {})
      BY <1>1, <1>2 DEF Expansion
    <2> QED BY <1>2, <2>1
  <1>3. ASSUME NEW f \in {"recorded", "silent"}, d.nth < MaxOfferPages, Handled(r, f, {q}, {})
        PROVE  Goal
    <2> DEFINE e == Offers(d.cap, d.slot, d.nth + 1)
    <2>1. d.nth + 1 \in OfferPages
      BY <1>1, <1>3, SearchCrawlAssumption DEF OfferPages
    <2>2. e \in Documents /\ e.kind = "offers"
      BY <1>1, <2>1 DEF Documents, Offers
    <2>3. q = Ask(e, r.page)
      BY <1>1, NextOffers
    <2>4. q \in Requests /\ q.doc = e
      BY <1>1, <2>2, <2>3, AskIsRequest
    <2>5. q.doc \in Children(d, f)
      BY <1>1, <1>3, <2>4 DEF Children
    <2> HIDE DEF q, e
    <2>6. Expansion(r, f, {q}, {})
      BY <1>1, <1>3, <2>2, <2>4, <2>5 DEF Expansion, Fates
    <2> QED BY <1>3, <2>6
  <1>4. \/ \E f \in {"recorded", "silent", "failed"} : Handled(r, f, {}, {})
        \/ /\ d.nth < MaxOfferPages
           /\ \E f \in {"recorded", "silent"} : Handled(r, f, {q}, {})
    BY DEF ParseOffers, CallbackRaises
  <1> HIDE DEF q
  <1> QED BY <1>2, <1>3, <1>4 DEF Fates

LEMMA AnswerExpands ==
    ASSUME TypeOK, NEW r,
           \/ ParseSearch(r) \/ ParseProduct(r) \/ ParseBrowserProduct(r) \/ ParseOffers(r)
           \/ Refused(r)
    PROVE  /\ r \in active
           /\ \E f, fresh, again : Expansion(r, f, fresh, again) /\ Handled(r, f, fresh, again)
PROOF
  <1>1. r \in active
    BY DEF ParseSearch, ParseProduct, ParseBrowserProduct, ParseOffers, Refused, InHand
  <1>2. CASE Refused(r)
    <2>1. Expansion(r, "failed", {}, {})
      BY DEF Expansion, Fates
    <2> QED BY <1>1, <1>2, <2>1 DEF Refused
  <1> QED BY <1>1, <1>2, ParseSearchExpands, ParseProductExpands, ParseOffersExpands
-----------------------------------------------------------------------------
Ended == {d \in Documents : fate[d] # "pending"}
Asked == Ended \cup {r.doc : r \in queue \cup active}

(* A document has one request at a time, and none after its answer. *)
OneRequestEach ==
    /\ queue \cap active = {}
    /\ \A p, q \in queue \cup active : p.doc = q.doc => p = q
    /\ \A r \in queue \cup active : r.doc \notin Ended

SearchEnded(c) ==
    /\ fate[Search(c)] # "pending"
    /\ fate[Search(c)] = "lacking" => fate[RenderedSearchOf(c)] # "pending"

(* What a document is asked for after. *)
AskedAfter(d) ==
    /\ d.kind = "rendered_search" => fate[Search(d.cap)] = "lacking"
    /\ d.kind = "rendered_product" => fate[Product(d.cap, d.slot)] = "lacking"
    /\ d.kind = "product" /\ d.cap # NoCapacity => SearchEnded(d.cap)
    /\ d.kind = "offers" /\ d.nth = 1 => fate[Product(d.cap, d.slot)] \notin {"pending", "lacking"}
    /\ d.kind = "offers" /\ d.nth > 1 =>
        fate[Offers(d.cap, d.slot, d.nth - 1)] \in {"recorded", "silent"}

AskedInOrder == \A d \in Asked : AskedAfter(d)

Plan(a) ==
    {d \in Documents :
        /\ a \in Direct <=> d.cap = NoCapacity
        /\ a \in Direct => d.slot = 1
        /\ d.kind = "rendered_search" => a \in RenderedSearch
        /\ d.kind = "rendered_product" => a \in RenderedProduct
        /\ d.kind = "offers" => a \in PagedOffers}

AskedInPlan == Asked \subseteq Plan(adapter)

HostsInPlan == "api" \in robots => adapter \in PagedOffers

(* Every response counted is one of a robots.txt or of a document. *)
PagesCounted ==
    /\ IsFiniteSet(Ended)
    /\ pages <= Cardinality(robots) + Cardinality(Ended)

NothingBeforeStart == crawl = "starting" => Asked = {}

CrawlInv ==
    /\ TypeOK /\ OneRequestEach /\ AskedInOrder /\ AskedInPlan
    /\ HostsInPlan /\ PagesCounted /\ NothingBeforeStart

LEMMA CountType ==
    ASSUME TypeOK, NEW n \in Nat, Count(n)
    PROVE  /\ pages' \in Nat
           /\ crawl' \in {"starting", "running", "closing", "finished", "cut"}
           /\ crawl' = "starting" => crawl = "starting"
    BY DEF TypeOK, Count

LEMMA UrlType ==
    ASSUME NEW q \in Requests,
           q.doc.kind \notin {"search", "rendered_search"}
    PROVE  Url(q) \in Urls
PROOF
  <1>1. q.page \in Pages /\ q.doc \in Documents
    BY DEF Requests
  <1>2. q.doc.kind = "offers" => q.doc.nth \in OfferPages
    BY <1>1, DocumentForm
  <1>3. OfferPages \subseteq 0..MaxOfferPages /\ 0 \in 0..MaxOfferPages
    BY SearchCrawlAssumption DEF OfferPages
  <1> QED BY <1>1, <1>2, <1>3 DEF Url, Urls, OffersUrl, ProductUrl

LEMMA HostsFinite == \A S : S \subseteq {"site", "api"} => IsFiniteSet(S)
PROOF
  <1>1. IsFiniteSet({"site"}) /\ {"site", "api"} = {"site"} \cup {"api"}
    BY FS_Singleton
  <1>2. IsFiniteSet({"site", "api"})
    BY <1>1, FS_AddElement
  <1> QED BY <1>2, FS_Subset

LEMMA HandledType ==
    ASSUME TypeOK, NEW r \in active, NEW f, NEW fresh, NEW again,
           Expansion(r, f, fresh, again), Handled(r, f, fresh, again)
    PROVE  TypeOK'
PROOF
  <1>1. pages' \in Nat /\ crawl' \in {"starting", "running", "closing", "finished", "cut"}
    BY CountType DEF Handled
  <1>2. queue' \subseteq Requests /\ active' \subseteq Requests
    BY DEF Handled, Expansion, TypeOK
  <1>3. seen' \subseteq Urls
    <2>1. \A q \in fresh : Url(q) \in Urls
      BY UrlType DEF Expansion
    <2> QED BY <2>1 DEF Handled, TypeOK
  <1>4. fate' \in [Documents -> Fates]
    BY DEF Handled, Expansion, TypeOK
  <1> QED BY <1>1, <1>2, <1>3, <1>4 DEF Handled, TypeOK

LEMMA RetryIsRequest ==
    ASSUME NEW r \in Requests, NEW wait \in 0..MaxDelay, r.tries < RetryTimes
    PROVE  /\ [r EXCEPT !.tries = @ + 1, !.wait = wait] \in Requests
           /\ [r EXCEPT !.tries = @ + 1, !.wait = wait].doc = r.doc
PROOF
  <1>1. r.tries + 1 \in 0..RetryTimes
    BY SearchCrawlAssumption DEF Requests
  <1> QED BY <1>1 DEF Requests

LEMMA TypeStep ==
    ASSUME TypeOK, [Next]_vars
    PROVE  TypeOK'
PROOF
  <1>1. CASE Start
    <2>1. \A c \in Capacities : Ask(Search(c), NoPage) \in Requests
      <3>1. \A c \in Capacities : Search(c) \in Documents /\ Search(c).kind = "search"
        BY DEF Documents, Search
      <3> QED BY <3>1, AskIsRequest
    <2>2. \A p \in Pages : Ask(Product(NoCapacity, 1), p) \in Requests /\ ProductUrl(p) \in Urls
      <3>1. Product(NoCapacity, 1) \in Documents /\ Product(NoCapacity, 1).kind = "product"
        BY SearchCrawlAssumption DEF Documents, Product, Origins, Slots
      <3>2. 0 \in 0..MaxOfferPages
        BY SearchCrawlAssumption
      <3> QED BY <3>1, <3>2, AskIsRequest DEF ProductUrl, Urls
    <2>3. queue' \subseteq Requests /\ seen' \subseteq Urls
      BY <1>1, <2>1, <2>2 DEF Start, TypeOK
    <2> QED BY <1>1, <2>3 DEF Start, TypeOK
  <1>2. ASSUME NEW r \in queue, Send(r)
        PROVE  TypeOK'
    <2>1. pages' \in Nat /\ crawl' \in {"starting", "running", "closing", "finished", "cut"}
      BY <1>2, CountType DEF Send
    <2>2. robots' \subseteq {"site", "api"}
      BY <1>2 DEF Send, TypeOK, Host
    <2> QED BY <1>2, <2>1, <2>2 DEF Send, TypeOK
  <1>3. ASSUME NEW r \in active, Wake(r)
        PROVE  TypeOK'
    <2>1. [r EXCEPT !.wait = 0] \in Requests
      BY SearchCrawlAssumption DEF TypeOK, Requests
    <2> QED BY <1>3, <2>1 DEF Wake, TypeOK
  <1>4. ASSUME NEW r \in active, NEW asked \in AskedDelays \cup {0}, RetryLater(r, asked)
        PROVE  TypeOK'
    <2>1. r \in Requests /\ r.tries < RetryTimes
      BY <1>4 DEF TypeOK, RetryLater
    <2> DEFINE wait == IF asked > MaxDelay THEN MaxDelay ELSE asked
    <2>2. wait \in 0..MaxDelay
      BY SearchCrawlAssumption
    <2>3. [r EXCEPT !.tries = @ + 1, !.wait = wait] \in Requests
      BY <2>1, <2>2, RetryIsRequest
    <2>4. queue' \subseteq Requests
      BY <1>4, <2>3 DEF RetryLater, TypeOK
    <2>5. owed' \subseteq Documents
      BY <1>4, <2>1 DEF RetryLater, TypeOK, Requests
    <2> QED BY <1>4, <2>4, <2>5 DEF RetryLater, TypeOK
  <1>5. ASSUME NEW r \in active, NEW p \in Pages, Redirected(r, p)
        PROVE  TypeOK'
    <2>1. [r EXCEPT !.page = p] \in Requests
      BY <1>5 DEF TypeOK, Requests
    <2>2. ProductUrl(p) \in Urls
      BY SearchCrawlAssumption DEF ProductUrl, Urls
    <2>3. queue' \subseteq Requests /\ seen' \subseteq Urls
      BY <1>5, <2>1, <2>2 DEF Redirected, TypeOK
    <2>4. fate' \in [Documents -> Fates]
      BY <1>5 DEF Redirected, TypeOK, Fates
    <2> QED BY <1>5, <2>3, <2>4 DEF Redirected, TypeOK
  <1>6. ASSUME NEW r \in active, Lost(r)
        PROVE  TypeOK'
    BY <1>6 DEF Lost, TypeOK, Fates
  <1>7. CASE TimeUp \/ Finish \/ UNCHANGED vars
    BY <1>7 DEF TimeUp, Finish, TypeOK, vars
  <1>8. ASSUME NEW r \in active,
               \/ ParseSearch(r) \/ ParseProduct(r) \/ ParseBrowserProduct(r) \/ ParseOffers(r)
               \/ Refused(r)
        PROVE  TypeOK'
    BY <1>8, AnswerExpands, HandledType
  <1> QED
    BY <1>1, <1>2, <1>3, <1>4, <1>5, <1>6, <1>7, <1>8 DEF Next, Answer

(* The crawl's state has its types: retries are counted, waits capped. *)
THEOREM TypeCorrect == Spec => []TypeOK
PROOF
  <1>1. Init => TypeOK
    BY DEF Init, TypeOK, Fates
  <1>2. TypeOK /\ [Next]_vars => TypeOK'
    BY TypeStep
  <1> QED BY <1>1, <1>2, PTL DEF Spec
-----------------------------------------------------------------------------
Live == queue \cup active

(* A step that moves a request, or changes what is not its document. *)
LEMMA Moved ==
    ASSUME TypeOK, OneRequestEach, NEW r \in Live, NEW q, q.doc = r.doc, q \notin Live \ {r},
           \/ /\ queue' = queue \ {r} /\ active' = (active \ {r}) \cup {q}
           \/ /\ queue' = queue \cup {q} /\ active' = active \ {r} /\ r \in active,
           fate' = fate
    PROVE  OneRequestEach' /\ Asked' = Asked /\ Ended' = Ended
PROOF
  <1>1. Live' = (Live \ {r}) \cup {q}
    BY DEF Live, OneRequestEach
  <1>2. Ended' = Ended
    BY DEF Ended
  <1>3. Asked' = Asked
    BY <1>1, <1>2 DEF Asked, Live
  <1>4. (queue \cap active)' = {}
    BY DEF OneRequestEach, Live
  <1>5. \A x, y \in Live' : x.doc = y.doc => x = y
    BY <1>1 DEF OneRequestEach, Live
  <1>6. \A x \in Live' : x.doc \notin Ended'
    BY <1>1, <1>2 DEF OneRequestEach, Live
  <1> QED BY <1>2, <1>3, <1>4, <1>5, <1>6 DEF OneRequestEach, Live

LEMMA OtherRequest ==
    ASSUME OneRequestEach, NEW r \in Live, NEW q, q.doc = r.doc
    PROVE  q \notin Live \ {r}
    BY DEF OneRequestEach, Live

LEMMA ChildrenAreNew ==
    ASSUME TypeOK, AskedInOrder, NEW d \in Documents, d \in Asked, fate[d] = "pending",
           NEW f, NEW e \in Documents, e \in Children(d, f)
    PROVE  e \notin Asked
PROOF
  <1> SUFFICES ASSUME AskedAfter(e) PROVE FALSE
    BY DEF AskedInOrder
  <1> USE DocumentForm, SearchCrawlAssumption
  <1>1. CASE f = "lacking" /\ d.kind = "search"
    BY <1>1 DEF Children, AskedAfter, RenderedSearchOf, Search
  <1>2. CASE f = "lacking" /\ d.kind = "product"
    BY <1>2 DEF Children, AskedAfter, RenderedProductOf, Product
  <1>3. CASE f # "lacking" /\ d.kind \in {"search", "rendered_search"}
    <2>1. PICK i \in Slots : e = Product(d.cap, i)
      BY <1>3 DEF Children
    <2>2. d.cap \in Capacities /\ SearchEnded(d.cap)
      BY <1>3, <2>1 DEF AskedAfter, Product
    <2>3. d.kind = "rendered_search" => fate[Search(d.cap)] = "lacking"
      BY DEF AskedInOrder, AskedAfter
    <2> QED BY <1>3, <2>2, <2>3 DEF SearchEnded
  <1>4. CASE f # "lacking" /\ d.kind = "product"
    BY <1>4 DEF Children, AskedAfter, Offers, Product
  <1>5. CASE f # "lacking" /\ d.kind = "offers"
    <2>1. e = Offers(d.cap, d.slot, d.nth + 1) /\ d.nth \in Nat /\ d.nth >= 1
      BY <1>5 DEF Children, OfferPages
    <2>2. e.kind = "offers" /\ e.cap = d.cap /\ e.slot = d.slot /\ e.nth = d.nth + 1
      BY <2>1 DEF Offers
    <2>3. e.nth > 1 /\ e.nth - 1 = d.nth
      BY <2>1, <2>2
    <2>4. fate[Offers(d.cap, d.slot, d.nth)] # "pending"
      BY <2>2, <2>3 DEF AskedAfter
    <2> QED BY <1>5, <2>4
  <1> QED BY <1>1, <1>2, <1>3, <1>4, <1>5 DEF Children

(* The part of an answer that the invariants are about. *)
LEMMA AnswerEffect ==
    ASSUME TypeOK, OneRequestEach, AskedInOrder, NEW r \in active, NEW f, NEW fresh, NEW again,
           Expansion(r, f, fresh, again), Handled(r, f, fresh, again)
    PROVE  \E added \in SUBSET (fresh \cup again) :
              /\ queue' = queue \cup added /\ active' = active \ {r}
              /\ Ended' = Ended \cup {r.doc} /\ r.doc \notin Ended
              /\ Asked' = Asked \cup {q.doc : q \in added}
              /\ \A q \in added : q.doc \in Documents \ Asked
PROOF
  <1> DEFINE added == {q \in fresh : Url(q) \notin seen} \cup again
  <1>1. queue' = queue \cup added /\ active' = active \ {r} /\ added \in SUBSET (fresh \cup again)
    BY DEF Handled
  <1>2. r \in Requests /\ r.doc \in Documents /\ r.doc \in Asked /\ fate[r.doc] = "pending"
    BY DEF TypeOK, Requests, Asked, OneRequestEach, Ended
  <1>3. fate' = [fate EXCEPT ![r.doc] = f] /\ f # "pending" /\ fate \in [Documents -> Fates]
    BY DEF Handled, Expansion, TypeOK
  <1>4. Ended' = Ended \cup {r.doc} /\ r.doc \notin Ended
    BY <1>2, <1>3 DEF Ended
  <1>5. Asked' = Asked \cup {q.doc : q \in added}
    BY <1>1, <1>2, <1>4 DEF Asked
  <1>6. ASSUME NEW q \in added
        PROVE  q.doc \in Documents \ Asked
    <2>1. q.doc \in Documents /\ q.doc \in Children(r.doc, f)
      BY <1>1, <1>6 DEF Expansion, Requests
    <2> QED BY <1>2, <2>1, ChildrenAreNew
  <1> HIDE DEF added
  <1> QED BY <1>1, <1>4, <1>5, <1>6

LEMMA AnswerKeepsOneRequest ==
    ASSUME TypeOK, OneRequestEach, AskedInOrder, NEW r \in active, NEW f, NEW fresh, NEW again,
           Expansion(r, f, fresh, again), Handled(r, f, fresh, again)
    PROVE  OneRequestEach'
PROOF
  <1>1. PICK added \in SUBSET (fresh \cup again) :
              /\ queue' = queue \cup added /\ active' = active \ {r}
              /\ Ended' = Ended \cup {r.doc}
              /\ \A q \in added : q.doc \in Documents \ Asked
    BY AnswerEffect
  <1>2. \A x \in Live : x.doc \in Asked
    BY DEF Live, Asked
  <1>3. r \in Live
    BY DEF Live
  <1>4. \A q \in added : q \notin Live
    BY <1>1, <1>2
  <1>5. (queue \cap active)' = {}
    BY <1>1, <1>4 DEF OneRequestEach, Live
  <1>6. Live' = (Live \ {r}) \cup added
    BY <1>1, <1>4 DEF Live, OneRequestEach
  <1>7. \A x, y \in Live' : x.doc = y.doc => x = y
    <2>1. \A x, y \in Live : x.doc = y.doc => x = y
      BY DEF OneRequestEach, Live
    <2>2. \A x, y \in added : x.doc = y.doc => x = y
      BY DEF Expansion
    <2> QED BY <1>1, <1>2, <1>6, <2>1, <2>2
  <1>8. \A x \in Live' : x.doc \notin Ended'
    <2>1. ASSUME NEW x \in Live \ {r}
          PROVE  x.doc \notin Ended'
      BY <1>1, <1>3, <2>1 DEF OneRequestEach, Live
    <2>2. ASSUME NEW x \in added
          PROVE  x.doc \notin Ended'
      BY <1>1, <1>2, <1>3, <2>2 DEF Asked
    <2> QED BY <1>6, <2>1, <2>2
  <1> QED BY <1>5, <1>7, <1>8 DEF OneRequestEach, Live

(* What a document is asked for after stays so when another one ends. *)
LEMMA AskedAfterStays ==
    ASSUME TypeOK, NEW d \in Documents, AskedAfter(d), NEW e \in Documents, fate[e] = "pending",
           NEW f, f # "pending", fate' = [fate EXCEPT ![e] = f]
    PROVE  AskedAfter(d)'
PROOF
  <1> USE DocumentForm DEF TypeOK
  <1>1. \A x \in Documents : fate[x] # "pending" => fate'[x] = fate[x]
    OBVIOUS
  <1>2. \A x \in Documents : fate[x] # "pending" => fate'[x] # "pending"
    BY <1>1
  <1>3. CASE d.kind = "search"
    BY <1>3 DEF AskedAfter
  <1>4. CASE d.kind = "rendered_search"
    <2>1. Search(d.cap) \in Documents
      BY <1>4 DEF Documents
    <2> QED BY <1>1, <1>4, <2>1 DEF AskedAfter
  <1>5. CASE d.kind = "product"
    <2>1. d.cap # NoCapacity => /\ Search(d.cap) \in Documents
                               /\ RenderedSearchOf(d.cap) \in Documents
      <3>1. \A c \in Capacities : Search(c) \in Documents /\ RenderedSearchOf(c) \in Documents
        BY DEF Documents
      <3>2. d.cap # NoCapacity => d.cap \in Capacities
        BY <1>5 DEF Origins
      <3> QED BY <3>1, <3>2
    <2> QED BY <1>1, <1>2, <1>5, <2>1 DEF AskedAfter, SearchEnded
  <1>6. CASE d.kind = "rendered_product"
    <2>1. Product(d.cap, d.slot) \in Documents
      BY <1>6 DEF Documents
    <2> QED BY <1>1, <1>6, <2>1 DEF AskedAfter
  <1>7. CASE d.kind = "offers"
    <2>1. Product(d.cap, d.slot) \in Documents
      BY <1>7 DEF Documents
    <2>2. d.nth > 1 => d.nth - 1 \in OfferPages
      BY <1>7, SearchCrawlAssumption DEF OfferPages
    <2>3. d.nth > 1 => Offers(d.cap, d.slot, d.nth - 1) \in Documents
      BY <1>7, <2>2 DEF Documents
    <2> QED BY <1>1, <1>2, <1>7, <2>1, <2>3 DEF AskedAfter
  <1> QED BY <1>3, <1>4, <1>5, <1>6, <1>7

LEMMA ChildIsAskedAfter ==
    ASSUME TypeOK, NEW d \in Documents, AskedAfter(d), fate[d] = "pending",
           NEW f \in Fates \ {"pending"}, NEW e \in Documents, e \in Children(d, f),
           fate' = [fate EXCEPT ![d] = f]
    PROVE  AskedAfter(e)'
PROOF
  <1> USE DocumentForm, SearchCrawlAssumption DEF TypeOK
  <1>1. fate'[d] = f
    OBVIOUS
  <1>2. CASE f = "lacking" /\ d.kind = "search"
    BY <1>1, <1>2 DEF Children, AskedAfter, RenderedSearchOf, Search
  <1>3. CASE f = "lacking" /\ d.kind = "product"
    BY <1>1, <1>3 DEF Children, AskedAfter, RenderedProductOf, Product
  <1>4. CASE f # "lacking" /\ d.kind \in {"search", "rendered_search"}
    <2>1. PICK i \in Slots : e = Product(d.cap, i)
      BY <1>4 DEF Children
    <2>2. e.kind = "product" /\ e.cap = d.cap
      BY <2>1 DEF Product
    <2>3. SearchEnded(d.cap)'
      <3>1. CASE d.kind = "search"
        BY <1>1, <1>4, <3>1 DEF SearchEnded
      <3>2. CASE d.kind = "rendered_search"
        <4>1. Search(d.cap) \in Documents /\ Search(d.cap) # d /\ fate[Search(d.cap)] = "lacking"
          BY <3>2 DEF Documents, Search, AskedAfter
        <4> QED BY <1>1, <3>2, <4>1 DEF SearchEnded
      <3> QED BY <1>4, <3>1, <3>2
    <2> QED BY <2>2, <2>3 DEF AskedAfter
  <1>5. CASE f # "lacking" /\ d.kind = "product"
    <2>1. /\ e.kind = "offers" /\ e.cap = d.cap /\ e.slot = d.slot /\ e.nth = 1
          /\ d = Product(d.cap, d.slot)
      BY <1>5 DEF Children, Offers
    <2> QED BY <1>1, <1>5, <2>1 DEF AskedAfter
  <1>6. CASE f \in {"recorded", "silent"} /\ d.kind = "offers"
    <2>1. /\ e.kind = "offers" /\ e.cap = d.cap /\ e.slot = d.slot /\ e.nth = d.nth + 1
          /\ d = Offers(d.cap, d.slot, d.nth) /\ d.nth \in Nat /\ d.nth >= 1
      BY <1>6 DEF Children, Offers, OfferPages
    <2>2. e.nth > 1 /\ e.nth # 1 /\ e.nth - 1 = d.nth
      BY <2>1
    <2> QED BY <1>1, <1>6, <2>1, <2>2 DEF AskedAfter
  <1> QED BY <1>2, <1>3, <1>4, <1>5, <1>6 DEF Children

LEMMA AnswerKeepsOrder ==
    ASSUME TypeOK, OneRequestEach, AskedInOrder, NEW r \in active, NEW f, NEW fresh, NEW again,
           Expansion(r, f, fresh, again), Handled(r, f, fresh, again)
    PROVE  AskedInOrder'
PROOF
  <1>1. /\ r.doc \in Documents /\ r.doc \in Asked /\ fate[r.doc] = "pending"
        /\ Asked \subseteq Documents
    BY DEF TypeOK, Requests, Asked, OneRequestEach, Ended
  <1>2. fate' = [fate EXCEPT ![r.doc] = f] /\ f \in Fates \ {"pending"}
    BY DEF Handled, Expansion
  <1>3. PICK added \in SUBSET (fresh \cup again) :
              /\ Asked' = Asked \cup {q.doc : q \in added}
              /\ \A q \in added : q.doc \in Documents \ Asked
    BY AnswerEffect
  <1>4. ASSUME NEW d \in Asked
        PROVE  AskedAfter(d)'
    BY <1>1, <1>2, AskedAfterStays DEF AskedInOrder
  <1>5. ASSUME NEW q \in added
        PROVE  AskedAfter(q.doc)'
    <2>1. q.doc \in Documents /\ q.doc \in Children(r.doc, f)
      BY <1>3 DEF Expansion
    <2>2. AskedAfter(r.doc)
      BY <1>1 DEF AskedInOrder
    <2> QED BY <1>1, <1>2, <2>1, <2>2, ChildIsAskedAfter
  <1> QED BY <1>3, <1>4, <1>5 DEF AskedInOrder

LEMMA AnswerKeepsPlan ==
    ASSUME TypeOK, OneRequestEach, AskedInOrder, AskedInPlan, NEW r \in active,
           NEW f, NEW fresh, NEW again,
           Expansion(r, f, fresh, again), Handled(r, f, fresh, again)
    PROVE  AskedInPlan'
PROOF
  <1>1. r.doc \in Documents /\ r.doc \in Plan(adapter)
    BY DEF TypeOK, Requests, Asked, AskedInPlan
  <1>2. PICK added \in SUBSET (fresh \cup again) :
              /\ Asked' = Asked \cup {q.doc : q \in added}
              /\ \A q \in added : q.doc \in Documents \ Asked
    BY AnswerEffect
  <1>3. adapter' = adapter
    BY DEF Handled
  <1>4. ASSUME NEW q \in added
        PROVE  q.doc \in Plan(adapter)
    <2> DEFINE d == r.doc
               e == q.doc
    <2>1. e \in Documents /\ e \in Children(d, f)
      BY <1>2 DEF Expansion
    <2> HIDE DEF d, e
    <2>2. e.cap = d.cap /\ (adapter \in Direct => e.slot = 1)
      <3>1. d.kind \in {"search", "rendered_search"} => adapter \notin Direct
        BY <1>1, DocumentForm, SearchCrawlAssumption DEF Plan, d
      <3>2. adapter \in Direct => d.slot = 1
        BY <1>1 DEF Plan, d
      <3> QED
        BY <2>1, <3>1, <3>2 DEF Children, RenderedSearchOf, RenderedProductOf, Product, Offers
    <2>3. /\ e.kind = "rendered_search" => f = "lacking" /\ d.kind = "search"
          /\ e.kind = "rendered_product" => f = "lacking" /\ d.kind = "product"
          /\ e.kind = "offers" => f # "lacking" /\ d.kind \in {"product", "offers"}
      BY <2>1 DEF Children, RenderedSearchOf, RenderedProductOf, Product, Offers
    <2>4. /\ e.kind = "rendered_search" => adapter \in RenderedSearch
          /\ e.kind = "rendered_product" => adapter \in RenderedProduct
      BY <2>3 DEF Expansion, d
    <2>5. e.kind = "offers" => adapter \in PagedOffers
      <3>1. d.kind = "product" /\ f # "lacking" => adapter \in PagedOffers
        BY DEF Expansion, d
      <3>2. d.kind = "offers" => adapter \in PagedOffers
        BY <1>1 DEF Plan, d
      <3> QED BY <2>3, <3>1, <3>2
    <2>6. adapter \in Direct <=> e.cap = NoCapacity
      BY <1>1, <2>2 DEF Plan, d
    <2>7. e \in Plan(adapter)
      BY <2>1, <2>2, <2>4, <2>5, <2>6 DEF Plan
    <2> QED BY <2>7 DEF e
  <1> QED BY <1>2, <1>3, <1>4 DEF AskedInPlan

LEMMA AnswerKeepsCount ==
    ASSUME TypeOK, OneRequestEach, AskedInOrder, PagesCounted, NEW r \in active,
           NEW f, NEW fresh, NEW again,
           Expansion(r, f, fresh, again), Handled(r, f, fresh, again)
    PROVE  PagesCounted'
PROOF
  <1>1. Ended' = Ended \cup {r.doc} /\ r.doc \notin Ended
    BY AnswerEffect
  <1>2. IsFiniteSet(Ended') /\ Cardinality(Ended') = Cardinality(Ended) + 1
    BY <1>1, FS_AddElement DEF PagesCounted
  <1>3. robots' = robots /\ pages' = pages + 1
    BY DEF Handled, Count
  <1>4. Cardinality(robots) \in Nat /\ Cardinality(Ended) \in Nat /\ pages \in Nat
    BY HostsFinite, FS_CardinalityType DEF PagesCounted, TypeOK
  <1> QED BY <1>2, <1>3, <1>4 DEF PagesCounted

LEMMA SendKeepsCount ==
    ASSUME TypeOK, PagesCounted, NEW r, Send(r)
    PROVE  PagesCounted'
PROOF
  <1>1. Ended' = Ended
    BY DEF Send, Ended
  <1>2. PICK n \in {0, 1} : /\ n = 1 => Host(r.doc) \notin robots
                           /\ pages' = pages + n
    BY DEF Send, Count
  <1>3. robots' = robots \cup {Host(r.doc)}
    BY DEF Send
  <1>4. IsFiniteSet(robots)
    BY HostsFinite DEF TypeOK
  <1>5. Cardinality(robots') = IF Host(r.doc) \in robots THEN Cardinality(robots) ELSE Cardinality(robots) + 1
    BY <1>3, <1>4, FS_AddElement
  <1>6. Cardinality(robots) \in Nat /\ Cardinality(Ended) \in Nat /\ pages \in Nat
    BY <1>4, FS_CardinalityType DEF PagesCounted, TypeOK
  <1> QED BY <1>1, <1>2, <1>5, <1>6 DEF PagesCounted

(* A request that is dropped, or whose document ends without an answer. *)
LEMMA DroppedKeeps ==
    ASSUME CrawlInv, NEW r \in active, active' = active \ {r}, queue' = queue,
           fate' = [fate EXCEPT ![r.doc] = "failed"],
           UNCHANGED <<adapter, crawl, robots, pages>>
    PROVE  /\ OneRequestEach' /\ AskedInOrder' /\ AskedInPlan'
           /\ HostsInPlan' /\ PagesCounted' /\ NothingBeforeStart'
PROOF
  <1> USE DEF CrawlInv
  <1>1. /\ r.doc \in Documents /\ r.doc \in Asked /\ fate[r.doc] = "pending"
        /\ Asked \subseteq Documents /\ r.doc \notin Ended
    BY DEF TypeOK, Requests, Asked, OneRequestEach, Ended
  <1>2. Ended' = Ended \cup {r.doc}
    BY <1>1 DEF Ended, TypeOK
  <1>3. Asked' = Asked
    BY <1>2 DEF Asked
  <1>4. OneRequestEach'
    BY <1>2 DEF OneRequestEach
  <1>5. AskedInOrder'
    <2>1. \A d \in Asked : AskedAfter(d)'
      BY <1>1, AskedAfterStays DEF AskedInOrder
    <2> QED BY <1>3, <2>1 DEF AskedInOrder
  <1>6. PagesCounted'
    <2>1. IsFiniteSet(Ended') /\ Cardinality(Ended') = Cardinality(Ended) + 1
      BY <1>1, <1>2, FS_AddElement DEF PagesCounted
    <2>2. Cardinality(robots) \in Nat /\ Cardinality(Ended) \in Nat /\ pages \in Nat
      BY HostsFinite, FS_CardinalityType DEF PagesCounted, TypeOK
    <2> QED BY <2>1, <2>2 DEF PagesCounted
  <1> QED BY <1>1, <1>3, <1>4, <1>5, <1>6 DEF AskedInPlan, HostsInPlan, NothingBeforeStart

(* A step that leaves the documents and what is asked for alone. *)
LEMMA QuietKeeps ==
    ASSUME CrawlInv, OneRequestEach', Asked' = Asked, Ended' = Ended,
           UNCHANGED <<adapter, fate>>, crawl' = "starting" => crawl = "starting"
    PROVE  AskedInOrder' /\ AskedInPlan' /\ NothingBeforeStart'
PROOF
  <1>1. \A d : AskedAfter(d)' <=> AskedAfter(d)
    BY DEF AskedAfter, SearchEnded
  <1> QED BY <1>1 DEF CrawlInv, AskedInOrder, AskedInPlan, NothingBeforeStart

LEMMA StartKeeps ==
    ASSUME CrawlInv, Start
    PROVE  /\ OneRequestEach' /\ AskedInOrder' /\ AskedInPlan'
           /\ HostsInPlan' /\ PagesCounted' /\ NothingBeforeStart'
PROOF
  <1> USE DEF CrawlInv
  <1>1. Asked = {} /\ Ended = {} /\ queue = {} /\ active = {}
    BY DEF Start, NothingBeforeStart, Asked
  <1>2. Ended' = {} /\ active' = {} /\ adapter' = adapter /\ fate' = fate
    BY <1>1 DEF Start, Ended
  <1>3. Asked' = {q.doc : q \in queue'}
    BY <1>2 DEF Asked
  <1>4. CASE adapter \notin Direct /\ queue' = {Ask(Search(c), NoPage) : c \in Capacities}
    <2>1. ASSUME NEW q \in queue'
          PROVE  \E c \in Capacities : q = Ask(Search(c), NoPage) /\ q.doc = Search(c)
      BY <1>4, <2>1 DEF Ask
    <2>2. \A x, y \in queue' : x.doc = y.doc => x = y
      BY <2>1 DEF Search
    <2>3. \A c \in Capacities : AskedAfter(Search(c))' /\ Search(c) \in Plan(adapter)
      <3> TAKE c \in Capacities
      <3>1. Search(c) \in Documents /\ Search(c).kind = "search" /\ Search(c).cap # NoCapacity
        BY SearchCrawlAssumption DEF Search, Documents
      <3>2. AskedAfter(Search(c))'
        BY <3>1 DEF AskedAfter
      <3>3. Search(c) \in Plan(adapter)
        BY <1>4, <3>1 DEF Plan
      <3> QED BY <3>2, <3>3
    <2>4. Asked' = {Search(c) : c \in Capacities}
      <3>1. \A c \in Capacities : Ask(Search(c), NoPage) \in queue' /\ Ask(Search(c), NoPage).doc = Search(c)
        BY <1>4 DEF Ask
      <3> QED BY <1>3, <2>1, <3>1
    <2>5. OneRequestEach'
      BY <1>2, <2>2 DEF OneRequestEach
    <2>6. AskedInOrder' /\ AskedInPlan'
      BY <1>2, <2>3, <2>4 DEF AskedInOrder, AskedInPlan
    <2> QED
      BY <1>1, <1>2, <2>5, <2>6 DEF Start, HostsInPlan, PagesCounted, NothingBeforeStart
  <1>5. ASSUME NEW p \in Pages, adapter \in Direct, queue' = {Ask(Product(NoCapacity, 1), p)}
        PROVE  /\ OneRequestEach' /\ AskedInOrder' /\ AskedInPlan'
               /\ HostsInPlan' /\ PagesCounted' /\ NothingBeforeStart'
    <2> DEFINE d == Product(NoCapacity, 1)
    <2>1. Asked' = {d}
      BY <1>3, <1>5 DEF Ask
    <2>2. AskedAfter(d)'
      BY DEF AskedAfter, Product
    <2>3. d \in Plan(adapter)
      BY <1>5, SearchCrawlAssumption DEF Product, Plan, Documents, Origins, Slots
    <2> HIDE DEF d
    <2> QED
      BY <1>1, <1>2, <1>5, <2>1, <2>2, <2>3
         DEF OneRequestEach, AskedInOrder, AskedInPlan, Start, HostsInPlan, PagesCounted, NothingBeforeStart
  <1>6. CASE queue' = queue
    BY <1>1, <1>2, <1>3, <1>6
       DEF OneRequestEach, AskedInOrder, AskedInPlan, Start, HostsInPlan, PagesCounted, NothingBeforeStart
  <1> QED BY <1>4, <1>5, <1>6 DEF Start

LEMMA SendKeeps ==
    ASSUME CrawlInv, NEW r \in queue, Send(r)
    PROVE  /\ OneRequestEach' /\ AskedInOrder' /\ AskedInPlan'
           /\ HostsInPlan' /\ PagesCounted' /\ NothingBeforeStart'
PROOF
  <1> USE DEF CrawlInv
  <1>1. r \in Live /\ r \notin Live \ {r}
    BY DEF Live
  <1>2. OneRequestEach' /\ Asked' = Asked /\ Ended' = Ended
    <2>1. queue' = queue \ {r} /\ active' = (active \ {r}) \cup {r} /\ fate' = fate
      BY DEF Send, OneRequestEach
    <2> QED BY <1>1, <2>1, Moved
  <1>3. crawl' = "starting" => crawl = "starting"
    BY CountType DEF Send
  <1>4. AskedInOrder' /\ AskedInPlan' /\ NothingBeforeStart'
    BY <1>2, <1>3, QuietKeeps DEF Send
  <1>5. HostsInPlan'
    <2>1. r.doc \in Plan(adapter)
      BY DEF AskedInPlan, Asked
    <2> QED BY <2>1 DEF HostsInPlan, Send, Host, Plan
  <1> QED BY <1>2, <1>4, <1>5, SendKeepsCount

LEMMA MovedKeeps ==
    ASSUME CrawlInv, NEW r \in active, NEW q, q.doc = r.doc,
           \/ queue' = queue /\ active' = (active \ {r}) \cup {q}
           \/ queue' = queue \cup {q} /\ active' = active \ {r},
           UNCHANGED <<adapter, crawl, robots, pages, fate>>
    PROVE  /\ OneRequestEach' /\ AskedInOrder' /\ AskedInPlan'
           /\ HostsInPlan' /\ PagesCounted' /\ NothingBeforeStart'
PROOF
  <1> USE DEF CrawlInv
  <1>1. r \in Live /\ queue = queue \ {r}
    BY DEF Live, OneRequestEach
  <1>2. q \notin Live \ {r}
    BY <1>1, OtherRequest
  <1>3. OneRequestEach' /\ Asked' = Asked /\ Ended' = Ended
    BY <1>1, <1>2, Moved
  <1>4. AskedInOrder' /\ AskedInPlan' /\ NothingBeforeStart'
    BY <1>3, QuietKeeps
  <1> QED BY <1>3, <1>4 DEF HostsInPlan, PagesCounted

LEMMA RedirectMoves ==
    ASSUME CrawlInv, NEW r \in active, NEW p \in Pages, Redirected(r, p)
    PROVE  \/ /\ queue' = queue /\ active' = active \ {r}
              /\ fate' = [fate EXCEPT ![r.doc] = "failed"]
           \/ /\ queue' = queue \cup {[r EXCEPT !.page = p]} /\ active' = active \ {r}
              /\ fate' = fate
    BY DEF Redirected

LEMMA CrawlStep ==
    ASSUME CrawlInv, [Next]_vars
    PROVE  CrawlInv'
PROOF
  <1> DEFINE Rest == /\ OneRequestEach' /\ AskedInOrder' /\ AskedInPlan'
                     /\ HostsInPlan' /\ PagesCounted' /\ NothingBeforeStart'
  <1>1. TypeOK'
    BY TypeStep DEF CrawlInv
  <1>2. ASSUME Start
        PROVE  Rest
    BY <1>2, StartKeeps
  <1>3. ASSUME NEW r \in queue, Send(r)
        PROVE  Rest
    BY <1>3, SendKeeps
  <1>4. ASSUME NEW r \in active, Wake(r)
        PROVE  Rest
    <2>1. [r EXCEPT !.wait = 0].doc = r.doc
      BY DEF CrawlInv, TypeOK, Requests
    <2> QED BY <1>4, <2>1, MovedKeeps DEF Wake
  <1>5. ASSUME NEW r \in active, NEW asked \in AskedDelays \cup {0}, RetryLater(r, asked)
        PROVE  Rest
    <2> DEFINE wait == IF asked > MaxDelay THEN MaxDelay ELSE asked
               q == [r EXCEPT !.tries = @ + 1, !.wait = wait]
    <2>1. q.doc = r.doc
      BY DEF CrawlInv, TypeOK, Requests
    <2>2. /\ queue' = queue \cup {q} /\ active' = active \ {r}
          /\ UNCHANGED <<adapter, crawl, robots, pages, fate>>
      BY <1>5 DEF RetryLater
    <2> HIDE DEF q
    <2> QED BY <2>1, <2>2, MovedKeeps
  <1>6. ASSUME NEW r \in active, NEW p \in Pages, Redirected(r, p)
        PROVE  Rest
    <2>1. [r EXCEPT !.page = p].doc = r.doc
      BY DEF CrawlInv, TypeOK, Requests
    <2>2. /\ active' = active \ {r}
          /\ UNCHANGED <<adapter, crawl, robots, pages>>
      BY <1>6 DEF Redirected
    <2>3. CASE queue' = queue /\ fate' = [fate EXCEPT ![r.doc] = "failed"]
      BY <2>2, <2>3, DroppedKeeps
    <2>4. CASE queue' = queue \cup {[r EXCEPT !.page = p]} /\ fate' = fate
      BY <2>1, <2>2, <2>4, MovedKeeps
    <2> QED BY <1>6, <2>3, <2>4, RedirectMoves
  <1>7. ASSUME NEW r \in active, Lost(r)
        PROVE  Rest
    BY <1>7, DroppedKeeps DEF Lost
  <1>8. ASSUME TimeUp \/ Finish \/ UNCHANGED vars
        PROVE  Rest
    <2>1. /\ UNCHANGED <<queue, active, adapter, robots, pages, fate>>
          /\ crawl' = "starting" => crawl = "starting"
      BY <1>8 DEF TimeUp, Finish, vars
    <2>2. Asked' = Asked /\ Ended' = Ended
      BY <2>1 DEF Asked, Ended
    <2>3. OneRequestEach'
      BY <2>1, <2>2 DEF OneRequestEach, CrawlInv
    <2> QED BY <2>1, <2>2, <2>3, QuietKeeps DEF CrawlInv, HostsInPlan, PagesCounted
  <1>9. ASSUME NEW r \in active,
               \/ ParseSearch(r) \/ ParseProduct(r) \/ ParseBrowserProduct(r) \/ ParseOffers(r)
               \/ Refused(r)
        PROVE  Rest
    <2>1. PICK f, fresh, again : Expansion(r, f, fresh, again) /\ Handled(r, f, fresh, again)
      BY <1>9, AnswerExpands DEF CrawlInv
    <2>2. OneRequestEach' /\ AskedInOrder' /\ AskedInPlan' /\ PagesCounted'
      BY <2>1, AnswerKeepsOneRequest, AnswerKeepsOrder, AnswerKeepsPlan, AnswerKeepsCount DEF CrawlInv
    <2>3. HostsInPlan'
      BY <2>1 DEF Handled, HostsInPlan, CrawlInv
    <2>4. crawl # "starting" /\ crawl' # "starting"
      <3>1. crawl # "starting"
        BY DEF CrawlInv, NothingBeforeStart, Asked
      <3> QED BY <2>1, <3>1, CountType DEF Handled, CrawlInv
    <2> QED BY <2>2, <2>3, <2>4 DEF NothingBeforeStart
  <1> HIDE DEF Rest
  <1>10. Rest
    BY <1>2, <1>3, <1>4, <1>5, <1>6, <1>7, <1>8, <1>9 DEF Next, Answer, Rest
  <1> QED BY <1>1, <1>10 DEF CrawlInv, Rest

LEMMA CrawlInit == Init => CrawlInv
PROOF
  <1> SUFFICES ASSUME Init PROVE CrawlInv
    OBVIOUS
  <1>1. Ended = {} /\ Asked = {}
    BY DEF Init, Ended, Asked
  <1>2. TypeOK
    BY DEF Init, TypeOK, Fates
  <1>3. PagesCounted
    BY <1>1, FS_EmptySet DEF Init, PagesCounted
  <1> QED
    BY <1>1, <1>2, <1>3
       DEF Init, CrawlInv, OneRequestEach, AskedInOrder, AskedInPlan, HostsInPlan, NothingBeforeStart

LEMMA CrawlInvariant == Spec => []CrawlInv
BY CrawlInit, CrawlStep, PTL DEF Spec

(* The browser is asked only for a page of which an allowed HTTP answer    *)
(* lacked the evidence, for every site and every order of answers.         *)
THEOREM BrowserCorrect == Spec => []BrowserFollowsAllowedAnswer
PROOF
  <1>1. CrawlInv => BrowserFollowsAllowedAnswer
    <2> SUFFICES ASSUME CrawlInv, NEW d \in Documents, Rendered(d),
                        fate[d] # "pending" \/ \E r \in queue \cup active : r.doc = d
                 PROVE  fate[HttpDocument(d)] = "lacking"
      BY DEF BrowserFollowsAllowedAnswer
    <2>1. d \in Asked
      BY DEF Asked, Ended
    <2>2. AskedAfter(d)
      BY <2>1 DEF CrawlInv, AskedInOrder
    <2> QED BY <2>2 DEF AskedAfter, Rendered, HttpDocument
  <1> QED BY <1>1, CrawlInvariant, PTL

(* A page of offers is asked for only after the page before it was read. *)
THEOREM OfferPagesCorrect == Spec => []OfferPagesInOrder
PROOF
  <1>1. CrawlInv => OfferPagesInOrder
    <2> SUFFICES ASSUME CrawlInv, NEW r \in queue \cup active, r.doc.kind = "offers", r.doc.nth > 1
                 PROVE  fate[[r.doc EXCEPT !.nth = @ - 1]] \in {"recorded", "silent"}
      BY DEF OfferPagesInOrder
    <2>1. r.doc \in Documents /\ AskedAfter(r.doc)
      BY DEF CrawlInv, AskedInOrder, Asked, TypeOK, Requests
    <2>2. r.doc = Offers(r.doc.cap, r.doc.slot, r.doc.nth)
      BY <2>1, DocumentForm
    <2>3. [r.doc EXCEPT !.nth = @ - 1] = Offers(r.doc.cap, r.doc.slot, r.doc.nth - 1)
      BY <2>2 DEF Offers
    <2> QED BY <2>1, <2>3 DEF AskedAfter
  <1> QED BY <1>1, CrawlInvariant, PTL
-----------------------------------------------------------------------------
(* The size of the plan. *)
LEMMA SearchesCounted ==
    /\ IsFiniteSet({Search(c) : c \in Capacities})
    /\ Cardinality({Search(c) : c \in Capacities}) <= Cardinality(Capacities)
    /\ IsFiniteSet({RenderedSearchOf(c) : c \in Capacities})
    /\ Cardinality({RenderedSearchOf(c) : c \in Capacities}) <= Cardinality(Capacities)
PROOF
  <1> DEFINE S == {Search(c) : c \in Capacities}
             R == {RenderedSearchOf(c) : c \in Capacities}
             s == [c \in Capacities |-> Search(c)]
             r == [c \in Capacities |-> RenderedSearchOf(c)]
  <1>1. s \in Surjection(Capacities, S)
    BY DEF Surjection
  <1>2. r \in Surjection(Capacities, R)
    BY DEF Surjection
  <1> HIDE DEF s, r
  <1> QED BY <1>1, <1>2, FS_Surjection, SearchCrawlAssumption

LEMMA ProductsCounted ==
    LET n == Cardinality(Capacities) * MaxResults
        P == {Product(c, i) : c \in Capacities, i \in Slots}
        R == {RenderedProductOf(c, i) : c \in Capacities, i \in Slots}
        O == {Offers(c, i, k) : c \in Capacities, i \in Slots, k \in OfferPages}
    IN  /\ IsFiniteSet(P) /\ Cardinality(P) <= n
        /\ IsFiniteSet(R) /\ Cardinality(R) <= n
        /\ IsFiniteSet(O) /\ Cardinality(O) <= n * MaxOfferPages
PROOF
  <1> DEFINE P == {Product(c, i) : c \in Capacities, i \in Slots}
             R == {RenderedProductOf(c, i) : c \in Capacities, i \in Slots}
             O == {Offers(c, i, k) : c \in Capacities, i \in Slots, k \in OfferPages}
             D == Capacities \X Slots
             E == D \X OfferPages
             p == [x \in D |-> Product(x[1], x[2])]
             r == [x \in D |-> RenderedProductOf(x[1], x[2])]
             o == [x \in E |-> Offers(x[1][1], x[1][2], x[2])]
  <1>1. /\ IsFiniteSet(Slots) /\ Cardinality(Slots) = MaxResults
        /\ IsFiniteSet(OfferPages) /\ Cardinality(OfferPages) = MaxOfferPages
    BY FS_Interval, SearchCrawlAssumption DEF Slots, OfferPages
  <1>2. IsFiniteSet(D) /\ Cardinality(D) = Cardinality(Capacities) * MaxResults
    BY <1>1, FS_Product, SearchCrawlAssumption
  <1>3. p \in Surjection(D, P)
    <2>1. p \in [D -> P]
      OBVIOUS
    <2>2. ASSUME NEW d \in P
          PROVE  \E x \in D : p[x] = d
      <3>1. PICK c \in Capacities, i \in Slots : d = Product(c, i)
        BY <2>2
      <3>2. <<c, i>> \in D /\ p[<<c, i>>] = Product(c, i)
        OBVIOUS
      <3> QED BY <3>1, <3>2
    <2> HIDE DEF p
    <2> QED BY <2>1, <2>2 DEF Surjection
  <1>4. r \in Surjection(D, R)
    <2>1. r \in [D -> R]
      OBVIOUS
    <2>2. ASSUME NEW d \in R
          PROVE  \E x \in D : r[x] = d
      <3>1. PICK c \in Capacities, i \in Slots : d = RenderedProductOf(c, i)
        BY <2>2
      <3>2. <<c, i>> \in D /\ r[<<c, i>>] = RenderedProductOf(c, i)
        OBVIOUS
      <3> QED BY <3>1, <3>2
    <2> HIDE DEF r
    <2> QED BY <2>1, <2>2 DEF Surjection
  <1>5. o \in Surjection(E, O)
    <2>1. o \in [E -> O]
      OBVIOUS
    <2>2. ASSUME NEW d \in O
          PROVE  \E x \in E : o[x] = d
      <3>1. PICK c \in Capacities, i \in Slots, k \in OfferPages : d = Offers(c, i, k)
        BY <2>2
      <3>2. << <<c, i>>, k >> \in E /\ o[<< <<c, i>>, k >>] = Offers(c, i, k)
        OBVIOUS
      <3> QED BY <3>1, <3>2
    <2> HIDE DEF o
    <2> QED BY <2>1, <2>2 DEF Surjection
  <1> HIDE DEF p, r, o, D
  <1>6. IsFiniteSet(E) /\ Cardinality(E) = Cardinality(D) * MaxOfferPages
    BY <1>1, <1>2, FS_Product
  <1> HIDE DEF E
  <1>7. IsFiniteSet(P) /\ Cardinality(P) <= Cardinality(D)
    BY <1>2, <1>3, FS_Surjection
  <1>8. IsFiniteSet(R) /\ Cardinality(R) <= Cardinality(D)
    BY <1>2, <1>4, FS_Surjection
  <1>9. IsFiniteSet(O) /\ Cardinality(O) <= Cardinality(E)
    BY <1>5, <1>6, FS_Surjection
  <1> QED BY <1>2, <1>6, <1>7, <1>8, <1>9

LEMMA UnionBounded ==
    ASSUME NEW S, NEW T, IsFiniteSet(S), IsFiniteSet(T),
           NEW m \in Nat, NEW n \in Nat, Cardinality(S) <= m, Cardinality(T) <= n
    PROVE  IsFiniteSet(S \cup T) /\ Cardinality(S \cup T) <= m + n
PROOF
  <1>1. IsFiniteSet(S \cup T) /\ IsFiniteSet(S \cap T)
    BY FS_Union, FS_Subset
  <1>2. /\ Cardinality(S) \in Nat /\ Cardinality(T) \in Nat
        /\ Cardinality(S \cap T) \in Nat /\ Cardinality(S \cup T) \in Nat
    BY <1>1, FS_CardinalityType
  <1>3. Cardinality(S \cup T) = Cardinality(S) + Cardinality(T) - Cardinality(S \cap T)
    BY FS_Union
  <1> QED BY <1>1, <1>2, <1>3

LEMMA SingletonCounted == \A x : IsFiniteSet({x}) /\ Cardinality({x}) = 1
    BY FS_Singleton

(* The plan of an adapter that searches. *)
LEMMA SearchPlanCounted ==
    ASSUME NEW a, a \notin Direct
    PROVE  LET c == Cardinality(Capacities)
               n == c * MaxResults
           IN  /\ c \in Nat /\ n \in Nat
               /\ IsFiniteSet(Plan(a))
               /\ Cardinality(Plan(a)) <=
                    c + (IF a \in RenderedSearch THEN c ELSE 0) + n
                    + (IF a \in RenderedProduct THEN n ELSE 0)
                    + (IF a \in PagedOffers THEN n * MaxOfferPages ELSE 0)
PROOF
  <1> DEFINE c == Cardinality(Capacities)
             n == c * MaxResults
             A == {Search(x) : x \in Capacities}
             B == IF a \in RenderedSearch THEN {RenderedSearchOf(x) : x \in Capacities} ELSE {}
             P == {Product(x, i) : x \in Capacities, i \in Slots}
             R == IF a \in RenderedProduct
                  THEN {RenderedProductOf(x, i) : x \in Capacities, i \in Slots} ELSE {}
             O == IF a \in PagedOffers
                  THEN {Offers(x, i, k) : x \in Capacities, i \in Slots, k \in OfferPages} ELSE {}
             b == IF a \in RenderedSearch THEN c ELSE 0
             r == IF a \in RenderedProduct THEN n ELSE 0
             o == IF a \in PagedOffers THEN n * MaxOfferPages ELSE 0
  <1>1. c \in Nat
    BY FS_CardinalityType, SearchCrawlAssumption
  <1>2. MaxResults \in Nat /\ MaxOfferPages \in Nat
    BY SearchCrawlAssumption
  <1>3. n \in Nat
    <2> HIDE DEF c
    <2> QED BY <1>1, <1>2
  <1>4. n * MaxOfferPages \in Nat
    <2> HIDE DEF n
    <2> QED BY <1>2, <1>3
  <1>5. Plan(a) \subseteq A \cup B \cup P \cup R \cup O
    <2> SUFFICES ASSUME NEW d \in Plan(a) PROVE d \in A \cup B \cup P \cup R \cup O
      OBVIOUS
    <2>1. /\ d \in Documents /\ d.cap # NoCapacity
          /\ d.kind = "rendered_search" => a \in RenderedSearch
          /\ d.kind = "rendered_product" => a \in RenderedProduct
          /\ d.kind = "offers" => a \in PagedOffers
      BY DEF Plan
    <2>2. CASE d.kind = "search"
      BY <2>1, <2>2, DocumentForm
    <2>3. CASE d.kind = "rendered_search"
      BY <2>1, <2>3, DocumentForm
    <2>4. CASE d.kind = "product"
      BY <2>1, <2>4, DocumentForm DEF Origins
    <2>5. CASE d.kind = "rendered_product"
      BY <2>1, <2>5, DocumentForm DEF Origins
    <2>6. CASE d.kind = "offers"
      BY <2>1, <2>6, DocumentForm DEF Origins
    <2> QED BY <2>1, <2>2, <2>3, <2>4, <2>5, <2>6, DocumentForm
  <1>6. /\ IsFiniteSet(A) /\ Cardinality(A) <= c
        /\ IsFiniteSet(B) /\ Cardinality(B) <= b
    BY SearchesCounted, FS_EmptySet
  <1>7. /\ IsFiniteSet(P) /\ Cardinality(P) <= n
        /\ IsFiniteSet(R) /\ Cardinality(R) <= r
        /\ IsFiniteSet(O) /\ Cardinality(O) <= o
    BY ProductsCounted, FS_EmptySet
  <1>8. b \in Nat /\ r \in Nat /\ o \in Nat
    <2> HIDE DEF c, n
    <2> QED BY <1>1, <1>3, <1>4
  <1> HIDE DEF c, n, A, B, P, R, O, b, r, o
  <1>9. /\ IsFiniteSet(A \cup B \cup P \cup R \cup O)
        /\ Cardinality(A \cup B \cup P \cup R \cup O) <= c + b + n + r + o
    <2>1. IsFiniteSet(A \cup B) /\ Cardinality(A \cup B) <= c + b
      BY <1>1, <1>6, <1>8, UnionBounded
    <2>2. c + b \in Nat /\ c + b + n \in Nat /\ c + b + n + r \in Nat
      BY <1>1, <1>3, <1>8
    <2>3. IsFiniteSet(A \cup B \cup P) /\ Cardinality(A \cup B \cup P) <= c + b + n
      BY <1>3, <1>7, <2>1, <2>2, UnionBounded
    <2>4. IsFiniteSet(A \cup B \cup P \cup R) /\ Cardinality(A \cup B \cup P \cup R) <= c + b + n + r
      BY <1>7, <1>8, <2>2, <2>3, UnionBounded
    <2> QED BY <1>7, <1>8, <2>2, <2>4, UnionBounded
  <1>10. IsFiniteSet(Plan(a)) /\ Cardinality(Plan(a)) <= Cardinality(A \cup B \cup P \cup R \cup O)
    BY <1>5, <1>9, FS_Subset
  <1>11. Cardinality(Plan(a)) <= c + b + n + r + o
    <2>1. Cardinality(Plan(a)) \in Nat /\ Cardinality(A \cup B \cup P \cup R \cup O) \in Nat
      BY <1>9, <1>10, FS_CardinalityType
    <2> QED BY <1>1, <1>3, <1>8, <1>9, <1>10, <2>1
  <1> QED BY <1>1, <1>3, <1>10, <1>11 DEF c, n, b, r, o

(* The plan of an adapter that starts from a product page. *)
LEMMA DirectPlanCounted ==
    ASSUME NEW a \in Direct
    PROVE  /\ IsFiniteSet(Plan(a))
           /\ Cardinality(Plan(a)) <= 1 + (IF a \in RenderedProduct THEN 1 ELSE 0)
PROOF
  <1> DEFINE P == {Product(NoCapacity, 1)}
             R == IF a \in RenderedProduct THEN {RenderedProductOf(NoCapacity, 1)} ELSE {}
             r == IF a \in RenderedProduct THEN 1 ELSE 0
  <1>1. a \notin PagedOffers
    BY DEF Direct, PagedOffers
  <1>2. Plan(a) \subseteq P \cup R
    <2> SUFFICES ASSUME NEW d \in Plan(a) PROVE d \in P \cup R
      OBVIOUS
    <2>1. /\ d \in Documents /\ d.cap = NoCapacity /\ d.slot = 1 /\ d.kind # "offers"
          /\ d.kind = "rendered_product" => a \in RenderedProduct
      BY <1>1 DEF Plan
    <2>2. d.kind \in {"product", "rendered_product"}
      BY <2>1, DocumentForm, SearchCrawlAssumption
    <2> QED BY <2>1, <2>2, DocumentForm
  <1>3. IsFiniteSet(P) /\ Cardinality(P) <= 1 /\ IsFiniteSet(R) /\ Cardinality(R) <= r /\ r \in Nat
    <2>1. IsFiniteSet(P) /\ Cardinality(P) = 1
      BY SingletonCounted
    <2>2. CASE a \in RenderedProduct
      <3>1. R = {RenderedProductOf(NoCapacity, 1)} /\ r = 1
        BY <2>2
      <3>2. IsFiniteSet(R) /\ Cardinality(R) = 1
        BY <3>1, SingletonCounted
      <3> HIDE DEF P, R, r
      <3> QED BY <2>1, <3>1, <3>2
    <2>3. CASE a \notin RenderedProduct
      <3>1. R = {} /\ r = 0
        BY <2>3
      <3>2. IsFiniteSet(R) /\ Cardinality(R) = 0
        BY <3>1, FS_EmptySet
      <3> HIDE DEF P, R, r
      <3> QED BY <2>1, <3>1, <3>2
    <2> QED BY <2>2, <2>3
  <1> HIDE DEF P, R, r
  <1>4. IsFiniteSet(P \cup R) /\ Cardinality(P \cup R) <= 1 + r
    BY <1>3, UnionBounded
  <1>5. IsFiniteSet(Plan(a)) /\ Cardinality(Plan(a)) <= Cardinality(P \cup R)
    BY <1>2, <1>4, FS_Subset
  <1>6. Cardinality(Plan(a)) \in Nat /\ Cardinality(P \cup R) \in Nat
    BY <1>4, <1>5, FS_CardinalityType
  <1> QED BY <1>3, <1>4, <1>5, <1>6 DEF r

LEMMA HostsCounted ==
    ASSUME NEW S \in SUBSET {"site", "api"}
    PROVE  Cardinality(S) \in Nat /\ Cardinality(S) <= 2 /\ ("api" \notin S => Cardinality(S) <= 1)
PROOF
  <1>1. /\ IsFiniteSet({"site"}) /\ Cardinality({"site"}) <= 1
        /\ IsFiniteSet({"api"}) /\ Cardinality({"api"}) <= 1
    <2>1. /\ IsFiniteSet({"site"}) /\ Cardinality({"site"}) = 1
          /\ IsFiniteSet({"api"}) /\ Cardinality({"api"}) = 1
      BY SingletonCounted
    <2> QED BY <2>1
  <1>2. IsFiniteSet({"site"} \cup {"api"}) /\ Cardinality({"site"} \cup {"api"}) <= 1 + 1
    BY <1>1, UnionBounded
  <1>3. IsFiniteSet(S) /\ Cardinality(S) <= Cardinality({"site"} \cup {"api"})
    <2>1. S \in SUBSET ({"site"} \cup {"api"})
      OBVIOUS
    <2> QED BY <1>2, <2>1, FS_Subset
  <1>4. ASSUME "api" \notin S
        PROVE  Cardinality(S) <= 1
    <2>1. S \in SUBSET {"site"}
      BY <1>4
    <2>2. Cardinality(S) <= Cardinality({"site"})
      BY <1>1, <2>1, FS_Subset
    <2> QED BY <1>1, <2>2, SingletonCounted
  <1>5. Cardinality(S) \in Nat /\ Cardinality({"site"} \cup {"api"}) \in Nat
    BY <1>2, <1>3, FS_CardinalityType
  <1> QED BY <1>2, <1>3, <1>4, <1>5

(* The responses a crawl counts stay within the plan its page budget was   *)
(* chosen for, for every number of capacities, results and offer pages.    *)
THEOREM BudgetCorrect == Spec => []PagesWithinPlan
PROOF
  <1>1. CrawlInv => PagesWithinPlan
    <2> SUFFICES ASSUME CrawlInv PROVE pages <= PlanSize(adapter)
      BY DEF PagesWithinPlan
    <2> DEFINE c == Cardinality(Capacities)
               n == c * MaxResults
               P == Plan(adapter)
               s == IF adapter \in RenderedSearch THEN 1 ELSE 0
               b == IF adapter \in RenderedProduct THEN 1 ELSE 0
               o == IF adapter \in PagedOffers THEN MaxOfferPages ELSE 0
               h == IF adapter \in PagedOffers THEN 2 ELSE 1
    <2>1. Ended \in SUBSET P
      BY DEF CrawlInv, AskedInPlan, Asked
    <2>2. IsFiniteSet(P)
      BY SearchPlanCounted, DirectPlanCounted
    <2>3. /\ Cardinality(Ended) <= Cardinality(P)
          /\ Cardinality(Ended) \in Nat /\ Cardinality(P) \in Nat
      BY <2>1, <2>2, FS_Subset, FS_CardinalityType
    <2>4. Cardinality(robots) <= h /\ Cardinality(robots) \in Nat
      BY HostsCounted DEF CrawlInv, TypeOK, HostsInPlan
    <2>5. pages <= h + Cardinality(P)
      <3>1. pages \in Nat /\ pages <= Cardinality(robots) + Cardinality(Ended)
        BY DEF CrawlInv, TypeOK, PagesCounted
      <3> HIDE DEF P
      <3> QED BY <3>1, <2>3, <2>4
    <2>6. MaxResults \in Nat /\ MaxOfferPages \in Nat
      BY SearchCrawlAssumption
    <2>7. CASE adapter \in Direct
      <3>1. adapter \notin PagedOffers
        BY <2>7 DEF Direct, PagedOffers
      <3>2. PlanSize(adapter) = 1 + (1 + b)
        BY <2>7, <3>1 DEF PlanSize
      <3>3. Cardinality(P) <= 1 + b
        BY <2>7, DirectPlanCounted
      <3> QED
        BY <2>3, <2>5, <3>1, <3>2, <3>3 DEF CrawlInv, TypeOK
    <2>8. CASE adapter \notin Direct
      <3>1. PlanSize(adapter) = h + c * (1 + s + MaxResults * (1 + b + o))
        BY <2>8, <2>6 DEF PlanSize
      <3>2. /\ c \in Nat /\ n \in Nat
            /\ Cardinality(P) <= c + (IF adapter \in RenderedSearch THEN c ELSE 0) + n
                    + (IF adapter \in RenderedProduct THEN n ELSE 0)
                    + (IF adapter \in PagedOffers THEN n * MaxOfferPages ELSE 0)
        BY <2>8, SearchPlanCounted
      <3> DEFINE m == MaxResults * (1 + b + o)
      <3>3. m = MaxResults + MaxResults * b + MaxResults * o
        BY <2>6
      <3>4. c * (1 + s + m) = c + c * s + c * m
        <4>1. m \in Nat
          BY <2>6
        <4> HIDE DEF m, c
        <4> QED BY <3>2, <4>1
      <3>5. c * m = n + n * b + n * o
        <4>1. b \in Nat /\ o \in Nat
          BY <2>6
        <4> HIDE DEF m, c, b, o
        <4> QED BY <2>6, <3>2, <3>3, <4>1
      <3>6. /\ c * s = IF adapter \in RenderedSearch THEN c ELSE 0
            /\ n * b = IF adapter \in RenderedProduct THEN n ELSE 0
            /\ n * o = IF adapter \in PagedOffers THEN n * MaxOfferPages ELSE 0
        <4> HIDE DEF c, n
        <4> QED BY <3>2, <2>6
      <3>7. c * s \in Nat /\ n * b \in Nat /\ n * o \in Nat
        <4> HIDE DEF c, n
        <4>1. n * MaxOfferPages \in Nat
          BY <3>2, <2>6
        <4> QED BY <3>2, <3>6, <4>1
      <3> HIDE DEF P, c, n, m, s, b, o
      <3>8. Cardinality(P) <= c * (1 + s + m)
        BY <3>2, <3>4, <3>5, <3>6, <3>7, <2>3
      <3>9. PlanSize(adapter) = h + c * (1 + s + m)
        BY <3>1 DEF m
      <3> QED BY <2>3, <2>5, <3>2, <3>4, <3>5, <3>7, <3>8, <3>9 DEF CrawlInv, TypeOK
    <2> QED BY <2>7, <2>8
  <1> QED BY <1>1, CrawlInvariant, PTL
-----------------------------------------------------------------------------
(* The waits that servers ask for. *)

(* Who owes a wait has a request that is still to sleep, if it has one. *)
OwedWaits ==
    /\ owed \subseteq Asked
    /\ \A r \in Live : r.doc \in owed => r.wait > 0

WaitInv == CrawlInv /\ OwedWaits

LEMMA RetryOwes ==
    ASSUME WaitInv, NEW r \in active, NEW asked \in AskedDelays \cup {0}, RetryLater(r, asked)
    PROVE  OwedWaits'
PROOF
  <1> USE DEF WaitInv, CrawlInv
  <1> DEFINE wait == IF asked > MaxDelay THEN MaxDelay ELSE asked
             q == [r EXCEPT !.tries = @ + 1, !.wait = wait]
  <1>1. r \in Requests /\ r.doc \in Documents /\ r.wait = 0 /\ r \in Live
    BY DEF TypeOK, RetryLater, InHand, Requests, Live
  <1>2. q.doc = r.doc /\ q.wait = wait
    BY <1>1 DEF Requests
  <1>3. asked > 0 => wait > 0
    BY SearchCrawlAssumption
  <1> HIDE DEF q, wait
  <1>4. queue' = queue \cup {q} /\ active' = active \ {r} /\ fate' = fate
    BY DEF RetryLater, q, wait
  <1>5. owed' = IF asked > 0 THEN owed \cup {r.doc} ELSE owed
    BY DEF RetryLater
  <1>6. q \notin Live \ {r}
    BY <1>1, <1>2, OtherRequest
  <1>7. Asked' = Asked /\ r.doc \in Asked
    BY <1>1, <1>2, <1>4, <1>6, Moved DEF Asked, Live
  <1>8. r.doc \notin owed
    BY <1>1 DEF OwedWaits
  <1>9. ASSUME NEW x \in Live', x.doc \in owed' PROVE x.wait > 0
    <2>1. CASE x = q
      BY <1>2, <1>3, <1>5, <1>8, <1>9, <2>1
    <2>2. CASE x # q
      <3>1. x \in Live /\ x # r
        BY <1>4, <1>9, <2>2 DEF Live, OneRequestEach
      <3>2. x.doc # r.doc
        BY <1>1, <3>1 DEF OneRequestEach, Live
      <3>3. x.doc \in owed
        BY <1>5, <1>9, <3>2
      <3> QED BY <3>1, <3>3 DEF OwedWaits
    <2> QED BY <2>1, <2>2
  <1> QED BY <1>5, <1>7, <1>9 DEF OwedWaits

LEMMA WaitStep ==
    ASSUME WaitInv, [Next]_vars
    PROVE  OwedWaits'
PROOF
  <1> USE DEF WaitInv, CrawlInv
  <1>1. CASE Start
    <2>1. owed' = {}
      BY <1>1 DEF Start, NothingBeforeStart, OwedWaits
    <2> QED BY <2>1 DEF OwedWaits
  <1>2. ASSUME NEW r \in queue, Send(r)
        PROVE  OwedWaits'
    <2>1. Live' = Live /\ fate' = fate /\ owed' = owed
      BY <1>2 DEF Send, Live
    <2>2. Asked' = Asked
      BY <2>1 DEF Asked, Ended, Live
    <2> QED BY <2>1, <2>2 DEF OwedWaits
  <1>3. ASSUME NEW r \in active, Wake(r)
        PROVE  OwedWaits'
    <2> DEFINE q == [r EXCEPT !.wait = 0]
    <2>1. q.doc = r.doc
      BY DEF TypeOK, Requests
    <2> HIDE DEF q
    <2>2. /\ queue' = queue /\ active' = (active \ {r}) \cup {q} /\ fate' = fate
          /\ owed' = owed \ {r.doc}
      BY <1>3 DEF Wake, q
    <2>3. r \in Live /\ queue = queue \ {r} /\ q \notin Live \ {r}
      BY <2>1, OtherRequest DEF Live, OneRequestEach
    <2>4. Asked' = Asked
      BY <2>1, <2>2, <2>3, Moved
    <2>5. \A x \in Live' : x \in Live \/ x.doc = r.doc
      BY <2>1, <2>2 DEF Live
    <2> QED BY <2>2, <2>4, <2>5 DEF OwedWaits
  <1>4. ASSUME NEW r \in active, NEW p \in Pages, Redirected(r, p)
        PROVE  OwedWaits'
    <2> DEFINE q == [r EXCEPT !.page = p]
    <2>1. q.doc = r.doc /\ r.doc \in Documents /\ r \in Live
      BY DEF TypeOK, Requests, Live
    <2>2. r.doc \notin owed
      BY <1>4, <2>1 DEF Redirected, InHand, OwedWaits
    <2> HIDE DEF q
    <2>3. /\ active' = active \ {r} /\ owed' = owed
          /\ \/ queue' = queue /\ fate' = [fate EXCEPT ![r.doc] = "failed"]
             \/ queue' = queue \cup {q} /\ fate' = fate
      BY <1>4, RedirectMoves DEF Redirected, q
    <2>4. Asked \subseteq Asked'
      <3>1. Ended \subseteq Ended'
        BY <2>3 DEF Ended, TypeOK
      <3>2. r.doc \in Asked'
        BY <2>1, <2>3 DEF Asked, Ended, TypeOK
      <3> QED BY <2>3, <3>1, <3>2 DEF Asked
    <2>5. \A x \in Live' : x \in Live \/ x.doc = r.doc
      BY <2>1, <2>3 DEF Live
    <2> QED BY <2>2, <2>3, <2>4, <2>5 DEF OwedWaits
  <1>5. ASSUME NEW r \in active, Lost(r)
        PROVE  OwedWaits'
    <2>1. r.doc \in Documents /\ fate' = [fate EXCEPT ![r.doc] = "failed"]
      BY <1>5 DEF Lost, TypeOK, Requests
    <2>2. queue' = queue /\ active' = active \ {r} /\ owed' = owed
      BY <1>5 DEF Lost
    <2>3. Ended \subseteq Ended' /\ r.doc \in Ended'
      BY <2>1 DEF Ended, TypeOK
    <2>4. Asked \subseteq Asked'
      BY <2>2, <2>3 DEF Asked
    <2>5. Live' \subseteq Live
      BY <2>2 DEF Live
    <2> QED BY <2>2, <2>4, <2>5 DEF OwedWaits
  <1>6. ASSUME TimeUp \/ Finish \/ UNCHANGED vars
        PROVE  OwedWaits'
    BY <1>6 DEF TimeUp, Finish, vars, OwedWaits, Asked, Ended, Live
  <1>7. ASSUME NEW r \in active,
               \/ ParseSearch(r) \/ ParseProduct(r) \/ ParseBrowserProduct(r) \/ ParseOffers(r)
               \/ Refused(r)
        PROVE  OwedWaits'
    <2>1. PICK f, fresh, again : Expansion(r, f, fresh, again) /\ Handled(r, f, fresh, again)
      BY <1>7, AnswerExpands
    <2>2. PICK added \in SUBSET (fresh \cup again) :
              /\ queue' = queue \cup added /\ active' = active \ {r}
              /\ Asked' = Asked \cup {q.doc : q \in added}
              /\ \A q \in added : q.doc \in Documents \ Asked
      BY <2>1, AnswerEffect
    <2>3. owed' = owed
      BY <2>1 DEF Handled
    <2>4. \A x \in Live' : x \in Live \/ x.doc \notin owed
      BY <2>2 DEF Live, OwedWaits
    <2> QED BY <2>2, <2>3, <2>4 DEF OwedWaits
  <1> QED BY <1>1, <1>2, <1>3, <1>4, <1>5, <1>6, <1>7, RetryOwes DEF Next, Answer

(* No answer is taken from a server that is owed a wait: the request that  *)
(* repeats a 429 carries its wait from the scheduler on, and no other one  *)
(* for the document exists (RetryAfterMiddleware).                         *)
THEOREM WaitsKept == Spec => WaitIsKept
PROOF
  <1>1. Init => WaitInv
    <2> SUFFICES ASSUME Init PROVE OwedWaits /\ CrawlInv
      BY DEF WaitInv
    <2>1. OwedWaits
      BY DEF Init, OwedWaits
    <2>2. CrawlInv
      BY CrawlInit
    <2> QED BY <2>1, <2>2
  <1>2. WaitInv /\ [Next]_vars => WaitInv'
    BY CrawlStep, WaitStep DEF WaitInv
  <1>3. WaitInv /\ [Next]_vars =>
            [\A d \in owed :
                d \notin owed' \/ \A r \in active : r.doc = d => r.wait > 0 \/ r \in active']_vars
    BY DEF WaitInv, OwedWaits, Live
  <1> QED BY <1>1, <1>2, <1>3, PTL DEF Spec, WaitIsKept
-----------------------------------------------------------------------------
(* What a crawl has to show for the pages it asked for. *)

Shown == \E d \in Documents : fate[d] \in {"recorded", "failed", "silent"}

(* A page was asked for as a product, or a search was redirected to one. *)
ProductInHand ==
    \/ \E d \in Asked : d.kind = "product"
    \/ \E r \in Live : r.doc.kind = "search" /\ r.page # NoPage

OffersInHand == \E d \in Asked : d.kind = "offers"

(* Whatever was followed, or is in the duplicate filter, has led on. *)
LedOn ==
    /\ \A d \in Ended : fate[d] = "followed" =>
        \/ d.kind \in {"search", "rendered_search"} /\ ProductInHand
        \/ d.kind = "product" /\ OffersInHand
    /\ \A u \in seen : IF u[2] = 0 THEN ProductInHand ELSE OffersInHand

(* A page that lacked the evidence has its second look asked for. *)
LookedAgain ==
    \A d \in Ended : fate[d] = "lacking" =>
        d.kind \in {"search", "product"} /\ Children(d, "lacking") \subseteq Asked

OutcomeInv ==
    /\ CrawlInv /\ LookedAgain
    /\ Shown \/ LedOn
    /\ robots # {} => Asked # {}
    /\ crawl = "finished" => Live = {}

(* A step that ends no document keeps all of it. *)
LEMMA QuietLeads ==
    ASSUME TypeOK, LookedAgain, Shown \/ LedOn, Asked \subseteq Asked', fate' = fate,
           \A u \in seen' \ seen : u[2] = 0 /\ ProductInHand',
           \A r \in Live : r.page # NoPage => \E q \in Live' : q.doc = r.doc /\ q.page # NoPage
    PROVE  LookedAgain' /\ (Shown' \/ LedOn')
PROOF
  <1>1. Ended' = Ended
    BY DEF Ended
  <1>2. LookedAgain'
    BY <1>1 DEF LookedAgain, Children
  <1>3. Shown => Shown'
    BY DEF Shown
  <1>4. ProductInHand => ProductInHand'
    <2>1. ASSUME NEW r \in Live, r.doc.kind = "search", r.page # NoPage PROVE ProductInHand'
      <3>1. PICK q \in Live' : q.doc = r.doc /\ q.page # NoPage
        BY <2>1
      <3>2. q.doc.kind = "search"
        BY <2>1, <3>1
      <3> QED BY <3>1, <3>2 DEF ProductInHand
    <2>2. (\E d \in Asked : d.kind = "product") => ProductInHand'
      BY DEF ProductInHand
    <2> QED BY <2>1, <2>2 DEF ProductInHand
  <1>5. OffersInHand => OffersInHand'
    BY DEF OffersInHand
  <1>6. LedOn => LedOn'
    BY <1>1, <1>4, <1>5 DEF LedOn
  <1> QED BY <1>2, <1>3, <1>6

(* A document that ends as failed is something to show. *)
LEMMA FailureShows ==
    ASSUME TypeOK, LookedAgain, NEW r \in active, Asked \subseteq Asked',
           fate' = [fate EXCEPT ![r.doc] = "failed"]
    PROVE  LookedAgain' /\ Shown'
PROOF
  <1>1. r.doc \in Documents
    BY DEF TypeOK, Requests
  <1>2. fate'[r.doc] = "failed" /\ \A d \in Documents : d # r.doc => fate'[d] = fate[d]
    BY <1>1 DEF TypeOK
  <1>3. Shown'
    BY <1>1, <1>2 DEF Shown
  <1>4. \A d \in Ended' : fate'[d] = "lacking" => d \in Ended /\ fate[d] = "lacking"
    BY <1>2 DEF Ended
  <1>5. LookedAgain'
    BY <1>4 DEF LookedAgain, Children
  <1> QED BY <1>3, <1>5

(* A callback asks for what its answer leads to, or it was asked before. *)
LEMMA AnswerLeads ==
    ASSUME CrawlInv, LookedAgain, Shown \/ LedOn, NEW r \in active, NEW f, NEW fresh, NEW again,
           Expansion(r, f, fresh, again), Handled(r, f, fresh, again)
    PROVE  LookedAgain' /\ (Shown' \/ LedOn')
PROOF
  <1> USE DEF CrawlInv
  <1> DEFINE added == {q \in fresh : Url(q) \notin seen} \cup again
  <1>1. /\ r \in Requests /\ r.doc \in Documents /\ r.doc \notin Ended
        /\ fate' = [fate EXCEPT ![r.doc] = f] /\ f \in Fates \ {"pending"}
    BY DEF TypeOK, Requests, OneRequestEach, Handled, Expansion
  <1>2. /\ fate'[r.doc] = f /\ \A d \in Documents : d # r.doc => fate'[d] = fate[d]
        /\ Ended' = Ended \cup {r.doc}
    BY <1>1 DEF TypeOK, Ended
  <1>3. /\ queue' = queue \cup added /\ active' = active \ {r}
        /\ seen' = seen \cup {Url(q) : q \in {q \in fresh : Url(q) \notin seen}}
    BY DEF Handled
  <1>4. Asked \subseteq Asked' /\ \A q \in added : q.doc \in Asked'
    BY <1>2, <1>3 DEF Asked
  <1>5. again \subseteq added /\ added \subseteq fresh \cup again
    OBVIOUS
  <1>6. \A q \in fresh : Url(q) \in seen \/ q \in added
    OBVIOUS
  <1> HIDE DEF added
  <1>7. LookedAgain'
    <2>1. ASSUME f = "lacking"
          PROVE  r.doc.kind \in {"search", "product"} /\ Children(r.doc, "lacking") \subseteq Asked'
      <3>1. r.doc.kind \in {"search", "product"}
        BY <2>1 DEF Expansion
      <3>2. PICK q \in again : q.doc \in Children(r.doc, "lacking")
        BY <2>1 DEF Expansion
      <3>3. Children(r.doc, "lacking") = {q.doc}
        BY <3>1, <3>2 DEF Children
      <3> QED BY <1>4, <1>5, <3>1, <3>2, <3>3
    <2>2. \A d \in Ended : fate'[d] = fate[d]
      BY <1>1, <1>2 DEF Ended
    <2> QED BY <1>2, <1>4, <2>1, <2>2 DEF LookedAgain, Children
  <1>8. CASE f \in {"recorded", "failed", "silent"}
    BY <1>1, <1>2, <1>7, <1>8 DEF Shown
  <1>9. CASE Shown
    <2>1. Shown'
      <3>1. PICK d \in Documents : fate[d] \in {"recorded", "failed", "silent"}
        BY <1>9 DEF Shown
      <3>2. d # r.doc
        BY <1>1, <3>1 DEF Ended
      <3> QED BY <1>2, <3>1, <3>2 DEF Shown
    <2> QED BY <1>7, <2>1
  <1>10. CASE LedOn /\ f \in {"followed", "lacking"}
    <2>1. \A q \in fresh \cup again : q.doc \in Documents /\ q.doc \in Children(r.doc, f)
      BY DEF Expansion, Requests
    <2>2. ASSUME r.doc.kind \in {"search", "rendered_search"}, f = "followed",
                 NEW q \in fresh \cup again
          PROVE  q.doc.kind = "product"
      <3>1. \E i \in Slots : q.doc = Product(r.doc.cap, i)
        BY <2>1, <2>2 DEF Children
      <3> QED BY <3>1 DEF Product
    <2>3. ASSUME r.doc.kind = "product", f = "followed", NEW q \in fresh \cup again
          PROVE  q.doc.kind = "offers" /\ q.doc.nth = 1
      <3>1. q.doc = Offers(r.doc.cap, r.doc.slot, 1)
        BY <2>1, <2>3 DEF Children
      <3> QED BY <3>1 DEF Offers
    <2>4. ProductInHand => ProductInHand'
      <3>1. CASE \E d \in Asked : d.kind = "product"
        BY <1>4, <3>1 DEF ProductInHand
      <3>2. ASSUME NEW x \in Live, x.doc.kind = "search", x.page # NoPage PROVE ProductInHand'
        <4>1. CASE x = r
          <5>1. f = "followed" /\ again # {}
            BY <1>10, <3>2, <4>1 DEF Expansion
          <5>2. PICK q \in again : q.doc.kind = "product"
            BY <2>2, <3>2, <4>1, <5>1
          <5> QED BY <1>4, <1>5, <5>2 DEF ProductInHand
        <4>2. CASE x # r
          BY <1>3, <3>2, <4>2 DEF ProductInHand, Live
        <4> QED BY <4>1, <4>2
      <3> QED BY <3>1, <3>2 DEF ProductInHand
    <2>5. OffersInHand => OffersInHand'
      BY <1>4 DEF OffersInHand
    <2>6. ASSUME NEW q \in fresh
          PROVE  Url(q)[2] = 0 <=> q.doc.kind = "product"
      <3>1. q.doc \in Documents /\ q.doc.kind \in {"product", "offers"}
        BY <2>1, <2>6 DEF Expansion
      <3>2. q.doc.kind = "offers" => q.doc.nth # 0
        BY <3>1, DocumentForm DEF OfferPages
      <3> QED BY <3>1, <3>2 DEF Url, OffersUrl, ProductUrl
    <2>7. \A u \in seen' : IF u[2] = 0 THEN ProductInHand' ELSE OffersInHand'
      <3>1. ASSUME NEW u \in seen PROVE IF u[2] = 0 THEN ProductInHand' ELSE OffersInHand'
        BY <1>10, <2>4, <2>5 DEF LedOn
      <3>2. ASSUME NEW q \in fresh, Url(q) \notin seen
            PROVE  IF Url(q)[2] = 0 THEN ProductInHand' ELSE OffersInHand'
        <4>1. q.doc \in Asked' /\ q.doc.kind \in {"product", "offers"}
          BY <1>4, <1>6, <3>2 DEF Expansion
        <4> QED BY <2>6, <4>1 DEF ProductInHand, OffersInHand
      <3> QED BY <1>3, <3>1, <3>2
    <2>8. ASSUME f = "followed"
          PROVE  \/ r.doc.kind \in {"search", "rendered_search"} /\ ProductInHand'
                 \/ r.doc.kind = "product" /\ OffersInHand'
      <3>1. PICK q \in fresh \cup again : q.doc \in Children(r.doc, "followed")
        BY <2>1, <2>8 DEF Expansion
      <3>2. r.doc.kind \in {"search", "rendered_search", "product"}
        BY <3>1 DEF Children
      <3>3. q \in added \/ (q \in fresh /\ Url(q) \in seen)
        BY <1>5, <1>6
      <3>4. CASE r.doc.kind = "product"
        <4>1. q.doc.kind = "offers"
          BY <2>3, <2>8, <3>4
        <4>2. CASE q \in added
          BY <1>4, <3>4, <4>1, <4>2 DEF OffersInHand
        <4>3. CASE q \in fresh /\ Url(q) \in seen
          BY <2>6, <2>7, <1>3, <3>4, <4>1, <4>3
        <4> QED BY <3>3, <4>2, <4>3
      <3>5. CASE r.doc.kind # "product"
        <4>1. q.doc.kind = "product"
          BY <2>2, <2>8, <3>2, <3>5
        <4>2. CASE q \in added
          BY <1>4, <3>2, <3>5, <4>1, <4>2 DEF ProductInHand
        <4>3. CASE q \in fresh /\ Url(q) \in seen
          BY <2>6, <2>7, <1>3, <3>2, <3>5, <4>1, <4>3
        <4> QED BY <3>3, <4>2, <4>3
      <3> QED BY <3>4, <3>5
    <2>9. \A d \in Ended : fate'[d] = fate[d]
      BY <1>1, <1>2 DEF Ended
    <2>10. \A d \in Ended' : fate'[d] = "followed" =>
              \/ d.kind \in {"search", "rendered_search"} /\ ProductInHand'
              \/ d.kind = "product" /\ OffersInHand'
      BY <1>2, <1>10, <2>4, <2>5, <2>8, <2>9 DEF LedOn
    <2>11. LedOn'
      BY <2>7, <2>10 DEF LedOn
    <2> QED BY <1>7, <2>11
  <1> QED BY <1>1, <1>8, <1>9, <1>10 DEF Fates

LEMMA StartLeads ==
    ASSUME OutcomeInv, Start
    PROVE  LookedAgain' /\ (Shown' \/ LedOn')
PROOF
  <1> USE DEF OutcomeInv, CrawlInv
  <1>1. Asked = {} /\ Ended = {} /\ Live = {}
    BY DEF Start, NothingBeforeStart, Asked, Live
  <1>2. Ended' = {}
    BY <1>1 DEF Start, Ended
  <1>3. seen = {}
    <2>1. LedOn
      BY <1>1 DEF Shown, Ended
    <2> QED BY <1>1, <2>1 DEF LedOn, ProductInHand, OffersInHand
  <1>4. ASSUME NEW p \in Pages, queue' = {Ask(Product(NoCapacity, 1), p)}, seen' = {ProductUrl(p)}
        PROVE  \A u \in seen' : IF u[2] = 0 THEN ProductInHand' ELSE OffersInHand'
    <2>1. Ask(Product(NoCapacity, 1), p).doc.kind = "product"
      BY DEF Ask, Product
    <2>2. ProductInHand'
      BY <1>4, <2>1 DEF ProductInHand, Asked
    <2> QED BY <1>4, <2>2 DEF ProductUrl
  <1>5. \A u \in seen' : IF u[2] = 0 THEN ProductInHand' ELSE OffersInHand'
    <2>1. seen' = {} \/ \E p \in Pages : /\ queue' = {Ask(Product(NoCapacity, 1), p)}
                                         /\ seen' = {ProductUrl(p)}
      BY <1>3 DEF Start
    <2> QED BY <1>4, <2>1
  <1> QED BY <1>2, <1>5 DEF LedOn, LookedAgain

LEMMA RedirectLeads ==
    ASSUME OutcomeInv, NEW r \in active, NEW p \in Pages, Redirected(r, p), Asked \subseteq Asked'
    PROVE  LookedAgain' /\ (Shown' \/ LedOn')
PROOF
  <1> USE DEF OutcomeInv, CrawlInv
  <1>1. r \in Requests /\ r.doc.kind = "search" /\ r.page = NoPage /\ p # NoPage
    BY SearchCrawlAssumption DEF Redirected, TypeOK
  <1> DEFINE q == [r EXCEPT !.page = p]
  <1>2. q.doc.kind = "search" /\ q.page # NoPage
    BY <1>1 DEF Requests
  <1> HIDE DEF q
  <1>3. CASE fate' = [fate EXCEPT ![r.doc] = "failed"]
    BY <1>3, FailureShows
  <1>4. CASE queue' = queue \cup {q} /\ active' = active \ {r} /\ fate' = fate
    <2>1. q \in Live' /\ \A x \in Live : x.page # NoPage => x \in Live'
      BY <1>1, <1>4 DEF Live
    <2>2. ProductInHand'
      BY <1>2, <2>1 DEF ProductInHand
    <2>3. \A u \in seen' \ seen : u[2] = 0
      BY DEF Redirected, ProductUrl
    <2> QED BY <1>4, <2>1, <2>2, <2>3, QuietLeads
  <1> QED BY <1>3, <1>4, RedirectMoves DEF q

(* Nothing that was asked for is forgotten; what is sent was asked for; a  *)
(* crawl that is finished has nothing left.                                *)
LEMMA OutcomeRest ==
    ASSUME OutcomeInv, [Next]_vars
    PROVE  /\ Asked \subseteq Asked'
           /\ robots' # {} => Asked' # {}
           /\ crawl' = "finished" => Live' = {}
PROOF
  <1> USE DEF OutcomeInv, CrawlInv
  <1>1. CASE Start
    <2>1. Asked = {} /\ Live = {} /\ robots' = {} /\ crawl' = "running"
      BY <1>1 DEF Start, NothingBeforeStart, Asked, Live
    <2> QED BY <2>1
  <1>2. ASSUME NEW r \in queue, Send(r)
        PROVE  Asked \subseteq Asked' /\ Asked' # {} /\ crawl' # "finished"
    <2>1. Live' = Live /\ fate' = fate /\ crawl' # "finished" /\ r \in Live
      BY <1>2 DEF Send, Live, Count
    <2> QED BY <2>1 DEF Asked, Ended, Live
  <1>3. ASSUME NEW r \in active, NEW q, q.doc = r.doc,
               \/ queue' = queue /\ active' = (active \ {r}) \cup {q}
               \/ queue' = queue \cup {q} /\ active' = active \ {r},
               fate' = fate
        PROVE  Asked \subseteq Asked'
    <2>1. Ended' = Ended
      BY <1>3 DEF Ended
    <2> QED BY <1>3, <2>1 DEF Asked
  <1>4. ASSUME NEW r \in active, queue \subseteq queue', active \ {r} \subseteq active',
               NEW f \in Fates \ {"pending"}, fate' = [fate EXCEPT ![r.doc] = f]
        PROVE  Asked \subseteq Asked'
    <2>1. r.doc \in Documents
      BY DEF TypeOK, Requests
    <2>2. Ended \subseteq Ended' /\ r.doc \in Ended'
      BY <1>4, <2>1 DEF Ended, TypeOK
    <2> QED BY <1>4, <2>2 DEF Asked
  <1>5. ASSUME NEW r \in active, Wake(r) PROVE Asked \subseteq Asked'
    <2>1. [r EXCEPT !.wait = 0].doc = r.doc
      BY DEF TypeOK, Requests
    <2> QED BY <1>3, <1>5, <2>1 DEF Wake
  <1>6. ASSUME NEW r \in active, NEW asked \in AskedDelays \cup {0}, RetryLater(r, asked)
        PROVE  Asked \subseteq Asked'
    <2> DEFINE wait == IF asked > MaxDelay THEN MaxDelay ELSE asked
               q == [r EXCEPT !.tries = @ + 1, !.wait = wait]
    <2>1. q.doc = r.doc
      BY DEF TypeOK, Requests
    <2>2. queue' = queue \cup {q} /\ active' = active \ {r} /\ fate' = fate
      BY <1>6 DEF RetryLater
    <2> HIDE DEF q
    <2> QED BY <1>3, <2>1, <2>2
  <1>7. ASSUME NEW r \in active, NEW p \in Pages, Redirected(r, p) PROVE Asked \subseteq Asked'
    <2> DEFINE q == [r EXCEPT !.page = p]
    <2>1. q.doc = r.doc
      BY DEF TypeOK, Requests
    <2> HIDE DEF q
    <2>2. active' = active \ {r} /\ queue \subseteq queue'
      BY <1>7 DEF Redirected
    <2> QED BY <1>3, <1>4, <1>7, <2>1, <2>2, RedirectMoves DEF q, Fates
  <1>8. ASSUME NEW r \in active, Lost(r) PROVE Asked \subseteq Asked'
    BY <1>4, <1>8 DEF Lost, Fates
  <1>9. ASSUME NEW r \in active,
               \/ ParseSearch(r) \/ ParseProduct(r) \/ ParseBrowserProduct(r) \/ ParseOffers(r)
               \/ Refused(r)
        PROVE  Asked \subseteq Asked' /\ (crawl' = crawl \/ crawl' = "closing") /\ robots' = robots
    <2>1. PICK f, fresh, again : Expansion(r, f, fresh, again) /\ Handled(r, f, fresh, again)
      BY <1>9, AnswerExpands
    <2> QED BY <1>4, <2>1 DEF Handled, Expansion, Count
  <1>10. ASSUME NEW r \in active, \/ Wake(r) \/ Lost(r)
                                  \/ \E asked \in AskedDelays \cup {0} : RetryLater(r, asked)
                                  \/ \E p \in Pages : Redirected(r, p)
         PROVE  Asked \subseteq Asked' /\ crawl' = crawl /\ robots' = robots
    BY <1>5, <1>6, <1>7, <1>8, <1>10 DEF Wake, Lost, RetryLater, Redirected
  <1>11. ASSUME NEW r \in active, Wake(r) \/ Answer(r)
         PROVE  Asked \subseteq Asked' /\ (crawl' = crawl \/ crawl' = "closing") /\ robots' = robots
    BY <1>9, <1>10, <1>11 DEF Answer
  <1>12. (\E r \in active : Wake(r) \/ Answer(r)) => crawl' # "finished"
    <2>1. (\E r \in active : TRUE) => crawl # "finished"
      BY DEF Live
    <2> QED BY <1>11, <2>1
  <1>13. CASE TimeUp \/ Finish \/ UNCHANGED vars
    <2>1. Asked' = Asked /\ robots' = robots /\ Live' = Live
      BY <1>13 DEF TimeUp, Finish, vars, Asked, Ended, Live
    <2>2. crawl' = "finished" => Live = {}
      BY <1>13 DEF TimeUp, Finish, vars, Live
    <2> QED BY <2>1, <2>2
  <1> QED BY <1>1, <1>2, <1>11, <1>12, <1>13 DEF Next

LEMMA OutcomeStep ==
    ASSUME OutcomeInv, [Next]_vars
    PROVE  OutcomeInv'
PROOF
  <1> USE DEF OutcomeInv
  <1> DEFINE Goal == LookedAgain' /\ (Shown' \/ LedOn')
  <1>1. CrawlInv'
    BY CrawlStep
  <1>2. Asked \subseteq Asked'
    BY OutcomeRest
  <1>3. ASSUME Start PROVE Goal
    BY <1>3, StartLeads
  <1>4. ASSUME fate' = fate, seen' = seen, Live \subseteq Live' PROVE Goal
    BY <1>2, <1>4, QuietLeads DEF CrawlInv
  <1>5. ASSUME NEW r \in queue, Send(r) PROVE Goal
    BY <1>4, <1>5 DEF Send, Live
  <1>6. ASSUME NEW r \in active, NEW q, q.doc = r.doc, q.page = r.page,
               \/ queue' = queue /\ active' = (active \ {r}) \cup {q}
               \/ queue' = queue \cup {q} /\ active' = active \ {r},
               fate' = fate, seen' = seen
        PROVE  Goal
    <2>1. \A x \in Live : \E y \in Live' : y.doc = x.doc /\ y.page = x.page
      BY <1>6 DEF Live
    <2>2. \A x \in Live : x.page # NoPage => \E y \in Live' : y.doc = x.doc /\ y.page # NoPage
      BY <2>1
    <2> QED BY <1>2, <1>6, <2>2, QuietLeads DEF CrawlInv
  <1>7. ASSUME NEW r \in active, Wake(r) PROVE Goal
    <2> DEFINE q == [r EXCEPT !.wait = 0]
    <2>1. q.doc = r.doc /\ q.page = r.page
      BY DEF CrawlInv, TypeOK, Requests
    <2>2. queue' = queue /\ active' = (active \ {r}) \cup {q} /\ fate' = fate /\ seen' = seen
      BY <1>7 DEF Wake
    <2> HIDE DEF q, Goal
    <2> QED BY <1>6, <2>1, <2>2
  <1>8. ASSUME NEW r \in active, NEW asked \in AskedDelays \cup {0}, RetryLater(r, asked) PROVE Goal
    <2> DEFINE wait == IF asked > MaxDelay THEN MaxDelay ELSE asked
               q == [r EXCEPT !.tries = @ + 1, !.wait = wait]
    <2>1. q.doc = r.doc /\ q.page = r.page
      BY DEF CrawlInv, TypeOK, Requests
    <2>2. queue' = queue \cup {q} /\ active' = active \ {r} /\ fate' = fate /\ seen' = seen
      BY <1>8 DEF RetryLater
    <2> HIDE DEF q, Goal
    <2> QED BY <1>6, <2>1, <2>2
  <1>9. ASSUME NEW r \in active, NEW p \in Pages, Redirected(r, p) PROVE Goal
    BY <1>2, <1>9, RedirectLeads
  <1>10. ASSUME NEW r \in active, Lost(r) PROVE Goal
    BY <1>2, <1>10, FailureShows DEF CrawlInv, Lost
  <1>11. ASSUME NEW r \in active,
                \/ ParseSearch(r) \/ ParseProduct(r) \/ ParseBrowserProduct(r) \/ ParseOffers(r)
                \/ Refused(r)
         PROVE  Goal
    <2>1. PICK f, fresh, again : Expansion(r, f, fresh, again) /\ Handled(r, f, fresh, again)
      BY <1>11, AnswerExpands DEF CrawlInv
    <2> QED BY <2>1, AnswerLeads
  <1>12. ASSUME TimeUp \/ Finish \/ UNCHANGED vars PROVE Goal
    BY <1>4, <1>12 DEF TimeUp, Finish, vars, Live
  <1> HIDE DEF Goal
  <1>13. Goal
    BY <1>3, <1>5, <1>7, <1>8, <1>9, <1>10, <1>11, <1>12 DEF Next, Answer, Goal
  <1> QED BY <1>1, <1>13, OutcomeRest DEF Goal

(* A crawl that was not cut has an outcome for every page it asked the     *)
(* browser for, and a page with an outcome if it asked for any: following  *)
(* ends at one, since a document is asked for after what leads to it.      *)
THEOREM OutcomesCorrect == Spec => []NothingIsForgotten
PROOF
  <1>1. Init => OutcomeInv
    <2> SUFFICES ASSUME Init PROVE OutcomeInv
      OBVIOUS
    <2>1. Ended = {}
      BY DEF Init, Ended
    <2> QED BY <2>1, CrawlInit DEF Init, OutcomeInv, LookedAgain, LedOn
  <1>2. OutcomeInv => NothingIsForgotten
    <2> SUFFICES ASSUME OutcomeInv, crawl = "finished" PROVE NothingIsForgotten
      BY DEF NothingIsForgotten
    <2> USE DEF OutcomeInv
    <2>1. Asked = Ended /\ Live = {}
      BY DEF Asked, Live
    <2>2. ASSUME NEW d \in Documents, Rendered(d), fate[HttpDocument(d)] = "lacking"
          PROVE  fate[d] # "pending"
      <3>1. d \in Children(HttpDocument(d), "lacking")
        BY <2>2, DocumentForm
           DEF Rendered, HttpDocument, Children, Search, Product, RenderedSearchOf, RenderedProductOf
      <3>2. HttpDocument(d) \in Ended
        BY <2>2, DocumentForm DEF Rendered, HttpDocument, Ended, Documents
      <3> QED BY <2>1, <2>2, <3>1, <3>2 DEF LookedAgain, Ended
    <2>3. ASSUME robots # {}, ~ Shown PROVE FALSE
      <3>1. LedOn /\ Ended # {}
        BY <2>1, <2>3
      <3>2. \A d \in Ended : fate[d] \in {"followed", "lacking"}
        BY <2>3 DEF Shown, Ended, CrawlInv, TypeOK, Fates
      <3>3. \A d \in Ended : d.kind \in {"search", "rendered_search", "product"}
        BY <3>1, <3>2 DEF LedOn, LookedAgain
      <3>4. ~ OffersInHand
        BY <2>1, <3>3 DEF OffersInHand
      <3>5. \A d \in Ended : d.kind # "product"
        <4>1. ASSUME NEW d \in Ended, d.kind = "product" PROVE FALSE
          <5>1. fate[d] = "lacking"
            BY <3>1, <3>2, <3>4, <4>1 DEF LedOn
          <5>2. RenderedProductOf(d.cap, d.slot) \in Ended
            BY <2>1, <4>1, <5>1 DEF LookedAgain, Children
          <5> QED BY <3>3, <5>2 DEF RenderedProductOf
        <4> QED BY <4>1
      <3>6. ~ ProductInHand
        BY <2>1, <3>5 DEF ProductInHand
      <3>7. \A d \in Ended : d.kind = "search" /\ fate[d] = "lacking"
        BY <3>1, <3>2, <3>3, <3>5, <3>6 DEF LedOn, LookedAgain
      <3>8. PICK d \in Ended : d.kind = "search" /\ fate[d] = "lacking"
        BY <3>1, <3>7
      <3>9. RenderedSearchOf(d.cap) \in Ended
        BY <2>1, <3>8 DEF LookedAgain, Children
      <3> QED BY <3>7, <3>9 DEF RenderedSearchOf
    <2> QED BY <2>2, <2>3 DEF NothingIsForgotten, Shown
  <1> QED BY <1>1, <1>2, OutcomeStep, PTL DEF Spec
=============================================================================
