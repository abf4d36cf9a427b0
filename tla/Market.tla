------------------------------- MODULE Market -------------------------------
(***************************************************************************)
(* The market of a product as the API answers for it: offers are observed  *)
(* and grow old, and every answer is computed anew from the newest         *)
(* observation of each offer (GET /variants/{id}/comparison and            *)
(* /products/{id}/intelligence).  How the newest observation comes to be   *)
(* the newest is ListingPipeline's subject.                                *)
(***************************************************************************)
EXTENDS ProductIntelligence

CONSTANTS
    Listings,        \* offers: [offer, variant, source, seller]
    Quotes,          \* [price, terms]: what an observation says
    MaxAge,          \* comparison_max_age_hours
    MaxNow,          \* bound: the clock
    MaxObservations  \* bound: observations

ASSUME MarketAssumption ==
    /\ MaxAge \in Nat /\ MaxNow \in Nat /\ MaxObservations \in Nat
    /\ Quotes \subseteq [price : Nat \ {0}, terms : Terms]
    /\ \A l \in Listings : l.offer \in Nat
    /\ \A k, l \in Listings : k.offer = l.offer => k = l
    /\ IsFiniteSet(Variants) /\ \A v \in Variants : StorageOf[v] \in Nat

VARIABLES now, observations, latest

vars == <<now, observations, latest>>

Init == now = 0 /\ observations = 0 /\ latest = [l \in {} |-> 0]

(* One run commits its observation of a listing. *)
Observe(l, quote) ==
    /\ observations < MaxObservations
    /\ observations' = observations + 1
    /\ latest' = [k \in DOMAIN latest \cup {l} |->
                    IF k = l THEN [price |-> quote.price, terms |-> quote.terms, at |-> now]
                    ELSE latest[k]]
    /\ UNCHANGED now

Tick ==
    /\ now < MaxNow
    /\ now' = now + 1
    /\ UNCHANGED <<observations, latest>>

Next == Tick \/ \E l \in Listings, quote \in Quotes : Observe(l, quote)

Spec == Init /\ [][Next]_vars

(* The rows of LATEST_OBSERVATION_SNAPSHOTS_FOR_PRODUCT. *)
Snapshots ==
    {[offer |-> l.offer, variant |-> l.variant, source |-> l.source, seller |-> l.seller,
      price |-> latest[l].price, terms |-> latest[l].terms, at |-> latest[l].at] :
        l \in DOMAIN latest}

(* observed_after *)
Cutoff == now - MaxAge

OfVariant(v) == {s \in Snapshots : s.variant = v}
Comparison(v) == Compare(OfVariant(v), Cutoff)

-----------------------------------------------------------------------------
(* Properties *)

TypeOK ==
    /\ now \in 0 .. MaxNow /\ observations \in 0 .. MaxObservations
    /\ DOMAIN latest \subseteq Listings /\ IsFiniteSet(DOMAIN latest)
    /\ \A l \in DOMAIN latest : latest[l] \in [price : Nat \ {0}, terms : Terms, at : 0 .. now]

(* The population product.md promises, told without a loop or a sort.      *)
Comparable(v) == {s \in OfVariant(v) : s.terms = "base" /\ s.at + MaxAge >= now}
SameRetailer(s, t) == RetailerOf[s.seller] = RetailerOf[t.seller]

(* Every retailer with a comparable offer has one voice in the comparison, *)
(* a direct one if there is any, and the newest of its kind, whatever      *)
(* names it trades under ("no maximo uma observacao por varejista,         *)
(* preferindo a fonte direta").                                            *)
OneVoicePerRetailer ==
    \A v \in Variants :
        LET included == Comparison(v).included
        IN  /\ included \subseteq Comparable(v)
            /\ \A s \in Comparable(v) : \E t \in included :
                 /\ \A u \in included : SameRetailer(s, u) => u = t
                 /\ SameRetailer(s, t)
                 /\ t.source \in Aggregators => s.source \in Aggregators
                 /\ (t.source \in Aggregators <=> s.source \in Aggregators) => s.at <= t.at

(* No offer disappears: each is compared or excluded for one reason, and   *)
(* a duplicate is only excluded beside the voice of its retailer.          *)
EveryOfferExplained ==
    \A v \in Variants :
        LET c == Comparison(v)
        IN  /\ c.included \cup {e[1] : e \in c.excluded} = OfVariant(v)
            /\ \A e \in c.excluded :
                 /\ e[1] \notin c.included
                 /\ \A f \in c.excluded : f[1] = e[1] => f = e
                 /\ e[2] = "duplicate" => \E t \in c.included : SameRetailer(e[1], t)

(* The central price splits the retailers in two halves, and a storage's   *)
(* price its variants: as many are at or above as at or below.             *)
MedianSplitsMarket ==
    LET a == Analyze(Snapshots, Cutoff)
        Splits(m, S, f(_)) ==
            /\ 2 * Cardinality({x \in S : f(x) <= m}) >= Cardinality(S)
            /\ 2 * Cardinality({x \in S : f(x) >= m}) >= Cardinality(S)
        seen(g) == OfStorage(g) \cap Observed(a.points)
    IN  /\ \A v \in Canonical :
             Splits(a.points[v].median, a.points[v].included, LAMBDA s : s.price)
        /\ \A g \in Storages :
             Splits(a.storages[g].median, seen(g), LAMBDA v : a.points[v].median)

(* "Direct evidence wins over an aggregator copy": while a retailer speaks *)
(* for itself, observing copies of its offer moves no figure.              *)
CopyIsSilent ==
    LET copied(l) ==
            /\ l.source \in Aggregators
            /\ \E s \in Comparable(l.variant) : SameRetailer(l, s) /\ s.source \notin Aggregators
        figures(v) == <<Comparison(v).min, Comparison(v).median, Comparison(v).max,
                        Comparison(v).offers, Comparison(v).sources>>
    IN  \A l \in Listings :
          (copied(l) /\ \E quote \in Quotes : Observe(l, quote))
            => figures(l.variant)' = figures(l.variant)

CopiesAreSilent == [][CopyIsSilent]_vars

(* A storage step rests on two variants priced on both sides and three     *)
(* retailers between them (product.md), and skips no storage on the way.   *)
StepsAreSupported ==
    \A step \in StorageSteps(Points(Snapshots, Cutoff)) :
        LET priced(g) == {v \in OfStorage(g) : Comparable(v) # {}}
            sellers(S) == {RetailerOf[s.seller] : s \in UNION {Comparable(v) : v \in S}}
        IN  /\ Cardinality(priced(step.from)) >= 2 /\ Cardinality(priced(step.to)) >= 2
            /\ Cardinality(sellers(priced(step.from) \cup priced(step.to))) >= 3
            /\ \A g \in Storages : g <= step.from \/ step.to <= g

(* No colour is dearer or cheaper for the storages it was seen in: when    *)
(* the colours of each storage cost the same, no colour has a premium,     *)
(* however much the storages differ.                                       *)
ColorsIgnoreStorage ==
    LET points == Points(Snapshots, Cutoff)
        level == \A v, w \in Observed(points) :
                    StorageOf[v] = StorageOf[w] => points[v].median = points[w].median
    IN  level => \A c \in Colors : Indexed(points, c) # {} => ColorDelta(points, c) = 0
=============================================================================
