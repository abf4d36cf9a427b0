-------------------------- MODULE PriceComparison --------------------------
(***************************************************************************)
(* compare_variant (pricing/analysis.py): the market of one exact variant, *)
(* from the newest observation of each of its offers.  A price is a        *)
(* natural number of minor units, and 0 stands for None: prices are        *)
(* positive (the CHECK of price_observation).                              *)
(***************************************************************************)
EXTENDS Integers, FiniteSets, SequencesExt

CONSTANTS
    Aggregators,     \* the sources _is_aggregator_source recognises
    RetailerOf       \* retailer_identity: the retailer behind a seller's name

None == 0

(* What a price says of itself: "base", or the first of the conditions on  *)
(* currency, condition, availability and payment that it fails.            *)
Terms == {"base", "currency", "condition", "availability", "conditional"}

-----------------------------------------------------------------------------
(* Arithmetic: sorted lists, and Decimal.quantize with ROUND_HALF_UP, which *)
(* rounds halves away from zero.                                           *)

RoundHalfUp(n, d) == IF n >= 0 THEN (2 * n + d) \div (2 * d) ELSE -((d - 2 * n) \div (2 * d))

(* The values of f over the set S, as often as they occur, in order. *)
SortedValues(f(_), S) ==
    LET q == CHOOSE q \in SetToSeqs(S) : \A i, j \in DOMAIN q : i < j => f(q[i]) <= f(q[j])
    IN  [i \in DOMAIN q |-> f(q[i])]

(* Bug: the mean. *)
MedianAveraged(q) == RoundHalfUp(FoldLeft(+, 0, q), Len(q))

(* The middle value, or the rounded average of the two in the middle. *)
Median(q) ==
    LET middle == Len(q) \div 2
    IN  IF Len(q) % 2 = 1 THEN q[middle + 1]
        ELSE RoundHalfUp(q[middle] + q[middle + 1], 2)

-----------------------------------------------------------------------------
(* The population *)

(* The first reason not to compare a snapshot, "base" if there is none. *)
Reason(s, cutoff) == IF s.at < cutoff THEN "stale" ELSE s.terms

(* Bug: the newest first, whatever the kind of its source. *)
PreferredNewest(s, t) ==
    \/ s.at > t.at
    \/ s.at = t.at /\ s.offer < t.offer

(* The sort key: direct before aggregated, then newest, then by offer id. *)
Preferred(s, t) ==
    LET aggregated(x) == x.source \in Aggregators
    IN  \/ ~ aggregated(s) /\ aggregated(t)
        \/ aggregated(s) = aggregated(t) /\ s.at > t.at
        \/ aggregated(s) = aggregated(t) /\ s.at = t.at /\ s.offer < t.offer

(* Bug: a retailer is told by its seller's name. *)
AdmitBySeller(population, s) ==
    IF \E t \in population.included : t.seller = s.seller
    THEN [population EXCEPT !.excluded = @ \cup {<<s, "duplicate">>}]
    ELSE [population EXCEPT !.included = @ \cup {s}]

(* Bug: a duplicate is dropped without a word. *)
AdmitSilently(population, s) ==
    IF \E t \in population.included : RetailerOf[t.seller] = RetailerOf[s.seller]
    THEN population
    ELSE [population EXCEPT !.included = @ \cup {s}]

(* One turn of the loop over the sorted list. *)
Admit(population, s) ==
    IF \E t \in population.included : RetailerOf[t.seller] = RetailerOf[s.seller]
    THEN [population EXCEPT !.excluded = @ \cup {<<s, "duplicate">>}]
    ELSE [population EXCEPT !.included = @ \cup {s}]

(* Where the sorted list of a set of snapshots ends. *)
LastOf(S) == CHOOSE s \in S : \A t \in S : t = s \/ Preferred(t, s)

(* The two passes: what is refused at once, then the loop, whose last turn *)
(* is that of the last of the list.                                        *)
Population(snapshots, cutoff) ==
    LET comparable == {s \in snapshots : Reason(s, cutoff) = "base"}
        refused == {<<s, Reason(s, cutoff)>> : s \in snapshots \ comparable}
    IN  MapThenFoldSet(LAMBDA s, population : Admit(population, s),
                       [included |-> {}, excluded |-> refused],
                       LAMBDA s : s, LastOf, comparable)

(* ComparisonResult *)
Compare(snapshots, cutoff) ==
    LET population == Population(snapshots, cutoff)
        included == population.included
        prices == SortedValues(LAMBDA s : s.price, included)
        times == {s.at : s \in included}
    IN  [included |-> included,
         excluded |-> population.excluded,
         offers |-> Cardinality(included),
         sources |-> Cardinality({s.source : s \in included}),
         retailers |-> {RetailerOf[s.seller] : s \in included},
         min |-> IF included = {} THEN None ELSE prices[1],
         median |-> IF included = {} THEN None ELSE Median(prices),
         max |-> IF included = {} THEN None ELSE prices[Len(prices)],
         oldest |-> IF included = {} THEN None ELSE Min(times),
         newest |-> IF included = {} THEN None ELSE Max(times)]
=============================================================================
