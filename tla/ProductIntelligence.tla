------------------------ MODULE ProductIntelligence ------------------------
(***************************************************************************)
(* analyze_product (pricing/intelligence.py): what the comparisons of all  *)
(* the variants of a product say of its storages and its colours.  It      *)
(* never mixes raw offers: every figure is derived from Compare.           *)
(***************************************************************************)
EXTENDS PriceComparison

CONSTANTS
    Variants,     \* the variants of the product
    StorageOf,    \* attributes["storage_gb"], 0 when it is absent or no number
    ColorOf       \* attributes["color"], "" when it is absent

(* The variants that have both dimensions. *)
Canonical == {v \in Variants : StorageOf[v] > 0 /\ ColorOf[v] # ""}
Storages == {StorageOf[v] : v \in Canonical}
Colors == {ColorOf[v] : v \in Canonical}

OfStorage(g) == {v \in Canonical : StorageOf[v] = g}
OfColor(c) == {v \in Canonical : ColorOf[v] = c}

(* variant_analysis: the comparison of each canonical variant. *)
Points(market, cutoff) ==
    [v \in Canonical |-> Compare({s \in market : s.variant = v}, cutoff)]

Observed(points) == {v \in DOMAIN points : points[v].median # None}

MedianOf(points, S) == Median(SortedValues(LAMBDA v : points[v].median, S))
Retailers(points, S) == UNION {points[v].retailers : v \in S}

(* The figures of a group of variants: a storage, a colour, the product. *)
Group(points, S) ==
    LET seen == S \cap Observed(points)
    IN  [variants |-> Cardinality(S),
         observed |-> Cardinality(seen),
         min |-> IF seen = {} THEN None ELSE Min({points[v].min : v \in seen}),
         median |-> IF seen = {} THEN None ELSE MedianOf(points, seen),
         max |-> IF seen = {} THEN None ELSE Max({points[v].max : v \in seen})]

(* Basis points from one price to another. *)
Bps(from, to) == RoundHalfUp((to - from) * 10000, from)

-----------------------------------------------------------------------------
(* Storage steps *)

(* Bug: one variant on each side is enough. *)
SupportedByOne(points, g, h) ==
    /\ OfStorage(g) \cap Observed(points) # {} /\ OfStorage(h) \cap Observed(points) # {}
    /\ Cardinality(Retailers(points, OfStorage(g) \cup OfStorage(h))) >= 3

(* Enough evidence on both sides of a step. *)
Supported(points, g, h) ==
    /\ Cardinality(OfStorage(g) \cap Observed(points)) >= 2
    /\ Cardinality(OfStorage(h) \cap Observed(points)) >= 2
    /\ Cardinality(Retailers(points, OfStorage(g) \cup OfStorage(h))) >= 3

(* Storages next to each other in the catalogue. *)
Adjacent(g, h) == g < h /\ ~ \E k \in Storages : g < k /\ k < h

Step(points, g, h) ==
    LET median(k) == MedianOf(points, OfStorage(k) \cap Observed(points))
    IN  [from |-> g, to |-> h, delta |-> median(h) - median(g), bps |-> Bps(median(g), median(h))]

StorageSteps(points) ==
    {Step(points, p[1], p[2]) :
        p \in {p \in Storages \X Storages : Adjacent(p[1], p[2]) /\ Supported(points, p[1], p[2])}}

-----------------------------------------------------------------------------
(* The colour index *)

(* Bug: the baseline of every storage is the median of the whole product. *)
BaselineOfProduct(points, g) == MedianOf(points, Observed(points))

(* The median of the colours observed in a storage. *)
Baseline(points, g) == MedianOf(points, OfStorage(g) \cap Observed(points))

(* The variants of a colour whose storage has two observed variants. *)
Indexed(points, c) ==
    {v \in OfColor(c) \cap Observed(points) :
        Cardinality(OfStorage(StorageOf[v]) \cap Observed(points)) >= 2}

Delta(points, v) == Bps(Baseline(points, StorageOf[v]), points[v].median)

(* relative_price_delta_bps: the rounded mean of the deltas of a colour. *)
ColorDelta(points, c) ==
    LET S == Indexed(points, c)
    IN  RoundHalfUp(MapThenSumSet(LAMBDA v : Delta(points, v), S), Cardinality(S))

(* What cheapest_color and most_expensive_color choose among: the colours  *)
(* with two indexed variants, when there are two such colours.             *)
RankedColors(points) ==
    LET ranked == {c \in Colors : Cardinality(Indexed(points, c)) >= 2}
    IN  IF Cardinality(ranked) >= 2 THEN ranked ELSE {}

-----------------------------------------------------------------------------

SampleStatus(observed, catalog, retailers) ==
    CASE observed = 0 -> "no_data"
      [] observed > 0 /\ (observed < 2 \/ retailers < 3) -> "limited"
      [] observed >= 2 /\ retailers >= 3 /\ (4 * observed < 3 * catalog \/ retailers < 6) -> "developing"
      [] OTHER -> "strong"

(* ProductIntelligence *)
Analyze(market, cutoff) ==
    LET points == Points(market, cutoff)
        seen == Observed(points)
        sellers == Retailers(points, Canonical)
    IN  [points |-> points,
         product |-> Group(points, Canonical),
         offers |-> MapThenSumSet(LAMBDA v : points[v].offers, seen),
         retailers |-> sellers,
         sample |-> SampleStatus(Cardinality(seen), Cardinality(Canonical), Cardinality(sellers)),
         storages |-> [g \in Storages |-> Group(points, OfStorage(g))],
         colors |-> [c \in Colors |-> Group(points, OfColor(c))],
         steps |-> StorageSteps(points),
         index |-> [c \in {d \in Colors : Indexed(points, d) # {}} |-> ColorDelta(points, c)],
         ranked |-> RankedColors(points)]
=============================================================================
