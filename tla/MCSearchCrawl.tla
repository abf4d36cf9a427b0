--------------------------- MODULE MCSearchCrawl ---------------------------
(* SearchCrawl for TLC: page budgets above the plan, for amazon below it. *)
EXTENDS SearchCrawl, TLC

PageBudget == [a \in Adapters |-> IF a = "amazon" THEN 4 ELSE PlanSize(a) + 2]

Symmetry == Permutations(Capacities) \cup Permutations(Pages)
=============================================================================
