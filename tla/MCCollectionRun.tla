-------------------------- MODULE MCCollectionRun --------------------------
(* Instances of CollectionRun for TLC. *)
EXTENDS CollectionRun, TLC

(* Requests and jobs are interchangeable. *)
Symmetry == Permutations(Clients) \cup Permutations(Jobs) \cup Permutations(Pages)
=============================================================================
