-------------------------- MODULE RunStateMachine --------------------------
(***************************************************************************)
(* What a collection run promises to whoever reads it through the API: the *)
(* state machine pending -> running -> succeeded | failed | partial that   *)
(* jobs/tasks.py announces, and the two columns a finished run carries.    *)
(*                                                                         *)
(* There are no jobs, workers or requests here.  CollectionRun is the      *)
(* detailed specification, and implements this one when one worker process *)
(* serves the queue.                                                       *)
(***************************************************************************)
EXTENDS Integers, FiniteSets

CONSTANTS
    Runs,     \* every idempotency key a run can be created under
    Offers    \* what a run can observe, at most once each

VARIABLES
    status,   \* collection_run.status, or "none" before the row exists
    observed, \* the offers with a price_observation of the run
    stats     \* collection_run.stats["offers_observed"], -1 before it is written

vars == <<status, observed, stats>>

Terminal == {"succeeded", "partial", "failed"}

Init ==
    /\ status = [r \in Runs |-> "none"]
    /\ observed = [r \in Runs |-> {}]
    /\ stats = [r \in Runs |-> -1]

(* The first request of a minute inserts the row. *)
Create(r) ==
    /\ status[r] = "none"
    /\ status' = [status EXCEPT ![r] = "pending"]
    /\ UNCHANGED <<observed, stats>>

(* A worker takes the run up. *)
Start(r) ==
    /\ status[r] = "pending"
    /\ status' = [status EXCEPT ![r] = "running"]
    /\ UNCHANGED <<observed, stats>>

(* An observation is only ever added to a run that is running. *)
Observe(r, o) ==
    /\ status[r] = "running"
    /\ observed' = [observed EXCEPT ![r] = @ \cup {o}]
    /\ UNCHANGED <<status, stats>>

(* The run ends once, with the count of everything it observed; it does    *)
(* not end well without an observation.                                    *)
Finish(r, outcome) ==
    /\ status[r] = "running"
    /\ outcome # "failed" => observed[r] # {}
    /\ status' = [status EXCEPT ![r] = outcome]
    /\ stats' = [stats EXCEPT ![r] = Cardinality(observed[r])]
    /\ UNCHANGED observed

Next ==
    \E r \in Runs :
        \/ Create(r)
        \/ Start(r)
        \/ \E o \in Offers : Observe(r, o)
        \/ \E outcome \in Terminal : Finish(r, outcome)

Spec == Init /\ [][Next]_vars
=============================================================================
