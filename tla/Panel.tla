------------------------------- MODULE Panel -------------------------------
(***************************************************************************)
(* The state of the web panel (frontend/src/App.tsx): what is selected,    *)
(* what is shown, and the requests whose answers come back in any order,   *)
(* after the user has moved on or not at all.  The market data itself is   *)
(* abstracted to whose it is: a comparison to its variant, an intelligence *)
(* to its product.                                                         *)
(*                                                                         *)
(* An action is one event of the browser with the React effects it sets    *)
(* off.  A collection keeps the product and the variant that were selected *)
(* when its button was rendered: they are in the closure of the handler.   *)
(***************************************************************************)
EXTENDS Integers, FiniteSets

CONSTANTS
    Products,
    Models,       \* a variant is a product in one configuration
    Sources,      \* the sources that apply to the products
    MaxPolls,     \* runPollingAttempts
    MaxClicks,    \* bound: clicks that select something
    MaxCollects,  \* bound: clicks that collect something
    NoProduct, NoVariant

Variants == Products \X Models

ASSUME PanelAssumption ==
    /\ MaxPolls \in Nat \ {0} /\ MaxClicks \in Nat /\ MaxCollects \in Nat
    /\ NoProduct \notin Products /\ NoVariant \notin Variants

VARIABLES
    clicks, collects,  \* user events so far
    product,           \* selectedProductId
    variant,           \* selectedVariantId
    listed,            \* the product the variants on the screen are of
    comparison,        \* the variant of the comparison on the screen
    loading,           \* comparisonLoading
    intelligence,      \* the product of the intelligence on the screen
    requestId,         \* comparisonRequestId
    epoch,             \* which run of the selection effect is the active one
    requests,          \* in flight
    call,              \* the collectSource call of each source
    batch              \* the collectAll call

vars == <<clicks, collects, product, variant, listed, comparison, loading, intelligence,
          requestId, epoch, requests, call, batch>>
selection == <<product, variant, listed, epoch>>
collection == <<call, batch>>
counters == <<clicks, collects>>

(* tag names the click a request serves, 0 for the selection effects. *)
Select(e, p) == [kind |-> "select", epoch |-> e, product |-> p]
Compare(id, v, tag) == [kind |-> "comparison", id |-> id, variant |-> v, tag |-> tag]
Analyze(p, tag) == [kind |-> "intelligence", product |-> p, tag |-> tag]

Tags == 0..MaxCollects

(* What the handler of a collect button closed over. *)
Closure == [tag : Tags, product : Products \cup {NoProduct}, variant : Variants \cup {NoVariant}]
Idle == [tag |-> 0, product |-> NoProduct, variant |-> NoVariant]
Call == [busy : BOOLEAN, polls : 0..MaxPolls, of : Closure]
Batch == [phase : {"none", "collecting", "consolidating"}, of : Closure]

NoCall == [busy |-> FALSE, polls |-> 0, of |-> Idle]
NoBatch == [phase |-> "none", of |-> Idle]

Init ==
    /\ clicks = 0 /\ collects = 0
    /\ product \in Products
    /\ variant = NoVariant /\ listed = NoProduct /\ comparison = NoVariant
    /\ loading = FALSE /\ intelligence = NoProduct
    /\ requestId = 1 /\ epoch = 1
    /\ requests = {Select(1, product)}
    /\ call = [s \in Sources |-> NoCall]
    /\ batch = NoBatch

CollectionBusy == batch.phase # "none" \/ \E s \in Sources : call[s].busy

-----------------------------------------------------------------------------
(* Selecting *)

(* Mutant: the effect leaves the spinner of the comparison it abandons. *)
SelectionEffectKeepsSpinner(p) ==
    /\ product' = p /\ variant' = NoVariant /\ listed' = NoProduct
    /\ comparison' = NoVariant /\ intelligence' = NoProduct
    /\ epoch' = epoch + 1 /\ requestId' = requestId + 1
    /\ requests' = requests \cup {Select(epoch', p)}
    /\ UNCHANGED loading

(* The effect of [products, selectedProductId]: abandon whatever is shown  *)
(* or awaited, ask for the variants and the intelligence of the product.   *)
SelectionEffect(p) ==
    /\ product' = p /\ variant' = NoVariant /\ listed' = NoProduct
    /\ comparison' = NoVariant /\ intelligence' = NoProduct /\ loading' = FALSE
    /\ epoch' = epoch + 1 /\ requestId' = requestId + 1
    /\ requests' = requests \cup {Select(epoch', p)}

(* A product is opened.  The picker of the overview is disabled during a   *)
(* collection; the cards of the catalogue are not, nor is the device form, *)
(* which reloads the catalogue and selects its product in one render.      *)
OpenProduct(p) ==
    /\ clicks < MaxClicks /\ p # product
    /\ clicks' = clicks + 1
    /\ SelectionEffect(p)
    /\ UNCHANGED <<collects, collection>>

(* The effect of [selectedVariantId] for a variant that is selected. *)
ShowVariant(v, others) ==
    /\ variant' = v /\ comparison' = NoVariant /\ loading' = TRUE
    /\ requestId' = requestId + 1
    /\ requests' = others \cup {Compare(requestId', v, 0)}

(* VariantNavigator is disabled during a collection. *)
PickVariant(v) ==
    /\ clicks < MaxClicks /\ ~ CollectionBusy
    /\ v[1] = listed /\ v # variant
    /\ clicks' = clicks + 1
    /\ ShowVariant(v, requests)
    /\ UNCHANGED <<collects, product, listed, epoch, intelligence, collection>>

-----------------------------------------------------------------------------
(* Answers *)

Answered(r) == requests' = requests \ {r}

(* Mutant: the answer to an abandoned effect is not ignored. *)
SelectAnswerUnguarded(r, v) ==
    /\ r.kind = "select"
    /\ v[1] = r.product
    /\ listed' = r.product /\ intelligence' = r.product
    /\ ShowVariant(v, requests \ {r})
    /\ UNCHANGED <<counters, product, epoch, collection>>

(* Variants and intelligence of the product; one variant is selected. *)
SelectAnswer(r, v) ==
    /\ r.kind = "select" /\ r.epoch = epoch
    /\ v[1] = r.product
    /\ listed' = r.product /\ intelligence' = r.product
    /\ ShowVariant(v, requests \ {r})
    /\ UNCHANGED <<counters, product, epoch, collection>>

(* An error, or the answer to an effect that is no longer active. *)
SelectIgnored(r) ==
    /\ r.kind = "select"
    /\ Answered(r)
    /\ UNCHANGED <<counters, selection, comparison, loading, intelligence, requestId, collection>>

(* loadIntelligence and loadComparison serving the reload of a collection: *)
(* Promise.all ends with its last answer or its first error.               *)
Awaited(tag, rest) == \E q \in rest : q.kind # "select" /\ q.tag = tag
BatchAfter(r, ok) ==
    IF batch.phase = "consolidating" /\ r.tag = batch.of.tag
       /\ (~ ok \/ ~ Awaited(r.tag, requests \ {r}))
    THEN NoBatch ELSE batch

(* Mutant: the newest request is not told from the others. *)
ComparisonAnswerUnguarded(r, ok) ==
    /\ r.kind = "comparison"
    /\ comparison' = IF ok THEN r.variant ELSE comparison
    /\ loading' = IF r.id = requestId THEN FALSE ELSE loading
    /\ batch' = BatchAfter(r, ok)
    /\ Answered(r)
    /\ UNCHANGED <<counters, selection, intelligence, requestId, call>>

ComparisonAnswer(r, ok) ==
    /\ r.kind = "comparison"
    /\ comparison' = IF ok /\ r.id = requestId THEN r.variant ELSE comparison
    /\ loading' = IF r.id = requestId THEN FALSE ELSE loading
    /\ batch' = BatchAfter(r, ok)
    /\ Answered(r)
    /\ UNCHANGED <<counters, selection, intelligence, requestId, call>>

(* setIntelligence takes whatever arrives. *)
IntelligenceAnswer(r, ok) ==
    /\ r.kind = "intelligence"
    /\ intelligence' = IF ok THEN r.product ELSE intelligence
    /\ batch' = BatchAfter(r, ok)
    /\ Answered(r)
    /\ UNCHANGED <<counters, selection, comparison, loading, requestId, call>>

-----------------------------------------------------------------------------
(* Collecting *)

ClosureNow == [tag |-> collects', product |-> product, variant |-> variant]
Started(c) == [busy |-> TRUE, polls |-> 0, of |-> c]

CollectAll ==
    /\ collects < MaxCollects /\ ~ CollectionBusy
    /\ collects' = collects + 1
    /\ batch' = [phase |-> "collecting", of |-> ClosureNow]
    /\ call' = [s \in Sources |-> Started(ClosureNow)]
    /\ UNCHANGED <<clicks, selection, comparison, loading, intelligence, requestId, requests>>

(* The button of one source, disabled while that source is busy. *)
CollectOne(s) ==
    /\ collects < MaxCollects /\ ~ call[s].busy
    /\ collects' = collects + 1
    /\ call' = [call EXCEPT ![s] = Started(ClosureNow)]
    /\ UNCHANGED <<clicks, selection, comparison, loading, intelligence, requestId, requests, batch>>

(* Mutant: a loop that does not count its attempts. *)
PollUncounted(s) ==
    /\ call[s].busy
    /\ UNCHANGED vars

(* The POST or a poll answers that the run has not ended yet. *)
Poll(s) ==
    /\ call[s].busy /\ call[s].polls < MaxPolls
    /\ call' = [call EXCEPT ![s].polls = @ + 1]
    /\ UNCHANGED <<counters, selection, comparison, loading, intelligence, requestId, requests, batch>>

(* The reload after a collection, for what its closure remembers. *)
Reload(c) ==
    LET asked == IF c.variant = NoVariant THEN {} ELSE {Compare(requestId + 1, c.variant, c.tag)}
    IN  /\ requests' = requests \cup asked \cup {Analyze(c.product, c.tag)}
        /\ requestId' = IF asked = {} THEN requestId ELSE requestId + 1
        /\ loading' = (asked # {} \/ loading)

(* collectSource ends, ok when the run ended and did not fail.  A source   *)
(* collected on its own reloads at once if it is ok; the last one of a     *)
(* batch starts the consolidation whatever came of it.                     *)
EndCall(s, ok) ==
    LET c == call[s].of
        ofBatch == batch.phase = "collecting" /\ c.tag = batch.of.tag
        last == \A q \in Sources \ {s} : call[q].busy => call[q].of.tag # c.tag
    IN  /\ call[s].busy
        /\ call' = [call EXCEPT ![s] = NoCall]
        /\ batch' = IF ofBatch /\ last THEN [batch EXCEPT !.phase = "consolidating"] ELSE batch
        /\ IF (ofBatch /\ last) \/ (~ ofBatch /\ ok)
           THEN Reload(c)
           ELSE UNCHANGED <<requests, requestId, loading>>
        /\ UNCHANGED <<counters, selection, comparison, intelligence>>

-----------------------------------------------------------------------------

Answer(r) ==
    \/ \E v \in Variants : SelectAnswer(r, v)
    \/ SelectIgnored(r)
    \/ \E ok \in BOOLEAN : ComparisonAnswer(r, ok) \/ IntelligenceAnswer(r, ok)

Next ==
    \/ \E p \in Products : OpenProduct(p)
    \/ \E v \in Variants : PickVariant(v)
    \/ \E r \in requests : Answer(r)
    \/ CollectAll
    \/ \E s \in Sources : CollectOne(s) \/ Poll(s) \/ \E ok \in BOOLEAN : EndCall(s, ok)

Spec == Init /\ [][Next]_vars

(* fetch settles every request and timers fire: a call polls until it ends *)
(* or gives up.  No click is promised, nor that a run ever ends.           *)
Fairness ==
    /\ WF_vars(\E r \in requests : Answer(r))
    /\ \A s \in Sources :
         /\ WF_vars(Poll(s))
         /\ WF_vars(call[s].polls = MaxPolls /\ \E ok \in BOOLEAN : EndCall(s, ok))

FairSpec == Spec /\ Fairness

-----------------------------------------------------------------------------
(* Properties *)

(* The state of the panel has its types; polling stops at its limit. *)
TypeOK ==
    /\ clicks \in 0..MaxClicks /\ collects \in 0..MaxCollects
    /\ product \in Products /\ variant \in Variants \cup {NoVariant}
    /\ listed \in Products \cup {NoProduct}
    /\ comparison \in Variants \cup {NoVariant} /\ loading \in BOOLEAN
    /\ intelligence \in Products \cup {NoProduct}
    /\ requestId \in Nat /\ epoch \in Nat
    /\ call \in [Sources -> Call] /\ batch \in Batch
    /\ \A r \in requests :
         \/ r.kind = "select" /\ r.epoch \in Nat /\ r.product \in Products
         \/ r.kind = "comparison" /\ r.id \in Nat /\ r.variant \in Variants /\ r.tag \in Tags
         \/ r.kind = "intelligence" /\ r.product \in Products /\ r.tag \in Tags

(* The spinner turns exactly while the newest comparison is awaited: no    *)
(* answer, error, selection or collection leaves it on or stops it early   *)
(* (the three places that set comparisonLoading).                          *)
SpinnerWaits ==
    loading <=> \E r \in requests : r.kind = "comparison" /\ r.id = requestId

(* The variants listed and the one selected are of the selected product,   *)
(* whatever answers to earlier selections are on the way (`active`).       *)
SelectionIsOfProduct ==
    /\ listed \in {NoProduct, product}
    /\ variant # NoVariant => variant[1] = listed

(* Selecting alone never puts one selection beside the snapshot of another:*)
(* the request counter and the effects' flags see to it.                   *)
NavigationNeverMixes ==
    collects = 0 => comparison \in {NoVariant, variant} /\ intelligence \in {NoProduct, product}

(* A collection stops being in progress, even if its run never ends.       *)
CollectionEnds ==
    /\ \A s \in Sources : call[s].busy ~> ~ call[s].busy
    /\ batch.phase # "none" ~> batch.phase = "none"

(* "para não combinar seleção nova com um snapshot anterior" (INC-10.md):  *)
(* what is shown is of what is selected.  Violated: a product opened from  *)
(* the catalogue during a collection is overwritten by the reload of the   *)
(* closure, which nothing abandons.                                        *)
ShownSnapshotIsOfSelection ==
    comparison \in {NoVariant, variant} /\ intelligence \in {NoProduct, product}
=============================================================================
