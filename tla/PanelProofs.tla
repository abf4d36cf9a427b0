---------------------------- MODULE PanelProofs ----------------------------
(***************************************************************************)
(* Theorems about Panel: the selection, the spinner and the snapshot on    *)
(* the screen, for any catalogue, any sources and any number of clicks.    *)
(* All rest on how requests are numbered: the counter only grows, a number *)
(* is given once, and the active selection effect asked for the product    *)
(* that is selected.                                                       *)
(***************************************************************************)
EXTENDS Panel, TLAPS

(* A busy call was clicked, with a product: collectSource throws without one. *)
CallsHaveProduct ==
    \A s \in Sources : call[s].busy => collects # 0 /\ call[s].of.product \in Products

(* The numbers of the requests in flight. *)
Numbered ==
    /\ \A r \in requests : r.kind = "select" => r.epoch <= epoch
    /\ \A r \in requests : r.kind = "select" /\ r.epoch = epoch => r.product = product
    /\ \A r \in requests : r.kind = "comparison" => r.id <= requestId
    /\ \A q, r \in requests :
         q.kind = "comparison" /\ r.kind = "comparison" /\ q.id = r.id => q = r

(* Until something is collected the newest comparison awaited is of the    *)
(* variant that is selected, and no intelligence travels on its own.       *)
NavigationOnly ==
    collects = 0 =>
        /\ \A r \in requests : r.kind # "intelligence"
        /\ \A r \in requests : r.kind = "comparison" /\ r.id = requestId => r.variant = variant
        /\ comparison \in {NoVariant, variant}
        /\ intelligence \in {NoProduct, product}

PanelInv ==
    /\ TypeOK /\ CallsHaveProduct /\ Numbered
    /\ SpinnerWaits /\ SelectionIsOfProduct /\ NavigationOnly

-----------------------------------------------------------------------------

(* What a new request is. *)
LEMMA SelectFields ==
    ASSUME NEW e, NEW p
    PROVE  Select(e, p).kind = "select" /\ Select(e, p).epoch = e /\ Select(e, p).product = p
BY DEF Select

LEMMA CompareFields ==
    ASSUME NEW id, NEW v, NEW tag
    PROVE  /\ Compare(id, v, tag).kind = "comparison" /\ Compare(id, v, tag).id = id
           /\ Compare(id, v, tag).variant = v /\ Compare(id, v, tag).tag = tag
BY DEF Compare

LEMMA AnalyzeFields ==
    ASSUME NEW p, NEW tag
    PROVE  /\ Analyze(p, tag).kind = "intelligence"
           /\ Analyze(p, tag).product = p /\ Analyze(p, tag).tag = tag
BY DEF Analyze

LEMMA ConstantClosures ==
    Idle \in Closure /\ NoCall \in Call /\ NoBatch \in Batch /\ 0 \in Tags
BY PanelAssumption DEF Idle, Closure, NoCall, Call, NoBatch, Batch, Tags

LEMMA InitInv == Init => PanelInv
<1> SUFFICES ASSUME Init PROVE PanelInv
    OBVIOUS
<1>1. PICK p \in Products : product = p /\ requests = {Select(1, p)}
    BY DEF Init
<1>2. \A r \in requests : r.kind = "select" /\ r.epoch = 1 /\ r.product = p
    BY <1>1, SelectFields
<1>3. TypeOK
    <2>1. call \in [Sources -> Call] /\ batch \in Batch
        BY ConstantClosures DEF Init
    <2>2. \A r \in requests : r.kind = "select" /\ r.epoch \in Nat /\ r.product \in Products
        BY <1>2
    <2>3. 0 \in 0..MaxClicks /\ 0 \in 0..MaxCollects
        BY PanelAssumption
    <2>4. QED
        BY <2>1, <2>2, <2>3 DEF Init, TypeOK
<1>4. CallsHaveProduct
    BY DEF Init, CallsHaveProduct, NoCall
<1>5. Numbered /\ SpinnerWaits
    BY <1>1, <1>2 DEF Init, Numbered, SpinnerWaits
<1>6. SelectionIsOfProduct /\ NavigationOnly
    BY <1>1, <1>2 DEF Init, SelectionIsOfProduct, NavigationOnly
<1>7. QED
    BY <1>3, <1>4, <1>5, <1>6 DEF PanelInv

-----------------------------------------------------------------------------
(* Selecting *)

LEMMA OpenProductKeepsInv ==
    ASSUME PanelInv, NEW p \in Products, OpenProduct(p)
    PROVE  PanelInv'
<1> DEFINE new == Select(epoch + 1, p)
<1>1. /\ product' = p /\ variant' = NoVariant /\ listed' = NoProduct
      /\ comparison' = NoVariant /\ intelligence' = NoProduct /\ loading' = FALSE
      /\ epoch' = epoch + 1 /\ requestId' = requestId + 1
      /\ requests' = requests \cup {new}
      /\ clicks' = clicks + 1 /\ clicks < MaxClicks
      /\ collects' = collects /\ call' = call /\ batch' = batch
    BY DEF OpenProduct, SelectionEffect, collection
<1>2. new.kind = "select" /\ new.epoch = epoch + 1 /\ new.product = p
    BY SelectFields
<1> HIDE DEF new
<1>3. TypeOK'
    <2>1. clicks' \in 0..MaxClicks
        BY <1>1, PanelAssumption DEF PanelInv, TypeOK
    <2>2. requestId' \in Nat /\ epoch' \in Nat
        BY <1>1 DEF PanelInv, TypeOK
    <2>3. new.kind = "select" /\ new.epoch \in Nat /\ new.product \in Products
        BY <1>2 DEF PanelInv, TypeOK
    <2>4. QED
        BY <1>1, <2>1, <2>2, <2>3 DEF PanelInv, TypeOK
<1>4. CallsHaveProduct'
    BY <1>1 DEF PanelInv, CallsHaveProduct
<1>5. epoch \in Nat /\ requestId \in Nat
    BY DEF PanelInv, TypeOK
<1>6. \A r \in requests : /\ r.kind = "select" => r.epoch \in Nat /\ r.epoch <= epoch
                          /\ r.kind = "comparison" => r.id \in Nat /\ r.id <= requestId
    BY DEF PanelInv, TypeOK, Numbered
<1>7. Numbered'
    BY <1>1, <1>2, <1>5, <1>6 DEF PanelInv, Numbered
<1>8. SpinnerWaits' /\ NavigationOnly'
    BY <1>1, <1>2, <1>5, <1>6 DEF PanelInv, SpinnerWaits, NavigationOnly
<1>9. SelectionIsOfProduct'
    BY <1>1 DEF SelectionIsOfProduct
<1>10. QED
    BY <1>3, <1>4, <1>7, <1>8, <1>9 DEF PanelInv

(* What showing a variant does to the invariant, for the two ways a        *)
(* variant comes to be selected.                                           *)
LEMMA ShowVariantKeepsInv ==
    ASSUME PanelInv, NEW v \in Variants, NEW others \in SUBSET requests,
           ShowVariant(v, others),
           listed' = v[1], product' = product, v[1] = product,
           intelligence' \in {intelligence, product},
           clicks' \in 0..MaxClicks,
           UNCHANGED <<collects, epoch, call, batch>>
    PROVE  PanelInv'
<1> DEFINE new == Compare(requestId + 1, v, 0)
<1>1. /\ variant' = v /\ comparison' = NoVariant /\ loading' = TRUE
      /\ requestId' = requestId + 1 /\ requests' = others \cup {new}
    BY DEF ShowVariant
<1>2. new.kind = "comparison" /\ new.id = requestId + 1 /\ new.variant = v /\ new.tag = 0
    BY CompareFields
<1> HIDE DEF new
<1>3. v[1] \in Products /\ v # NoVariant
    BY PanelAssumption DEF Variants
<1>4. TypeOK'
    <2>1. requestId \in Nat /\ requestId + 1 \in Nat /\ 0 \in Tags
        BY ConstantClosures DEF PanelInv, TypeOK
    <2>2. intelligence' \in Products \cup {NoProduct}
        BY <1>3 DEF PanelInv, TypeOK
    <2>3. QED
        BY <1>1, <1>2, <1>3, <2>1, <2>2 DEF PanelInv, TypeOK
<1>5. CallsHaveProduct'
    BY DEF PanelInv, CallsHaveProduct
<1>6. requestId \in Nat /\ \A r \in others : r.kind = "comparison" => r.id \in Nat /\ r.id <= requestId
    BY DEF PanelInv, TypeOK, Numbered
<1>7. Numbered'
    BY <1>1, <1>2, <1>6 DEF PanelInv, Numbered
<1>8. SpinnerWaits'
    BY <1>1, <1>2 DEF SpinnerWaits
<1>9. SelectionIsOfProduct'
    BY <1>1 DEF SelectionIsOfProduct
<1>10. NavigationOnly'
    BY <1>1, <1>2, <1>6 DEF PanelInv, NavigationOnly
<1>11. QED
    BY <1>4, <1>5, <1>7, <1>8, <1>9, <1>10 DEF PanelInv

LEMMA PickVariantKeepsInv ==
    ASSUME PanelInv, NEW v \in Variants, PickVariant(v)
    PROVE  PanelInv'
<1>1. v[1] = product
    BY PanelAssumption DEF PickVariant, PanelInv, SelectionIsOfProduct, Variants
<1>2. clicks' \in 0..MaxClicks
    BY PanelAssumption DEF PickVariant, PanelInv, TypeOK
<1>3. /\ ShowVariant(v, requests) /\ listed' = v[1] /\ product' = product
      /\ intelligence' = intelligence /\ UNCHANGED <<collects, epoch, call, batch>>
    BY DEF PickVariant, collection
<1>4. QED
    BY <1>1, <1>2, <1>3, ShowVariantKeepsInv

-----------------------------------------------------------------------------
(* Answers *)

LEMMA SelectAnswerKeepsInv ==
    ASSUME PanelInv, NEW r \in requests, NEW v \in Variants, SelectAnswer(r, v)
    PROVE  PanelInv'
<1>1. r.product = product
    BY DEF SelectAnswer, PanelInv, Numbered
<1>2. /\ ShowVariant(v, requests \ {r}) /\ listed' = v[1] /\ product' = product
      /\ v[1] = product /\ intelligence' = product
      /\ clicks' = clicks /\ UNCHANGED <<collects, epoch, call, batch>>
    BY <1>1 DEF SelectAnswer, counters, collection
<1>3. clicks' \in 0..MaxClicks /\ requests \ {r} \in SUBSET requests
    BY <1>2 DEF PanelInv, TypeOK
<1>4. QED
    BY <1>2, <1>3, ShowVariantKeepsInv

(* The parts of the invariant that any answer keeps by leaving them alone. *)
LEMMA AnsweredKeeps ==
    ASSUME PanelInv, NEW r \in requests, Answered(r),
           UNCHANGED <<clicks, collects, product, variant, listed, epoch, requestId, call>>,
           comparison' \in Variants \cup {NoVariant}, loading' \in BOOLEAN,
           intelligence' \in Products \cup {NoProduct}, batch' \in Batch
    PROVE  TypeOK' /\ CallsHaveProduct' /\ Numbered' /\ SelectionIsOfProduct'
<1>1. requests' \subseteq requests
    BY DEF Answered
<1>2. TypeOK'
    BY <1>1 DEF PanelInv, TypeOK
<1>3. CallsHaveProduct' /\ SelectionIsOfProduct'
    BY DEF PanelInv, CallsHaveProduct, SelectionIsOfProduct
<1>4. Numbered'
    BY <1>1 DEF PanelInv, Numbered
<1>5. QED
    BY <1>2, <1>3, <1>4

LEMMA BatchAfterType ==
    ASSUME PanelInv, NEW r, NEW ok \in BOOLEAN
    PROVE  BatchAfter(r, ok) \in Batch
BY ConstantClosures DEF PanelInv, TypeOK, BatchAfter

LEMMA SelectIgnoredKeepsInv ==
    ASSUME PanelInv, NEW r \in requests, SelectIgnored(r)
    PROVE  PanelInv'
<1>1. /\ r.kind = "select" /\ requests' = requests \ {r} /\ Answered(r)
      /\ UNCHANGED <<clicks, collects, product, variant, listed, epoch, comparison, loading,
                     intelligence, requestId, call, batch>>
    BY DEF SelectIgnored, Answered, counters, selection, collection
<1>2. TypeOK' /\ CallsHaveProduct' /\ Numbered' /\ SelectionIsOfProduct'
    <2>1. /\ comparison' \in Variants \cup {NoVariant} /\ loading' \in BOOLEAN
          /\ intelligence' \in Products \cup {NoProduct} /\ batch' \in Batch
        BY <1>1 DEF PanelInv, TypeOK
    <2>2. QED
        BY <1>1, <2>1, AnsweredKeeps
<1>3. SpinnerWaits'
    BY <1>1 DEF PanelInv, SpinnerWaits
<1>4. NavigationOnly'
    BY <1>1 DEF PanelInv, NavigationOnly
<1>5. QED
    BY <1>2, <1>3, <1>4 DEF PanelInv

LEMMA ComparisonAnswerKeepsInv ==
    ASSUME PanelInv, NEW r \in requests, NEW ok \in BOOLEAN, ComparisonAnswer(r, ok)
    PROVE  PanelInv'
<1>1. /\ r.kind = "comparison" /\ requests' = requests \ {r} /\ Answered(r)
      /\ comparison' = IF ok /\ r.id = requestId THEN r.variant ELSE comparison
      /\ loading' = IF r.id = requestId THEN FALSE ELSE loading
      /\ batch' = BatchAfter(r, ok)
      /\ UNCHANGED <<clicks, collects, product, variant, listed, epoch, intelligence,
                     requestId, call>>
    BY DEF ComparisonAnswer, Answered, counters, selection
<1>2. r.variant \in Variants /\ r.id \in Nat
    BY <1>1 DEF PanelInv, TypeOK
<1>3. TypeOK' /\ CallsHaveProduct' /\ Numbered' /\ SelectionIsOfProduct'
    <2>1. /\ comparison' \in Variants \cup {NoVariant} /\ loading' \in BOOLEAN
          /\ intelligence' \in Products \cup {NoProduct}
        BY <1>1, <1>2 DEF PanelInv, TypeOK
    <2>2. batch' \in Batch
        BY <1>1, BatchAfterType
    <2>3. QED
        BY <1>1, <2>1, <2>2, AnsweredKeeps
<1>4. SpinnerWaits'
    <2>1. CASE r.id = requestId
        <3>1. \A q \in requests' : q.kind = "comparison" => q.id # requestId
            BY <1>1, <2>1 DEF PanelInv, Numbered
        <3>2. QED
            BY <1>1, <2>1, <3>1 DEF SpinnerWaits
    <2>2. CASE r.id # requestId
        BY <1>1, <2>2 DEF PanelInv, SpinnerWaits
    <2>3. QED
        BY <2>1, <2>2
<1>5. NavigationOnly'
    BY <1>1 DEF PanelInv, NavigationOnly
<1>6. QED
    BY <1>3, <1>4, <1>5 DEF PanelInv

LEMMA IntelligenceAnswerKeepsInv ==
    ASSUME PanelInv, NEW r \in requests, NEW ok \in BOOLEAN, IntelligenceAnswer(r, ok)
    PROVE  PanelInv'
<1>1. /\ r.kind = "intelligence" /\ requests' = requests \ {r} /\ Answered(r)
      /\ intelligence' = IF ok THEN r.product ELSE intelligence
      /\ batch' = BatchAfter(r, ok)
      /\ UNCHANGED <<clicks, collects, product, variant, listed, epoch, comparison, loading,
                     requestId, call>>
    BY DEF IntelligenceAnswer, Answered, counters, selection
<1>2. r.product \in Products /\ collects # 0
    BY <1>1 DEF PanelInv, TypeOK, NavigationOnly
<1>3. TypeOK' /\ CallsHaveProduct' /\ Numbered' /\ SelectionIsOfProduct'
    <2>1. /\ comparison' \in Variants \cup {NoVariant} /\ loading' \in BOOLEAN
          /\ intelligence' \in Products \cup {NoProduct}
        BY <1>1, <1>2 DEF PanelInv, TypeOK
    <2>2. batch' \in Batch
        BY <1>1, BatchAfterType
    <2>3. QED
        BY <1>1, <2>1, <2>2, AnsweredKeeps
<1>4. SpinnerWaits' /\ NavigationOnly'
    BY <1>1, <1>2 DEF PanelInv, SpinnerWaits, NavigationOnly
<1>5. QED
    BY <1>3, <1>4 DEF PanelInv

-----------------------------------------------------------------------------
(* Collecting *)

(* Steps of a collection that leave the requests and the screen alone. *)
LEMMA ScreenUntouched ==
    ASSUME PanelInv,
           UNCHANGED <<clicks, product, variant, listed, epoch, comparison, loading,
                       intelligence, requestId, requests>>,
           collects' \in 0..MaxCollects, collects' = 0 => collects = 0,
           call' \in [Sources -> Call], batch' \in Batch, CallsHaveProduct'
    PROVE  PanelInv'
<1>1. TypeOK'
    BY DEF PanelInv, TypeOK
<1>2. Numbered' /\ SpinnerWaits' /\ SelectionIsOfProduct'
    BY DEF PanelInv, Numbered, SpinnerWaits, SelectionIsOfProduct
<1>3. NavigationOnly'
    BY DEF PanelInv, NavigationOnly
<1>4. QED
    BY <1>1, <1>2, <1>3 DEF PanelInv

LEMMA StartedType ==
    ASSUME PanelInv, collects' \in 0..MaxCollects
    PROVE  /\ ClosureNow \in Closure /\ Started(ClosureNow) \in Call
           /\ Started(ClosureNow).of.product \in Products
BY PanelAssumption DEF PanelInv, TypeOK, ClosureNow, Closure, Tags, Started, Call

LEMMA CollectAllKeepsInv ==
    ASSUME PanelInv, CollectAll
    PROVE  PanelInv'
<1>1. collects' \in 0..MaxCollects /\ collects' # 0
    BY PanelAssumption DEF CollectAll, PanelInv, TypeOK
<1>2. call' \in [Sources -> Call] /\ CallsHaveProduct'
    BY <1>1, StartedType DEF CollectAll, CallsHaveProduct
<1>3. batch' \in Batch
    BY <1>1, StartedType DEF CollectAll, Batch
<1>4. UNCHANGED <<clicks, product, variant, listed, epoch, comparison, loading,
                  intelligence, requestId, requests>>
    BY DEF CollectAll, selection
<1>5. QED
    BY <1>1, <1>2, <1>3, <1>4, ScreenUntouched

LEMMA CollectOneKeepsInv ==
    ASSUME PanelInv, NEW s \in Sources, CollectOne(s)
    PROVE  PanelInv'
<1>1. collects' \in 0..MaxCollects /\ collects' # 0
    BY PanelAssumption DEF CollectOne, PanelInv, TypeOK
<1>2. call' \in [Sources -> Call] /\ CallsHaveProduct'
    BY <1>1, StartedType DEF CollectOne, CallsHaveProduct, PanelInv, TypeOK
<1>3. batch' \in Batch
    BY DEF CollectOne, PanelInv, TypeOK
<1>4. UNCHANGED <<clicks, product, variant, listed, epoch, comparison, loading,
                  intelligence, requestId, requests>>
    BY DEF CollectOne, selection
<1>5. QED
    BY <1>1, <1>2, <1>3, <1>4, ScreenUntouched

LEMMA PollKeepsInv ==
    ASSUME PanelInv, NEW s \in Sources, Poll(s)
    PROVE  PanelInv'
<1>1. call[s].polls + 1 \in 0..MaxPolls
    BY PanelAssumption DEF Poll, PanelInv, TypeOK, Call
<1>2. call' \in [Sources -> Call] /\ CallsHaveProduct'
    <2>1. call[s] \in Call /\ call' = [call EXCEPT ![s] = [call[s] EXCEPT !.polls = @ + 1]]
        BY DEF Poll, PanelInv, TypeOK
    <2>2. call' \in [Sources -> Call]
        BY <1>1, <2>1 DEF PanelInv, TypeOK, Call
    <2>3. \A q \in Sources : call'[q].busy = call[q].busy /\ call'[q].of = call[q].of
        BY <2>1 DEF PanelInv, TypeOK, Call
    <2>4. QED
        BY <2>2, <2>3 DEF Poll, counters, PanelInv, CallsHaveProduct
<1>3. batch' \in Batch /\ collects' = collects /\ collects' \in 0..MaxCollects
    BY DEF Poll, PanelInv, TypeOK, counters
<1>4. UNCHANGED <<clicks, product, variant, listed, epoch, comparison, loading,
                  intelligence, requestId, requests>>
    BY DEF Poll, counters, selection
<1>5. QED
    BY <1>2, <1>3, <1>4, ScreenUntouched

(* The reload numbers its comparison as the newest, so the spinner turns   *)
(* for it; without a variant it asks for the intelligence only.            *)
LEMMA ReloadKeepsInv ==
    ASSUME PanelInv, NEW c \in Closure, c.product \in Products, Reload(c),
           UNCHANGED <<clicks, collects, product, variant, listed, epoch, comparison, intelligence>>,
           collects # 0,
           call' \in [Sources -> Call], batch' \in Batch, CallsHaveProduct'
    PROVE  PanelInv'
<1> DEFINE cmp == Compare(requestId + 1, c.variant, c.tag)
           ana == Analyze(c.product, c.tag)
           asked == IF c.variant = NoVariant THEN {} ELSE {cmp}
<1>1. /\ requests' = requests \cup asked \cup {ana}
      /\ requestId' = IF asked = {} THEN requestId ELSE requestId + 1
      /\ loading' = (asked # {} \/ loading)
    BY DEF Reload
<1>2. /\ cmp.kind = "comparison" /\ cmp.id = requestId + 1
      /\ cmp.variant = c.variant /\ cmp.tag = c.tag
      /\ ana.kind = "intelligence" /\ ana.product = c.product /\ ana.tag = c.tag
    BY CompareFields, AnalyzeFields
<1> HIDE DEF cmp, ana
<1>3. c.variant \in Variants \cup {NoVariant} /\ c.tag \in Tags
    BY DEF Closure
<1>4. requestId \in Nat /\ loading \in BOOLEAN
      /\ \A r \in requests : r.kind = "comparison" => r.id \in Nat /\ r.id <= requestId
    BY DEF PanelInv, TypeOK, Numbered
<1>5. CASE c.variant = NoVariant
    <2>1. requests' = requests \cup {ana} /\ requestId' = requestId /\ loading' = loading
        BY <1>1, <1>4, <1>5
    <2>2. TypeOK'
        BY <2>1, <1>2, <1>3 DEF PanelInv, TypeOK
    <2>3. Numbered' /\ SpinnerWaits'
        BY <2>1, <1>2 DEF PanelInv, Numbered, SpinnerWaits
    <2>4. SelectionIsOfProduct' /\ NavigationOnly'
        BY DEF PanelInv, SelectionIsOfProduct, NavigationOnly
    <2>5. QED
        BY <2>2, <2>3, <2>4 DEF PanelInv
<1>6. CASE c.variant # NoVariant
    <2>1. /\ requests' = requests \cup {cmp, ana} /\ requestId' = requestId + 1
          /\ loading' = TRUE
        BY <1>1, <1>6
    <2>2. TypeOK'
        BY <2>1, <1>2, <1>3, <1>4, <1>6 DEF PanelInv, TypeOK
    <2>3. Numbered'
        BY <2>1, <1>2, <1>4 DEF PanelInv, Numbered
    <2>4. SpinnerWaits'
        BY <2>1, <1>2 DEF SpinnerWaits
    <2>5. SelectionIsOfProduct' /\ NavigationOnly'
        BY DEF PanelInv, SelectionIsOfProduct, NavigationOnly
    <2>6. QED
        BY <2>2, <2>3, <2>4, <2>5 DEF PanelInv
<1>7. QED
    BY <1>5, <1>6

(* A source that ends reloads for its closure, or only frees its button. *)
LEMMA EndCallKeepsInv ==
    ASSUME PanelInv, NEW s \in Sources, NEW ok \in BOOLEAN, EndCall(s, ok)
    PROVE  PanelInv'
<1> DEFINE c == call[s].of
           last == \A q \in Sources \ {s} : call[q].busy => call[q].of.tag # c.tag
           ofBatch == batch.phase = "collecting" /\ c.tag = batch.of.tag
<1>1. /\ call[s].busy /\ call' = [call EXCEPT ![s] = NoCall]
      /\ batch' = IF ofBatch /\ last THEN [batch EXCEPT !.phase = "consolidating"] ELSE batch
      /\ \/ Reload(c)
         \/ UNCHANGED <<requests, requestId, loading>>
      /\ UNCHANGED <<clicks, collects, product, variant, listed, epoch, comparison, intelligence>>
    BY DEF EndCall, counters, selection
<1>2. c \in Closure /\ c.product \in Products /\ collects # 0
    BY <1>1 DEF PanelInv, TypeOK, CallsHaveProduct, Call
<1>3. call' \in [Sources -> Call] /\ CallsHaveProduct'
    BY <1>1, ConstantClosures DEF PanelInv, TypeOK, CallsHaveProduct, NoCall
<1>4. batch' \in Batch
    BY <1>1 DEF PanelInv, TypeOK, Batch
<1>5. CASE Reload(c)
    BY <1>1, <1>2, <1>3, <1>4, <1>5, ReloadKeepsInv
<1>6. CASE UNCHANGED <<requests, requestId, loading>>
    <2>1. collects' \in 0..MaxCollects
        BY <1>1 DEF PanelInv, TypeOK
    <2>2. QED
        BY <1>1, <1>3, <1>4, <1>6, <2>1, ScreenUntouched
<1>7. QED
    BY <1>1, <1>5, <1>6

-----------------------------------------------------------------------------

LEMMA NextKeepsInv == PanelInv /\ [Next]_vars => PanelInv'
<1> SUFFICES ASSUME PanelInv, [Next]_vars PROVE PanelInv'
    OBVIOUS
<1>1. ASSUME NEW p \in Products, OpenProduct(p) PROVE PanelInv'
    BY <1>1, OpenProductKeepsInv
<1>2. ASSUME NEW v \in Variants, PickVariant(v) PROVE PanelInv'
    BY <1>2, PickVariantKeepsInv
<1>3. ASSUME NEW r \in requests, Answer(r) PROVE PanelInv'
    <2>1. ASSUME NEW v \in Variants, SelectAnswer(r, v) PROVE PanelInv'
        BY <2>1, SelectAnswerKeepsInv
    <2>2. ASSUME NEW ok \in BOOLEAN, ComparisonAnswer(r, ok) PROVE PanelInv'
        BY <2>2, ComparisonAnswerKeepsInv
    <2>3. ASSUME NEW ok \in BOOLEAN, IntelligenceAnswer(r, ok) PROVE PanelInv'
        BY <2>3, IntelligenceAnswerKeepsInv
    <2>4. QED
        BY <1>3, <2>1, <2>2, <2>3, SelectIgnoredKeepsInv DEF Answer
<1>4. ASSUME NEW s \in Sources, CollectOne(s) \/ Poll(s) PROVE PanelInv'
    BY <1>4, CollectOneKeepsInv, PollKeepsInv
<1>5. ASSUME NEW s \in Sources, NEW ok \in BOOLEAN, EndCall(s, ok) PROVE PanelInv'
    BY <1>5, EndCallKeepsInv
<1>6. CASE UNCHANGED vars
    <2>1. /\ UNCHANGED <<clicks, product, variant, listed, epoch, comparison, loading,
                         intelligence, requestId, requests>>
          /\ collects' = collects /\ call' = call /\ batch' = batch
        BY <1>6 DEF vars
    <2>2. CallsHaveProduct'
        BY <2>1 DEF PanelInv, CallsHaveProduct
    <2>3. QED
        BY <2>1, <2>2, ScreenUntouched DEF PanelInv, TypeOK
<1>7. QED
    BY <1>1, <1>2, <1>3, <1>4, <1>5, <1>6, CollectAllKeepsInv DEF Next

LEMMA Invariance == Spec => []PanelInv
<1>1. QED
    BY InitInv, NextKeepsInv, PTL DEF Spec

(* The panel's state is well typed and polling keeps to its limit.         *)
THEOREM TypeCorrect == Spec => []TypeOK
<1>1. PanelInv => TypeOK
    BY DEF PanelInv
<1>2. QED
    BY <1>1, Invariance, PTL

(* The spinner turns exactly while the newest comparison is awaited.       *)
THEOREM SpinnerCorrect == Spec => []SpinnerWaits
<1>1. PanelInv => SpinnerWaits
    BY DEF PanelInv
<1>2. QED
    BY <1>1, Invariance, PTL

(* No late answer lists or selects a variant of another product.           *)
THEOREM SelectionCorrect == Spec => []SelectionIsOfProduct
<1>1. PanelInv => SelectionIsOfProduct
    BY DEF PanelInv
<1>2. QED
    BY <1>1, Invariance, PTL

(* Without a collection the snapshot on the screen is of the selection.    *)
THEOREM NavigationCorrect == Spec => []NavigationNeverMixes
<1>1. PanelInv => NavigationNeverMixes
    BY DEF PanelInv, NavigationOnly, NavigationNeverMixes
<1>2. QED
    BY <1>1, Invariance, PTL
=============================================================================
