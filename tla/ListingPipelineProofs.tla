----------------------- MODULE ListingPipelineProofs -----------------------
(***************************************************************************)
(* Theorems about ListingPipeline for every value of its constants, any    *)
(* number of spiders alive at once included.                               *)
(***************************************************************************)
EXTENDS ListingPipeline, FiniteSetTheorems, TLAPS

(* A process at a busy step has a listing and an instant; one that is not  *)
(* is ready, new or closed.                                                *)
LEMMA BusyHasListing ==
    ASSUME NEW p \in Process, p.pc \in Busy
    PROVE  p \in BusyProcess /\ p.item \in Listing /\ p.at \in Time
BY DEF Process, IdleProcess, BusyProcess, Busy

LEMMA StepOfBusy ==
    ASSUME NEW p \in Process, p.pc \in Busy, NEW step \in Busy
    PROVE  /\ [p EXCEPT !.pc = step] \in Process
           /\ [p EXCEPT !.pc = step].pc = step
           /\ [p EXCEPT !.pc = step].item = p.item
           /\ [p EXCEPT !.pc = step].at = p.at
BY BusyHasListing DEF Process, BusyProcess, Busy

LEMMA StepOfIdle ==
    ASSUME NEW p \in Process, p.pc = "new"
    PROVE  [p EXCEPT !.pc = "ready"] \in Process
BY DEF Process, IdleProcess, BusyProcess, Busy

LEMMA ReadyIsProcess == \A b \in BOOLEAN : Ready(b) \in Process
BY DEF Ready, Process, IdleProcess

LEMMA ClosedIsProcess == [pc |-> "closed", healthy |-> TRUE] \in Process
BY DEF Process, IdleProcess

(* The summary of a row is a row. *)
LEMMA SummaryIsRow ==
    ASSUME NEW row \in OfferRow, NEW price \in Prices, NEW t \in Time
    PROVE  Summary(row, price, t) \in OfferRow
BY DEF Summary, OfferRow

(* What every step leaves to the other processes. *)
LEMMA Arrival ==
    ASSUME TypeOK, NEW r \in Runs, Arrives(r)
    PROVE  clock' \in 0..MaxClock /\ clock' \in Time
BY LimitsAssumption DEF Arrives, TypeOK, Time

LEMMA TypeInit == Init => TypeOK
<1>1. Init => overlapped \in BOOLEAN
  BY DEF Init
<1>2. Init => spider \in [Runs -> Process]
  BY DEF Init, Process, IdleProcess
<1>3. Init => offer \in [Offers -> OfferRow] /\ match \in [Offers -> MatchRow]
  BY DEF Init, NoRow, Unmatched, OfferRow, MatchRow, Never
<1>. QED BY <1>1, <1>2, <1>3, LimitsAssumption DEF Init, TypeOK

LEMMA TypeStep == TypeOK /\ [Next]_vars => TypeOK'
<1>. SUFFICES ASSUME TypeOK, [Next]_vars PROVE TypeOK'
  OBVIOUS
<1>1. ASSUME NEW r \in Runs, Open(r) PROVE TypeOK'
  <2>1. spider[r] \in Process /\ spider[r].pc = "new"
    BY <1>1 DEF Open, At, TypeOK
  <2>2. [spider[r] EXCEPT !.pc = "ready"] \in Process
    BY <2>1, StepOfIdle
  <2>3. spider' \in [Runs -> Process]
    BY <1>1, <2>2 DEF Open, Goto, TypeOK
  <2>. QED BY <1>1, <2>3 DEF Open, TypeOK
<1>2. ASSUME NEW r \in Runs, Exit(r) PROVE TypeOK'
  BY <1>2, ClosedIsProcess DEF Exit, TypeOK
<1>3. ASSUME NEW r \in Runs, SqlError(r) PROVE TypeOK'
  <2>1. spider' \in [Runs -> Process]
    BY <1>3, ReadyIsProcess DEF SqlError, TypeOK
  <2>2. sqlErrors' \in 0..MaxSqlErrors
    BY <1>3, LimitsAssumption DEF SqlError, TypeOK
  <2>. QED BY <1>3, <2>1, <2>2 DEF SqlError, TypeOK
<1>4. ASSUME NEW r \in Runs, NEW u \in Urls, DiscoverPage(r, u) PROVE TypeOK'
  BY <1>4 DEF DiscoverPage, TypeOK
<1>5. ASSUME NEW r \in Runs, NEW stage \in {"access", "extraction"}, RejectListing(r, stage)
      PROVE TypeOK'
  <2>1. clock' \in 0..MaxClock /\ clock' \in Time
    BY <1>5, Arrival DEF RejectListing
  <2>2. rejections' \subseteq Rejection
    BY <1>5, <2>1 DEF RejectListing, TypeOK, Rejection, Stage
  <2>. QED BY <1>5, <2>1, <2>2 DEF RejectListing, TypeOK
<1>6. ASSUME NEW r \in Runs, NEW l \in Listing, BeginListing(r, l) PROVE TypeOK'
  <2>1. clock' \in 0..MaxClock /\ clock' \in Time
    BY <1>6, Arrival DEF BeginListing
  <2>2. [pc |-> "offer", item |-> l, at |-> clock'] \in Process
    BY <2>1 DEF Process, BusyProcess, Busy
  <2>3. spider' \in [Runs -> Process]
    BY <1>6, <2>2 DEF BeginListing, TypeOK
  <2>. QED BY <1>6, <2>1, <2>3 DEF BeginListing, TypeOK
<1>7. ASSUME NEW r \in Runs, spider[r].pc \in Busy, NEW step \in Busy, Goto(r, step)
      PROVE spider' \in [Runs -> Process]
  <2>1. [spider[r] EXCEPT !.pc = step] \in Process
    BY <1>7, StepOfBusy DEF TypeOK
  <2>. QED BY <1>7, <2>1 DEF Goto, TypeOK
<1>8. ASSUME NEW r \in Runs, spider[r].pc \in Busy
      PROVE spider[r].item \in Listing /\ spider[r].at \in Time
  BY <1>8, BusyHasListing DEF TypeOK
<1>9. ASSUME NEW r \in Runs, UpsertOffer(r) PROVE TypeOK'
  <2>1. spider[r].pc \in Busy /\ "match" \in Busy /\ Goto(r, "match")
    BY <1>9 DEF UpsertOffer, At, Busy
  <2>2. spider' \in [Runs -> Process]
    BY <2>1, <1>7
  <2>3. spider[r].item.offer \in Offers /\ spider[r].item.seller \in Sellers
    BY <2>1, <1>8 DEF Listing
  <2>4. offer' \in [Offers -> OfferRow]
    BY <1>9, <2>3 DEF UpsertOffer, TypeOK, OfferRow
  <2>. QED BY <1>9, <2>2, <2>4 DEF UpsertOffer, TypeOK
<1>10. ASSUME NEW r \in Runs, MatchOffer(r) PROVE TypeOK'
  <2>1. spider[r].pc \in Busy /\ "observe" \in Busy /\ Goto(r, "observe")
    BY <1>10 DEF MatchOffer, At, Busy
  <2>2. spider' \in [Runs -> Process]
    BY <2>1, <1>7
  <2>3. /\ spider[r].item.offer \in Offers /\ spider[r].at \in Time
        /\ spider[r].item.variant \in Variants \cup {NoVariant}
    BY <2>1, <1>8 DEF Listing
  <2>4. match' \in [Offers -> MatchRow]
    BY <1>10, <2>3 DEF MatchOffer, TypeOK, MatchRow
  <2>5. rejections' \subseteq Rejection
    BY <1>10, <2>3 DEF MatchOffer, TypeOK, Rejection, Stage
  <2>. QED BY <1>10, <2>2, <2>4, <2>5 DEF MatchOffer, TypeOK
<1>11. ASSUME NEW r \in Runs, PriceRefused(r) PROVE TypeOK'
  BY <1>11, ReadyIsProcess DEF PriceRefused, TypeOK
<1>12. ASSUME NEW r \in Runs, RecordObservation(r) PROVE TypeOK'
  <2>1. spider[r].pc \in Busy /\ "evidence" \in Busy /\ Goto(r, "evidence")
    BY <1>12 DEF RecordObservation, At, Busy
  <2>2. spider' \in [Runs -> Process]
    BY <2>1, <1>7
  <2>3. /\ spider[r].item.offer \in Offers /\ spider[r].item.seller \in Sellers
        /\ spider[r].item.price \in Prices /\ spider[r].at \in Time
    BY <1>12, <2>1, <1>8 DEF Listing, RecordObservation
  <2>4. offer[spider[r].item.offer] \in OfferRow
    BY <2>3 DEF TypeOK
  <2>5. Summary(offer[spider[r].item.offer], spider[r].item.price, spider[r].at) \in OfferRow
    BY <2>3, <2>4, SummaryIsRow
  <2>6. offer' \in [Offers -> OfferRow]
    BY <1>12, <2>3, <2>5 DEF RecordObservation, TypeOK
  <2>7. observations' \subseteq Observation
    BY <1>12, <2>3 DEF RecordObservation, TypeOK, Observation
  <2>. QED BY <1>12, <2>2, <2>6, <2>7 DEF RecordObservation, TypeOK
<1>13. ASSUME NEW r \in Runs, RecordEvidence(r) PROVE TypeOK'
  <2>1. spider[r].pc \in Busy /\ "page" \in Busy /\ Goto(r, "page")
    BY <1>13 DEF RecordEvidence, At, Busy
  <2>2. spider' \in [Runs -> Process]
    BY <2>1, <1>7
  <2>. DEFINE row == [run |-> r, url |-> spider[r].item.url, offer |-> spider[r].item.offer,
                      at |-> spider[r].at]
  <2>3. row \in Evidence
    BY <2>1, <1>8 DEF Listing, Evidence
  <2>4. evidence' \subseteq evidence \cup {row} /\ written' = written \cup {row}
    BY <1>13 DEF RecordEvidence, Pruned
  <2>. QED BY <1>13, <2>2, <2>3, <2>4 DEF RecordEvidence, TypeOK
<1>14. ASSUME NEW r \in Runs, UpsertPage(r) PROVE TypeOK'
  <2>1. spider[r].pc \in Busy /\ "mark" \in Busy /\ Goto(r, "mark")
    BY <1>14 DEF UpsertPage, At, Busy
  <2>2. spider' \in [Runs -> Process]
    BY <2>1, <1>7
  <2>. QED BY <1>14, <2>2 DEF UpsertPage, TypeOK
<1>15. ASSUME NEW r \in Runs, MarkCollected(r) PROVE TypeOK'
  BY <1>15, ReadyIsProcess DEF MarkCollected, TypeOK
<1>16. CASE UNCHANGED vars
  BY <1>16 DEF vars, TypeOK
<1>. QED BY <1>1, <1>2, <1>3, <1>4, <1>5, <1>6, <1>9, <1>10, <1>11, <1>12, <1>13, <1>14,
     <1>15, <1>16 DEF Next

(* The rows and the processes keep their types (SyncDb, PostgresPipeline). *)
THEOREM TypeCorrect == Spec => []TypeOK
<1>1. Init => TypeOK
  BY TypeInit
<1>2. TypeOK /\ [Next]_vars => TypeOK'
  BY TypeStep
<1>. QED BY <1>1, <1>2, PTL DEF Spec
-----------------------------------------------------------------------------
(* The summary of an offer *)

(* The row the comparison shows and the observations it summarises. *)
SummaryInv == TypeOK /\ SummaryIsNewestObservation

(* A step that leaves offers and observations alone keeps the summary. *)
LEMMA SummaryUntouched ==
    ASSUME SummaryIsNewestObservation, UNCHANGED <<offer, observations>>
    PROVE  SummaryIsNewestObservation'
BY DEF SummaryIsNewestObservation, ObservationsOf

LEMMA SummaryStep == SummaryInv /\ [Next]_vars => SummaryIsNewestObservation'
<1>. SUFFICES ASSUME SummaryInv, [Next]_vars PROVE SummaryIsNewestObservation'
  OBVIOUS
<1>. USE DEF SummaryInv
<1>1. ASSUME NEW r \in Runs, UpsertOffer(r) PROVE SummaryIsNewestObservation'
  <2>1. \A o \in Offers : offer'[o].verified = offer[o].verified /\ offer'[o].price = offer[o].price
    BY <1>1 DEF UpsertOffer, TypeOK, OfferRow
  <2>2. observations' = observations
    BY <1>1 DEF UpsertOffer
  <2>. QED BY <2>1, <2>2 DEF SummaryIsNewestObservation, ObservationsOf
<1>2. ASSUME NEW r \in Runs, RecordObservation(r) PROVE SummaryIsNewestObservation'
  <2>1. PICK o \in Offers, t \in Time, price \in Prices, seller \in Sellers :
            /\ o = spider[r].item.offer /\ t = spider[r].at
            /\ price = spider[r].item.price /\ seller = spider[r].item.seller
    <3>1. spider[r] \in Process /\ spider[r].pc \in Busy
      BY <1>2 DEF RecordObservation, At, Busy, TypeOK
    <3>. QED BY <1>2, <3>1, BusyHasListing DEF Listing, RecordObservation
  <2>. DEFINE b == [offer |-> o, run |-> r, at |-> t, price |-> price, seller |-> seller]
  <2>2. CASE Observed(r, o)
    BY <1>2, <2>1, <2>2, SummaryUntouched DEF RecordObservation
  <2>3. CASE ~ Observed(r, o)
    <3>1. /\ observations' = observations \cup {b}
          /\ offer' = [offer EXCEPT ![o] = Summary(@, price, t)]
      BY <1>2, <2>1, <2>3 DEF RecordObservation
    <3>2. \A q \in Offers : q # o => offer'[q] = offer[q] /\ ObservationsOf(q)' = ObservationsOf(q)
      BY <3>1 DEF ObservationsOf, TypeOK
    <3>3. ObservationsOf(o)' = ObservationsOf(o) \cup {b}
      BY <3>1 DEF ObservationsOf
    <3>4. offer[o] \in OfferRow /\ offer'[o] = Summary(offer[o], price, t)
      BY <2>1, <3>1 DEF TypeOK
    <3>5. offer[o].verified \in Nat /\ t \in Nat /\ t > 0
      BY <2>1, <3>4, LimitsAssumption DEF OfferRow, Time, Never
    <3>6. \A c \in ObservationsOf(o) : c.at \in Nat
      BY LimitsAssumption DEF ObservationsOf, TypeOK, Observation, Time
    <3>7. CASE offer[o].verified > t
      <4>1. offer'[o] = offer[o]
        BY <3>4, <3>7 DEF Summary
      <4>2. PICK c \in ObservationsOf(o) :
                /\ c.at = offer[o].verified /\ c.price = offer[o].price
                /\ \A d \in ObservationsOf(o) : d.at <= c.at
        BY <2>1, <3>5, <3>7 DEF SummaryIsNewestObservation, Never
      <4>3. \A d \in ObservationsOf(o)' : d.at <= c.at
        BY <3>3, <3>5, <3>7, <4>2
      <4>. QED BY <3>2, <3>3, <4>1, <4>2, <4>3 DEF SummaryIsNewestObservation
    <3>8. CASE ~ (offer[o].verified > t)
      <4>1. offer'[o].verified = t /\ offer'[o].price = price
        BY <3>4, <3>8 DEF Summary, OfferRow
      <4>2. \A d \in ObservationsOf(o) : d.at <= t
        BY <2>1, <3>5, <3>6, <3>8 DEF SummaryIsNewestObservation
      <4>3. b \in ObservationsOf(o)' /\ b.at = t /\ \A d \in ObservationsOf(o)' : d.at <= t
        BY <3>3, <3>5, <4>2
      <4>. QED BY <3>2, <4>1, <4>3 DEF SummaryIsNewestObservation
    <3>. QED BY <3>7, <3>8
  <2>. QED BY <2>2, <2>3
<1>3. CASE UNCHANGED <<offer, observations>>
  BY <1>3, SummaryUntouched
<1>4. [Next]_vars => \/ UNCHANGED <<offer, observations>>
                     \/ \E r \in Runs : UpsertOffer(r) \/ RecordObservation(r)
  BY DEF Next, vars, Open, Exit, SqlError, DiscoverPage, RejectListing, BeginListing, MatchOffer,
     PriceRefused, RecordEvidence, UpsertPage, MarkCollected
<1>. QED BY <1>1, <1>2, <1>3, <1>4

(* The price and date of the offer row are those of its newest             *)
(* observation, in whatever order spiders commit theirs                    *)
(* (UPDATE_OFFER_PRICE_SUMMARY).                                           *)
THEOREM SummaryCorrect == Spec => []SummaryIsNewestObservation
<1>1. Init => SummaryInv
  BY TypeInit DEF SummaryInv, Init, SummaryIsNewestObservation, ObservationsOf, NoRow
<1>2. SummaryInv /\ [Next]_vars => SummaryInv'
  BY TypeStep, SummaryStep DEF SummaryInv
<1>3. SummaryInv => SummaryIsNewestObservation
  BY DEF SummaryInv
<1>. QED BY <1>1, <1>2, <1>3, PTL DEF Spec

-----------------------------------------------------------------------------
(* The outcome of the match *)

(* The match of run r's listing of o was settled: active, or explained. *)
Settled(r, o) ==
    \/ match[o].variant # NoVariant
    \/ \E j \in rejections : j.run = r /\ j.offer = o /\ j.stage = "matching"

(* A listing whose price is next has its match behind it. *)
SettledBeforeObserved == \A r \in Runs : At(r, "observe") => Settled(r, spider[r].item.offer)

MatchInv == TypeOK /\ ObservedOfferIsAccountedFor /\ SettledBeforeObserved

(* No step unsettles a match: one is only ever replaced by another. *)
LEMMA SettledStays ==
    ASSUME TypeOK, [Next]_vars, NEW q \in Runs, NEW o \in Offers, Settled(q, o)
    PROVE  Settled(q, o)'
<1>1. ASSUME NEW r \in Runs, MatchOffer(r) PROVE Settled(q, o)'
  <2>1. spider[r].item \in Listing
    BY <1>1, BusyHasListing DEF MatchOffer, At, Busy, TypeOK
  <2>2. \A p \in Offers : match'[p] = match[p] \/ match'[p].variant # NoVariant
    BY <1>1, <2>1 DEF MatchOffer, TypeOK, Listing
  <2>3. rejections \subseteq rejections'
    BY <1>1 DEF MatchOffer
  <2>. QED BY <2>2, <2>3 DEF Settled
<1>2. CASE UNCHANGED match /\ rejections \subseteq rejections'
  BY <1>2 DEF Settled
<1>3. \/ UNCHANGED match /\ rejections \subseteq rejections'
      \/ \E r \in Runs : MatchOffer(r)
  BY DEF Next, vars, Open, Exit, SqlError, DiscoverPage, RejectListing, BeginListing, UpsertOffer,
     PriceRefused, RecordObservation, RecordEvidence, UpsertPage, MarkCollected
<1>. QED BY <1>1, <1>2, <1>3

(* A process gets to "observe" through MatchOffer only, which settles. *)
LEMMA MatchSettles ==
    ASSUME TypeOK, NEW r \in Runs, MatchOffer(r)
    PROVE  /\ Settled(r, spider[r].item.offer)'
           /\ spider'[r].item = spider[r].item
           /\ \A q \in Runs : q # r => spider'[q] = spider[q]
<1>1. spider[r] \in Process /\ spider[r].pc \in Busy /\ "observe" \in Busy /\ Goto(r, "observe")
  BY DEF MatchOffer, At, Busy, TypeOK
<1>2. spider[r].item \in Listing /\ spider[r].at \in Time
  BY <1>1, BusyHasListing
<1>3. spider'[r].item = spider[r].item /\ \A q \in Runs : q # r => spider'[q] = spider[q]
  BY <1>1, StepOfBusy DEF Goto, TypeOK
<1>4. CASE spider[r].item.variant # NoVariant
  <2>1. match'[spider[r].item.offer].variant # NoVariant
    BY <1>2, <1>4 DEF MatchOffer, TypeOK, Listing
  <2>. QED BY <1>3, <2>1 DEF Settled
<1>5. CASE spider[r].item.variant = NoVariant
  <2>. DEFINE j == [run |-> r, stage |-> "matching", offer |-> spider[r].item.offer,
                    at |-> spider[r].at]
  <2>1. j \in rejections'
    BY <1>5 DEF MatchOffer
  <2>. QED BY <1>3, <2>1 DEF Settled
<1>. QED BY <1>3, <1>4, <1>5
LEMMA MatchStep == MatchInv /\ [Next]_vars => ObservedOfferIsAccountedFor' /\ SettledBeforeObserved'
<1>. SUFFICES ASSUME MatchInv, [Next]_vars
              PROVE  ObservedOfferIsAccountedFor' /\ SettledBeforeObserved'
  OBVIOUS
<1>. USE DEF MatchInv
<1>1. ObservedOfferIsAccountedFor'
  <2>1. ASSUME NEW b \in observations PROVE Settled(b.run, b.offer)'
    <3>1. Settled(b.run, b.offer) /\ b.run \in Runs /\ b.offer \in Offers
      BY DEF ObservedOfferIsAccountedFor, Settled, TypeOK, Observation
    <3>. QED BY <3>1, SettledStays
  <2>2. ASSUME NEW r \in Runs, RecordObservation(r), NEW b \in observations' \ observations
        PROVE  Settled(b.run, b.offer)'
    <3>1. b.run = r /\ b.offer = spider[r].item.offer
      BY <2>2 DEF RecordObservation
    <3>2. spider[r].item.offer \in Offers
      BY <2>2, BusyHasListing DEF RecordObservation, At, Busy, TypeOK, Listing
    <3>3. PICK o \in Offers : o = spider[r].item.offer
      BY <3>2
    <3>4. Settled(r, o)'
      BY <2>2, <3>3, SettledStays DEF RecordObservation, SettledBeforeObserved
    <3>. QED BY <3>1, <3>3, <3>4
  <2>3. UNCHANGED observations \/ \E r \in Runs : RecordObservation(r)
    BY DEF Next, vars, Open, Exit, SqlError, DiscoverPage, RejectListing, BeginListing, UpsertOffer,
       MatchOffer, PriceRefused, RecordEvidence, UpsertPage, MarkCollected
  <2>4. \A b \in observations' : Settled(b.run, b.offer)'
    BY <2>1, <2>2, <2>3
  <2>. QED BY <2>4 DEF ObservedOfferIsAccountedFor, Settled
<1>2. SettledBeforeObserved'
  <2>. SUFFICES ASSUME NEW q \in Runs, At(q, "observe")'
                PROVE  Settled(q, spider[q].item.offer)'
    BY DEF SettledBeforeObserved
  <2>1. CASE spider'[q] = spider[q]
    <3>1. At(q, "observe") /\ Settled(q, spider[q].item.offer)
      BY <2>1 DEF At, SettledBeforeObserved
    <3>2. PICK o \in Offers : o = spider[q].item.offer
      BY <3>1, BusyHasListing DEF At, Busy, TypeOK, Listing
    <3>3. Settled(q, o)'
      BY <3>1, <3>2, SettledStays
    <3>. QED BY <2>1, <3>2, <3>3
  <2>2. ASSUME NEW r \in Runs, MatchOffer(r) PROVE Settled(q, spider[q].item.offer)'
    <3>1. CASE q = r
      BY <2>2, <3>1, MatchSettles
    <3>2. CASE q # r
      BY <2>1, <2>2, <3>2, MatchSettles
    <3>. QED BY <3>1, <3>2
  <2>3. ASSUME NEW r \in Runs, NEW p, p.pc # "observe", spider' = [spider EXCEPT ![r] = p]
        PROVE  spider'[q] = spider[q]
    BY <2>3 DEF At, TypeOK
  <2>4. ASSUME NEW r \in Runs, NEW step, step # "observe", spider[r].pc \in Busy \cup {"new"},
               Goto(r, step)
        PROVE  spider'[q] = spider[q]
    <3>1. [spider[r] EXCEPT !.pc = step].pc = step
      BY <2>4 DEF TypeOK, Process, IdleProcess, BusyProcess
    <3>. QED BY <2>3, <2>4, <3>1 DEF Goto
  <2>5. \/ spider'[q] = spider[q]
        \/ \E r \in Runs : MatchOffer(r)
    <3>1. ASSUME NEW r \in Runs, Open(r) \/ UpsertOffer(r) \/ RecordObservation(r)
                                 \/ RecordEvidence(r) \/ UpsertPage(r)
          PROVE  spider'[q] = spider[q]
      BY <2>4, <3>1 DEF Open, UpsertOffer, RecordObservation, RecordEvidence, UpsertPage, At, Busy
    <3>2. ASSUME NEW r \in Runs, Exit(r) \/ SqlError(r) \/ PriceRefused(r) \/ MarkCollected(r)
          PROVE  spider'[q] = spider[q]
      BY <2>3, <3>2 DEF Exit, SqlError, PriceRefused, MarkCollected, Ready
    <3>3. ASSUME NEW r \in Runs, NEW l \in Listing, BeginListing(r, l)
          PROVE  spider'[q] = spider[q]
      BY <2>3, <3>3 DEF BeginListing
    <3>4. ASSUME NEW r \in Runs, \/ \E u \in Urls : DiscoverPage(r, u)
                                 \/ \E stage \in {"access", "extraction"} : RejectListing(r, stage)
          PROVE  spider'[q] = spider[q]
      BY <3>4 DEF DiscoverPage, RejectListing
    <3>5. CASE UNCHANGED vars
      BY <3>5 DEF vars
    <3>. QED BY <3>1, <3>2, <3>3, <3>4, <3>5 DEF Next
  <2>. QED BY <2>1, <2>2, <2>5
<1>. QED BY <1>1, <1>2

(* Every observed offer is compared or has its rejection on record, in the *)
(* run that observed it (_match_offer commits before the observation).     *)
THEOREM NoOfferVanishes == Spec => []ObservedOfferIsAccountedFor
<1>1. Init => MatchInv
  BY TypeInit DEF MatchInv, Init, ObservedOfferIsAccountedFor, SettledBeforeObserved, At
<1>2. MatchInv /\ [Next]_vars => MatchInv'
  BY TypeStep, MatchStep DEF MatchInv
<1>3. MatchInv => ObservedOfferIsAccountedFor
  BY DEF MatchInv
<1>. QED BY <1>1, <1>2, <1>3, PTL DEF Spec
-----------------------------------------------------------------------------
(* The way of a process *)

ToObserve == {"offer", "match", "observe"}
Kept == {"page", "mark"}

(* A listing in progress has just begun, or is where it was, or moved to   *)
(* its next commit.                                                        *)
Follows(q) ==
    /\ spider[q].pc \in Busy
    /\ spider'[q].item = spider[q].item /\ spider'[q].at = spider[q].at
    /\ spider'[q].pc \in ToObserve => spider[q].pc \in ToObserve
    /\ spider'[q].pc = "evidence" => spider[q].pc = "evidence" \/ RecordObservation(q)
    /\ spider'[q].pc \in Kept => spider[q].pc \in Kept \/ RecordEvidence(q)

LEMMA SameFollows ==
    ASSUME NEW q \in Runs, spider'[q] = spider[q], spider'[q].pc \in Busy
    PROVE  Follows(q)
BY DEF Follows

LEMMA GotoFollows ==
    ASSUME TypeOK, NEW r \in Runs, spider[r].pc \in Busy, NEW step \in Busy, Goto(r, step)
    PROVE  /\ spider'[r].pc = step
           /\ spider'[r].item = spider[r].item /\ spider'[r].at = spider[r].at
           /\ \A q \in Runs : q # r => spider'[q] = spider[q]
BY StepOfBusy DEF Goto, TypeOK

LEMMA Reaches ==
    ASSUME TypeOK, [Next]_vars, NEW q \in Runs, spider'[q].pc \in Busy
    PROVE  Follows(q) \/ \E l \in Listing : BeginListing(q, l)
<1>1. ASSUME NEW r \in Runs, Open(r) PROVE Follows(q)
  <2>1. spider'[r].pc = "ready"
    BY <1>1 DEF Open, Goto, At, TypeOK, Process, IdleProcess, BusyProcess, Busy
  <2>2. q # r
    BY <2>1, spider'[q].pc \in Busy DEF Busy
  <2>. QED BY <1>1, <2>2, SameFollows DEF Open, Goto, TypeOK
<1>2. ASSUME NEW r \in Runs, Exit(r) \/ SqlError(r) \/ PriceRefused(r) \/ MarkCollected(r)
      PROVE  Follows(q)
  <2>1. PICK p \in {Ready(TRUE), Ready(FALSE), [pc |-> "closed", healthy |-> TRUE]} :
            spider' = [spider EXCEPT ![r] = p]
    BY <1>2 DEF Exit, SqlError, PriceRefused, MarkCollected
  <2>2. p.pc \notin Busy
    BY <2>1 DEF Ready, Busy
  <2>3. q # r
    BY <2>1, <2>2 DEF TypeOK
  <2>. QED BY <2>1, <2>3, SameFollows DEF TypeOK
<1>3. ASSUME NEW r \in Runs, UpsertOffer(r) \/ MatchOffer(r) \/ UpsertPage(r)
                             \/ RecordObservation(r) \/ RecordEvidence(r)
      PROVE  Follows(q)
  <2>1. CASE q # r
    <3>1. spider'[q] = spider[q]
      BY <1>3, <2>1 DEF UpsertOffer, MatchOffer, UpsertPage, RecordObservation, RecordEvidence,
         Goto, TypeOK
    <3>. QED BY <3>1, SameFollows
  <2>2. CASE q = r /\ UpsertOffer(r)
    BY <2>2, GotoFollows DEF UpsertOffer, At, Busy, Follows, ToObserve, Kept
  <2>3. CASE q = r /\ MatchOffer(r)
    BY <2>3, GotoFollows DEF MatchOffer, At, Busy, Follows, ToObserve, Kept
  <2>4. CASE q = r /\ UpsertPage(r)
    BY <2>4, GotoFollows DEF UpsertPage, At, Busy, Follows, ToObserve, Kept
  <2>5. CASE q = r /\ RecordObservation(r)
    <3>1. spider[r].pc \in Busy /\ "evidence" \in Busy /\ Goto(r, "evidence")
      BY <2>5 DEF RecordObservation, At, Busy
    <3>2. spider'[r].pc = "evidence" /\ spider'[r].item = spider[r].item
          /\ spider'[r].at = spider[r].at
      BY <3>1, GotoFollows
    <3>. QED BY <2>5, <3>1, <3>2 DEF Follows, ToObserve, Kept
  <2>6. CASE q = r /\ RecordEvidence(r)
    <3>1. spider[r].pc \in Busy /\ "page" \in Busy /\ Goto(r, "page")
      BY <2>6 DEF RecordEvidence, At, Busy
    <3>2. spider'[r].pc = "page" /\ spider'[r].item = spider[r].item
          /\ spider'[r].at = spider[r].at
      BY <3>1, GotoFollows
    <3>. QED BY <2>6, <3>1, <3>2 DEF Follows, ToObserve, Kept
  <2>. QED BY <1>3, <2>1, <2>2, <2>3, <2>4, <2>5, <2>6
<1>4. ASSUME NEW r \in Runs, NEW l \in Listing, BeginListing(r, l), q # r PROVE Follows(q)
  BY <1>4, SameFollows DEF BeginListing, TypeOK
<1>5. ASSUME NEW r \in Runs, \/ \E u \in Urls : DiscoverPage(r, u)
                             \/ \E stage \in {"access", "extraction"} : RejectListing(r, stage)
      PROVE  Follows(q)
  BY <1>5, SameFollows DEF DiscoverPage, RejectListing
<1>6. CASE UNCHANGED vars
  BY <1>6, SameFollows DEF vars
<1>. QED BY <1>1, <1>2, <1>3, <1>4, <1>5, <1>6 DEF Next
-----------------------------------------------------------------------------
(* The evidence of a page *)

HasEvidence(u) == \E e \in evidence : e.url = u

Newest(E, u, e) == e \in E /\ e.url = u /\ \A d \in E : d.url = u => d.at <= e.at

(* A page with evidence has a newest row, and whoever is past the evidence *)
(* of its listing finds some for its page.                                 *)
EvidenceStands ==
    /\ \A u \in Urls : HasEvidence(u) => \E e \in evidence : Newest(evidence, u, e)
    /\ \A r \in Runs : spider[r].pc \in Kept => HasEvidence(spider[r].item.url)

PageInv == TypeOK /\ CollectedPageHasEvidence /\ EvidenceStands

(* The newest row of a page has no newer run, so no pruning reaches it. *)
LEMMA NewestSurvives ==
    ASSUME NEW E, E \subseteq Evidence, NEW u \in Urls, NEW e \in E, Newest(E, u, e)
    PROVE  Newest(Pruned(E, u), u, e)
<1>1. \A d \in E : d.at \in Nat
  BY LimitsAssumption DEF Evidence, Time
<1>2. NewerRuns(E, e.url, e.run) = {}
  BY <1>1 DEF NewerRuns, Newest
<1>3. Cardinality(NewerRuns(E, e.url, e.run)) < Keep
  BY <1>2, FS_EmptySet, KeepAssumption
<1>4. e \in OfNewestRuns(E, Keep)
  BY <1>3 DEF OfNewestRuns
<1>. QED BY <1>4 DEF Pruned, Newest

LEMMA EvidenceRecorded ==
    ASSUME PageInv, NEW r \in Runs, RecordEvidence(r)
    PROVE  /\ \A u \in Urls : HasEvidence(u) => HasEvidence(u)'
           /\ \E e \in evidence' : e.url = spider[r].item.url
           /\ \A u \in Urls : HasEvidence(u)' => \E e \in evidence' : Newest(evidence', u, e)
<1>. USE DEF PageInv
<1>1. spider[r].item \in Listing /\ spider[r].at \in Time
  BY BusyHasListing DEF RecordEvidence, At, Busy, TypeOK
<1>2. PICK v \in Urls : v = spider[r].item.url
  BY <1>1 DEF Listing
<1>. DEFINE row == [run |-> r, url |-> v, offer |-> spider[r].item.offer, at |-> spider[r].at]
            E == evidence \cup {row}
<1>3. row \in Evidence /\ row.url = v /\ E \subseteq Evidence /\ evidence \subseteq Evidence
  BY <1>1 DEF Evidence, Listing, TypeOK
<1>4. evidence' = Pruned(E, v)
  BY <1>2 DEF RecordEvidence
<1>5. \A d \in E : d.at \in Nat
  BY <1>3, LimitsAssumption DEF Evidence, Time
<1>6. \A u \in Urls : u # v => \A e \in Evidence : e.url = u => (e \in evidence' <=> e \in evidence)
  BY <1>3, <1>4 DEF Pruned
<1>7. ASSUME NEW u \in Urls, u # v
      PROVE  /\ HasEvidence(u) <=> HasEvidence(u)'
             /\ HasEvidence(u)' => \E e \in evidence' : Newest(evidence', u, e)
  <2>1. evidence' \subseteq E
    BY <1>4 DEF Pruned
  <2>2. \A e \in Evidence : e.url = u => (e \in evidence' <=> e \in evidence)
    BY <1>6, <1>7
  <2>3. HasEvidence(u) <=> HasEvidence(u)'
    BY <1>3, <2>1, <2>2 DEF HasEvidence
  <2>4. \A e \in evidence : Newest(evidence, u, e) => Newest(evidence', u, e)
    BY <1>3, <2>1, <2>2 DEF Newest
  <2>. QED BY <2>3, <2>4 DEF EvidenceStands, Newest
<1>8. \E e \in evidence' : Newest(evidence', v, e)
  <2>1. \E e \in E : Newest(E, v, e)
    <3>1. CASE HasEvidence(v)
      <4>1. PICK e \in evidence : Newest(evidence, v, e)
        BY <3>1 DEF EvidenceStands
      <4>2. row \in E /\ row.url = v /\ row.at \in Nat /\ e \in E /\ e.at \in Nat
        BY <1>3, <1>5, <4>1
      <4>3. \A d \in E : d = row \/ d \in evidence
        OBVIOUS
      <4>. HIDE DEF row, E
      <4>4. CASE row.at <= e.at
        <5>1. Newest(E, v, e)
          BY <1>5, <4>1, <4>2, <4>3, <4>4 DEF Newest
        <5>. QED BY <4>2, <5>1
      <4>5. CASE e.at < row.at
        <5>1. \A d \in E : d.url = v => d.at <= row.at
          BY <1>5, <4>1, <4>2, <4>3, <4>5 DEF Newest
        <5>2. Newest(E, v, row)
          BY <4>2, <5>1 DEF Newest
        <5>. QED BY <4>2, <5>2
      <4>. QED BY <4>2, <4>4, <4>5
    <3>2. CASE ~ HasEvidence(v)
      BY <1>3, <1>5, <3>2 DEF HasEvidence, Newest
    <3>. QED BY <3>1, <3>2
  <2>2. PICK e \in E : Newest(E, v, e)
    BY <2>1
  <2>. HIDE DEF E, row
  <2>3. Newest(Pruned(E, v), v, e)
    BY <1>3, <2>2, NewestSurvives
  <2>. QED BY <1>4, <2>3 DEF Newest
<1>9. \E e \in evidence' : e.url = v
  BY <1>8 DEF Newest
<1>. QED BY <1>2, <1>7, <1>8, <1>9 DEF HasEvidence

LEMMA PageStep == PageInv /\ [Next]_vars => CollectedPageHasEvidence' /\ EvidenceStands'
<1>. SUFFICES ASSUME PageInv, [Next]_vars
              PROVE  CollectedPageHasEvidence' /\ EvidenceStands'
  OBVIOUS
<1>. USE DEF PageInv
<1>1. UNCHANGED evidence \/ \E r \in Runs : RecordEvidence(r)
  BY DEF Next, vars, Open, Exit, SqlError, DiscoverPage, RejectListing, BeginListing, UpsertOffer,
     MatchOffer, PriceRefused, RecordObservation, UpsertPage, MarkCollected
<1>2. \A u \in Urls : HasEvidence(u) => HasEvidence(u)'
  BY <1>1, EvidenceRecorded DEF HasEvidence
<1>3. \A u \in Urls : HasEvidence(u)' => \E e \in evidence' : Newest(evidence', u, e)
  BY <1>1, EvidenceRecorded DEF HasEvidence, EvidenceStands
<1>4. ASSUME NEW q \in Runs, spider'[q].pc \in Kept
      PROVE  \E e \in evidence' : e.url = spider'[q].item.url
  <2>1. spider'[q].pc \in Busy /\ ~ \E l \in Listing : BeginListing(q, l)
    BY <1>4 DEF Kept, Busy, BeginListing, TypeOK
  <2>2. Follows(q)
    BY <2>1, Reaches
  <2>3. spider[q].item.url \in Urls
    BY <2>2, BusyHasListing DEF Follows, TypeOK, Listing
  <2>4. PICK u \in Urls : u = spider[q].item.url
    BY <2>3
  <2>5. HasEvidence(u)'
    BY <1>2, <1>4, <2>2, <2>4, EvidenceRecorded DEF Follows, EvidenceStands, HasEvidence
  <2>. QED BY <2>2, <2>4, <2>5 DEF Follows, HasEvidence
<1>5. EvidenceStands'
  BY <1>3, <1>4 DEF EvidenceStands, HasEvidence
<1>6. ASSUME NEW u \in Urls, page'[u] = "collected" PROVE HasEvidence(u)'
  <2>1. CASE page[u] = "collected"
    BY <1>2, <2>1 DEF CollectedPageHasEvidence, HasEvidence
  <2>2. ASSUME NEW r \in Runs, MarkCollected(r), page[u] # "collected" PROVE HasEvidence(u)'
    <3>1. spider[r].pc \in Kept /\ u = spider[r].item.url
      BY <1>6, <2>2 DEF MarkCollected, At, Kept, TypeOK
    <3>. QED BY <1>2, <3>1 DEF EvidenceStands
  <2>3. page'[u] = page[u] \/ page'[u] = "pending" \/ \E r \in Runs : MarkCollected(r)
    BY DEF Next, vars, Open, Exit, SqlError, DiscoverPage, RejectListing, BeginListing,
       UpsertOffer, MatchOffer, PriceRefused, RecordObservation, RecordEvidence, UpsertPage, TypeOK
  <2>. QED BY <1>6, <2>1, <2>2, <2>3
<1>7. CollectedPageHasEvidence'
  BY <1>6 DEF CollectedPageHasEvidence, HasEvidence
<1>. QED BY <1>5, <1>7

(* A page counted as collected has evidence, whatever retention and        *)
(* interruptions came after (record_evidence before mark_page_collected,   *)
(* and PRUNE_EVIDENCE never reaches the newest run).                       *)
THEOREM PagesAreEvidenced == Spec => []CollectedPageHasEvidence
<1>1. Init => PageInv
  BY TypeInit DEF PageInv, Init, CollectedPageHasEvidence, EvidenceStands, HasEvidence, Kept
<1>2. PageInv /\ [Next]_vars => PageInv'
  BY TypeStep, PageStep DEF PageInv
<1>3. PageInv => CollectedPageHasEvidence
  BY DEF PageInv
<1>. QED BY <1>1, <1>2, <1>3, PTL DEF Spec
-----------------------------------------------------------------------------
(* Spiders that run one at a time *)

ToEvidence == ToObserve \cup {"evidence"}

(* No instant is later than the clock, and a new run has written nothing. *)
Dated ==
    /\ \A b \in observations : b.at <= clock
    /\ \A e \in written : e.at <= clock
    /\ \A r \in Runs : spider[r].pc \in Busy => spider[r].at <= clock
    /\ \A r \in Runs : At(r, "new") => \A e \in written : e.run # r

(* Without overlap there is one process, its listing is later than all that *)
(* is committed, and so are its rows than those of the runs before it.      *)
InTurn ==
    /\ \A q, r \in Alive : q = r
    /\ \A r \in Runs : spider[r].pc \in ToObserve => \A b \in observations : b.at < spider[r].at
    /\ \A r \in Runs : spider[r].pc \in ToEvidence => \A e \in written : e.at < spider[r].at
    /\ \A r \in Alive : \A d, e \in written : e.run = r /\ d.run # r => d.at < e.at

OneByOne == TypeOK /\ Dated /\ (~ overlapped => InTurn)

(* Only Open brings a process to life, and only the two commits write. *)
LEMMA Frame ==
    ASSUME TypeOK, [Next]_vars
    PROVE  /\ clock <= clock' /\ clock \in Nat /\ clock' \in Nat
           /\ (\E r \in Runs : Open(r)) \/ (UNCHANGED overlapped /\ Alive' \subseteq Alive)
           /\ \A q \in Runs : At(q, "new")' => At(q, "new")
           /\ UNCHANGED observations \/ \E r \in Runs : RecordObservation(r)
           /\ UNCHANGED written \/ \E r \in Runs : RecordEvidence(r)
<1>1. clock \in Nat /\ clock' \in Nat
  BY TypeStep, LimitsAssumption DEF TypeOK
<1>2. clock <= clock'
  <2>1. UNCHANGED clock \/ \E r \in Runs : Arrives(r)
    BY DEF Next, vars, Open, Exit, SqlError, DiscoverPage, RejectListing, BeginListing,
       UpsertOffer, MatchOffer, PriceRefused, RecordObservation, RecordEvidence, UpsertPage,
       MarkCollected
  <2>. QED BY <1>1, <2>1 DEF Arrives
<1>3. UNCHANGED observations \/ \E r \in Runs : RecordObservation(r)
  BY DEF Next, vars, Open, Exit, SqlError, DiscoverPage, RejectListing, BeginListing,
     UpsertOffer, MatchOffer, PriceRefused, RecordEvidence, UpsertPage, MarkCollected
<1>4. UNCHANGED written \/ \E r \in Runs : RecordEvidence(r)
  BY DEF Next, vars, Open, Exit, SqlError, DiscoverPage, RejectListing, BeginListing,
     UpsertOffer, MatchOffer, PriceRefused, RecordObservation, UpsertPage, MarkCollected
<1>5. ASSUME NEW r \in Runs, NEW p, spider' = [spider EXCEPT ![r] = p], r \in Alive, p.pc # "new"
      PROVE  Alive' \subseteq Alive /\ \A q \in Runs : At(q, "new")' => At(q, "new")
  BY <1>5 DEF Alive, At, TypeOK
<1>6. ASSUME NEW r \in Runs, NEW step \in Busy, spider[r].pc \in Busy, Goto(r, step)
      PROVE  Alive' \subseteq Alive /\ \A q \in Runs : At(q, "new")' => At(q, "new")
  <2>1. [spider[r] EXCEPT !.pc = step].pc = step
    BY <1>6, StepOfBusy DEF TypeOK
  <2>2. r \in Alive /\ step # "new"
    BY <1>6 DEF Alive, At, Busy
  <2>. QED BY <1>5, <1>6, <2>1, <2>2 DEF Goto
<1>7. ASSUME NEW r \in Runs, Open(r) PROVE \A q \in Runs : At(q, "new")' => At(q, "new")
  BY <1>7 DEF Open, Goto, At, TypeOK
<1>8. ASSUME NEW r \in Runs, Exit(r) \/ SqlError(r) \/ PriceRefused(r) \/ MarkCollected(r)
      PROVE  /\ UNCHANGED overlapped
             /\ Alive' \subseteq Alive /\ \A q \in Runs : At(q, "new")' => At(q, "new")
  <2>1. PICK p \in {Ready(TRUE), Ready(FALSE), [pc |-> "closed", healthy |-> TRUE]} :
            spider' = [spider EXCEPT ![r] = p]
    BY <1>8 DEF Exit, SqlError, PriceRefused, MarkCollected
  <2>2. r \in Alive /\ p.pc # "new"
    BY <1>8, <2>1 DEF Exit, SqlError, PriceRefused, MarkCollected, Ready, Alive, At, Busy
  <2>3. UNCHANGED overlapped
    BY <1>8 DEF Exit, SqlError, PriceRefused, MarkCollected
  <2>. QED BY <1>5, <2>1, <2>2, <2>3
<1>9. ASSUME NEW r \in Runs, UpsertOffer(r) \/ MatchOffer(r) \/ UpsertPage(r)
                             \/ RecordObservation(r) \/ RecordEvidence(r)
      PROVE  /\ UNCHANGED overlapped
             /\ Alive' \subseteq Alive /\ \A q \in Runs : At(q, "new")' => At(q, "new")
  <2>1. UNCHANGED overlapped
    BY <1>9 DEF UpsertOffer, MatchOffer, UpsertPage, RecordObservation, RecordEvidence
  <2>2. spider[r].pc \in Busy /\ \E step \in Busy : Goto(r, step)
    BY <1>9 DEF UpsertOffer, MatchOffer, UpsertPage, RecordObservation, RecordEvidence, At, Busy
  <2>. QED BY <1>6, <2>1, <2>2
<1>10. ASSUME NEW r \in Runs, NEW l \in Listing, BeginListing(r, l)
       PROVE  /\ UNCHANGED overlapped
              /\ Alive' \subseteq Alive /\ \A q \in Runs : At(q, "new")' => At(q, "new")
  BY <1>5, <1>10 DEF BeginListing, Arrives, Alive, At
<1>11. ASSUME NEW r \in Runs, \/ \E u \in Urls : DiscoverPage(r, u)
                              \/ \E stage \in {"access", "extraction"} : RejectListing(r, stage)
       PROVE  /\ UNCHANGED overlapped
              /\ Alive' \subseteq Alive /\ \A q \in Runs : At(q, "new")' => At(q, "new")
  BY <1>11 DEF DiscoverPage, RejectListing, Alive, At
<1>12. ASSUME UNCHANGED vars
       PROVE  /\ UNCHANGED overlapped
              /\ Alive' \subseteq Alive /\ \A q \in Runs : At(q, "new")' => At(q, "new")
  BY <1>12 DEF vars, Alive, At
<1>13. /\ (\E r \in Runs : Open(r)) \/ (UNCHANGED overlapped /\ Alive' \subseteq Alive)
       /\ \A q \in Runs : At(q, "new")' => At(q, "new")
  <2>1. CASE Next
    <3>1. PICK r \in Runs :
              \/ Open(r) \/ Exit(r) \/ SqlError(r)
              \/ \E u \in Urls : DiscoverPage(r, u)
              \/ \E stage \in {"access", "extraction"} : RejectListing(r, stage)
              \/ \E l \in Listing : BeginListing(r, l)
              \/ UpsertOffer(r) \/ MatchOffer(r) \/ PriceRefused(r) \/ RecordObservation(r)
              \/ RecordEvidence(r) \/ UpsertPage(r) \/ MarkCollected(r)
      BY <2>1 DEF Next
    <3>. QED BY <1>7, <1>8, <1>9, <1>10, <1>11, <3>1
  <2>. QED BY <1>12, <2>1
<1>. QED BY <1>1, <1>2, <1>3, <1>4, <1>13

(* The rows the two commits add, and where they leave the process. *)
LEMMA Commits ==
    ASSUME TypeOK, NEW r \in Runs
    PROVE  /\ RecordObservation(r) =>
                  /\ spider[r].pc = "observe" /\ spider'[r].pc = "evidence" /\ r \in Alive
                  /\ \A b \in observations' : b \in observations \/ b.at = spider[r].at
           /\ RecordEvidence(r) =>
                  /\ spider[r].pc = "evidence" /\ spider'[r].pc = "page" /\ r \in Alive
                  /\ \A e \in written' : e \in written \/ (e.run = r /\ e.at = spider[r].at)
<1>1. ASSUME RecordObservation(r)
      PROVE  /\ spider[r].pc = "observe" /\ spider'[r].pc = "evidence" /\ r \in Alive
             /\ \A b \in observations' : b \in observations \/ b.at = spider[r].at
  <2>1. spider[r].pc = "observe" /\ Goto(r, "evidence")
    BY <1>1 DEF RecordObservation, At
  <2>2. spider'[r].pc = "evidence" /\ r \in Alive
    BY <2>1, GotoFollows DEF Busy, Alive, At
  <2>3. \A b \in observations' : b \in observations \/ b.at = spider[r].at
    BY <1>1 DEF RecordObservation
  <2>. QED BY <2>1, <2>2, <2>3
<1>2. ASSUME RecordEvidence(r)
      PROVE  /\ spider[r].pc = "evidence" /\ spider'[r].pc = "page" /\ r \in Alive
             /\ \A e \in written' : e \in written \/ (e.run = r /\ e.at = spider[r].at)
  <2>1. spider[r].pc = "evidence" /\ Goto(r, "page")
    BY <1>2 DEF RecordEvidence, At
  <2>2. spider'[r].pc = "page" /\ r \in Alive
    BY <2>1, GotoFollows DEF Busy, Alive, At
  <2>3. \A e \in written' : e \in written \/ (e.run = r /\ e.at = spider[r].at)
    BY <1>2 DEF RecordEvidence
  <2>. QED BY <2>1, <2>2, <2>3
<1>. QED BY <1>1, <1>2

(* The instants of rows and listings are numbers. *)
LEMMA Instants ==
    ASSUME TypeOK
    PROVE  /\ \A b \in observations : b.at \in Nat
           /\ \A e \in written : e.at \in Nat
           /\ \A r \in Runs : spider[r].pc \in Busy => spider[r].at \in Nat
           /\ clock \in Nat
BY BusyHasListing, LimitsAssumption DEF TypeOK, Time, Observation, Evidence

LEMMA DatedStep == TypeOK /\ Dated /\ [Next]_vars => Dated'
<1>. SUFFICES ASSUME TypeOK, Dated, [Next]_vars PROVE Dated'
  OBVIOUS
<1>1. clock <= clock' /\ clock \in Nat /\ clock' \in Nat
  BY Frame
<1>2. ASSUME NEW q \in Runs, spider'[q].pc \in Busy PROVE spider'[q].at <= clock'
  <2>1. CASE Follows(q)
    BY <1>1, <2>1, Instants DEF Follows, Dated
  <2>2. ASSUME NEW l \in Listing, BeginListing(q, l) PROVE spider'[q].at <= clock'
    BY <1>1, <2>2 DEF BeginListing, TypeOK
  <2>. QED BY <1>2, <2>1, <2>2, Reaches
<1>3. \A b \in observations' : b.at <= clock'
  <2>1. \A b \in observations : b.at <= clock'
    BY <1>1, Instants DEF Dated
  <2>2. ASSUME NEW r \in Runs, RecordObservation(r) PROVE spider[r].at <= clock'
    BY <1>1, <2>2, Instants, Commits DEF Busy, Dated
  <2>. QED BY <2>1, <2>2, Frame, Commits
<1>4. \A e \in written' : e.at <= clock'
  <2>1. \A e \in written : e.at <= clock'
    BY <1>1, Instants DEF Dated
  <2>2. ASSUME NEW r \in Runs, RecordEvidence(r) PROVE spider[r].at <= clock'
    BY <1>1, <2>2, Instants, Commits DEF Busy, Dated
  <2>. QED BY <2>1, <2>2, Frame, Commits
<1>5. ASSUME NEW q \in Runs, At(q, "new")', NEW e \in written' PROVE e.run # q
  <2>1. At(q, "new") /\ \A d \in written : d.run # q
    BY <1>5, Frame DEF Dated
  <2>2. ASSUME NEW r \in Runs, RecordEvidence(r) PROVE q # r
    BY <2>1, <2>2, Commits DEF At
  <2>. QED BY <2>1, <2>2, Frame, Commits
<1>. QED BY <1>2, <1>3, <1>4, <1>5 DEF Dated

LEMMA InTurnStep == OneByOne /\ [Next]_vars => (~ overlapped' => InTurn')
<1>. SUFFICES ASSUME OneByOne, [Next]_vars, ~ overlapped' PROVE InTurn'
  OBVIOUS
<1>. USE DEF OneByOne
<1>1. InTurn
  <2>1. ~ overlapped
    BY Frame DEF Open, TypeOK
  <2>. QED BY <2>1
<1>2. ASSUME NEW r \in Runs, Open(r)
      PROVE  /\ Alive' \subseteq {r} /\ At(r, "new")
             /\ UNCHANGED <<observations, written>>
  <2>1. Alive = {}
    BY <1>2 DEF Open
  <2>2. \A q \in Runs : q # r => spider'[q] = spider[q]
    BY <1>2 DEF Open, Goto, TypeOK
  <2>. QED BY <1>2, <2>1, <2>2 DEF Alive, At, Open
<1>3. \A q, r \in Alive' : q = r
  BY <1>1, <1>2, Frame DEF InTurn
<1>4. ASSUME NEW q \in Runs, spider'[q].pc \in Busy, Follows(q) PROVE q \in Alive
  BY <1>4 DEF Follows, Alive, At, Busy
<1>5. ASSUME NEW q \in Runs, spider'[q].pc \in ToObserve, NEW b \in observations'
      PROVE  b.at < spider'[q].at
  <2>1. spider'[q].pc \in Busy
    BY <1>5 DEF ToObserve, Busy
  <2>2. ASSUME NEW l \in Listing, BeginListing(q, l) PROVE b.at < spider'[q].at
    <3>1. spider'[q].at = clock + 1 /\ b \in observations
      BY <1>5, <2>2 DEF BeginListing, Arrives, TypeOK
    <3>. QED BY <3>1, Instants DEF Dated
  <2>3. CASE Follows(q)
    <3>1. q \in Alive /\ spider[q].pc \in ToObserve /\ spider'[q].at = spider[q].at
      BY <1>4, <1>5, <2>1, <2>3 DEF Follows
    <3>2. ASSUME NEW r \in Runs, RecordObservation(r) PROVE FALSE
      <4>1. r = q
        BY <1>1, <3>1, <3>2, Commits DEF InTurn
      <4>. QED BY <1>5, <3>2, <4>1, Commits DEF ToObserve
    <3>3. b \in observations
      BY <1>5, <3>2, Frame
    <3>. QED BY <1>1, <3>1, <3>3 DEF InTurn
  <2>. QED BY <2>1, <2>2, <2>3, Reaches
<1>6. ASSUME NEW q \in Runs, spider'[q].pc \in ToEvidence, NEW e \in written'
      PROVE  e.at < spider'[q].at
  <2>1. spider'[q].pc \in Busy
    BY <1>6 DEF ToEvidence, ToObserve, Busy
  <2>2. ASSUME NEW l \in Listing, BeginListing(q, l) PROVE e.at < spider'[q].at
    <3>1. spider'[q].at = clock + 1 /\ e \in written
      BY <1>6, <2>2 DEF BeginListing, Arrives, TypeOK
    <3>. QED BY <3>1, Instants DEF Dated
  <2>3. CASE Follows(q)
    <3>1. q \in Alive /\ spider[q].pc \in ToEvidence /\ spider'[q].at = spider[q].at
      BY <1>4, <1>6, <2>1, <2>3, Commits DEF Follows, ToEvidence, ToObserve
    <3>2. ASSUME NEW r \in Runs, RecordEvidence(r) PROVE FALSE
      <4>1. r = q
        BY <1>1, <3>1, <3>2, Commits DEF InTurn
      <4>. QED BY <1>6, <3>2, <4>1, Commits DEF ToEvidence, ToObserve
    <3>3. e \in written
      BY <1>6, <3>2, Frame
    <3>. QED BY <1>1, <3>1, <3>3 DEF InTurn
  <2>. QED BY <2>1, <2>2, <2>3, Reaches
<1>7. ASSUME NEW q \in Alive', NEW d \in written', NEW e \in written', e.run = q, d.run # q
      PROVE  d.at < e.at
  <2>1. ASSUME NEW r \in Runs, Open(r) PROVE FALSE
    <3>1. q = r /\ e \in written /\ At(r, "new")
      BY <1>2, <1>7, <2>1
    <3>. QED BY <1>7, <3>1 DEF Dated
  <2>2. q \in Alive
    BY <1>7, <2>1, Frame
  <2>3. ASSUME NEW r \in Runs, RecordEvidence(r) PROVE d.at < e.at
    <3>1. r = q
      BY <1>1, <2>2, <2>3, Commits DEF InTurn
    <3>2. d \in written /\ (e \in written \/ e.at = spider[q].at)
      BY <1>7, <2>3, <3>1, Commits
    <3>3. spider[q].pc \in ToEvidence
      BY <2>3, <3>1, Commits DEF ToEvidence
    <3>. QED BY <1>1, <1>7, <2>2, <3>2, <3>3 DEF InTurn, Alive
  <2>4. CASE UNCHANGED written
    BY <1>1, <1>7, <2>2, <2>4 DEF InTurn
  <2>. QED BY <2>3, <2>4, Frame
<1>8. \A r \in Runs : spider'[r].pc \in ToObserve =>
          \A b \in observations' : b.at < spider'[r].at
  BY <1>5
<1>9. \A r \in Runs : spider'[r].pc \in ToEvidence => \A e \in written' : e.at < spider'[r].at
  BY <1>6
<1>10. \A r \in Alive' : \A d, e \in written' : e.run = r /\ d.run # r => d.at < e.at
  BY <1>7
<1>. QED BY <1>3, <1>8, <1>9, <1>10 DEF InTurn

LEMMA OneByOneInit == Init => OneByOne
<1>. SUFFICES ASSUME Init PROVE OneByOne
  OBVIOUS
<1>1. TypeOK
  BY TypeInit
<1>2. \A r \in Runs : spider[r].pc = "new"
  BY DEF Init
<1>3. Alive = {}
  BY <1>2 DEF Alive, At
<1>4. InTurn
  BY <1>2, <1>3 DEF InTurn, ToEvidence, ToObserve
<1>5. Dated
  BY <1>2 DEF Init, Dated, Busy
<1>. QED BY <1>1, <1>4, <1>5 DEF OneByOne

LEMMA OneByOneStep == OneByOne /\ [Next]_vars => OneByOne'
BY TypeStep, DatedStep, InTurnStep DEF OneByOne

-----------------------------------------------------------------------------
(* The date of the last price move *)

(* A row without observation has no price to compare with. *)
Unpriced == \A o \in Offers : ObservationsOf(o) = {} => offer[o].price = NoPrice

ChangeInv ==
    OneByOne /\ SummaryIsNewestObservation /\ Unpriced /\ LastChangeIsLastPriceMove

(* What the date says of one row and the observations it summarises. *)
MovedLast(B, row) ==
    LET before == {b \in B : b.at < row.changed}
    IN  /\ \E b \in B : b.at = row.changed
        /\ \A b \in B \ before : b.price = row.price
        /\ \A b \in before : \E c \in before : b.at <= c.at /\ c.price # row.price

(* A newest observation moves the date exactly if it moves the price. *)
LEMMA NewestMoves ==
    ASSUME NEW B, \A c \in B : c.at \in Nat,
           NEW row \in OfferRow, NEW price \in Prices, NEW t \in Time, NEW b,
           b.at = t, b.price = price, \A c \in B : c.at < t,
           B = {} => row.price = NoPrice,
           B # {} => /\ MovedLast(B, row)
                     /\ \E c \in B : c.price = row.price /\ \A d \in B : d.at <= c.at,
           NEW new \in OfferRow, new.price = price,
           new.changed = IF row.price = price THEN row.changed ELSE t
    PROVE  MovedLast(B \cup {b}, new)
<1>1. t \in Nat
  BY LimitsAssumption DEF Time
<1>2. CASE row.price = price
  <2>1. B # {}
    BY <1>2, NoneAssumption
  <2>2. MovedLast(B, row) /\ new.changed = row.changed
    BY <1>2, <2>1
  <2>3. PICK c \in B : c.at = row.changed
    BY <2>2 DEF MovedLast
  <2>4. {d \in B \cup {b} : d.at < new.changed} = {d \in B : d.at < row.changed}
    BY <1>1, <2>2, <2>3
  <2>. QED BY <1>2, <2>2, <2>4 DEF MovedLast
<1>3. CASE row.price # price
  <2>1. new.changed = t
    BY <1>3
  <2>2. {d \in B \cup {b} : d.at < new.changed} = B
    BY <1>1, <2>1
  <2>3. \A d \in B : \E c \in B : d.at <= c.at /\ c.price # new.price
    BY <1>3
  <2>. QED BY <2>1, <2>2, <2>3 DEF MovedLast
<1>. QED BY <1>2, <1>3

LEMMA ChangeStep ==
    ChangeInv /\ [Next]_vars => Unpriced' /\ LastChangeIsLastPriceMove'
<1>. SUFFICES ASSUME ChangeInv, [Next]_vars
              PROVE  Unpriced' /\ LastChangeIsLastPriceMove'
  OBVIOUS
<1>. USE DEF ChangeInv, OneByOne
<1>1. ~ overlapped' => ~ overlapped
  BY Frame DEF Open, TypeOK
<1>2. ASSUME NEW r \in Runs, UpsertOffer(r) PROVE Unpriced' /\ LastChangeIsLastPriceMove'
  <2>1. \A o \in Offers : offer'[o].price = offer[o].price /\ offer'[o].changed = offer[o].changed
    BY <1>2 DEF UpsertOffer, TypeOK, OfferRow
  <2>2. observations' = observations
    BY <1>2 DEF UpsertOffer
  <2>3. Unpriced'
    BY <2>1, <2>2 DEF Unpriced, ObservationsOf
  <2>4. LastChangeIsLastPriceMove'
    BY <1>1, <2>1, <2>2 DEF LastChangeIsLastPriceMove, ObservationsOf
  <2>. QED BY <2>3, <2>4
<1>3. CASE UNCHANGED <<offer, observations>>
  BY <1>1, <1>3 DEF Unpriced, LastChangeIsLastPriceMove, ObservationsOf
<1>4. ASSUME NEW r \in Runs, RecordObservation(r), ~ Observed(r, spider[r].item.offer)
      PROVE  Unpriced' /\ LastChangeIsLastPriceMove'
  <2>1. PICK o \in Offers, t \in Time, price \in Prices, seller \in Sellers :
            /\ o = spider[r].item.offer /\ t = spider[r].at
            /\ price = spider[r].item.price /\ seller = spider[r].item.seller
    <3>1. spider[r] \in Process /\ spider[r].pc \in Busy
      BY <1>4 DEF RecordObservation, At, Busy, TypeOK
    <3>. QED BY <1>4, <3>1, BusyHasListing DEF Listing, RecordObservation
  <2>. DEFINE b == [offer |-> o, run |-> r, at |-> t, price |-> price, seller |-> seller]
  <2>2. /\ observations' = observations \cup {b}
        /\ offer' = [offer EXCEPT ![o] = Summary(@, price, t)]
    BY <1>4, <2>1 DEF RecordObservation
  <2>3. \A q \in Offers : q # o => offer'[q] = offer[q] /\ ObservationsOf(q)' = ObservationsOf(q)
    BY <2>2 DEF ObservationsOf, TypeOK
  <2>4. ObservationsOf(o)' = ObservationsOf(o) \cup {b}
    BY <2>2 DEF ObservationsOf
  <2>5. Unpriced'
    BY <2>3, <2>4 DEF Unpriced
  <2>6. ASSUME ~ overlapped' PROVE MovedLast(ObservationsOf(o)', offer'[o])
    <3>1. offer[o] \in OfferRow /\ offer'[o] = Summary(offer[o], price, t)
      BY <2>1, <2>2 DEF TypeOK
    <3>2. t \in Nat /\ t > 0 /\ offer[o].verified \in Nat
      BY <2>1, <3>1, LimitsAssumption DEF OfferRow, Time, Never
    <3>3. \A c \in ObservationsOf(o) : c.at \in Nat /\ c.at < t
      BY <1>1, <1>4, <2>1, <2>6, Instants, Commits DEF InTurn, ToObserve, ObservationsOf
    <3>4. offer[o].verified < t
      BY <2>1, <3>2, <3>3 DEF SummaryIsNewestObservation, Never
    <3>5. /\ offer'[o] \in OfferRow /\ offer'[o].price = price
          /\ offer'[o].changed = IF offer[o].price = price THEN offer[o].changed ELSE t
      <4>1. offer'[o] \in OfferRow
        BY <2>1, <3>1, SummaryIsRow
      <4>2. ~ (offer[o].verified > t)
        BY <3>2, <3>4
      <4>. QED BY <3>1, <4>1, <4>2 DEF Summary, OfferRow
    <3>6. ObservationsOf(o) = {} => offer[o].price = NoPrice
      BY DEF Unpriced
    <3>7. ObservationsOf(o) # {} =>
              /\ MovedLast(ObservationsOf(o), offer[o])
              /\ \E c \in ObservationsOf(o) :
                     c.price = offer[o].price /\ \A d \in ObservationsOf(o) : d.at <= c.at
      BY <1>1, <2>6 DEF LastChangeIsLastPriceMove, MovedLast, SummaryIsNewestObservation
    <3>8. b.at = t /\ b.price = price
      OBVIOUS
    <3>. HIDE DEF b
    <3>9. PICK B \in SUBSET observations, row \in OfferRow, new \in OfferRow :
              B = ObservationsOf(o) /\ row = offer[o] /\ new = offer'[o]
      BY <3>1, <3>5 DEF ObservationsOf
    <3>10. MovedLast(B \cup {b}, new)
      BY <3>3, <3>5, <3>6, <3>7, <3>8, <3>9, NewestMoves
    <3>. QED BY <2>4, <3>9, <3>10
  <2>7. LastChangeIsLastPriceMove'
    BY <1>1, <2>3, <2>6 DEF LastChangeIsLastPriceMove, MovedLast
  <2>. QED BY <2>5, <2>7
<1>5. \/ UNCHANGED <<offer, observations>>
      \/ \E r \in Runs : UpsertOffer(r)
      \/ \E r \in Runs : RecordObservation(r) /\ ~ Observed(r, spider[r].item.offer)
  <2>1. \/ UNCHANGED <<offer, observations>>
        \/ \E r \in Runs : UpsertOffer(r) \/ RecordObservation(r)
    BY DEF Next, vars, Open, Exit, SqlError, DiscoverPage, RejectListing, BeginListing, MatchOffer,
       PriceRefused, RecordEvidence, UpsertPage, MarkCollected
  <2>. QED BY <2>1 DEF RecordObservation
<1>. QED BY <1>2, <1>3, <1>4, <1>5

(* As long as no two spiders overlapped, last_changed_at is the instant of *)
(* the last price move (UPDATE_OFFER_PRICE_SUMMARY compares with the price *)
(* the row has, which is then the observation before).                     *)
THEOREM ChangeDateCorrect == Spec => []LastChangeIsLastPriceMove
<1>1. Init => ChangeInv
  BY OneByOneInit DEF ChangeInv, Init, SummaryIsNewestObservation, Unpriced,
     LastChangeIsLastPriceMove, ObservationsOf, NoRow
<1>2. ChangeInv /\ [Next]_vars => ChangeInv'
  BY OneByOneStep, SummaryStep, ChangeStep DEF ChangeInv, OneByOne, SummaryInv
<1>3. ChangeInv => LastChangeIsLastPriceMove
  BY DEF ChangeInv
<1>. QED BY <1>1, <1>2, <1>3, PTL DEF Spec

-----------------------------------------------------------------------------
(* The evidence that is retained *)

Writers(E) == {e.run : e \in E}

LEMMA NewerRunsFinite ==
    ASSUME NEW E, IsFiniteSet(Writers(E)), NEW u, NEW q
    PROVE  IsFiniteSet(NewerRuns(E, u, q)) /\ Cardinality(NewerRuns(E, u, q)) \in Nat
<1>1. NewerRuns(E, u, q) \in SUBSET Writers(E)
  BY DEF NewerRuns, Writers
<1>2. IsFiniteSet(NewerRuns(E, u, q))
  BY <1>1, FS_Subset
<1>. QED BY <1>2, FS_CardinalityType

(* A run with a row as new as any other of the page has none before it. *)
LEMMA NothingNewer ==
    ASSUME NEW E, \A e \in E : e.at \in Nat, NEW u, NEW x \in E, x.url = u,
           \A e \in E : e.url = u /\ e.run # x.run => e.at <= x.at
    PROVE  Cardinality(NewerRuns(E, u, x.run)) < Keep
<1>1. NewerRuns(E, u, x.run) = {}
  BY DEF NewerRuns
<1>. QED BY <1>1, FS_EmptySet, KeepAssumption

(* A run newer than another has no more runs before it. *)
LEMMA NewerRunsNest ==
    ASSUME NEW E, IsFiniteSet(Writers(E)), \A e \in E : e.at \in Nat, NEW u, NEW q,
           NEW p \in NewerRuns(E, u, q)
    PROVE  Cardinality(NewerRuns(E, u, p)) <= Cardinality(NewerRuns(E, u, q))
<1>1. PICK e \in E : e.url = u /\ e.run = p /\ \A d \in E : d.url = u /\ d.run = q => d.at < e.at
  BY DEF NewerRuns
<1>2. ASSUME NEW s \in NewerRuns(E, u, p) PROVE s \in NewerRuns(E, u, q)
  <2>1. PICK y \in E : y.url = u /\ y.run = s /\ \A d \in E : d.url = u /\ d.run = p => d.at < y.at
    BY <1>2 DEF NewerRuns
  <2>2. e.at < y.at
    BY <1>1, <2>1
  <2>3. \A d \in E : d.url = u /\ d.run = q => d.at < y.at
    BY <1>1, <2>2
  <2>. QED BY <1>2, <2>1, <2>3 DEF NewerRuns
<1>3. NewerRuns(E, u, p) \in SUBSET NewerRuns(E, u, q)
  BY <1>2
<1>. QED BY <1>3, NewerRunsFinite, FS_Subset

(* Pruning what was retained, with the newest row added, retains what      *)
(* pruning all that was ever written would.                                *)
LEMMA Retention ==
    ASSUME NEW W, W \subseteq Evidence, IsFiniteSet(Writers(W)),
           NEW u \in Urls, NEW row \in Evidence, row.url = u,
           \A e \in W : e.at < row.at,
           \A d, e \in W : e.run = row.run /\ d.run # row.run => d.at < e.at
    PROVE  Pruned(OfNewestRuns(W, Keep) \cup {row}, u) = OfNewestRuns(W \cup {row}, Keep)
<1>. DEFINE K == OfNewestRuns(W, Keep)
            E == K \cup {row}
            All == W \cup {row}
            Few(S, v, q) == Cardinality(NewerRuns(S, v, q)) < Keep
<1>1. \A e \in All : e.at \in Nat
  BY LimitsAssumption DEF Evidence, Time
<1>2. IsFiniteSet(Writers(All)) /\ E \subseteq All
  <2>1. Writers(All) = Writers(W) \cup {row.run}
    BY DEF Writers
  <2>. QED BY <2>1, FS_AddElement DEF OfNewestRuns
<1>3. \A x \in W : x \in K <=> Few(W, x.url, x.run)
  BY DEF OfNewestRuns
<1>4. ASSUME NEW v, v # u, NEW q PROVE NewerRuns(All, v, q) = NewerRuns(W, v, q)
  BY <1>4 DEF NewerRuns
<1>5. Few(All, u, row.run) /\ Few(E, u, row.run)
  <2>1. \A e \in All : e.at <= row.at
    BY <1>1
  <2>2. Few(All, u, row.run)
    BY <1>1, <2>1, NothingNewer
  <2>3. \A e \in E : e.at \in Nat /\ e.at <= row.at
    BY <1>1, <1>2, <2>1
  <2>4. row \in E
    OBVIOUS
  <2>. HIDE DEF E
  <2>5. Few(E, u, row.run)
    BY <2>3, <2>4, NothingNewer
  <2>. QED BY <2>2, <2>5
<1>6. \A x \in W : x.run = row.run => x \in K
  <2>. SUFFICES ASSUME NEW x \in W, x.run = row.run PROVE Few(W, x.url, x.run)
    BY <1>3
  <2>1. \A e \in W : e.at \in Nat /\ (e.url = x.url /\ e.run # x.run => e.at <= x.at)
    BY <1>1
  <2>. QED BY <2>1, NothingNewer
<1>7. ASSUME NEW x \in K, x.url = u, x.run # row.run
      PROVE  NewerRuns(E, u, x.run) = NewerRuns(All, u, x.run)
  <2>1. x \in W /\ Few(W, u, x.run)
    BY <1>3, <1>7 DEF OfNewestRuns
  <2>2. \A d \in W : d.url = u /\ d.run = x.run => d \in K
    BY <1>3, <2>1
  <2>3. \A d \in All : d.url = u /\ d.run = x.run => d \in E
    BY <1>7, <2>2
  <2>4. ASSUME NEW p \in NewerRuns(All, u, x.run) PROVE p \in NewerRuns(E, u, x.run)
    <3>1. PICK e \in All : /\ e.url = u /\ e.run = p
                           /\ \A d \in All : d.url = u /\ d.run = x.run => d.at < e.at
      BY <2>4 DEF NewerRuns
    <3>2. ASSUME e \in W PROVE e \in K
      <4>1. p \in NewerRuns(W, u, x.run)
        BY <2>4, <3>1, <3>2 DEF NewerRuns
      <4>2. Cardinality(NewerRuns(W, u, p)) <= Cardinality(NewerRuns(W, u, x.run))
        BY <1>1, <4>1, NewerRunsNest
      <4>3. /\ Cardinality(NewerRuns(W, u, p)) \in Nat
            /\ Cardinality(NewerRuns(W, u, x.run)) \in Nat
        BY NewerRunsFinite
      <4>4. Few(W, u, p)
        BY <2>1, <4>2, <4>3, KeepAssumption
      <4>. QED BY <1>3, <3>1, <3>2, <4>4
    <3>3. e \in E
      BY <3>2
    <3>4. \A d \in E : d.url = u /\ d.run = x.run => d.at < e.at
      BY <1>2, <3>1
    <3>. QED BY <2>4, <3>1, <3>3, <3>4 DEF NewerRuns
  <2>5. ASSUME NEW p \in NewerRuns(E, u, x.run) PROVE p \in NewerRuns(All, u, x.run)
    <3>1. PICK e \in E : /\ e.url = u /\ e.run = p
                         /\ \A d \in E : d.url = u /\ d.run = x.run => d.at < e.at
      BY <2>5 DEF NewerRuns
    <3>2. \A d \in All : d.url = u /\ d.run = x.run => d.at < e.at
      BY <2>3, <3>1
    <3>. QED BY <1>2, <2>5, <3>1, <3>2 DEF NewerRuns
  <2>. QED BY <2>4, <2>5
<1>8. ASSUME NEW x \in W, x \notin K, x.url = u PROVE ~ Few(All, u, x.run)
  <2>1. x.run # row.run /\ ~ Few(W, u, x.run)
    BY <1>3, <1>6, <1>8
  <2>2. NewerRuns(W, u, x.run) \in SUBSET NewerRuns(All, u, x.run)
    BY <2>1 DEF NewerRuns
  <2>3. /\ IsFiniteSet(NewerRuns(All, u, x.run))
        /\ Cardinality(NewerRuns(All, u, x.run)) \in Nat
        /\ Cardinality(NewerRuns(W, u, x.run)) \in Nat
    BY <1>2, NewerRunsFinite
  <2>4. Cardinality(NewerRuns(W, u, x.run)) <= Cardinality(NewerRuns(All, u, x.run))
    BY <2>2, <2>3, FS_Subset
  <2>. QED BY <2>1, <2>3, <2>4, KeepAssumption
<1>9. ASSUME NEW x \in All
      PROVE  x \in Pruned(E, u) <=> x \in OfNewestRuns(All, Keep)
  <2>1. x \in OfNewestRuns(All, Keep) <=> Few(All, x.url, x.run)
    BY DEF OfNewestRuns
  <2>2. x \in Pruned(E, u) <=> x \in E /\ (x.url = u => Few(E, u, x.run))
    BY DEF Pruned, OfNewestRuns
  <2>3. CASE x.url # u
    <3>1. x \in W
      BY <2>3
    <3>2. x \in E <=> Few(W, x.url, x.run)
      BY <1>3, <2>3, <3>1
    <3>. QED BY <1>4, <2>1, <2>2, <2>3, <3>2
  <2>4. CASE x.url = u /\ x.run = row.run
    <3>1. x \in E
      BY <1>6, <2>4
    <3>. QED BY <1>5, <2>1, <2>2, <2>4, <3>1
  <2>5. CASE x.url = u /\ x.run # row.run /\ x \in K
    BY <1>7, <2>1, <2>2, <2>5
  <2>6. CASE x.url = u /\ x.run # row.run /\ x \notin K
    <3>1. x \in W /\ x \notin E
      BY <2>6
    <3>. QED BY <1>8, <2>1, <2>2, <2>6, <3>1
  <2>. QED BY <2>3, <2>4, <2>5, <2>6
<1>10. Pruned(E, u) \subseteq All /\ OfNewestRuns(All, Keep) \subseteq All
  BY <1>2 DEF Pruned, OfNewestRuns
<1>. QED BY <1>9, <1>10

RetainInv == OneByOne /\ IsFiniteSet(Writers(written)) /\ RetainedEvidenceIsComplete

LEMMA RetainStep ==
    RetainInv /\ [Next]_vars => IsFiniteSet(Writers(written))' /\ RetainedEvidenceIsComplete'
<1>. SUFFICES ASSUME RetainInv, [Next]_vars
              PROVE  IsFiniteSet(Writers(written'))  /\ RetainedEvidenceIsComplete'
  BY DEF Writers
<1>. USE DEF RetainInv, OneByOne
<1>1. ~ overlapped' => ~ overlapped
  BY Frame DEF Open, TypeOK
<1>2. ASSUME NEW r \in Runs, RecordEvidence(r)
      PROVE  IsFiniteSet(Writers(written')) /\ RetainedEvidenceIsComplete'
  <2>1. spider[r].item \in Listing /\ spider[r].at \in Time /\ spider[r].pc = "evidence"
    BY <1>2, BusyHasListing DEF RecordEvidence, At, Busy, TypeOK
  <2>2. PICK u \in Urls, row \in Evidence :
            /\ row.url = u /\ row.run = r /\ row.at = spider[r].at
            /\ written' = written \cup {row}
            /\ evidence' = Pruned(evidence \cup {row}, u)
    BY <1>2, <2>1 DEF RecordEvidence, Listing, Evidence
  <2>3. Writers(written') = Writers(written) \cup {r}
    BY <2>2 DEF Writers
  <2>4. IsFiniteSet(Writers(written'))
    BY <2>3, FS_AddElement
  <2>5. ASSUME ~ overlapped' PROVE evidence' = OfNewestRuns(written', Keep)
    <3>1. InTurn /\ evidence = OfNewestRuns(written, Keep)
      BY <1>1, <2>5 DEF RetainedEvidenceIsComplete
    <3>2. \A e \in written : e.at < row.at
      BY <2>1, <2>2, <3>1 DEF InTurn, ToEvidence
    <3>3. r \in Alive
      BY <1>2, Commits
    <3>4. \A d, e \in written : e.run = r /\ d.run # r => d.at < e.at
      BY <3>1, <3>3 DEF InTurn
    <3>5. Pruned(OfNewestRuns(written, Keep) \cup {row}, u) = OfNewestRuns(written \cup {row}, Keep)
      BY <2>2, <3>2, <3>4, Retention DEF TypeOK
    <3>. QED BY <2>2, <3>1, <3>5
  <2>. QED BY <2>4, <2>5 DEF RetainedEvidenceIsComplete
<1>3. CASE UNCHANGED <<evidence, written>>
  BY <1>1, <1>3 DEF RetainedEvidenceIsComplete, OfNewestRuns, NewerRuns
<1>4. UNCHANGED <<evidence, written>> \/ \E r \in Runs : RecordEvidence(r)
  BY DEF Next, vars, Open, Exit, SqlError, DiscoverPage, RejectListing, BeginListing, UpsertOffer,
     MatchOffer, PriceRefused, RecordObservation, UpsertPage, MarkCollected
<1>. QED BY <1>2, <1>3, <1>4

(* As long as no two spiders overlapped, what PRUNE_EVIDENCE leaves of a    *)
(* page, one row after the other, is all that its Keep newest runs wrote   *)
(* (evidence_retention_per_url counts collections, not rows).              *)
THEOREM RetentionComplete == Spec => []RetainedEvidenceIsComplete
<1>1. Init => RetainInv
  <2>. SUFFICES ASSUME Init PROVE RetainInv
    OBVIOUS
  <2>1. Writers(written) = {} /\ OfNewestRuns(written, Keep) = {} /\ evidence = {}
    BY DEF Init, Writers, OfNewestRuns
  <2>. QED BY <2>1, OneByOneInit, FS_EmptySet DEF RetainInv, RetainedEvidenceIsComplete
<1>2. RetainInv /\ [Next]_vars => RetainInv'
  BY OneByOneStep, RetainStep DEF RetainInv
<1>3. RetainInv => RetainedEvidenceIsComplete
  BY DEF RetainInv
<1>. QED BY <1>1, <1>2, <1>3, PTL DEF Spec
=============================================================================
