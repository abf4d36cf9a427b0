-------------------------- MODULE ExtractionProofs --------------------------
(***************************************************************************)
(* Theorems about Extraction, for any catalogue of devices, any adapters,  *)
(* any pages of any length and any limits: nothing that was read goes      *)
(* without a trace, what a page yields is whole, and a listing is filed as *)
(* what it sells where its texts tell.                                     *)
(***************************************************************************)
EXTENDS Extraction, TLAPS

(* How far the callback is, and what it has then. *)
Progress ==
    /\ stage = "open" => read = 0 /\ kept = <<>> /\ skips = <<>>
    /\ stage \in {"open", "reading"} => items = <<>>
    /\ stage = "emitting" => kept # <<>> \/ adapter = "buscape"
    /\ adapter = "lab" => skips = <<>>

(* The listings go out in the order of the page. *)
EmitsInOrder ==
    stage = "emitting" =>
        /\ Len(items) <= Len(kept)
        /\ \A i \in DOMAIN items : items[i] = Entry("listing", kept[i])

ExtractionInv ==
    /\ TypeOK /\ Progress /\ EmitsInOrder
    /\ EveryDropIsLogged /\ AnswerIsWhole

-----------------------------------------------------------------------------
(* The checks *)

LEMMA Least ==
    ASSUME NEW S \in SUBSET (1 .. 5), S # {}
    PROVE  \E i \in S : \A j \in S : i <= j
<1>1. \A i \in S : i \in {1, 2, 3, 4, 5}
    OBVIOUS
<1>2. CASE 1 \in S
    BY <1>1, <1>2
<1>3. CASE 1 \notin S /\ 2 \in S
    BY <1>1, <1>3
<1>4. CASE 1 \notin S /\ 2 \notin S /\ 3 \in S
    BY <1>1, <1>4
<1>5. CASE 1 \notin S /\ 2 \notin S /\ 3 \notin S /\ 4 \in S
    BY <1>1, <1>5
<1>6. CASE 1 \notin S /\ 2 \notin S /\ 3 \notin S /\ 4 \notin S
    <2>1. \A i \in S : i = 5
        BY <1>1, <1>6
    <2>2. 5 \in S
        BY <2>1
    <2> QED BY <2>1, <2>2
<1> QED BY <1>2, <1>3, <1>4, <1>5, <1>6

LEMMA Pair == \A a, b : <<a, b>>[1] = a /\ <<a, b>>[2] = b
OBVIOUS

(* An outcome other than keep is that of a check that failed. *)
LEMMA OutcomeHasCause ==
    ASSUME NEW checks, DOMAIN checks \subseteq 1 .. 5, NEW verdict, verdict # "keep",
           Outcome(checks) = verdict
    PROVE  \E i \in DOMAIN checks : checks[i][1] /\ checks[i][2] = verdict
<1> DEFINE failed == {i \in DOMAIN checks : checks[i][1]}
           first == CHOOSE i \in failed : \A j \in failed : i <= j
<1>1. failed # {} /\ failed \in SUBSET (1 .. 5)
    BY DEF Outcome
<1>2. \E i \in failed : \A j \in failed : i <= j
    BY <1>1, Least
<1>3. first \in failed
    BY <1>2
<1>4. checks[first][2] = verdict
    BY <1>1 DEF Outcome
<1> QED BY <1>3, <1>4

(* A bare continue passes over nothing that is an offer of its own. *)
LEMMA ZoomDrops ==
    ASSUME NEW p, NEW e, Outcome(ExtractZoom(p, e)) = "drop"
    PROVE  ~e.object
<1> DEFINE checks == ExtractZoom(p, e)
<1>1. DOMAIN checks = 1 .. 4 /\ checks[1] = <<~e.object, "drop">>
    BY DEF ExtractZoom
<1>2. checks[2][2] = "skip" /\ checks[3][2] = "skip" /\ checks[4][2] = "raise"
    BY DEF ExtractZoom
<1> HIDE DEF checks
<1>3. PICK k \in DOMAIN checks : checks[k][1] /\ checks[k][2] = "drop"
    BY <1>1, OutcomeHasCause DEF checks
<1>4. k = 1
    BY <1>1, <1>2, <1>3
<1>5. checks[1][1]
    BY <1>3, <1>4
<1> QED BY <1>1, <1>5, Pair, Zenon

LEMMA BuscapeDrops ==
    ASSUME NEW p, NEW e, Outcome(ExtractBuscape(p, e)) = "drop"
    PROVE  ~e.object
<1> DEFINE checks == ExtractBuscape(p, e)
<1>1. DOMAIN checks = 1 .. 5 /\ checks[1] = <<~e.object, "drop">>
    BY DEF ExtractBuscape
<1>2. /\ checks[2][2] = "skip" /\ checks[3][2] = "skip"
      /\ checks[4][2] = "crash" /\ checks[5][2] = "skip"
    BY DEF ExtractBuscape
<1> HIDE DEF checks
<1>3. PICK k \in DOMAIN checks : checks[k][1] /\ checks[k][2] = "drop"
    BY <1>1, OutcomeHasCause DEF checks
<1>4. k = 1
    BY <1>1, <1>2, <1>3
<1>5. checks[1][1]
    BY <1>3, <1>4
<1> QED BY <1>1, <1>5, Pair, Zenon

LEMMA IPlaceDrops ==
    ASSUME NEW p, NEW e
    PROVE  Outcome(ExtractIPlace(p, e)) # "drop"
<1> DEFINE checks == ExtractIPlace(p, e)
<1>1. DOMAIN checks = 1 .. 2 /\ checks[1][2] = "skip" /\ checks[2][2] = "raise"
    BY DEF ExtractIPlace
<1> HIDE DEF checks
<1>2. ~\E k \in DOMAIN checks : checks[k][1] /\ checks[k][2] = "drop"
    BY <1>1
<1> QED BY <1>1, <1>2, OutcomeHasCause DEF checks

LEMMA SamsungDrops ==
    ASSUME NEW p, NEW e, Outcome(ExtractSamsung(p, e)) = "drop"
    PROVE  ~e.id \/ e.color = <<>>
<1> DEFINE checks == ExtractSamsung(p, e)
<1>1. DOMAIN checks = 1 .. 4 /\ checks[3] = <<~e.id \/ e.color = <<>>, "drop">>
    BY DEF ExtractSamsung
<1>2. checks[1][2] = "skip" /\ checks[2][2] = "raise" /\ checks[4][2] = "raise"
    BY DEF ExtractSamsung
<1> HIDE DEF checks
<1>3. PICK k \in DOMAIN checks : checks[k][1] /\ checks[k][2] = "drop"
    BY <1>1, OutcomeHasCause DEF checks
<1>4. k = 3
    BY <1>1, <1>2, <1>3
<1>5. checks[3][1]
    BY <1>3, <1>4
<1> QED BY <1>1, <1>5, Pair, Zenon

LEMMA DropIsNoOffer ==
    ASSUME NEW i, Verdict(i) = "drop"
    PROVE  ~IsOffer(i)
<1> DEFINE e == page.entries[i]
<1>1. CASE adapter \in {"zoom", "bondfaro"}
    <2>1. Verdict(i) = Outcome(ExtractZoom(page, e))
        BY <1>1 DEF Verdict, Checks
    <2>2. ~e.object
        BY <2>1, ZoomDrops
    <2> QED BY <1>1, <2>2 DEF IsOffer
<1>2. CASE adapter = "buscape"
    <2>1. Verdict(i) = Outcome(ExtractBuscape(page, e))
        BY <1>2 DEF Verdict, Checks
    <2>2. ~e.object
        BY <2>1, BuscapeDrops
    <2> QED BY <1>2, <2>2 DEF IsOffer
<1>3. CASE adapter = "iplace"
    <2>1. Verdict(i) = Outcome(ExtractIPlace(page, e))
        BY <1>3 DEF Verdict, Checks
    <2> QED BY <2>1, IPlaceDrops
<1>4. CASE adapter = "samsung_shop"
    <2>1. Verdict(i) = Outcome(ExtractSamsung(page, e))
        BY <1>4 DEF Verdict, Checks
    <2>2. ~e.id \/ e.color = <<>>
        BY <2>1, SamsungDrops
    <2> QED BY <1>4, <2>2 DEF IsOffer
<1>5. CASE adapter \notin {"zoom", "bondfaro", "buscape", "iplace", "samsung_shop"}
    BY <1>5 DEF IsOffer
<1> QED BY <1>1, <1>2, <1>3, <1>4, <1>5

-----------------------------------------------------------------------------
(* The steps *)

LEMMA SeenAppend ==
    ASSUME NEW S, NEW sequence \in Seq(S), NEW x \in S
    PROVE  Seen(Append(sequence, x)) = Seen(sequence) \cup {x}
<1> DEFINE longer == Append(sequence, x)
<1>1. /\ DOMAIN longer = 1 .. Len(sequence) + 1 /\ DOMAIN sequence = 1 .. Len(sequence)
      /\ longer[Len(sequence) + 1] = x /\ \A i \in 1 .. Len(sequence) : longer[i] = sequence[i]
      /\ Len(sequence) \in Nat
    OBVIOUS
<1> QED BY <1>1 DEF Seen

(* What an entry read was numbered. *)
LEMMA SeenRead ==
    ASSUME NEW n \in Nat, NEW sequence \in Seq(1 .. n)
    PROVE  Seen(sequence) \subseteq 1 .. n /\ (n = 0 => sequence = <<>>)
BY DEF Seen

LEMMA PageLength ==
    ASSUME TypeOK
    PROVE  Len(page.entries) \in Nat /\ read \in Nat
BY ExtractionAssumption DEF TypeOK

LEMMA Longer ==
    ASSUME NEW n \in Nat, NEW sequence \in Seq(1 .. n)
    PROVE  sequence \in Seq(1 .. n + 1) /\ Append(sequence, n + 1) \in Seq(1 .. n + 1)
<1>1. 1 .. n \subseteq 1 .. n + 1 /\ n + 1 \in 1 .. n + 1
    OBVIOUS
<1>2. sequence \in Seq(1 .. n + 1)
    BY <1>1
<1> QED BY <1>1, <1>2

(* An entry is read, and is a listing, in the log, or no offer. *)
LEMMA ReadingInv ==
    ASSUME ExtractionInv, Keep \/ Skip \/ Drop
    PROVE  ExtractionInv'
<1>1. /\ stage = "reading" /\ read < Len(page.entries) /\ read' = read + 1
      /\ UNCHANGED <<adapter, page, attempt, stage, items>>
    BY DEF Keep, Skip, Drop, At, More, Next1
<1>2. Len(page.entries) \in Nat /\ read \in Nat
    BY PageLength DEF ExtractionInv
<1>3. kept \in Seq(1 .. read) /\ skips \in Seq(1 .. read) /\ Len(skips) <= MaxSkips /\ MaxSkips \in Nat
    BY ExtractionAssumption DEF ExtractionInv, TypeOK
<1>4. /\ kept' \in Seq(1 .. read + 1) /\ skips' \in Seq(1 .. read + 1) /\ Len(skips') <= MaxSkips
    <2>1. CASE Keep
        BY <1>2, <1>3, <2>1, Longer DEF Keep, Next1
    <2>2. CASE Skip
        <3>1. CASE Len(skips) >= MaxSkips
            BY <1>2, <1>3, <2>2, <3>1, Longer DEF Skip
        <3>2. CASE Len(skips) < MaxSkips
            <4>1. skips' = Append(skips, read + 1) /\ kept' = kept
                BY <1>3, <2>2, <3>2 DEF Skip, Next1
            <4>2. Len(skips') = Len(skips) + 1 /\ Len(skips) \in Nat
                BY <1>3, <4>1
            <4> QED BY <1>2, <1>3, <3>2, <4>1, <4>2, Longer
        <3> QED BY <1>3, <3>1, <3>2
    <2>3. CASE Drop
        BY <1>2, <1>3, <2>3, Longer DEF Drop
    <2> QED BY <2>1, <2>2, <2>3
<1>5. TypeOK'
    BY <1>1, <1>2, <1>4 DEF ExtractionInv, TypeOK
<1>6. Progress'
    <2>1. adapter = "lab" => ~Skip
        <3>1. SUFFICES ASSUME adapter = "lab", Skip PROVE FALSE
            OBVIOUS
        <3> DEFINE checks == ExtractLab(page, page.entries[Next1])
        <3>2. Outcome(checks) = "skip"
            BY <3>1 DEF Skip, At, Verdict, Checks
        <3>3. DOMAIN checks = 1 .. 1 /\ checks[1][2] = "raise"
            BY DEF ExtractLab
        <3> HIDE DEF checks
        <3>4. ~\E k \in DOMAIN checks : checks[k][1] /\ checks[k][2] = "skip"
            BY <3>3
        <3> QED BY <3>2, <3>3, <3>4, OutcomeHasCause
    <2>2. adapter = "lab" => skips' = skips
        BY <2>1 DEF Keep, Drop
    <2> QED BY <1>1, <2>2 DEF ExtractionInv, Progress
<1>7. EmitsInOrder' /\ AnswerIsWhole'
    BY <1>1 DEF EmitsInOrder, AnswerIsWhole
<1>8. EveryDropIsLogged'
    <2>1. /\ \A i \in 1 .. read : IsOffer(i) => i \in Seen(kept) \cup Seen(skips) \/ Len(skips) = MaxSkips
          /\ Seen(kept) \cap Seen(skips) = {}
        BY DEF ExtractionInv, EveryDropIsLogged
    <2>2. Seen(kept) \subseteq 1 .. read /\ Seen(skips) \subseteq 1 .. read
        BY <1>2, <1>3, SeenRead
    <2>3. \A i : IsOffer(i)' <=> IsOffer(i)
        BY <1>1 DEF IsOffer
    <2>4. kept \in Seq(1 .. read + 1) /\ skips \in Seq(1 .. read + 1) /\ read + 1 \in 1 .. read + 1
        BY <1>2, <1>3, Longer
    <2>5. CASE Keep
        <3>1. kept' = Append(kept, read + 1) /\ skips' = skips
            BY <2>5 DEF Keep, Next1
        <3>2. Seen(kept') = Seen(kept) \cup {read + 1}
            BY <2>4, <3>1, SeenAppend
        <3> QED BY <1>1, <1>2, <2>1, <2>2, <2>3, <3>1, <3>2 DEF EveryDropIsLogged
    <2>6. CASE Skip /\ Len(skips) < MaxSkips
        <3>1. skips' = Append(skips, read + 1) /\ kept' = kept
            BY <1>3, <2>6 DEF Skip, Next1
        <3>2. Seen(skips') = Seen(skips) \cup {read + 1}
            BY <2>4, <3>1, SeenAppend
        <3>3. Len(skips) # MaxSkips
            BY <1>3, <2>6
        <3> QED BY <1>1, <1>2, <2>1, <2>2, <2>3, <3>1, <3>2, <3>3 DEF EveryDropIsLogged
    <2>7. CASE Skip /\ ~(Len(skips) < MaxSkips)
        <3>1. skips' = skips /\ kept' = kept /\ Len(skips) = MaxSkips
            BY <1>3, <2>7 DEF Skip
        <3> QED BY <2>1, <3>1 DEF EveryDropIsLogged
    <2>8. CASE Drop
        <3>1. skips' = skips /\ kept' = kept /\ ~IsOffer(read + 1)
            BY <2>8, DropIsNoOffer DEF Drop, At, Next1
        <3> QED BY <1>1, <1>2, <2>1, <2>3, <3>1 DEF EveryDropIsLogged
    <2> QED BY <2>5, <2>6, <2>7, <2>8
<1> QED BY <1>5, <1>6, <1>7, <1>8 DEF ExtractionInv

(* What a page yields does not change what was read of it. *)
LEMMA LogUnchanged ==
    ASSUME EveryDropIsLogged, UNCHANGED <<adapter, page, read, kept, skips>>
    PROVE  EveryDropIsLogged'
BY DEF EveryDropIsLogged, IsOffer

LEMMA InitInv == Init => ExtractionInv
<1> SUFFICES ASSUME Init PROVE ExtractionInv
    OBVIOUS
<1>1. page.entries \in {page.entries} /\ Len(page.entries) \in Nat
    BY ExtractionAssumption DEF Init
<1>2. TypeOK
    BY <1>1, ExtractionAssumption DEF Init, TypeOK, Stages
<1>3. Progress /\ EmitsInOrder /\ AnswerIsWhole
    BY DEF Init, Progress, EmitsInOrder, AnswerIsWhole
<1>4. EveryDropIsLogged
    BY DEF Init, EveryDropIsLogged, Seen
<1> QED BY <1>2, <1>3, <1>4 DEF ExtractionInv

(* The browser's document is read from its beginning. *)
LEMMA AskBrowserInv ==
    ASSUME ExtractionInv, AskBrowser
    PROVE  ExtractionInv'
<1>1. /\ attempt' = "browser" /\ stage' = "open" /\ page' \in Pages[adapter]
      /\ read' = 0 /\ kept' = <<>> /\ skips' = <<>> /\ adapter' = adapter /\ items' = items
    BY DEF AskBrowser
<1>2. adapter \in Adapters /\ items \in Seq(ItemOf)
    BY DEF ExtractionInv, TypeOK
<1>3. Len(page'.entries) \in Nat
    BY <1>1, <1>2, ExtractionAssumption
<1>4. TypeOK'
    BY <1>1, <1>2, <1>3, ExtractionAssumption DEF TypeOK, Stages
<1>5. items = <<>>
    BY DEF ExtractionInv, Progress, AskBrowser, ExtractionError, At
<1>6. Progress' /\ EmitsInOrder' /\ AnswerIsWhole'
    BY <1>1, <1>5 DEF Progress, EmitsInOrder, AnswerIsWhole
<1>7. EveryDropIsLogged'
    BY <1>1 DEF EveryDropIsLogged, Seen
<1> QED BY <1>4, <1>6, <1>7 DEF ExtractionInv

(* A failure is all a page yields; of the lab not even that. *)
LEMMA GiveUpInv ==
    ASSUME ExtractionInv, GiveUp
    PROVE  ExtractionInv'
<1>1. /\ items' = IF adapter = "lab" THEN items ELSE Append(items, Failure)
      /\ stage' = "done" /\ UNCHANGED <<adapter, page, attempt, read, kept, skips>>
    BY DEF GiveUp
<1>2. items = <<>> /\ stage \in {"open", "reading"}
    BY DEF ExtractionInv, Progress, GiveUp, ExtractionError, At
<1>3. Failure \in ItemOf /\ Failure' = Failure
    BY <1>1 DEF ExtractionInv, TypeOK, Failure, ItemOf
<1>4. items' = IF adapter = "lab" THEN <<>> ELSE <<Failure>>
    BY <1>1, <1>2
<1>5. TypeOK'
    <2>1. items' \in Seq(ItemOf)
        BY <1>3, <1>4
    <2> QED BY <1>1, <2>1 DEF ExtractionInv, TypeOK, Stages
<1>6. Progress' /\ EmitsInOrder'
    BY <1>1 DEF ExtractionInv, Progress, EmitsInOrder
<1>7. EveryDropIsLogged'
    BY <1>1, LogUnchanged DEF ExtractionInv
<1>8. AnswerIsWhole'
    <2>1. CASE adapter # "lab"
        BY <1>3, <1>4, <2>1 DEF AnswerIsWhole
    <2>2. CASE adapter = "lab"
        <3>1. skips = <<>>
            BY <2>2 DEF ExtractionInv, Progress
        <3>2. kept = <<>>
            <4>1. CASE stage = "open"
                BY <4>1 DEF ExtractionInv, Progress
            <4>2. CASE stage = "reading" /\ More
                <5>1. read < 1
                    BY <2>2, <4>2 DEF More, Variants
                <5>2. read = 0 /\ kept \in Seq(1 .. 0)
                    BY <5>1, PageLength DEF ExtractionInv, TypeOK
                <5> QED BY <5>2, SeenRead
            <4>3. CASE stage = "reading" /\ ~More
                BY <4>3 DEF GiveUp, ExtractionError, At
            <4> QED BY <1>2, <4>1, <4>2, <4>3
        <3>3. items' = <<>> /\ kept' = <<>> /\ skips' = <<>> /\ adapter' = "lab"
            BY <1>1, <1>4, <2>2, <3>1, <3>2
        <3> QED BY <3>3 DEF AnswerIsWhole
    <2> QED BY <2>1, <2>2
<1> QED BY <1>5, <1>6, <1>7, <1>8 DEF ExtractionInv

(* One more listing. *)
LEMMA EmitInv ==
    ASSUME ExtractionInv, Emit
    PROVE  ExtractionInv'
<1> DEFINE n == Len(items)
           new == Entry("listing", kept[n + 1])
<1>1. /\ stage = "emitting" /\ n < Len(kept) /\ items' = Append(items, new)
      /\ UNCHANGED <<adapter, page, attempt, stage, read, kept, skips>>
    BY DEF Emit, Emitted
<1>2. /\ items \in Seq(ItemOf) /\ kept \in Seq(1 .. read) /\ read \in Nat
      /\ attempt \in {"plain", "browser"}
    BY PageLength DEF ExtractionInv, TypeOK
<1>3. n \in Nat /\ n + 1 \in 1 .. Len(kept) /\ Len(kept) \in Nat
    BY <1>1, <1>2
<1>4. kept[n + 1] \in Nat
    BY <1>2, <1>3
<1>5. new \in ItemOf
    BY <1>2, <1>4 DEF Entry, ItemOf
<1>6. /\ items' \in Seq(ItemOf) /\ Len(items') = n + 1 /\ items'[n + 1] = new
      /\ \A i \in 1 .. n : items'[i] = items[i]
      /\ DOMAIN items' = 1 .. n + 1 /\ DOMAIN items = 1 .. n
    <2> HIDE DEF new
    <2> QED BY <1>1, <1>2, <1>5
<1>7. TypeOK'
    BY <1>1, <1>6 DEF ExtractionInv, TypeOK
<1>8. EmitsInOrder'
    <2>1. \A i \in 1 .. n : items[i] = Entry("listing", kept[i])
        BY <1>1, <1>6 DEF ExtractionInv, EmitsInOrder
    <2>2. \A i \in 1 .. n + 1 : items'[i] = Entry("listing", kept[i])
        BY <1>3, <1>6, <2>1
    <2>3. \A i : Entry("listing", kept[i])' = Entry("listing", kept[i])
        BY <1>1 DEF Entry
    <2> QED BY <1>1, <1>3, <1>6, <2>2, <2>3 DEF EmitsInOrder, Entry
<1>9. Progress' /\ AnswerIsWhole'
    BY <1>1 DEF ExtractionInv, Progress, AnswerIsWhole
<1>10. EveryDropIsLogged'
    BY <1>1, LogUnchanged DEF ExtractionInv
<1> QED BY <1>7, <1>8, <1>9, <1>10 DEF ExtractionInv

LEMMA Concatenation ==
    ASSUME NEW S, NEW s \in Seq(S), NEW t \in Seq(S)
    PROVE  /\ s \o t \in Seq(S) /\ Len(s \o t) = Len(s) + Len(t)
           /\ DOMAIN (s \o t) = 1 .. Len(s) + Len(t) /\ DOMAIN s = 1 .. Len(s)
           /\ \A i \in 1 .. Len(s) : (s \o t)[i] = s[i]
           /\ \A i \in Len(s) + 1 .. Len(s) + Len(t) : (s \o t)[i] = t[i - Len(s)]
OBVIOUS

(* The log goes out after the listings; without either there was no offer. *)
LEMMA EmitSkipsInv ==
    ASSUME ExtractionInv, EmitSkips
    PROVE  ExtractionInv'
<1> DEFINE log == [i \in DOMAIN skips |-> Entry("rejection", skips[i])]
<1>1. /\ stage = "emitting" /\ Len(items) = Len(kept) /\ items' = items \o log
      /\ stage' = "done" /\ UNCHANGED <<adapter, page, attempt, read, kept, skips>>
    BY DEF EmitSkips, Emitted
<1>2. /\ items \in Seq(ItemOf) /\ kept \in Seq(1 .. read) /\ skips \in Seq(1 .. read) /\ read \in Nat
      /\ attempt \in {"plain", "browser"}
    BY PageLength DEF ExtractionInv, TypeOK
<1>3. /\ log \in Seq(ItemOf) /\ Len(log) = Len(skips) /\ DOMAIN log = 1 .. Len(skips)
      /\ \A i \in 1 .. Len(skips) : log[i] = Entry("rejection", skips[i])
    <2>1. DOMAIN skips = 1 .. Len(skips) /\ Len(skips) \in Nat
        BY <1>2
    <2>2. \A i \in 1 .. Len(skips) : skips[i] \in Nat
        BY <1>2
    <2>3. \A i \in 1 .. Len(skips) : Entry("rejection", skips[i]) \in ItemOf
        BY <1>2, <2>2 DEF Entry, ItemOf
    <2> QED BY <2>1, <2>3
<1> HIDE DEF log
<1>4. /\ items' \in Seq(ItemOf) /\ Len(items') = Len(kept) + Len(skips)
      /\ DOMAIN items' = 1 .. Len(kept) + Len(skips) /\ DOMAIN items = 1 .. Len(kept)
      /\ \A i \in 1 .. Len(kept) : items'[i] = items[i]
      /\ \A i \in Len(kept) + 1 .. Len(kept) + Len(skips) : items'[i] = log[i - Len(kept)]
      /\ Len(kept) \in Nat /\ Len(skips) \in Nat
    <2>1. Len(kept) \in Nat /\ Len(skips) \in Nat
        BY <1>2
    <2> QED BY <1>1, <1>2, <1>3, <2>1, Concatenation
<1>5. TypeOK'
    BY <1>1, <1>4 DEF ExtractionInv, TypeOK, Stages
<1>6. Progress' /\ EmitsInOrder'
    BY <1>1 DEF ExtractionInv, Progress, EmitsInOrder
<1>7. EveryDropIsLogged'
    BY <1>1, LogUnchanged DEF ExtractionInv
<1>8. \A i \in DOMAIN items' :
        items'[i] = IF i <= Len(kept) THEN Entry("listing", kept[i])
                                      ELSE Entry("rejection", skips[i - Len(kept)])
    <2>1. ASSUME NEW i \in DOMAIN items', i <= Len(kept)
          PROVE  items'[i] = Entry("listing", kept[i])
        BY <1>1, <1>4, <2>1 DEF ExtractionInv, EmitsInOrder
    <2>2. ASSUME NEW i \in DOMAIN items', ~(i <= Len(kept))
          PROVE  items'[i] = Entry("rejection", skips[i - Len(kept)])
        <3>1. i - Len(kept) \in 1 .. Len(skips) /\ i \in Len(kept) + 1 .. Len(kept) + Len(skips)
            BY <1>4, <2>2
        <3> QED BY <1>3, <1>4, <3>1
    <2> QED BY <2>1, <2>2
<1>9. items' = <<>> => adapter = "buscape" /\ \A i \in 1 .. read : ~IsOffer(i)
    <2> SUFFICES ASSUME items' = <<>>
                 PROVE  adapter = "buscape" /\ \A i \in 1 .. read : ~IsOffer(i)
        OBVIOUS
    <2>1. Len(kept) = 0 /\ Len(skips) = 0
        BY <1>4
    <2>2. kept = <<>> /\ skips = <<>>
        BY <1>2, <2>1
    <2>3. Seen(kept) = {} /\ Seen(skips) = {} /\ Len(skips) # MaxSkips
        BY <2>1, <2>2, ExtractionAssumption DEF Seen
    <2>4. \A i \in 1 .. read : ~IsOffer(i)
        BY <2>3 DEF ExtractionInv, EveryDropIsLogged
    <2> QED BY <1>1, <2>2, <2>4 DEF ExtractionInv, Progress
<1>10. AnswerIsWhole'
    <2>1. \A i : IsOffer(i)' <=> IsOffer(i)
        BY <1>1 DEF IsOffer
    <2>2. \A kind, i : Entry(kind, i)' = Entry(kind, i)
        BY <1>1 DEF Entry
    <2> QED BY <1>1, <1>4, <1>8, <1>9, <2>1, <2>2 DEF AnswerIsWhole, Entry
<1> QED BY <1>5, <1>6, <1>7, <1>10 DEF ExtractionInv

LEMMA NextInv == ExtractionInv /\ [Next]_vars => ExtractionInv'
<1> SUFFICES ASSUME ExtractionInv, [Next]_vars PROVE ExtractionInv'
    OBVIOUS
<1>1. CASE Open \/ Crash \/ EndOfPage \/ ForeignLink
    <2>1. UNCHANGED <<adapter, page, attempt, read, kept, skips, items>>
        BY <1>1 DEF Open, Crash, EndOfPage, ForeignLink
    <2>2. \/ stage' = "reading" /\ stage = "open"
          \/ stage' = "broken"
          \/ stage' = "emitting" /\ stage = "reading" /\ (kept # <<>> \/ adapter = "buscape")
        BY <1>1 DEF Open, Crash, EndOfPage, ForeignLink
    <2>3. TypeOK'
        BY <2>1, <2>2 DEF ExtractionInv, TypeOK, Stages
    <2>4. Progress'
        BY <2>1, <2>2 DEF ExtractionInv, Progress
    <2>5. EmitsInOrder'
        <3>1. stage' = "emitting" => items' = <<>> /\ kept' \in Seq(1 .. read)
            BY <2>1, <2>2 DEF ExtractionInv, Progress, TypeOK
        <3>2. stage' = "emitting" => Len(items') = 0 /\ DOMAIN items' = {} /\ Len(kept') \in Nat
            BY <3>1
        <3> QED BY <3>2 DEF EmitsInOrder
    <2>6. EveryDropIsLogged' /\ AnswerIsWhole'
        BY <2>1, <2>2, LogUnchanged DEF ExtractionInv, AnswerIsWhole
    <2> QED BY <2>3, <2>4, <2>5, <2>6 DEF ExtractionInv
<1>2. CASE Keep \/ Skip \/ Drop
    BY <1>2, ReadingInv
<1>3. CASE AskBrowser
    BY <1>3, AskBrowserInv
<1>4. CASE GiveUp
    BY <1>4, GiveUpInv
<1>5. CASE Emit
    BY <1>5, EmitInv
<1>6. CASE EmitSkips
    BY <1>6, EmitSkipsInv
<1>7. CASE UNCHANGED vars
    <2>1. TypeOK' /\ Progress'
        BY <1>7 DEF ExtractionInv, TypeOK, Progress, vars
    <2>2. EmitsInOrder'
        BY <1>7 DEF ExtractionInv, EmitsInOrder, Entry, vars
    <2>3. AnswerIsWhole'
        BY <1>7 DEF ExtractionInv, AnswerIsWhole, Entry, Failure, IsOffer, vars
    <2>4. EveryDropIsLogged'
        BY <1>7, LogUnchanged DEF ExtractionInv, vars
    <2> QED BY <2>1, <2>2, <2>3, <2>4 DEF ExtractionInv
<1> QED BY <1>1, <1>2, <1>3, <1>4, <1>5, <1>6, <1>7 DEF Next

LEMMA SpecInv == Spec => []ExtractionInv
<1> QED BY InitInv, NextInv, PTL DEF Spec

-----------------------------------------------------------------------------
(* Markers *)

(* The longest marker of a text that speaks of a value says that value.    *)
LEMMA LongestSpeaks ==
    ASSUME NEW markers, NEW field, Apart(markers, field), NEW text, NEW value,
           SpeaksOf(text, markers, field, value), NEW j \in Longest(markers, text)
    PROVE  markers[j][field] = value
<1> DEFINE found == {i \in DOMAIN markers : Occurs(markers[i].words, text)}
<1>1. /\ j \in DOMAIN markers /\ Occurs(markers[j].words, text)
      /\ \A k \in DOMAIN markers : Occurs(markers[k].words, text) => ~(markers[j].letters < markers[k].letters)
    <2>1. /\ j \in found
          /\ \A k \in found : markers[j].letters > markers[k].letters \/ markers[j].letters = markers[k].letters
        BY DEF Longest
    <2>2. \A k \in DOMAIN markers : markers[k].letters \in Nat
        BY DEF Apart
    <2> QED BY <2>1, <2>2
<1>2. PICK n \in Places(markers[j].words, text) : TRUE
    BY <1>1 DEF Occurs
<1>3. PICK k \in DOMAIN markers : \E i \in Places(markers[k].words, text) :
            /\ markers[k][field] = value
            /\ i <= n /\ n + Len(markers[j].words) <= i + Len(markers[k].words)
    BY <1>1, <1>2 DEF SpeaksOf
<1>4. PICK i \in Places(markers[k].words, text) :
            /\ markers[k][field] = value
            /\ i <= n /\ n + Len(markers[j].words) <= i + Len(markers[k].words)
    BY <1>3
<1> DEFINE part == markers[j].words
           whole == markers[k].words
<1>5. /\ Len(part) \in Nat /\ DOMAIN part = 1 .. Len(part)
      /\ Len(whole) \in Nat /\ DOMAIN whole = 1 .. Len(whole)
    BY <1>1 DEF Apart
<1>6. /\ n \in Int /\ i \in Int
      /\ \A q \in DOMAIN part : text[n + q] = part[q]
      /\ \A q \in DOMAIN whole : text[i + q] = whole[q]
    BY <1>2, <1>4 DEF Places
<1>7. n - i \in Places(part, whole)
    <2> HIDE DEF part, whole
    <2>1. n - i \in 0 .. Len(whole) - Len(part)
        BY <1>4, <1>5, <1>6 DEF part, whole
    <2>2. ASSUME NEW q \in DOMAIN part
          PROVE  whole[(n - i) + q] = part[q]
        <3>1. (n - i) + q \in DOMAIN whole /\ i + ((n - i) + q) = n + q
            BY <1>5, <1>6, <2>1
        <3>2. text[i + ((n - i) + q)] = whole[(n - i) + q]
            BY <1>6, <3>1
        <3> QED BY <1>6, <3>1, <3>2
    <2> QED BY <2>1, <2>2 DEF Places
<1>8. Occurs(markers[j].words, markers[k].words) /\ Occurs(markers[k].words, text)
    BY <1>7 DEF Occurs
<1>9. markers[j][field] = markers[k][field]
    BY <1>1, <1>8 DEF Apart
<1> QED BY <1>4, <1>9

(* What an entry that tells is filed as, if it is filed. *)
LEMMA TellersAreFiled ==
    ASSUME NEW a, NEW p, NEW e, TellsWhatItSells(a, p, e), Filed(a, p, e) # {}
    PROVE  Filed(a, p, e) = {e.sells}
<1> DEFINE sold == e.sells
           details == DetailsOf(a, p, e)
           devices == DevicesOf(a, p, e)
           storages == StoragesOf(a, p, e)
           colors == UNION {ColorFromText(ColorText(a, p, e), x) : x \in devices}
<1>1. /\ sold \in [device : Devices, storage : Storages, color : Colors]
      /\ SpeaksOf(DeviceText(a, p, e), IdentityAliases, "device", sold.device)
      /\ SpeaksOf(ColorText(a, p, e), ColorMarkers(sold.device), "color", sold.color)
      /\ \A i \in DOMAIN details :
            details[i] \in DOMAIN CapacityOf => CapacityOf[details[i]] = sold.storage
    BY DEF TellsWhatItSells
<1>2. \A d \in devices : d = sold.device
    <2> SUFFICES ASSUME NEW j \in Longest(IdentityAliases, DeviceText(a, p, e))
                 PROVE  IdentityAliases[j].device = sold.device
        BY DEF DevicesOf, CatalogIdentity
    <2> QED BY <1>1, MarkersAssumption, LongestSpeaks
<1>3. \A s \in storages : s = sold.storage
    <2>1. \A words : words \subseteq DOMAIN CapacityOf =>
            \A s \in FirstCapacity(details, words) : s = sold.storage
        BY <1>1 DEF FirstCapacity
    <2> QED BY <2>1 DEF StoragesOf, GigabytesFromText, StorageFromText
<1>4. \A c \in colors : c = sold.color
    <2> SUFFICES ASSUME NEW x \in devices, NEW c \in ColorFromText(ColorText(a, p, e), x)
                 PROVE  c = sold.color
        OBVIOUS
    <2>1. x = sold.device /\ sold.device \in Devices
        BY <1>1, <1>2
    <2>2. PICK j \in Longest(ColorMarkers(sold.device), ColorText(a, p, e)) :
                c = ColorMarkers(sold.device)[j].color
        BY <2>1 DEF ColorFromText
    <2> QED BY <1>1, <2>1, <2>2, MarkersAssumption, LongestSpeaks
<1> HIDE DEF devices, storages, colors, sold
<1>5. Filed(a, p, e) = {[device |-> d, storage |-> s, color |-> c] : d \in devices, s \in storages, c \in colors}
    BY DEF Filed, Attributes, devices, storages, colors
<1>6. sold = [device |-> sold.device, storage |-> sold.storage, color |-> sold.color]
    BY <1>1
<1>7. \A v \in Filed(a, p, e) : v = sold
    BY <1>2, <1>3, <1>4, <1>5, <1>6
<1> QED BY <1>7 DEF sold

-----------------------------------------------------------------------------
(* What is kept *)

(* An entry is kept if none of its checks fails. *)
LEMMA KeptPassesChecks ==
    ASSUME NEW checks, DOMAIN checks \subseteq 1 .. 5, Outcome(checks) = "keep",
           \A i \in DOMAIN checks : checks[i][2] # "keep"
    PROVE  \A i \in DOMAIN checks : ~checks[i][1]
<1> DEFINE failed == {i \in DOMAIN checks : checks[i][1]}
           first == CHOOSE i \in failed : \A j \in failed : i <= j
<1> SUFFICES ASSUME failed # {} PROVE FALSE
    OBVIOUS
<1>1. \E i \in failed : \A j \in failed : i <= j
    BY Least
<1>2. first \in failed
    BY <1>1
<1>3. checks[first][2] = "keep"
    BY DEF Outcome
<1> QED BY <1>2, <1>3

(* Adapter by adapter: what is kept could be filed. *)
LEMMA ZoomResolves ==
    ASSUME NEW p, NEW e, Outcome(ExtractZoom(p, e)) = "keep"
    PROVE  ~Unresolved("zoom", p, e)
<1> DEFINE checks == ExtractZoom(p, e)
<1>1. DOMAIN checks = 1 .. 4 /\ \A i \in 1 .. 4 : checks[i][2] # "keep"
    BY DEF ExtractZoom
<1>2. Unresolved("zoom", p, e) => checks[3][1]
    BY DEF ExtractZoom
<1> HIDE DEF checks
<1>3. \A i \in 1 .. 4 : ~checks[i][1]
    BY <1>1, KeptPassesChecks DEF checks
<1> QED BY <1>2, <1>3

LEMMA BuscapeResolves ==
    ASSUME NEW p, NEW e, Outcome(ExtractBuscape(p, e)) = "keep"
    PROVE  ~Unresolved("buscape", p, e)
<1> DEFINE checks == ExtractBuscape(p, e)
<1>1. DOMAIN checks = 1 .. 5 /\ \A i \in 1 .. 5 : checks[i][2] # "keep"
    BY DEF ExtractBuscape
<1>2. Unresolved("buscape", p, e) => checks[3][1]
    BY DEF ExtractBuscape
<1> HIDE DEF checks
<1>3. \A i \in 1 .. 5 : ~checks[i][1]
    BY <1>1, KeptPassesChecks DEF checks
<1> QED BY <1>2, <1>3

LEMMA IPlaceResolves ==
    ASSUME NEW p, NEW e, Outcome(ExtractIPlace(p, e)) = "keep"
    PROVE  ~Unresolved("iplace", p, e)
<1> DEFINE checks == ExtractIPlace(p, e)
<1>1. DOMAIN checks = 1 .. 2 /\ \A i \in 1 .. 2 : checks[i][2] # "keep"
    BY DEF ExtractIPlace
<1>2. Unresolved("iplace", p, e) => checks[1][1]
    BY DEF ExtractIPlace
<1> HIDE DEF checks
<1>3. \A i \in 1 .. 2 : ~checks[i][1]
    BY <1>1, KeptPassesChecks DEF checks
<1> QED BY <1>2, <1>3

LEMMA SamsungResolves ==
    ASSUME NEW p, NEW e, Outcome(ExtractSamsung(p, e)) = "keep"
    PROVE  ~Unresolved("samsung_shop", p, e)
<1> DEFINE checks == ExtractSamsung(p, e)
<1>1. DOMAIN checks = 1 .. 4 /\ \A i \in 1 .. 4 : checks[i][2] # "keep"
    BY DEF ExtractSamsung
<1>2. Unresolved("samsung_shop", p, e) => checks[1][1]
    BY DEF ExtractSamsung
<1> HIDE DEF checks
<1>3. \A i \in 1 .. 4 : ~checks[i][1]
    BY <1>1, KeptPassesChecks DEF checks
<1> QED BY <1>2, <1>3

LEMMA AmazonResolves ==
    ASSUME NEW p, NEW e, Outcome(ExtractAmazon(p, e)) = "keep"
    PROVE  ~Unresolved("amazon", p, e)
<1> DEFINE checks == ExtractAmazon(p, e)
<1>1. DOMAIN checks = 1 .. 3 /\ \A i \in 1 .. 3 : checks[i][2] # "keep"
    BY DEF ExtractAmazon
<1>2. Unresolved("amazon", p, e) => checks[3][1]
    BY DEF ExtractAmazon
<1> HIDE DEF checks
<1>3. \A i \in 1 .. 3 : ~checks[i][1]
    BY <1>1, KeptPassesChecks DEF checks
<1> QED BY <1>2, <1>3

LEMMA CarrefourResolves ==
    ASSUME NEW p, NEW e, Outcome(ExtractCarrefour(p, e)) = "keep"
    PROVE  ~Unresolved("carrefour", p, e)
<1> DEFINE checks == ExtractCarrefour(p, e)
<1>1. DOMAIN checks = 1 .. 3 /\ \A i \in 1 .. 3 : checks[i][2] # "keep"
    BY DEF ExtractCarrefour
<1>2. Unresolved("carrefour", p, e) => checks[3][1]
    BY DEF ExtractCarrefour
<1> HIDE DEF checks
<1>3. \A i \in 1 .. 3 : ~checks[i][1]
    BY <1>1, KeptPassesChecks DEF checks
<1> QED BY <1>2, <1>3

LEMMA AmericanasResolves ==
    ASSUME NEW p, NEW e, Outcome(ExtractAmericanas(p, e)) = "keep"
    PROVE  ~Unresolved("americanas", p, e)
<1> DEFINE checks == ExtractAmericanas(p, e)
<1>1. DOMAIN checks = 1 .. 2 /\ \A i \in 1 .. 2 : checks[i][2] # "keep"
    BY DEF ExtractAmericanas
<1>2. Unresolved("americanas", p, e) => checks[2][1]
    BY DEF ExtractAmericanas
<1> HIDE DEF checks
<1>3. \A i \in 1 .. 2 : ~checks[i][1]
    BY <1>1, KeptPassesChecks DEF checks
<1> QED BY <1>2, <1>3

LEMMA FastShopResolves ==
    ASSUME NEW p, NEW e, Outcome(ExtractFastShop(p, e)) = "keep"
    PROVE  ~Unresolved("fast_shop", p, e)
<1> DEFINE checks == ExtractFastShop(p, e)
<1>1. DOMAIN checks = 1 .. 1 /\ \A i \in 1 .. 1 : checks[i][2] # "keep"
    BY DEF ExtractFastShop
<1>2. Unresolved("fast_shop", p, e) => checks[1][1]
    BY DEF ExtractFastShop
<1> HIDE DEF checks
<1>3. \A i \in 1 .. 1 : ~checks[i][1]
    BY <1>1, KeptPassesChecks DEF checks
<1> QED BY <1>2, <1>3

LEMMA KabumResolves ==
    ASSUME NEW p, NEW e, Outcome(ExtractKabum(p, e)) = "keep"
    PROVE  ~Unresolved("kabum", p, e)
<1> DEFINE checks == ExtractKabum(p, e)
<1>1. DOMAIN checks = 1 .. 1 /\ \A i \in 1 .. 1 : checks[i][2] # "keep"
    BY DEF ExtractKabum
<1>2. Unresolved("kabum", p, e) => checks[1][1]
    BY DEF ExtractKabum
<1> HIDE DEF checks
<1>3. \A i \in 1 .. 1 : ~checks[i][1]
    BY <1>1, KeptPassesChecks DEF checks
<1> QED BY <1>2, <1>3

(* Every extractor asks for a variant before it keeps an entry, or before  *)
(* it reads one.                                                           *)
LEMMA KeptIsFiled ==
    ASSUME NEW a \in AllAdapters \ {"lab"}, NEW p, NEW e, ~Malformed(a, p),
           Outcome(Checks(a, p, e)) = "keep"
    PROVE  Filed(a, p, e) # {}
<1>1. CASE a \in {"zoom", "bondfaro"}
    <2>1. ~Unresolved("zoom", p, e)
        BY <1>1, ZoomResolves DEF Checks
    <2>2. Filed(a, p, e) = Filed("zoom", p, e)
        <3>1. TitleOf(a, p, e) = TitleOf("zoom", p, e)
            BY <1>1 DEF TitleOf
        <3>2. DetailsOf(a, p, e) = DetailsOf("zoom", p, e)
            BY <1>1, <3>1 DEF DetailsOf
        <3>3. DeviceText(a, p, e) = DeviceText("zoom", p, e)
            BY <1>1 DEF DeviceText
        <3> QED BY <1>1, <3>2, <3>3 DEF Filed, DevicesOf, StoragesOf, ColorText
    <2> QED BY <2>1, <2>2 DEF Unresolved
<1>2. CASE a = "two_a_finder"
    <2>1. CanonicalAttributes(p.name) # {}
        BY <1>2 DEF Malformed
    <2>2. TitleOf(a, p, e) = p.name
        BY <1>2 DEF TitleOf
    <2>3. DetailsOf(a, p, e) = p.name /\ DeviceText(a, p, e) = p.name
        BY <1>2, <2>2 DEF DetailsOf, DeviceText
    <2>4. Filed(a, p, e) = CanonicalAttributes(p.name)
        BY <1>2, <2>3 DEF Filed, DevicesOf, StoragesOf, ColorText, CanonicalAttributes
    <2> QED BY <2>1, <2>4
<1>3. CASE a = "buscape"
    BY <1>3, BuscapeResolves DEF Checks, Unresolved
<1>4. CASE a = "iplace"
    BY <1>4, IPlaceResolves DEF Checks, Unresolved
<1>5. CASE a = "samsung_shop"
    BY <1>5, SamsungResolves DEF Checks, Unresolved
<1>6. CASE a = "amazon"
    BY <1>6, AmazonResolves DEF Checks, Unresolved
<1>7. CASE a = "carrefour"
    BY <1>7, CarrefourResolves DEF Checks, Unresolved
<1>8. CASE a = "americanas"
    BY <1>8, AmericanasResolves DEF Checks, Unresolved
<1>9. CASE a = "fast_shop"
    BY <1>9, FastShopResolves DEF Checks, Unresolved
<1>10. CASE a = "kabum"
    BY <1>10, KabumResolves DEF Checks, Unresolved
<1> QED BY <1>1, <1>2, <1>3, <1>4, <1>5, <1>6, <1>7, <1>8, <1>9, <1>10
        DEF AllAdapters, Comparators, Variants, Shops

(* What was kept passed the checks, on a page that was in order. *)
KeptInOrder ==
    /\ stage = "reading" \/ kept # <<>> => ~Malformed(adapter, page)
    /\ \A i \in Seen(kept) : Verdict(i) = "keep"

LEMMA KeptInv ==
    ASSUME ExtractionInv, KeptInOrder, [Next]_vars
    PROVE  KeptInOrder'
<1>1. CASE Open
    BY <1>1 DEF Open, KeptInOrder, Verdict
<1>2. CASE Keep
    <2>1. /\ stage = "reading" /\ Verdict(read + 1) = "keep" /\ kept' = Append(kept, read + 1)
          /\ UNCHANGED <<adapter, page>>
        BY <1>2 DEF Keep, At, Next1
    <2>2. kept \in Seq(1 .. read + 1) /\ read + 1 \in 1 .. read + 1
        BY PageLength, Longer DEF ExtractionInv, TypeOK
    <2>3. Seen(kept') = Seen(kept) \cup {read + 1}
        BY <2>1, <2>2, SeenAppend
    <2>4. \A i : Verdict(i)' = Verdict(i)
        BY <2>1 DEF Verdict
    <2> QED BY <2>1, <2>3, <2>4 DEF KeptInOrder
<1>3. CASE AskBrowser
    BY <1>3 DEF AskBrowser, KeptInOrder, Seen
<1>4. CASE Skip \/ Drop \/ Crash \/ EndOfPage \/ GiveUp \/ Emit \/ ForeignLink \/ EmitSkips \/ UNCHANGED vars
    <2>1. UNCHANGED <<adapter, page, kept>> /\ (stage' = "reading" => stage = "reading")
        BY <1>4 DEF Skip, Drop, Crash, EndOfPage, GiveUp, Emit, ForeignLink, EmitSkips, vars
    <2>2. \A i : Verdict(i)' = Verdict(i)
        BY <2>1 DEF Verdict
    <2> QED BY <2>1, <2>2 DEF KeptInOrder
<1> QED BY <1>1, <1>2, <1>3, <1>4 DEF Next

-----------------------------------------------------------------------------
(* The theorems *)

(* The reading stays on the page and the log within its limit, for pages   *)
(* of any length.                                                          *)
THEOREM TypeCorrect == Spec => []TypeOK
<1>1. ExtractionInv => TypeOK
    BY DEF ExtractionInv
<1> QED BY <1>1, SpecInv, PTL

(* An offer that was read is a listing or in the log, never both, as long  *)
(* as the log has room (SkipLog in the loops of the extractors), whatever  *)
(* the registry, the page and the limits.                                  *)
THEOREM DropsAreLogged == Spec => []EveryDropIsLogged
<1>1. ExtractionInv => EveryDropIsLogged
    BY DEF ExtractionInv
<1> QED BY <1>1, SpecInv, PTL

(* A page that was read to its end yields its listings and its log, whole, *)
(* once and in order, and any other its failure (the handlers of retail.py *)
(* and skipped_items), browser or not.                                     *)
THEOREM AnswersAreWhole == Spec => []AnswerIsWhole
<1>1. ExtractionInv => AnswerIsWhole
    BY DEF ExtractionInv
<1> QED BY <1>1, SpecInv, PTL

(* Whatever the registry, as long as a marker that is part of another is   *)
(* shorter or says the same, a listing is filed under the device, the      *)
(* storage and the colour it is sold as where its texts tell, and under    *)
(* the condition of its price: the longest marker is never one that stands *)
(* inside another (_IDENTITY_ALIASES, _color_from_text), and no extractor  *)
(* keeps what it could not file.                                           *)
THEOREM FilingIsRight == Spec => []FiledAsSold
<1>1. Init => KeptInOrder
    BY DEF Init, KeptInOrder, Seen
<1>2. ExtractionInv /\ KeptInOrder /\ [Next]_vars => KeptInOrder'
    BY KeptInv
<1>3. ExtractionInv /\ KeptInOrder => FiledAsSold
    <2> SUFFICES ASSUME ExtractionInv, KeptInOrder, NEW i \in Seen(kept)
                 PROVE  LET e == page.entries[i]
                        IN  /\ adapter # "lab" /\ TellsWhatItSells(adapter, page, e)
                                => Filed(adapter, page, e) = {e.sells}
                            /\ adapter \in Variants \cup {"fast_shop", "kabum"} /\ "conditional" \in e.terms
                                => PriceBasis(adapter, e) = "conditional"
        BY DEF FiledAsSold
    <2> DEFINE e == page.entries[i]
    <2>1. adapter \in AllAdapters
        BY ExtractionAssumption DEF ExtractionInv, TypeOK
    <2>2. ~Malformed(adapter, page) /\ Outcome(Checks(adapter, page, e)) = "keep"
        BY DEF KeptInOrder, Verdict, Seen
    <2>3. adapter # "lab" => Filed(adapter, page, e) # {}
        BY <2>1, <2>2, KeptIsFiled
    <2>4. adapter \in Variants \cup {"fast_shop", "kabum"} => PriceBasis(adapter, e) = PaymentTerms(e.terms)
        BY DEF PriceBasis, Variants
    <2>5. "conditional" \in e.terms => PaymentTerms(e.terms) = "conditional"
        BY DEF PaymentTerms
    <2> QED BY <2>3, <2>4, <2>5, TellersAreFiled
<1> QED BY <1>1, <1>2, <1>3, SpecInv, PTL DEF Spec
=============================================================================
