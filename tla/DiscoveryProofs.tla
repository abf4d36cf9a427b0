-------------------------- MODULE DiscoveryProofs --------------------------
(***************************************************************************)
(* Theorems about Discovery, for any urls and answers, any number of       *)
(* searches, entries and restarts, and any limits: the limiter spaces the  *)
(* searches, the pruning keeps what it must, and an answer is as varied as *)
(* one search makes it, whatever the others do to the table.               *)
(***************************************************************************)
EXTENDS Discovery, FiniteSetTheorems, TLAPS

Pages == {Canonicalize(url) : url \in Urls}

(* What a row, and an entry of an answer, may be. *)
Candidates ==
    [canonical : Pages, domain : {url.host : url \in Urls},
     tier : {"trusted", "known", "unknown"}, provider : {"brave_search", "manual"},
     status : {"candidate", "reviewed"}, at : Nat]

SearchTypes ==
    [stage : Stages, results : Seq(Urls), next : Nat, answer : Seq(Candidates)]

Types ==
    /\ now \in Nat /\ lastRequestAt \in 0 .. now
    /\ rows \in SUBSET Candidates /\ IsFiniteSet(rows)
    /\ search \in [Searches -> SearchTypes]
    /\ slots \in Seq(Nat)

RowIsOfItsPage(row) == row.domain = row.canonical.host /\ row.tier = TrustTier(row.domain) /\ row.at <= now

(* One row a page, dated when the page was last met. *)
RowsAreKeyed ==
    /\ \A r1, r2 \in rows : r1.canonical = r2.canonical => r1 = r2
    /\ \A row \in rows : RowIsOfItsPage(row)
    /\ \A row \in rows : row.canonical \in DOMAIN met /\ met[row.canonical] = row.at

(* Of a domain, the entries of an answer. *)
OfDomain(answer, domain) == {j \in DOMAIN answer : answer[j].domain = domain}

(* What holds of an answer from its first entry on. *)
Varied(answer) ==
    /\ \A i, j \in DOMAIN answer : i # j => answer[i].canonical # answer[j].canonical
    /\ \A i \in DOMAIN answer :
        /\ answer[i].domain \notin Private
        /\ Cardinality(OfDomain(answer, answer[i].domain)) <= PerDomain

Ranked(answer) ==
    \A i, j \in DOMAIN answer : i < j => Rank(answer[i]) <= Rank(answer[j])

(* A search has read nothing before its provider answers, and answers from *)
(* what it has read.                                                       *)
Fits(r) ==
    /\ r.stage \in {"idle", "prune", "provider"} => r.next = 1 /\ r.answer = <<>>
    /\ r.next \in 1 .. Len(r.results) + 1
    /\ \A i \in DOMAIN r.answer : \E k \in DOMAIN r.results :
        r.answer[i].canonical = Canonicalize(r.results[k])
    /\ Varied(r.answer)
    /\ r.stage = "200" => Ranked(r.answer)

SearchesFit == \A s \in Searches : Fits(search[s])

DiscoveryInv ==
    /\ Types /\ RowsAreKeyed /\ SearchesFit
    /\ SlotsAreSpaced /\ StoreIsBounded

-----------------------------------------------------------------------------
(* Rows *)

LEMMA TierType == \A host : TrustTier(host) \in {"trusted", "known", "unknown"}
BY DEF TrustTier

LEMMA RankType == \A row : Rank(row) \in Nat
BY DEF Rank

LEMMA CanonicalHost == \A url : Canonicalize(url).host = url.host
BY DEF Canonicalize

LEMMA CandidateFields ==
    ASSUME NEW url, NEW provider, NEW status
    PROVE  LET new == Candidate(url, provider, status)
           IN  /\ new.canonical = Canonicalize(url) /\ new.domain = url.host
               /\ new.tier = TrustTier(url.host) /\ new.provider = provider
               /\ new.status = status /\ new.at = now
BY DEF Candidate

LEMMA CandidateType ==
    ASSUME NEW url \in Urls, NEW provider \in {"brave_search", "manual"},
           NEW status \in {"candidate", "reviewed"}, now \in Nat
    PROVE  Candidate(url, provider, status) \in Candidates
BY TierType DEF Candidate, Candidates, Pages

(* The verdict of a page is that of its one row. *)
LEMMA StatusOfRow ==
    ASSUME RowsAreKeyed, NEW row \in rows
    PROVE  StatusOf(row.canonical) = row.status
<1> DEFINE r == CHOOSE r \in rows : r.canonical = row.canonical
<1>1. r \in rows /\ r.canonical = row.canonical
    OBVIOUS
<1>2. r = row
    BY <1>1 DEF RowsAreKeyed
<1> QED BY <1>2 DEF StatusOf

LEMMA StatusType ==
    ASSUME Types, NEW c
    PROVE  StatusOf(c) \in {"candidate", "reviewed"}
<1>1. CASE \E row \in rows : row.canonical = c
    <2>1. (CHOOSE row \in rows : row.canonical = c) \in rows
        BY <1>1
    <2>2. (CHOOSE row \in rows : row.canonical = c).status \in {"candidate", "reviewed"}
        BY <2>1 DEF Types, Candidates
    <2> QED BY <1>1, <2>2 DEF StatusOf
<1>2. CASE ~\E row \in rows : row.canonical = c
    BY <1>2 DEF StatusOf
<1> QED BY <1>1, <1>2

LEMMA StoredType ==
    ASSUME Types, NEW url \in Urls, NEW provider \in {"brave_search", "manual"}
    PROVE  /\ Stored(url, provider) \in Candidates
           /\ Stored(url, provider).canonical = Canonicalize(url)
           /\ Stored(url, provider).domain = url.host
           /\ Stored(url, provider).tier = TrustTier(url.host)
           /\ Stored(url, provider).status = StatusOf(Canonicalize(url))
           /\ Stored(url, provider).at = now
<1>1. StatusOf(Canonicalize(url)) \in {"candidate", "reviewed"}
    BY StatusType
<1>2. now \in Nat
    BY DEF Types
<1> QED BY <1>1, <1>2, CandidateType, CandidateFields DEF Stored

LEMMA UnreviewedFinite ==
    ASSUME Types
    PROVE  IsFiniteSet(Unreviewed) /\ Cardinality(Unreviewed) \in Nat
BY FS_Subset, FS_CardinalityType DEF Types, Unreviewed

-----------------------------------------------------------------------------
(* The table *)

(* An upsert leaves the other rows and one row of its page, with its       *)
(* verdict and dated now.                                                  *)
LEMMA UpsertKeeps ==
    ASSUME Types, RowsAreKeyed, StoreIsBounded, now' = now,
           NEW url \in Urls, NEW provider \in {"brave_search", "manual"}, Upsert(url, provider)
    PROVE  /\ rows' \in SUBSET Candidates /\ IsFiniteSet(rows')
           /\ RowsAreKeyed' /\ StoreIsBounded'
           /\ \A row \in rows : \E after \in rows' :
                after.canonical = row.canonical /\ after.status = row.status
<1> DEFINE new == Stored(url, provider)
           others == {row \in rows : row.canonical # new.canonical}
<1>1. /\ rows' = others \cup {new}
      /\ met' = [c \in DOMAIN met \cup {new.canonical} |-> IF c = new.canonical THEN now ELSE met[c]]
      /\ written' = written \cup {new.canonical}
    BY DEF Upsert
<1>2. /\ new \in Candidates /\ new.canonical = Canonicalize(url) /\ new.domain = url.host
      /\ new.tier = TrustTier(url.host) /\ new.status = StatusOf(Canonicalize(url)) /\ new.at = now
    BY StoredType
<1> HIDE DEF new
<1>3. rows' \in SUBSET Candidates /\ IsFiniteSet(rows')
    <2>1. IsFiniteSet(others)
        BY FS_Subset DEF Types
    <2> QED BY <1>1, <1>2, <2>1, FS_AddElement DEF Types
<1>4. RowsAreKeyed'
    <2>1. \A r1, r2 \in rows' : r1.canonical = r2.canonical => r1 = r2
        BY <1>1 DEF RowsAreKeyed
    <2>2. RowIsOfItsPage(new)
        BY <1>2, CanonicalHost DEF RowIsOfItsPage, Types
    <2>3. \A row \in rows' : row.domain = row.canonical.host /\ row.tier = TrustTier(row.domain) /\ row.at <= now'
        BY <1>1, <2>2 DEF RowsAreKeyed, RowIsOfItsPage
    <2>4. \A row \in rows' : row.canonical \in DOMAIN met' /\ met'[row.canonical] = row.at
        BY <1>1, <1>2 DEF RowsAreKeyed
    <2> QED BY <2>1, <2>3, <2>4 DEF RowsAreKeyed, RowIsOfItsPage
<1>5. StoreIsBounded'
    <2> DEFINE before == {row \in Unreviewed : row.canonical \notin written}
               after == {row \in rows' : row.status = "candidate" /\ row.canonical \notin written'}
    <2>1. after \subseteq before
        BY <1>1 DEF Unreviewed
    <2>2. IsFiniteSet(before)
        BY UnreviewedFinite, FS_Subset
    <2>3. Cardinality(after) <= Cardinality(before)
        BY <2>1, <2>2, FS_Subset
    <2>4. Cardinality(before) \in Nat /\ Cardinality(after) \in Nat
        BY <2>1, <2>2, FS_Subset, FS_CardinalityType
    <2>5. Cardinality(before) <= MaxRows
        BY DEF StoreIsBounded
    <2>6. Cardinality(after) <= MaxRows
        BY <2>3, <2>4, <2>5, DiscoveryAssumption
    <2>7. after = {row \in Unreviewed' : row.canonical \notin written'}
        BY DEF Unreviewed
    <2> QED BY <2>6, <2>7 DEF StoreIsBounded
<1>6. ASSUME NEW row \in rows
      PROVE  \E after \in rows' : after.canonical = row.canonical /\ after.status = row.status
    <2>1. CASE row.canonical = new.canonical
        BY <1>1, <1>2, <2>1, StatusOfRow
    <2>2. CASE row.canonical # new.canonical
        BY <1>1, <2>2
    <2> QED BY <2>1, <2>2
<1> QED BY <1>3, <1>4, <1>5, <1>6

(* What a pruning keeps and what it may take. *)
LEMMA PruneKeeps ==
    ASSUME Types, RowsAreKeyed, rows' \in Pruned, written' = {}, now' = now, met' = met
    PROVE  /\ rows' \subseteq rows /\ IsFiniteSet(rows')
           /\ RowsAreKeyed' /\ StoreIsBounded'
           /\ \A row \in rows : row.status # "candidate" => row \in rows'
           /\ \A row \in rows \ rows' :
                \/ row.at < now - Retention
                \/ Cardinality({r \in Unreviewed \ {row} : r.at >= row.at}) >= MaxRows
<1>1. PICK newest \in SUBSET Unreviewed :
        /\ Cardinality(newest) = IF Cardinality(Unreviewed) < MaxRows THEN Cardinality(Unreviewed) ELSE MaxRows
        /\ \A kept \in newest, dropped \in Unreviewed \ newest : kept.at >= dropped.at
        /\ rows' = rows \ {row \in Unreviewed : row \notin newest \/ row.at < now - Retention}
    BY DEF Pruned
<1>2. IsFiniteSet(Unreviewed) /\ Cardinality(Unreviewed) \in Nat /\ Unreviewed \subseteq rows
    BY UnreviewedFinite DEF Unreviewed
<1>3. IsFiniteSet(newest) /\ Cardinality(newest) \in Nat /\ Cardinality(newest) <= MaxRows
    BY <1>1, <1>2, FS_Subset, DiscoveryAssumption
<1>4. rows' \subseteq rows /\ IsFiniteSet(rows')
    BY <1>1, FS_Subset DEF Types
<1>5. RowsAreKeyed'
    BY <1>4 DEF RowsAreKeyed, RowIsOfItsPage
<1>6. StoreIsBounded'
    <2> DEFINE after == {row \in rows' : row.status = "candidate" /\ row.canonical \notin written'}
    <2>1. after \subseteq newest
        BY <1>1 DEF Unreviewed
    <2>2. IsFiniteSet(after) /\ Cardinality(after) <= Cardinality(newest) /\ Cardinality(after) \in Nat
        BY <2>1, <1>3, FS_Subset, FS_CardinalityType
    <2>3. Cardinality(after) <= MaxRows
        BY <1>3, <2>2, DiscoveryAssumption
    <2>4. after = {row \in Unreviewed' : row.canonical \notin written'}
        BY DEF Unreviewed
    <2> QED BY <2>3, <2>4 DEF StoreIsBounded
<1>7. \A row \in rows : row.status # "candidate" => row \in rows'
    BY <1>1 DEF Unreviewed
<1>8. ASSUME NEW row \in rows \ rows', ~(row.at < now - Retention)
      PROVE  Cardinality({r \in Unreviewed \ {row} : r.at >= row.at}) >= MaxRows
    <2> DEFINE rest == Unreviewed \ {row}
               later == {r \in rest : r.at >= row.at}
    <2>1. row \in Unreviewed \ newest
        BY <1>1, <1>8
    <2>2. newest \subseteq later
        BY <1>1, <2>1
    <2>3. IsFiniteSet(rest) /\ Cardinality(rest) = Cardinality(Unreviewed) - 1
        BY <1>2, <2>1, FS_RemoveElement
    <2>4. IsFiniteSet(later) /\ Cardinality(later) \in Nat /\ Cardinality(later) <= Cardinality(rest)
        BY <2>3, FS_Subset, FS_CardinalityType
    <2>5. Cardinality(newest) <= Cardinality(later)
        BY <2>2, <2>4, FS_Subset
    <2>6. Cardinality(newest) = MaxRows
        BY <1>1, <1>2, <1>3, <2>3, <2>4, <2>5
    <2> QED BY <2>4, <2>5, <2>6, DiscoveryAssumption
<1> QED BY <1>4, <1>5, <1>6, <1>7, <1>8

(* A verdict changes one row's status. *)
LEMMA ReviewKeeps ==
    ASSUME Types, RowsAreKeyed, StoreIsBounded, NEW row \in rows, Review(row)
    PROVE  /\ rows' \in SUBSET Candidates /\ IsFiniteSet(rows')
           /\ RowsAreKeyed' /\ StoreIsBounded'
           /\ \A old \in rows : \E after \in rows' :
                /\ after.canonical = old.canonical
                /\ old.status # "candidate" => after.status = old.status
<1> DEFINE new == [row EXCEPT !.status = "reviewed"]
<1>1. /\ row.status = "candidate" /\ rows' = (rows \ {row}) \cup {new}
      /\ now' = now /\ met' = met /\ written' = written
    BY DEF Review
<1>2. /\ new \in Candidates /\ new.status = "reviewed" /\ new.canonical = row.canonical
      /\ new.domain = row.domain /\ new.tier = row.tier /\ new.at = row.at
    BY DEF Types, Candidates
<1> HIDE DEF new
<1>3. rows' \in SUBSET Candidates /\ IsFiniteSet(rows')
    BY <1>1, <1>2, FS_RemoveElement, FS_AddElement DEF Types
<1>4. RowsAreKeyed'
    BY <1>1, <1>2 DEF RowsAreKeyed, RowIsOfItsPage
<1>5. StoreIsBounded'
    <2> DEFINE before == {r \in Unreviewed : r.canonical \notin written}
               after == {r \in rows' : r.status = "candidate" /\ r.canonical \notin written'}
    <2>1. after \subseteq before
        BY <1>1, <1>2 DEF Unreviewed
    <2>2. IsFiniteSet(before)
        BY UnreviewedFinite, FS_Subset
    <2>3. Cardinality(after) <= Cardinality(before) /\ Cardinality(before) \in Nat /\ Cardinality(after) \in Nat
        BY <2>1, <2>2, FS_Subset, FS_CardinalityType
    <2>4. Cardinality(after) <= MaxRows
        BY <2>3, DiscoveryAssumption DEF StoreIsBounded
    <2>5. after = {r \in Unreviewed' : r.canonical \notin written'}
        BY DEF Unreviewed
    <2> QED BY <2>4, <2>5 DEF StoreIsBounded
<1>6. \A old \in rows : \E after \in rows' :
        /\ after.canonical = old.canonical
        /\ old.status # "candidate" => after.status = old.status
    BY <1>1, <1>2
<1> QED BY <1>3, <1>4, <1>5, <1>6

-----------------------------------------------------------------------------
(* The answers *)

LEMMA OfDomainFinite ==
    ASSUME NEW answer \in Seq(Candidates), NEW domain
    PROVE  IsFiniteSet(OfDomain(answer, domain)) /\ Cardinality(OfDomain(answer, domain)) \in Nat
<1>1. IsFiniteSet(1 .. Len(answer)) /\ DOMAIN answer = 1 .. Len(answer)
    BY FS_Interval
<1> QED BY <1>1, FS_Subset, FS_CardinalityType DEF OfDomain

LEMMA EmptyIsVaried == Varied(<<>>) /\ Ranked(<<>>)
BY DEF Varied, Ranked

(* One more entry of a page that is new and a domain that has room. *)
LEMMA AppendIsVaried ==
    ASSUME NEW answer \in Seq(Candidates), Varied(answer), NEW new \in Candidates,
           \A i \in DOMAIN answer : answer[i].canonical # new.canonical,
           new.domain \notin Private,
           Cardinality(OfDomain(answer, new.domain)) < PerDomain
    PROVE  Varied(Append(answer, new))
<1> DEFINE longer == Append(answer, new)
           n == Len(answer) + 1
<1>1. /\ longer \in Seq(Candidates) /\ Len(longer) = n /\ n \in Nat \ {0}
      /\ DOMAIN longer = 1 .. n /\ DOMAIN answer = 1 .. n - 1
      /\ longer[n] = new /\ \A i \in DOMAIN answer : longer[i] = answer[i]
    OBVIOUS
<1> HIDE DEF longer, n
<1>2. \A i, j \in DOMAIN longer : i # j => longer[i].canonical # longer[j].canonical
    BY <1>1 DEF Varied
<1>3. ASSUME NEW i \in DOMAIN longer
      PROVE  /\ longer[i].domain \notin Private
             /\ Cardinality(OfDomain(longer, longer[i].domain)) <= PerDomain
    <2>1. CASE longer[i].domain = new.domain
        <3>1. OfDomain(longer, new.domain) = OfDomain(answer, new.domain) \cup {n}
            BY <1>1 DEF OfDomain
        <3>2. n \notin OfDomain(answer, new.domain)
            BY <1>1 DEF OfDomain
        <3>3. Cardinality(OfDomain(longer, new.domain)) = Cardinality(OfDomain(answer, new.domain)) + 1
            BY <3>1, <3>2, OfDomainFinite, FS_AddElement
        <3> QED BY <2>1, <3>3, OfDomainFinite, DiscoveryAssumption
    <2>2. CASE longer[i].domain # new.domain
        <3>1. i \in DOMAIN answer /\ longer[i] = answer[i]
            BY <1>1, <2>2
        <3>2. OfDomain(longer, longer[i].domain) = OfDomain(answer, answer[i].domain)
            BY <1>1, <2>2, <3>1 DEF OfDomain
        <3> QED BY <3>1, <3>2 DEF Varied
    <2> QED BY <2>1, <2>2
<1> QED BY <1>2, <1>3 DEF Varied, longer

(* The stable sort loses nothing and repeats nothing. *)
LEMMA SortedIsVaried ==
    ASSUME NEW answer \in Seq(Candidates), Varied(answer), NEW order \in ByTier(answer)
    PROVE  LET sorted == [i \in DOMAIN answer |-> answer[order[i]]]
           IN  sorted \in Seq(Candidates) /\ Varied(sorted) /\ Ranked(sorted)
<1> DEFINE sorted == [i \in DOMAIN answer |-> answer[order[i]]]
<1>1. /\ order \in [DOMAIN answer -> DOMAIN answer]
      /\ \A i, j \in DOMAIN answer : i < j =>
            \/ Rank(answer[order[i]]) < Rank(answer[order[j]])
            \/ Rank(answer[order[i]]) = Rank(answer[order[j]]) /\ order[i] < order[j]
    BY DEF ByTier
<1>2. DOMAIN answer = 1 .. Len(answer) /\ Len(answer) \in Nat
    OBVIOUS
<1>3. sorted \in Seq(Candidates) /\ DOMAIN sorted = DOMAIN answer
    BY <1>1, <1>2
<1>4. \A i, j \in DOMAIN answer : i # j => order[i] # order[j]
    <2>1. \A i, j \in DOMAIN answer : i < j => order[i] # order[j]
        BY <1>1, <1>2, RankType
    <2> QED BY <2>1, <1>2
<1>5. \A i \in DOMAIN answer : sorted[i] = answer[order[i]]
    OBVIOUS
<1>6. Ranked(sorted)
    <2>1. ASSUME NEW i \in DOMAIN answer, NEW j \in DOMAIN answer, i < j
          PROVE  Rank(sorted[i]) <= Rank(sorted[j])
        BY <1>1, <1>5, <2>1, RankType
    <2> QED BY <2>1, <1>3 DEF Ranked
<1> HIDE DEF sorted
<1>7. \A i, j \in DOMAIN sorted : i # j => sorted[i].canonical # sorted[j].canonical
    BY <1>1, <1>3, <1>4, <1>5 DEF Varied
<1>8. ASSUME NEW i \in DOMAIN sorted
      PROVE  /\ sorted[i].domain \notin Private
             /\ Cardinality(OfDomain(sorted, sorted[i].domain)) <= PerDomain
    <2> DEFINE domain == sorted[i].domain
               here == OfDomain(sorted, domain)
               before == OfDomain(answer, domain)
               f == [k \in here |-> order[k]]
    <2>1. order[i] \in DOMAIN answer /\ sorted[i] = answer[order[i]]
        BY <1>1, <1>3, <1>5
    <2>2. domain \notin Private /\ Cardinality(before) <= PerDomain
        BY <2>1 DEF Varied
    <2>3. f \in Injection(here, before)
        <3>1. \A k \in here : order[k] \in before
            BY <1>1, <1>3, <1>5 DEF OfDomain
        <3>2. \A k, l \in here : order[k] = order[l] => k = l
            BY <1>3, <1>4 DEF OfDomain
        <3> QED BY <3>1, <3>2 DEF Injection, IsInjective
    <2>4. IsFiniteSet(before) /\ Cardinality(before) \in Nat
        BY OfDomainFinite
    <2> HIDE DEF f, here, before
    <2>5. Cardinality(here) <= Cardinality(before) /\ IsFiniteSet(here)
        BY <2>3, <2>4, FS_Injection
    <2>6. Cardinality(here) \in Nat
        BY <2>5, FS_CardinalityType
    <2>7. Cardinality(here) <= PerDomain
        BY <2>2, <2>4, <2>5, <2>6, DiscoveryAssumption
    <2> QED BY <2>2, <2>7 DEF here
<1>9. Varied(sorted)
    BY <1>7, <1>8 DEF Varied
<1> QED BY <1>3, <1>6, <1>9 DEF sorted

-----------------------------------------------------------------------------
(* The searches *)

(* A step of one search that leaves it fit leaves all fit. *)
LEMMA OneSearchMoves ==
    ASSUME search \in [Searches -> SearchTypes], SearchesFit, NEW s \in Searches,
           NEW r \in SearchTypes, Fits(r), search' = [search EXCEPT ![s] = r]
    PROVE  search' \in [Searches -> SearchTypes] /\ SearchesFit'
<1>1. search' \in [Searches -> SearchTypes]
    OBVIOUS
<1>2. \A q \in Searches : search'[q] = IF q = s THEN r ELSE search[q]
    OBVIOUS
<1>3. \A q \in Searches : Fits(search'[q])
    BY <1>2 DEF SearchesFit
<1> QED BY <1>1, <1>3 DEF SearchesFit

LEMMA ToKeeps ==
    ASSUME search \in [Searches -> SearchTypes], SearchesFit, NEW s \in Searches,
           NEW stage \in Stages \ {"200"},
           stage \in {"idle", "prune", "provider"} => search[s].stage \in {"idle", "prune", "provider"},
           To(s, stage)
    PROVE  search' \in [Searches -> SearchTypes] /\ SearchesFit'
<1> DEFINE r == [search[s] EXCEPT !.stage = stage]
<1>1. search' = [search EXCEPT ![s] = r]
    BY DEF To
<1>2. search[s] \in SearchTypes /\ Fits(search[s])
    BY DEF SearchesFit
<1>3. /\ r \in SearchTypes /\ r.stage = stage /\ r.results = search[s].results
      /\ r.next = search[s].next /\ r.answer = search[s].answer
    BY <1>2 DEF SearchTypes
<1> HIDE DEF r
<1>4. Fits(r)
    BY <1>2, <1>3 DEF Fits
<1> QED BY <1>1, <1>3, <1>4, OneSearchMoves

LEMMA GroupType ==
    ASSUME NEW N \in Nat, NEW groups \in [1 .. N -> Answers], NEW n \in Nat
    PROVE  Group(groups, n) \in Seq(Urls)
<1>1. CASE n \in 1 .. N
    BY <1>1, DiscoveryAssumption DEF Group
<1>2. CASE n \notin 1 .. N
    BY <1>2 DEF Group
<1> QED BY <1>1, <1>2

LEMMA JoinedType ==
    ASSUME NEW groups \in [1 .. VariationCount -> Answers]
    PROVE  Joined(groups) \in Seq(Urls)
<1>1. VariationCount \in Nat
    BY DiscoveryAssumption DEF VariationCount
<1>2. /\ Group(groups, 1) \in Seq(Urls) /\ Group(groups, 2) \in Seq(Urls)
      /\ Group(groups, 3) \in Seq(Urls)
    BY <1>1, GroupType
<1> QED BY <1>2 DEF Joined

LEMMA ProviderKeeps ==
    ASSUME search \in [Searches -> SearchTypes], SearchesFit, NEW s \in Searches, ProviderAnswers(s)
    PROVE  search' \in [Searches -> SearchTypes] /\ SearchesFit'
<1>1. PICK groups \in [1 .. VariationCount -> Answers] :
        search' = [search EXCEPT ![s].stage = "store", ![s].results = Joined(groups)]
    BY DEF ProviderAnswers
<1> DEFINE r == [search[s] EXCEPT !.stage = "store", !.results = Joined(groups)]
<1>2. search' = [search EXCEPT ![s] = r]
    BY <1>1
<1>3. search[s] \in SearchTypes /\ Fits(search[s]) /\ search[s].stage = "provider"
    BY DEF SearchesFit, ProviderAnswers
<1>4. /\ r \in SearchTypes /\ r.stage = "store" /\ r.results = Joined(groups)
      /\ r.next = search[s].next /\ r.answer = search[s].answer
    BY <1>3, JoinedType DEF SearchTypes, Stages
<1> HIDE DEF r
<1>5. r.next = 1 /\ r.answer = <<>> /\ r.next \in 1 .. Len(r.results) + 1
    BY <1>3, <1>4 DEF Fits, SearchTypes
<1>6. Varied(r.answer) /\ DOMAIN r.answer = {}
    BY <1>5, EmptyIsVaried
<1>7. Fits(r)
    BY <1>4, <1>5, <1>6 DEF Fits
<1> QED BY <1>2, <1>4, <1>7, OneSearchMoves

LEMMA PassOverKeeps ==
    ASSUME search \in [Searches -> SearchTypes], SearchesFit, NEW s \in Searches, PassOver(s)
    PROVE  search' \in [Searches -> SearchTypes] /\ SearchesFit'
<1> DEFINE r == [search[s] EXCEPT !.next = @ + 1]
<1>1. search' = [search EXCEPT ![s] = r]
    BY DEF PassOver
<1>2. search[s] \in SearchTypes /\ Fits(search[s])
    BY DEF SearchesFit
<1>3. search[s].stage = "store" /\ search[s].next <= Len(search[s].results)
    BY DEF PassOver, AtResult
<1>4. /\ r \in SearchTypes /\ r.stage = "store" /\ r.results = search[s].results
      /\ r.next = search[s].next + 1 /\ r.answer = search[s].answer
    <2> DEFINE n == search[s].next + 1
    <2>1. n \in Nat
        BY <1>2 DEF SearchTypes
    <2> HIDE DEF n
    <2>2. r = [search[s] EXCEPT !.next = n]
        BY DEF n
    <2>3. [search[s] EXCEPT !.next = n] \in SearchTypes
        BY <1>2, <2>1 DEF SearchTypes
    <2> QED BY <1>2, <1>3, <2>2, <2>3 DEF SearchTypes, n
<1> HIDE DEF r
<1>5. r.next \in 1 .. Len(r.results) + 1
    BY <1>2, <1>3, <1>4 DEF Fits, SearchTypes
<1>6. Fits(r)
    BY <1>2, <1>3, <1>4, <1>5 DEF Fits
<1> QED BY <1>1, <1>4, <1>6, OneSearchMoves

LEMMA StoreKeepsSearches ==
    ASSUME Types, SearchesFit, NEW s \in Searches, Store(s)
    PROVE  /\ search' \in [Searches -> SearchTypes] /\ SearchesFit'
           /\ Result(s) \in Urls
<1> DEFINE new == Stored(Result(s), "brave_search")
           r == [search[s] EXCEPT !.next = @ + 1, !.answer = Append(@, new)]
<1>1. search' = [search EXCEPT ![s] = r]
    BY DEF Store
<1>2. search[s] \in SearchTypes /\ Fits(search[s])
    BY DEF SearchesFit, Types
<1>3. search[s].stage = "store" /\ search[s].next <= Len(search[s].results) /\ Wanted(s)
    BY DEF Store, AtResult
<1>4. search[s].next \in DOMAIN search[s].results /\ Result(s) \in Urls
    BY <1>2, <1>3 DEF Fits, SearchTypes, Result
<1>5. /\ new \in Candidates /\ new.canonical = Canonicalize(Result(s))
      /\ new.domain = Result(s).host
    BY <1>4, StoredType
<1> HIDE DEF new
<1>6. /\ r \in SearchTypes /\ r.stage = "store" /\ r.results = search[s].results
      /\ r.next = search[s].next + 1 /\ r.answer = Append(search[s].answer, new)
    <2> DEFINE n == search[s].next + 1
               longer == Append(search[s].answer, new)
    <2>1. n \in Nat /\ longer \in Seq(Candidates)
        BY <1>2, <1>5 DEF SearchTypes
    <2> HIDE DEF n, longer
    <2>2. r = [search[s] EXCEPT !.next = n, !.answer = longer]
        BY DEF n, longer
    <2>3. [search[s] EXCEPT !.next = n, !.answer = longer] \in SearchTypes
        BY <1>2, <2>1 DEF SearchTypes
    <2> QED BY <1>2, <1>3, <2>2, <2>3 DEF SearchTypes, n, longer
<1> HIDE DEF r
<1>7. Varied(r.answer)
    <2>1. /\ new.domain \notin Private
          /\ \A i \in DOMAIN search[s].answer : search[s].answer[i].canonical # new.canonical
          /\ Cardinality(OfDomain(search[s].answer, new.domain)) < PerDomain
        BY <1>3, <1>5 DEF Wanted, Safe, Of, OfDomain
    <2>2. search[s].answer \in Seq(Candidates) /\ Varied(search[s].answer)
        BY <1>2 DEF SearchTypes, Fits
    <2> QED BY <1>5, <1>6, <2>1, <2>2, AppendIsVaried
<1>8. r.next \in 1 .. Len(r.results) + 1
    BY <1>2, <1>3, <1>6 DEF Fits, SearchTypes
<1>9. \A i \in DOMAIN r.answer : \E k \in DOMAIN r.results :
        r.answer[i].canonical = Canonicalize(r.results[k])
    <2>1. search[s].answer \in Seq(Candidates)
        BY <1>2 DEF SearchTypes
    <2>2. ASSUME NEW i \in DOMAIN r.answer
          PROVE  (i \in DOMAIN search[s].answer /\ r.answer[i] = search[s].answer[i]) \/ r.answer[i] = new
        BY <1>6, <2>1
    <2> QED BY <1>2, <1>4, <1>5, <1>6, <2>2 DEF Fits, Result
<1>10. Fits(r)
    BY <1>6, <1>7, <1>8, <1>9 DEF Fits
<1> QED BY <1>1, <1>4, <1>6, <1>10, OneSearchMoves DEF Types

LEMMA AnswerKeeps ==
    ASSUME search \in [Searches -> SearchTypes], SearchesFit, NEW s \in Searches, Answer(s)
    PROVE  search' \in [Searches -> SearchTypes] /\ SearchesFit'
<1>1. PICK order \in ByTier(search[s].answer) :
        search' = [search EXCEPT ![s].stage = "200", ![s].answer = [i \in DOMAIN @ |-> @[order[i]]]]
    BY DEF Answer
<1> DEFINE answer == search[s].answer
           sorted == [i \in DOMAIN answer |-> answer[order[i]]]
           r == [search[s] EXCEPT !.stage = "200", !.answer = sorted]
<1>2. search' = [search EXCEPT ![s] = r]
    BY <1>1
<1>3. search[s] \in SearchTypes /\ Fits(search[s]) /\ answer \in Seq(Candidates)
    BY DEF SearchesFit, SearchTypes
<1>4. order \in [DOMAIN answer -> DOMAIN answer]
    BY DEF ByTier
<1>5. sorted \in Seq(Candidates) /\ Varied(sorted) /\ Ranked(sorted)
    BY <1>3, SortedIsVaried DEF Fits
<1>6. \A i \in DOMAIN sorted : \E j \in DOMAIN answer : sorted[i] = answer[j]
    BY <1>4
<1> HIDE DEF sorted
<1>7. /\ r \in SearchTypes /\ r.stage = "200" /\ r.results = search[s].results
      /\ r.next = search[s].next /\ r.answer = sorted
    BY <1>3, <1>5 DEF SearchTypes, Stages
<1> HIDE DEF r
<1>8. Fits(r)
    BY <1>3, <1>5, <1>6, <1>7 DEF Fits
<1> QED BY <1>2, <1>7, <1>8, OneSearchMoves

-----------------------------------------------------------------------------
(* The invariant *)

LEMMA InitInv == Init => DiscoveryInv
<1> SUFFICES ASSUME Init PROVE DiscoveryInv
    OBVIOUS
<1>1. Idle \in SearchTypes /\ Fits(Idle)
    BY EmptyIsVaried DEF Idle, SearchTypes, Stages, Fits
<1>2. IsFiniteSet(rows) /\ rows = {} /\ slots = <<>> /\ search = [s \in Searches |-> Idle]
    BY FS_EmptySet DEF Init
<1>3. Types
    BY <1>1, <1>2, DiscoveryAssumption DEF Init, Types
<1>4. RowsAreKeyed /\ SearchesFit
    BY <1>1, <1>2 DEF RowsAreKeyed, SearchesFit
<1>5. SlotsAreSpaced
    BY <1>2 DEF Init, SlotsAreSpaced
<1>6. StoreIsBounded
    <2>1. {row \in Unreviewed : row.canonical \notin written} = {}
        BY <1>2 DEF Unreviewed
    <2> QED BY <2>1, FS_EmptySet, DiscoveryAssumption DEF StoreIsBounded
<1> QED BY <1>3, <1>4, <1>5, <1>6 DEF DiscoveryInv

(* A search passes: a slot after the last, and the wait counts from it. *)
LEMMA AcquireIsSpaced ==
    ASSUME Types, SlotsAreSpaced, NEW s \in Searches, Acquire(s)
    PROVE  slots' \in Seq(Nat) /\ lastRequestAt' \in 0 .. now /\ SlotsAreSpaced'
<1>1. /\ slots' = Append(slots, now) /\ lastRequestAt' = now /\ now - lastRequestAt >= Cooldown
      /\ slots \in Seq(Nat) /\ now \in Nat /\ lastRequestAt \in 0 .. now
    BY DEF Acquire, Types
<1>2. /\ slots' \in Seq(Nat) /\ Len(slots') = Len(slots) + 1 /\ slots'[Len(slots) + 1] = now
      /\ \A i \in 1 .. Len(slots) : slots'[i] = slots[i]
      /\ slots' # <<>>
    BY <1>1
<1>3. \A i \in 1 .. Len(slots') - 1 : slots'[i + 1] - slots'[i] >= Cooldown
    <2> TAKE i \in 1 .. Len(slots') - 1
    <2>1. CASE i = Len(slots)
        <3>1. slots'[i + 1] = now /\ slots'[i] = slots[Len(slots)] /\ slots # <<>>
            BY <1>2, <2>1
        <3>2. slots[Len(slots)] = lastRequestAt
            BY <3>1 DEF SlotsAreSpaced
        <3> QED BY <1>1, <3>1, <3>2
    <2>2. CASE i # Len(slots)
        <3>1. i \in 1 .. Len(slots) - 1 /\ i + 1 \in 1 .. Len(slots)
            BY <1>1, <1>2, <2>2
        <3> QED BY <1>2, <3>1 DEF SlotsAreSpaced
    <2> QED BY <2>1, <2>2
<1> QED BY <1>1, <1>2, <1>3 DEF SlotsAreSpaced

(* Steps that leave the table alone leave what is said of it. *)
LEMMA TableUnchanged ==
    ASSUME RowsAreKeyed, StoreIsBounded, now \in Nat, now' \in Nat, now <= now',
           rows \in SUBSET Candidates, UNCHANGED <<rows, met, written>>
    PROVE  RowsAreKeyed' /\ StoreIsBounded'
<1>1. \A row \in rows : row.at \in Nat
    BY DEF Candidates
<1>2. RowsAreKeyed'
    BY <1>1 DEF RowsAreKeyed, RowIsOfItsPage
<1>3. Unreviewed' = Unreviewed
    BY DEF Unreviewed
<1> QED BY <1>2, <1>3 DEF StoreIsBounded

LEMMA LimiterUnchanged ==
    ASSUME SlotsAreSpaced, UNCHANGED <<slots, lastRequestAt>>
    PROVE  SlotsAreSpaced'
BY DEF SlotsAreSpaced

LEMMA StepInv ==
    ASSUME DiscoveryInv, NEW s \in Searches, Step(s)
    PROVE  DiscoveryInv'
<1>1. Types /\ RowsAreKeyed /\ SearchesFit /\ SlotsAreSpaced /\ StoreIsBounded
    BY DEF DiscoveryInv
<1>2. search \in [Searches -> SearchTypes] /\ rows \in SUBSET Candidates /\ now \in Nat
    BY <1>1 DEF Types
<1>3. CASE Acquire(s)
    <2>1. slots' \in Seq(Nat) /\ lastRequestAt' \in 0 .. now /\ SlotsAreSpaced'
        BY <1>1, <1>3, AcquireIsSpaced
    <2>2. search' \in [Searches -> SearchTypes] /\ SearchesFit'
        BY <1>1, <1>2, <1>3, ToKeeps DEF Acquire, Stages
    <2>3. RowsAreKeyed' /\ StoreIsBounded'
        BY <1>1, <1>2, <1>3, TableUnchanged DEF Acquire
    <2> QED BY <1>1, <1>3, <2>1, <2>2, <2>3 DEF DiscoveryInv, Types, Acquire
<1>4. CASE Prune(s)
    <2>1. rows' \subseteq rows /\ IsFiniteSet(rows') /\ RowsAreKeyed' /\ StoreIsBounded'
        BY <1>1, <1>4, PruneKeeps DEF Prune
    <2>2. search' \in [Searches -> SearchTypes] /\ SearchesFit'
        BY <1>1, <1>2, <1>4, ToKeeps DEF Prune, Stages
    <2>3. SlotsAreSpaced'
        BY <1>1, <1>4, LimiterUnchanged DEF Prune
    <2> QED BY <1>1, <1>4, <2>1, <2>2, <2>3 DEF DiscoveryInv, Types, Prune
<1>5. CASE Store(s)
    <2>1. search' \in [Searches -> SearchTypes] /\ SearchesFit' /\ Result(s) \in Urls
        BY <1>1, <1>5, StoreKeepsSearches
    <2>2. rows' \in SUBSET Candidates /\ IsFiniteSet(rows') /\ RowsAreKeyed' /\ StoreIsBounded'
        BY <1>1, <1>5, <2>1, UpsertKeeps DEF Store
    <2>3. SlotsAreSpaced'
        BY <1>1, <1>5, LimiterUnchanged DEF Store
    <2> QED BY <1>1, <1>5, <2>1, <2>2, <2>3 DEF DiscoveryInv, Types, Store
<1>6. ASSUME UNCHANGED <<now, lastRequestAt, rows, slots, met, written>>,
             search' \in [Searches -> SearchTypes], SearchesFit'
      PROVE  DiscoveryInv'
    <2>1. RowsAreKeyed' /\ StoreIsBounded' /\ SlotsAreSpaced'
        BY <1>1, <1>2, <1>6, TableUnchanged, LimiterUnchanged
    <2> QED BY <1>1, <1>6, <2>1 DEF DiscoveryInv, Types
<1>7. CASE TooSoon(s)
    BY <1>1, <1>2, <1>6, <1>7, ToKeeps DEF TooSoon, Stages
<1>8. CASE ProviderAnswers(s)
    BY <1>1, <1>2, <1>6, <1>8, ProviderKeeps DEF ProviderAnswers
<1>9. CASE ProviderFails(s)
    BY <1>1, <1>2, <1>6, <1>9, ToKeeps DEF ProviderFails, Stages
<1>10. CASE PassOver(s)
    BY <1>1, <1>2, <1>6, <1>10, PassOverKeeps DEF PassOver
<1>11. CASE DatabaseFails(s)
    BY <1>1, <1>2, <1>6, <1>11, ToKeeps DEF DatabaseFails, Stages
<1>12. CASE Answer(s)
    BY <1>1, <1>2, <1>6, <1>12, AnswerKeeps DEF Answer
<1> QED BY <1>3, <1>4, <1>5, <1>7, <1>8, <1>9, <1>10, <1>11, <1>12 DEF Step

LEMMA RestartKeeps ==
    ASSUME search \in [Searches -> SearchTypes], SearchesFit, Restart
    PROVE  search' \in [Searches -> SearchTypes] /\ SearchesFit'
<1> DEFINE lost(s) == [search[s] EXCEPT !.stage = "lost"]
<1>1. ASSUME NEW s \in Searches
      PROVE  search'[s] \in SearchTypes /\ Fits(search'[s])
    <2>1. search[s] \in SearchTypes /\ Fits(search[s])
        BY DEF SearchesFit
    <2>2. /\ lost(s) \in SearchTypes /\ lost(s).stage = "lost" /\ lost(s).results = search[s].results
          /\ lost(s).next = search[s].next /\ lost(s).answer = search[s].answer
        BY <2>1 DEF SearchTypes, Stages
    <2>3. search'[s] = lost(s) \/ search'[s] = search[s]
        BY DEF Restart
    <2> HIDE DEF lost
    <2>4. Fits(lost(s))
        BY <2>1, <2>2 DEF Fits
    <2> QED BY <2>1, <2>2, <2>3, <2>4
<1>2. search' \in [Searches -> SearchTypes]
    <2>1. search' = [s \in Searches |-> search'[s]]
        BY DEF Restart
    <2> QED BY <1>1, <2>1
<1> QED BY <1>1, <1>2 DEF SearchesFit

LEMMA NextInv == DiscoveryInv /\ [Next]_vars => DiscoveryInv'
<1> SUFFICES ASSUME DiscoveryInv, [Next]_vars PROVE DiscoveryInv'
    OBVIOUS
<1>1. Types /\ RowsAreKeyed /\ SearchesFit /\ SlotsAreSpaced /\ StoreIsBounded
    BY DEF DiscoveryInv
<1>2. search \in [Searches -> SearchTypes] /\ rows \in SUBSET Candidates /\ now \in Nat
    BY <1>1 DEF Types
<1>3. CASE Tick
    <2>1. now' \in Nat /\ now <= now' /\ lastRequestAt' \in 0 .. now'
        BY <1>1, <1>3 DEF Tick, Types
    <2>2. RowsAreKeyed' /\ StoreIsBounded'
        BY <1>1, <1>2, <1>3, <2>1, TableUnchanged DEF Tick
    <2>3. SearchesFit' /\ SlotsAreSpaced'
        BY <1>1, <1>3, LimiterUnchanged DEF Tick, SearchesFit
    <2> QED BY <1>1, <1>3, <2>1, <2>2, <2>3 DEF DiscoveryInv, Types, Tick
<1>4. CASE Restart
    <2>1. search' \in [Searches -> SearchTypes] /\ SearchesFit'
        BY <1>1, <1>2, <1>4, RestartKeeps
    <2>2. RowsAreKeyed' /\ StoreIsBounded'
        BY <1>1, <1>2, <1>4, TableUnchanged DEF Restart
    <2>3. lastRequestAt' = 0 /\ slots' = <<>> /\ slots' \in Seq(Nat) /\ SlotsAreSpaced'
        BY <1>4 DEF Restart, SlotsAreSpaced
    <2> QED BY <1>1, <1>2, <1>4, <2>1, <2>2, <2>3 DEF DiscoveryInv, Types, Restart
<1>5. ASSUME NEW s \in Searches, Step(s) PROVE DiscoveryInv'
    BY <1>5, StepInv
<1>6. ASSUME NEW url \in Entered, AddManual(url) PROVE DiscoveryInv'
    <2>1. url \in Urls
        BY DiscoveryAssumption
    <2>2. rows' \in SUBSET Candidates /\ IsFiniteSet(rows') /\ RowsAreKeyed' /\ StoreIsBounded'
        BY <1>1, <1>6, <2>1, UpsertKeeps DEF AddManual
    <2>3. SearchesFit' /\ SlotsAreSpaced'
        BY <1>1, <1>6, LimiterUnchanged DEF AddManual, SearchesFit
    <2> QED BY <1>1, <1>6, <2>2, <2>3 DEF DiscoveryInv, Types, AddManual
<1>7. ASSUME NEW row \in rows, Review(row) PROVE DiscoveryInv'
    <2>1. rows' \in SUBSET Candidates /\ IsFiniteSet(rows') /\ RowsAreKeyed' /\ StoreIsBounded'
        BY <1>1, <1>7, ReviewKeeps
    <2>2. SearchesFit' /\ SlotsAreSpaced'
        BY <1>1, <1>7, LimiterUnchanged DEF Review, SearchesFit
    <2> QED BY <1>1, <1>7, <2>1, <2>2 DEF DiscoveryInv, Types, Review
<1>8. CASE UNCHANGED vars
    <2>1. RowsAreKeyed' /\ StoreIsBounded' /\ SlotsAreSpaced'
        BY <1>1, <1>2, <1>8, TableUnchanged, LimiterUnchanged DEF vars
    <2>2. SearchesFit'
        BY <1>1, <1>8 DEF vars, SearchesFit
    <2> QED BY <1>1, <1>8, <2>1, <2>2 DEF DiscoveryInv, Types, vars
<1> QED BY <1>3, <1>4, <1>5, <1>6, <1>7, <1>8 DEF Next

LEMMA SpecInv == Spec => []DiscoveryInv
<1> QED BY InitInv, NextInv, PTL DEF Spec

-----------------------------------------------------------------------------
(* The theorems *)

(* One row for a page, of its own domain and tier; searches that answer    *)
(* from what the provider gave them; for any number of searches, whatever  *)
(* the answers and the failures.                                           *)
THEOREM TypeCorrect == Spec => []TypeOK
<1>1. DiscoveryInv => TypeOK
    <2> SUFFICES ASSUME DiscoveryInv PROVE TypeOK
        OBVIOUS
    <2>1. \A row \in rows : row \in Candidates
        BY DEF DiscoveryInv, Types
    <2>2. \A row \in rows :
            /\ row.domain = row.canonical.host /\ row.tier = TrustTier(row.domain)
            /\ row.status \in {"candidate", "reviewed"} /\ row.at \in 0 .. now
        BY <2>1 DEF DiscoveryInv, Types, RowsAreKeyed, RowIsOfItsPage, Candidates
    <2>3. \A s \in Searches :
            /\ search[s].stage \in Stages
            /\ search[s].next \in 1 .. Len(search[s].results) + 1
            /\ \A i \in DOMAIN search[s].answer :
                \E k \in DOMAIN search[s].results : search[s].answer[i].canonical = Canonicalize(search[s].results[k])
        BY DEF DiscoveryInv, Types, SearchesFit, Fits, SearchTypes
    <2> QED BY <2>2, <2>3 DEF DiscoveryInv, Types, RowsAreKeyed, TypeOK
<1> QED BY <1>1, SpecInv, PTL

(* Two searches of one process are a cooldown apart and a refused one does *)
(* not prolong the wait (SearchRateLimiter.acquire), for any cooldown.     *)
THEOREM LimiterCorrect == Spec => []SlotsAreSpaced
<1>1. DiscoveryInv => SlotsAreSpaced
    BY DEF DiscoveryInv
<1> QED BY <1>1, SpecInv, PTL

(* The table holds the rows allowed and what was stored since it was last  *)
(* pruned (prune_candidates before the provider is asked), however many    *)
(* searches overlap.                                                       *)
THEOREM StoreCorrect == Spec => []StoreIsBounded
<1>1. DiscoveryInv => StoreIsBounded
    BY DEF DiscoveryInv
<1> QED BY <1>1, SpecInv, PTL

(* An answer names a page once, a domain as often as it may, nothing       *)
(* unsafe, and better known shops first (discover_candidates), for any     *)
(* provider and any number of searches that share the table.               *)
THEOREM AnswersCorrect == Spec => []AnswerIsVaried
<1>1. DiscoveryInv => AnswerIsVaried
    <2> SUFFICES ASSUME DiscoveryInv, NEW s \in Searches, search[s].stage = "200"
                 PROVE  LET answer == search[s].answer
                        IN  /\ \A i, j \in DOMAIN answer : i < j =>
                                answer[i].canonical # answer[j].canonical /\ Rank(answer[i]) <= Rank(answer[j])
                            /\ \A i \in DOMAIN answer :
                                /\ answer[i].domain \notin Private
                                /\ Cardinality({j \in DOMAIN answer : answer[j].domain = answer[i].domain}) <= PerDomain
        BY DEF AnswerIsVaried
    <2> DEFINE answer == search[s].answer
    <2>1. answer \in Seq(Candidates) /\ Varied(answer) /\ Ranked(answer)
        BY DEF DiscoveryInv, Types, SearchesFit, Fits, SearchTypes
    <2>2. \A i \in DOMAIN answer : i \in Nat
        BY <2>1
    <2> HIDE DEF answer
    <2>3. \A i, j \in DOMAIN answer : i < j =>
            answer[i].canonical # answer[j].canonical /\ Rank(answer[i]) <= Rank(answer[j])
        BY <2>1, <2>2 DEF Varied, Ranked
    <2>4. \A i \in DOMAIN answer :
            /\ answer[i].domain \notin Private
            /\ Cardinality({j \in DOMAIN answer : answer[j].domain = answer[i].domain}) <= PerDomain
        BY <2>1 DEF Varied, OfDomain
    <2> QED BY <2>3, <2>4 DEF answer
<1> QED BY <1>1, SpecInv, PTL

(* What a step does to the rows there are. *)
LEMMA RowsStep ==
    ASSUME DiscoveryInv, [Next]_vars
    PROVE  \/ /\ \A row \in rows : \E after \in rows' :
                    /\ after.canonical = row.canonical
                    /\ row.status # "candidate" => after.status = row.status
           \/ rows' \in Pruned /\ written' = {} /\ now' = now /\ met' = met
<1>1. Types /\ RowsAreKeyed /\ StoreIsBounded
    BY DEF DiscoveryInv
<1>2. CASE UNCHANGED rows
    BY <1>2
<1>3. ASSUME NEW s \in Searches, Step(s), ~UNCHANGED rows
      PROVE  Prune(s) \/ Store(s)
    BY <1>3 DEF Step, Acquire, TooSoon, ProviderAnswers, ProviderFails, PassOver, DatabaseFails, Answer
<1>4. ASSUME NEW s \in Searches, Prune(s)
      PROVE  rows' \in Pruned /\ written' = {} /\ now' = now /\ met' = met
    BY <1>4 DEF Prune
<1>5. ASSUME NEW s \in Searches, Store(s)
      PROVE  \A row \in rows : \E after \in rows' :
                after.canonical = row.canonical /\ after.status = row.status
    <2>1. Result(s) \in Urls
        BY <1>5, StoreKeepsSearches DEF DiscoveryInv
    <2> QED BY <1>1, <1>5, <2>1, UpsertKeeps DEF Store
<1>6. ASSUME NEW url \in Entered, AddManual(url)
      PROVE  \A row \in rows : \E after \in rows' :
                after.canonical = row.canonical /\ after.status = row.status
    BY <1>1, <1>6, UpsertKeeps, DiscoveryAssumption DEF AddManual
<1>7. ASSUME NEW row \in rows, Review(row)
      PROVE  \A old \in rows : \E after \in rows' :
                /\ after.canonical = old.canonical
                /\ old.status # "candidate" => after.status = old.status
    BY <1>1, <1>7, ReviewKeeps
<1>8. CASE ~UNCHANGED rows
    <2>1. ~Tick /\ ~Restart /\ ~UNCHANGED vars
        BY <1>8 DEF Tick, Restart, vars
    <2>2. \/ \E s \in Searches : Step(s)
          \/ \E url \in Entered : AddManual(url)
          \/ \E row \in rows : Review(row)
        BY <2>1 DEF Next
    <2>3. CASE \E s \in Searches : Step(s)
        BY <2>3, <1>3, <1>4, <1>5, <1>8
    <2>4. CASE \E url \in Entered : AddManual(url)
        BY <2>4, <1>6
    <2>5. CASE \E row \in rows : Review(row)
        BY <2>5, <1>7
    <2> QED BY <2>2, <2>3, <2>4, <2>5
<1> QED BY <1>2, <1>8

(* No search, entry or pruning takes a verdict back (the upsert leaves the *)
(* status, the DELETE is for candidates), for any table and any limits.    *)
THEOREM VerdictsCorrect == Spec => VerdictsStay
<1>1. DiscoveryInv /\ [Next]_vars =>
        [\A row \in rows : row.status # "candidate" =>
            \E after \in rows' : after.canonical = row.canonical /\ after.status = row.status]_vars
    <2> SUFFICES ASSUME DiscoveryInv, [Next]_vars
                 PROVE  \A row \in rows : row.status # "candidate" =>
                            \E after \in rows' : after.canonical = row.canonical /\ after.status = row.status
        OBVIOUS
    <2>1. CASE rows' \in Pruned /\ written' = {} /\ now' = now /\ met' = met
        BY <2>1, PruneKeeps DEF DiscoveryInv
    <2> QED BY <2>1, RowsStep
<1> QED BY <1>1, SpecInv, PTL DEF Spec, VerdictsStay

(* What is pruned was not met for the time of retention, or as many rows   *)
(* were met at least as lately (prune_candidates), whatever other searches *)
(* store meanwhile.                                                        *)
THEOREM PruningCorrect == Spec => OnlyTheOldGo
<1>1. DiscoveryInv /\ [Next]_vars =>
        [\A row \in rows : row.canonical \notin {r.canonical : r \in rows'} =>
            \/ met[row.canonical] < now - Retention
            \/ Cardinality({r \in Unreviewed \ {row} : met[r.canonical] >= met[row.canonical]}) >= MaxRows]_vars
    <2> SUFFICES ASSUME DiscoveryInv, [Next]_vars, NEW row \in rows,
                        row.canonical \notin {r.canonical : r \in rows'}
                 PROVE  \/ met[row.canonical] < now - Retention
                        \/ Cardinality({r \in Unreviewed \ {row} : met[r.canonical] >= met[row.canonical]}) >= MaxRows
        OBVIOUS
    <2>1. rows' \in Pruned /\ written' = {} /\ now' = now /\ met' = met
        BY RowsStep
    <2>2. row \in rows \ rows'
        OBVIOUS
    <2>3. \/ row.at < now - Retention
          \/ Cardinality({r \in Unreviewed \ {row} : r.at >= row.at}) >= MaxRows
        BY <2>1, <2>2, PruneKeeps DEF DiscoveryInv
    <2>4. \A r \in rows : met[r.canonical] = r.at
        BY DEF DiscoveryInv, RowsAreKeyed
    <2>5. {r \in Unreviewed \ {row} : r.at >= row.at}
            = {r \in Unreviewed \ {row} : met[r.canonical] >= met[row.canonical]}
        BY <2>4 DEF Unreviewed
    <2> QED BY <2>3, <2>4, <2>5
<1> QED BY <1>1, SpecInv, PTL DEF Spec, OnlyTheOldGo
=============================================================================
