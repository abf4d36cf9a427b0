----------------------------- MODULE Discovery -----------------------------
(***************************************************************************)
(* Broad discovery: searches of the web for new sources                    *)
(* (discovery/search_service.py behind POST /discovery/search), candidates *)
(* entered by hand, and the table source_candidate they share              *)
(* (db/queries/candidates.py).                                             *)
(*                                                                         *)
(* A search takes the one slot of the rate limiter, prunes the table, asks *)
(* the provider, and stores what it answered, each candidate in a          *)
(* transaction of its own.  The provider may take longer than the cooldown,*)
(* so searches overlap.                                                    *)
(***************************************************************************)
EXTENDS Integers, Sequences, FiniteSets

CONSTANTS
    Searches,      \* requests POST /discovery/search
    Urls,          \* what providers and people come up with:
                   \* [scheme, user, host, dot, upper, path, slash, params]
    Entered,       \* the urls entered by hand
    Answers,       \* the sequences of urls the provider has for one query
    QueryVariations, \* discovery_query_variations
    Private,       \* localhost and the addresses that are not global
    Trusted,       \* _TRUSTED_DOMAINS, as sequences of labels
    Known,         \* _KNOWN_DOMAINS
    Noise,         \* the parameters that track
    Cooldown,      \* cooldown_seconds
    PerDomain,     \* candidates of one domain in an answer: 3
    Retention,     \* retention_days
    MaxRows,       \* max_rows
    MaxTime, MaxManual, MaxRestarts   \* bounds

ASSUME DiscoveryAssumption ==
    /\ Cooldown \in Nat \ {0} /\ Retention \in Nat /\ MaxRows \in Nat /\ PerDomain \in Nat
    /\ QueryVariations \in Int /\ Answers \subseteq Seq(Urls) /\ Entered \subseteq Urls
    /\ MaxTime \in Nat /\ MaxManual \in Nat /\ MaxRestarts \in Nat

VARIABLES
    now,            \* both clocks
    lastRequestAt,  \* SearchRateLimiter._last_request_at
    rows,           \* source_candidate: [canonical, domain, tier, provider, status, at]
    search,         \* search -> [stage, results, next, answer]
    manuals,        \* POST /discovery/candidates so far
    restarts,       \* of the API so far
    slots,          \* when the limiter let a search pass, since the last restart
    met,            \* canonical -> when it was last stored
    written         \* the candidates stored since the last prune

vars == <<now, lastRequestAt, rows, search, manuals, restarts, slots, met, written>>

-----------------------------------------------------------------------------
(* Urls *)

IsUnder(host, domain) ==
    Len(host) >= Len(domain) /\ SubSeq(host, Len(host) - Len(domain) + 1, Len(host)) = domain

TrustTier(host) ==
    IF \E domain \in Trusted : IsUnder(host, domain) THEN "trusted"
    ELSE IF \E domain \in Known : IsUnder(host, domain) THEN "known"
    ELSE "unknown"

(* Case, a slash at the end, tracking and the fragment make no difference; *)
(* a dot at the end of the host does.                                      *)
Canonicalize(url) ==
    [host |-> url.host, dot |-> url.dot, path |-> url.path,
     params |-> {pair \in url.params : pair[1] \notin Noise}]

Safe(url) == url.scheme = "https" /\ ~url.user /\ url.host \notin Private

Candidate(url, provider, status) ==
    [canonical |-> Canonicalize(url), domain |-> url.host, tier |-> TrustTier(url.host),
     provider |-> provider, status |-> status, at |-> now]

-----------------------------------------------------------------------------
(* The table *)

StatusOf(canonical) ==
    IF \E row \in rows : row.canonical = canonical
    THEN (CHOOSE row \in rows : row.canonical = canonical).status
    ELSE "candidate"

(* A bug: a candidate met again is a candidate again. *)
StoredAnew(url, provider) == Candidate(url, provider, "candidate")

(* What RETURNING gives: the verdict stays. *)
Stored(url, provider) == Candidate(url, provider, StatusOf(Canonicalize(url)))

(* A bug: the date is that of the first time. *)
UpsertFirstDate(url, provider) ==
    LET new == Stored(url, provider)
        old == {row \in rows : row.canonical = new.canonical}
    IN  /\ rows' = (rows \ old) \cup
                   {[new EXCEPT !.at = IF old = {} THEN @ ELSE (CHOOSE row \in old : TRUE).at]}
        /\ met' = [c \in DOMAIN met \cup {new.canonical} |-> IF c = new.canonical THEN now ELSE met[c]]
        /\ written' = written \cup {new.canonical}

Upsert(url, provider) ==
    LET new == Stored(url, provider)
    IN  /\ rows' = {row \in rows : row.canonical # new.canonical} \cup {new}
        /\ met' = [c \in DOMAIN met \cup {new.canonical} |-> IF c = new.canonical THEN now ELSE met[c]]
        /\ written' = written \cup {new.canonical}

Unreviewed == {row \in rows : row.status = "candidate"}

(* The table after the DELETE: the OFFSET keeps MaxRows of the newest, of  *)
(* equal dates any.                                                        *)
Pruned ==
    {rows \ {row \in Unreviewed : row \notin newest \/ row.at < now - Retention} :
        newest \in {S \in SUBSET Unreviewed :
                        /\ Cardinality(S) = IF Cardinality(Unreviewed) < MaxRows THEN Cardinality(Unreviewed) ELSE MaxRows
                        /\ \A kept \in S, dropped \in Unreviewed \ S : kept.at >= dropped.at}}

-----------------------------------------------------------------------------
(* Actions *)

Idle == [stage |-> "idle", results |-> <<>>, next |-> 1, answer |-> <<>>]

(* The host has been up for longer than the cooldown. *)
Init ==
    /\ now = Cooldown /\ lastRequestAt = 0
    /\ rows = {} /\ search = [s \in Searches |-> Idle]
    /\ manuals = 0 /\ restarts = 0
    /\ slots = <<>> /\ met = <<>> /\ written = {}

Tick ==
    /\ now < MaxTime
    /\ now' = now + 1
    /\ UNCHANGED <<lastRequestAt, rows, search, manuals, restarts, slots, met, written>>

To(s, stage) == search' = [search EXCEPT ![s].stage = stage]

TooSoon(s) ==
    /\ search[s].stage = "idle" /\ now - lastRequestAt < Cooldown
    /\ To(s, "429")
    /\ UNCHANGED <<now, lastRequestAt, rows, manuals, restarts, slots, met, written>>

(* The lock is never held across an await. *)
Acquire(s) ==
    /\ search[s].stage = "idle" /\ now - lastRequestAt >= Cooldown
    /\ lastRequestAt' = now
    /\ slots' = Append(slots, now)
    /\ To(s, "prune")
    /\ UNCHANGED <<now, rows, manuals, restarts, met, written>>

Prune(s) ==
    /\ search[s].stage = "prune"
    /\ rows' \in Pruned
    /\ written' = {}
    /\ To(s, "provider")
    /\ UNCHANGED <<now, lastRequestAt, manuals, restarts, slots, met>>

VariationCount ==
    IF QueryVariations < 1 THEN 1 ELSE IF QueryVariations > 3 THEN 3 ELSE QueryVariations

Group(groups, n) == IF n \in DOMAIN groups THEN groups[n] ELSE <<>>
Joined(groups) == Group(groups, 1) \o Group(groups, 2) \o Group(groups, 3)

(* All variations are asked at once, their answers put one after another. *)
ProviderAnswers(s) ==
    /\ search[s].stage = "provider"
    /\ \E groups \in [1 .. VariationCount -> Answers] :
        search' = [search EXCEPT ![s].stage = "store", ![s].results = Joined(groups)]
    /\ UNCHANGED <<now, lastRequestAt, rows, manuals, restarts, slots, met, written>>

(* One that fails fails them all; the slot stays used. *)
ProviderFails(s) ==
    /\ search[s].stage = "provider"
    /\ To(s, "502")
    /\ UNCHANGED <<now, lastRequestAt, rows, manuals, restarts, slots, met, written>>

AtResult(s) == search[s].stage = "store" /\ search[s].next <= Len(search[s].results)
Result(s) == search[s].results[search[s].next]
Of(s, url) == {i \in DOMAIN search[s].answer : search[s].answer[i].domain = url.host}

(* A bug: a page may come twice. *)
WantedTwice(s) == Safe(Result(s)) /\ Cardinality(Of(s, Result(s))) < PerDomain

(* What this search has already and how often it has the domain. *)
Wanted(s) ==
    /\ Safe(Result(s))
    /\ \A i \in DOMAIN search[s].answer : search[s].answer[i].canonical # Canonicalize(Result(s))
    /\ Cardinality(Of(s, Result(s))) < PerDomain

PassOver(s) ==
    /\ AtResult(s) /\ ~Wanted(s)
    /\ search' = [search EXCEPT ![s].next = @ + 1]
    /\ UNCHANGED <<now, lastRequestAt, rows, manuals, restarts, slots, met, written>>

Store(s) ==
    /\ AtResult(s) /\ Wanted(s)
    /\ Upsert(Result(s), "brave_search")
    /\ search' = [search EXCEPT ![s].next = @ + 1,
                                ![s].answer = Append(@, Stored(Result(s), "brave_search"))]
    /\ UNCHANGED <<now, lastRequestAt, manuals, restarts, slots>>

(* The database fails: what was stored before stays stored. *)
DatabaseFails(s) ==
    /\ search[s].stage = "prune" \/ (AtResult(s) /\ Wanted(s))
    /\ To(s, "500")
    /\ UNCHANGED <<now, lastRequestAt, rows, manuals, restarts, slots, met, written>>

Rank(row) == CASE row.tier = "trusted" -> 0 [] row.tier = "known" -> 1 [] OTHER -> 2

(* sorted() is stable: by tier, within a tier as the provider had them.    *)
ByTier(answer) ==
    {order \in [DOMAIN answer -> DOMAIN answer] :
        \A i, j \in DOMAIN answer : i < j =>
            \/ Rank(answer[order[i]]) < Rank(answer[order[j]])
            \/ Rank(answer[order[i]]) = Rank(answer[order[j]]) /\ order[i] < order[j]}

Answer(s) ==
    /\ search[s].stage = "store" /\ ~AtResult(s)
    /\ \E order \in ByTier(search[s].answer) :
        search' = [search EXCEPT ![s].stage = "200", ![s].answer = [i \in DOMAIN @ |-> @[order[i]]]]
    /\ UNCHANGED <<now, lastRequestAt, rows, manuals, restarts, slots, met, written>>

(* Entered by hand: past the limiter, without pruning; 422 if not safe. *)
AddManual(url) ==
    /\ manuals < MaxManual /\ Safe(url)
    /\ manuals' = manuals + 1
    /\ Upsert(url, "manual")
    /\ UNCHANGED <<now, lastRequestAt, search, restarts, slots>>

(* Someone's verdict, for which the code has no operation yet; a rejection *)
(* is the same to it.                                                      *)
Review(row) ==
    /\ row.status = "candidate"
    /\ rows' = (rows \ {row}) \cup {[row EXCEPT !.status = "reviewed"]}
    /\ UNCHANGED <<now, lastRequestAt, search, manuals, restarts, slots, met, written>>

(* The limiter is the process's own. *)
Restart ==
    /\ restarts < MaxRestarts
    /\ restarts' = restarts + 1
    /\ lastRequestAt' = 0 /\ slots' = <<>>
    /\ search' = [s \in Searches |->
                    IF search[s].stage \in {"prune", "provider", "store"} THEN [search[s] EXCEPT !.stage = "lost"]
                    ELSE search[s]]
    /\ UNCHANGED <<now, rows, manuals, met, written>>

Step(s) ==
    \/ Acquire(s) \/ TooSoon(s) \/ Prune(s) \/ ProviderAnswers(s) \/ ProviderFails(s)
    \/ PassOver(s) \/ Store(s) \/ DatabaseFails(s) \/ Answer(s)

Next ==
    \/ Tick \/ Restart
    \/ \E s \in Searches : Step(s)
    \/ \E url \in Entered : AddManual(url)
    \/ \E row \in rows : Review(row)

Spec == Init /\ [][Next]_vars

-----------------------------------------------------------------------------
(* Properties *)

Stages == {"idle", "prune", "provider", "store", "200", "429", "500", "502", "lost"}

(* One row for a canonical url, of its own domain and tier, and searches   *)
(* that answer from what the provider gave them.                           *)
TypeOK ==
    /\ now \in Nat /\ lastRequestAt \in 0 .. now
    /\ \A r1, r2 \in rows : r1.canonical = r2.canonical => r1 = r2
    /\ \A row \in rows :
        /\ row.domain = row.canonical.host /\ row.tier = TrustTier(row.domain)
        /\ row.status \in {"candidate", "reviewed"} /\ row.at \in 0 .. now
    /\ \A s \in Searches :
        /\ search[s].stage \in Stages
        /\ search[s].next \in 1 .. Len(search[s].results) + 1
        /\ \A i \in DOMAIN search[s].answer :
            \E k \in DOMAIN search[s].results : search[s].answer[i].canonical = Canonicalize(search[s].results[k])

(* Whatever is searched in parallel, entered by hand or restarted, two     *)
(* searches of one process pass the limiter a cooldown apart, and a        *)
(* refusal counts from the last that passed (SearchRateLimiter.acquire).   *)
SlotsAreSpaced ==
    /\ \A i \in 1 .. Len(slots) - 1 : slots[i + 1] - slots[i] >= Cooldown
    /\ lastRequestAt = IF slots = <<>> THEN 0 ELSE slots[Len(slots)]

(* An answer has every page once, no domain more often than it may, no     *)
(* unsafe address, and better known shops first, though two searches       *)
(* store their candidates in turns (the counters of discover_candidates).  *)
AnswerIsVaried ==
    \A s \in Searches : search[s].stage = "200" =>
        LET answer == search[s].answer
        IN  /\ \A i, j \in DOMAIN answer : i < j =>
                answer[i].canonical # answer[j].canonical /\ Rank(answer[i]) <= Rank(answer[j])
            /\ \A i \in DOMAIN answer :
                /\ answer[i].domain \notin Private
                /\ Cardinality({j \in DOMAIN answer : answer[j].domain = answer[i].domain}) <= PerDomain

(* A verdict is final for the code: no search, entry by hand or pruning    *)
(* takes a reviewed candidate away or opens it again (the upsert leaves    *)
(* the status, the DELETE is for candidates).                              *)
VerdictsStay ==
    [][\A row \in rows : row.status # "candidate" =>
        \E after \in rows' : after.canonical = row.canonical /\ after.status = row.status]_vars

(* Nothing met lately is pruned: what goes has not been met for the time   *)
(* of retention, or as many rows were met at least as lately.              *)
OnlyTheOldGo ==
    [][\A row \in rows : row.canonical \notin {r.canonical : r \in rows'} =>
        \/ met[row.canonical] < now - Retention
        \/ Cardinality({r \in Unreviewed \ {row} : met[r.canonical] >= met[row.canonical]}) >= MaxRows]_vars

(* The table is bounded by what was stored since it was last pruned.       *)
StoreIsBounded ==
    Cardinality({row \in Unreviewed : row.canonical \notin written}) <= MaxRows
=============================================================================
