------------------------------ MODULE Catalog ------------------------------
(***************************************************************************)
(* The curated catalogue: products and their variants, written by POST     *)
(* /products (api/routers/catalog.py, db/queries/catalog.py) and by        *)
(* scripts/seed_catalog.py, which also writes the sources, and read by the *)
(* matching of offers (matching/service.py).                               *)
(*                                                                         *)
(* Each writer is one transaction of several statements.  A row carries    *)
(* the transaction that wrote it until it commits: others neither see it   *)
(* nor may write what one of the unique indexes of the schema forbids      *)
(* beside it, they wait for its end.  A variant the seed changes has two   *)
(* versions until then.                                                    *)
(***************************************************************************)
EXTENDS Integers, Sequences, FiniteSets

CONSTANTS
    Clients,         \* the requests POST /products
    Seeders,         \* the processes that run the seed
    Bodies,          \* what a client may send: [local, name, variants]
    Registries,      \* the deployed versions, in order: [products, portfolio]
    Roots,           \* adapter -> root_url, the adapters whose rows seed() retires
    InitialSources,  \* the source tables a first seed may find
    Lower,           \* word -> the word in lower case
    NoGtin,          \* a variant without a code
    Committed,       \* the writer of what everyone sees
    MaxSeeds         \* how often the seed is run

Processes == Clients \cup Seeders

ASSUME CatalogAssumption ==
    /\ Clients \cap Seeders = {}
    /\ Committed \notin Processes
    /\ MaxSeeds \in Nat
    /\ DOMAIN Registries = 1 .. Len(Registries) /\ Len(Registries) \in Nat \ {0}
    /\ \A n \in DOMAIN Registries :
        /\ DOMAIN Registries[n].products = 1 .. Len(Registries[n].products)
        /\ Len(Registries[n].products) \in Nat
        /\ \A i \in DOMAIN Registries[n].products :
            LET device == Registries[n].products[i]
            IN  /\ DOMAIN device.pairs = 1 .. Len(device.pairs) /\ Len(device.pairs) \in Nat
                /\ Len(device.storages) \in Nat /\ Len(device.colors) \in Nat
    /\ \A body \in Bodies :
        DOMAIN body.variants = 1 .. Len(body.variants) /\ Len(body.variants) \in Nat

(* base_url is unique in the table, and the root of an adapter that seed() *)
(* retires rows of is its address in the portfolio.                        *)
ASSUME SourcesAssumption ==
    /\ \A rows \in InitialSources : \A r1, r2 \in rows :
        /\ DOMAIN r1 = {"url", "name", "adapter", "status"}
        /\ r1.url = r2.url => r1 = r2
    /\ \A n \in DOMAIN Registries :
        /\ Len(Registries[n].portfolio) \in Nat
        /\ DOMAIN Registries[n].portfolio = 1 .. Len(Registries[n].portfolio)
        /\ \A i \in DOMAIN Registries[n].portfolio :
            LET shop == Registries[n].portfolio[i]
            IN  /\ DOMAIN shop = {"url", "name", "adapter", "status"}
                /\ shop.adapter \in DOMAIN Roots => shop.url = Roots[shop.adapter]

VARIABLES
    products,  \* rows [id, name, tx]
    variants,  \* versions of rows [product, signature, gtin, by, tx]
    sources,   \* rows [url, name, adapter, status]
    ids,       \* ids given to products so far
    version,   \* the version that is deployed
    seeded,    \* the version of the last seed that was committed, 0 for none
    seeds,     \* runs of the seed so far
    work,      \* process -> its transaction, or Idle
    answer     \* process -> the outcome of its last transaction

vars == <<products, variants, sources, ids, version, seeded, seeds, work, answer>>

-----------------------------------------------------------------------------
(* Attributes: a dict is the sequence of its pairs <<key, value>> *)

Lowered(attributes) ==
    [i \in DOMAIN attributes |-> <<Lower[attributes[i][1]], Lower[attributes[i][2]]>>]

(* The sorted tuple of all pairs: how often each one occurs. *)
RouterKey(attributes) ==
    LET pairs == Lowered(attributes)
    IN  [pair \in {pairs[i] : i \in DOMAIN pairs} |-> Cardinality({i \in DOMAIN pairs : pairs[i] = pair})]

(* A dict again: of keys that differ in case only, the last one stays. *)
ComputeSignature(attributes) ==
    LET pairs == Lowered(attributes)
        Last(key) == CHOOSE i \in DOMAIN pairs :
                        pairs[i][1] = key /\ \A j \in DOMAIN pairs : pairs[j][1] = key => j <= i
    IN  [key \in {pairs[i][1] : i \in DOMAIN pairs} |-> pairs[Last(key)][2]]

(* The combinations of a device, storages first. *)
Combinations(device) ==
    IF device.pairs # <<>> THEN device.pairs
    ELSE LET n == Len(device.colors)
         IN  [k \in 1 .. Len(device.storages) * n |->
                <<device.storages[((k - 1) \div n) + 1], device.colors[((k - 1) % n) + 1]>>]

(* What the registry's own test asks of it: a name and a model for each    *)
(* device, a signature for each variant of it.  From one version to the    *)
(* next a model keeps its name.  Keys are written in lower case.           *)
Alike(pair1, pair2) == Lower[pair1[1]] = Lower[pair2[1]] /\ Lower[pair1[2]] = Lower[pair2[2]]
ToldApart(d1, d2) ==
    /\ d1.identity /\ d2.identity /\ Lower[d1.model] = Lower[d2.model] => d1.name = d2.name
    /\ \A k \in DOMAIN Combinations(d1), l \in DOMAIN Combinations(d2) :
        Alike(Combinations(d1)[k], Combinations(d2)[l]) =>
            /\ ~d1.identity /\ ~d2.identity => d1.name = d2.name
            /\ d1 = d2 => Combinations(d1)[k] = Combinations(d2)[l]
ASSUME RegistryAssumption ==
    /\ \A key \in {"brand", "model", "region", "storage_gb", "color"} : Lower[key] = key
    /\ \A n \in DOMAIN Registries : \A i, j \in DOMAIN Registries[n].products :
        Registries[n].products[i].name = Registries[n].products[j].name => i = j
    /\ \A n1, n2 \in DOMAIN Registries :
        \A i1 \in DOMAIN Registries[n1].products, i2 \in DOMAIN Registries[n2].products :
            /\ Registries[n1].products[i1].identity \in BOOLEAN
            /\ ToldApart(Registries[n1].products[i1], Registries[n2].products[i2])

(* A bug: no variant says which device it is one of. *)
AnonymousVariants(device) ==
    [k \in DOMAIN Combinations(device) |->
        LET pair == Combinations(device)[k]
        IN  [attributes |-> << <<"storage_gb", pair[1]>>, <<"color", pair[2]>> >>,
             gtin |-> IF pair \in DOMAIN device.gtins THEN device.gtins[pair] ELSE NoGtin]]

(* CatalogProduct.variants; the device of the lab shops has no identity. *)
RegistryVariants(device) ==
    [k \in DOMAIN Combinations(device) |->
        LET pair == Combinations(device)[k]
        IN  [attributes |->
                (IF device.identity
                 THEN << <<"brand", Lower[device.brand]>>, <<"model", device.model>>, <<"region", "br">> >>
                 ELSE <<>>) \o << <<"storage_gb", pair[1]>>, <<"color", pair[2]>> >>,
             gtin |-> IF pair \in DOMAIN device.gtins THEN device.gtins[pair] ELSE NoGtin]]

(* What a transaction writes: a name and its variants, one after the other. *)
Entry(name, requested) ==
    [name |-> name,
     variants |-> [k \in DOMAIN requested |-> [signature |-> ComputeSignature(requested[k].attributes),
                                               gtin |-> requested[k].gtin]]]

SeedJobs ==
    [n \in DOMAIN Registries |->
        [i \in DOMAIN Registries[n].products |->
            Entry(Registries[n].products[i].name, RegistryVariants(Registries[n].products[i]))]]

-----------------------------------------------------------------------------
(* Transactions *)

Idle == [job |-> <<>>, version |-> 0, again |-> FALSE, i |-> 0, j |-> 0, product |-> 0]

Key(row) == <<row.product, row.signature>>
Own(p) == {row \in variants : row.tx = p}
Other(p) == {row \in variants : row.tx \notin {p, Committed}}

(* The rows p sees: its own versions and what is committed beside them. *)
Visible(p) == Own(p) \cup {row \in variants : row.tx = Committed /\ \A own \in Own(p) : Key(own) # Key(row)}

Here(p) == work[p].job[work[p].i]
AtProduct(p) == work[p].i \in DOMAIN work[p].job /\ work[p].j = 0
AtVariant(p) == work[p].i \in DOMAIN work[p].job /\ work[p].j \in DOMAIN Here(p).variants
AtEnd(p) == work[p] # Idle /\ work[p].i > Len(work[p].job)

(* The next statement, for the product with this id. *)
Advanced(p, id) ==
    IF work[p].j < Len(Here(p).variants)
    THEN [work[p] EXCEPT !.product = id, !.j = work[p].j + 1]
    ELSE [work[p] EXCEPT !.product = id, !.i = work[p].i + 1, !.j = 0]

(* Leaving the connection's block by an exception. *)
Rollback(p, outcome) ==
    /\ products' = {row \in products : row.tx # p}
    /\ variants' = variants \ Own(p)
    /\ work' = [work EXCEPT ![p] = Idle]
    /\ answer' = [answer EXCEPT ![p] = outcome]
    /\ UNCHANGED <<sources, ids, version, seeded, seeds>>

(* Leaving it at its end. *)
Publish(p, outcome) ==
    /\ products' = {[row EXCEPT !.tx = IF @ = p THEN Committed ELSE @] : row \in products}
    /\ variants' = {[row EXCEPT !.tx = Committed] : row \in Visible(p)} \cup Other(p)
    /\ work' = [work EXCEPT ![p] = Idle]
    /\ answer' = [answer EXCEPT ![p] = outcome]

-----------------------------------------------------------------------------
(* The table of sources *)

RetireLegacy(rows) ==
    {[row EXCEPT !.status = IF row.adapter \in DOMAIN Roots /\ row.url # Roots[row.adapter]
                            THEN "disabled" ELSE @] : row \in rows}

(* A bug: the address a source had before stays as it is. *)
UpsertSourceOnly(rows, source) == {row \in rows : row.url # source.url} \cup {source}

UpsertSource(rows, source) ==
    {[row EXCEPT !.status = IF row.name = source.name THEN "disabled" ELSE @] :
        row \in {r \in rows : r.url # source.url}} \cup {source}

(* The sources after the first n statements of the loop. *)
SeedSources(rows, portfolio) ==
    LET after[n \in 0 .. Len(portfolio)] ==
            IF n = 0 THEN RetireLegacy(rows) ELSE UpsertSource(after[n - 1], portfolio[n])
    IN  after[Len(portfolio)]

-----------------------------------------------------------------------------
(* Actions *)

Init ==
    /\ products = {} /\ variants = {} /\ ids = 0
    /\ sources \in InitialSources
    /\ version = 1 /\ seeded = 0 /\ seeds = 0
    /\ work = [p \in Processes |-> Idle]
    /\ answer = [p \in Processes |-> "none"]

Deploy ==
    /\ version < Len(Registries)
    /\ version' = version + 1
    /\ UNCHANGED <<products, variants, sources, ids, seeded, seeds, work, answer>>

DuplicateAttributes(requested) ==
    \E k, l \in DOMAIN requested : k # l /\ RouterKey(requested[k].attributes) = RouterKey(requested[l].attributes)

Refuse(c, body) ==
    /\ answer[c] = "none" /\ work[c] = Idle
    /\ ~body.local \/ DuplicateAttributes(body.variants)
    /\ answer' = [answer EXCEPT ![c] = IF body.local THEN "422" ELSE "403"]
    /\ UNCHANGED <<products, variants, sources, ids, version, seeded, seeds, work>>

CreateProduct(c, body) ==
    /\ answer[c] = "none" /\ work[c] = Idle
    /\ body.local /\ ~DuplicateAttributes(body.variants)
    /\ work' = [work EXCEPT ![c] = [Idle EXCEPT !.job = <<Entry(body.name, body.variants)>>, !.i = 1]]
    /\ UNCHANGED <<products, variants, sources, ids, version, seeded, seeds, answer>>

StartSeed(s) ==
    /\ seeds < MaxSeeds /\ work[s] = Idle
    /\ seeds' = seeds + 1
    /\ work' = [work EXCEPT ![s] = [Idle EXCEPT !.job = SeedJobs[version], !.i = 1, !.version = version,
                                                !.again = seeded = version]]
    /\ UNCHANGED <<products, variants, sources, ids, version, seeded, answer>>

(* A bug: an index on the name as it is spelled. *)
SameSpelling(p) == {row \in products : row.name = Here(p).name}

(* The rows product_name_unique_ci compares with the one to insert. *)
SameName(p) == {row \in products : Lower[row.name] = Lower[Here(p).name]}

(* A bug: the seed takes every name for a new one. *)
NothingFound(p) == {}

(* The SELECT of the seed, by the name as it is spelled. *)
Found(p) == {row \in SameName(p) : p \in Seeders /\ row.name = Here(p).name /\ row.tx \in {p, Committed}}

FindProduct(p) ==
    /\ AtProduct(p)
    /\ \E row \in Found(p) : work' = [work EXCEPT ![p] = Advanced(p, row.id)]
    /\ UNCHANGED <<products, variants, sources, ids, version, seeded, seeds, answer>>

InsertProduct(p) ==
    /\ AtProduct(p) /\ SameName(p) = {}
    /\ ids' = ids + 1
    /\ products' = products \cup {[id |-> ids + 1, name |-> Here(p).name, tx |-> p]}
    /\ work' = [work EXCEPT ![p] = Advanced(p, ids + 1)]
    /\ UNCHANGED <<variants, sources, version, seeded, seeds, answer>>

Refusal(p) == IF p \in Clients THEN "409" ELSE "violation"

(* DO NOTHING and the ValueError of a request, the violation of a seed. *)
ProductExists(p) ==
    /\ AtProduct(p) /\ Found(p) = {}
    /\ \E row \in SameName(p) : row.tx \in {p, Committed}
    /\ Rollback(p, Refusal(p))

Wanted(p) == Here(p).variants[work[p].j]
WantedKey(p) == <<work[p].product, Wanted(p).signature>>

(* The version ON CONFLICT (product_id, attributes_signature) updates. *)
Conflicting(p) == {row \in Visible(p) : p \in Seeders /\ Key(row) = WantedKey(p)}

(* A bug: a code that is known already is kept. *)
GtinFirstKept(p) ==
    LET known == {row.gtin : row \in Conflicting(p)} \ {NoGtin}
    IN  IF known # {} THEN CHOOSE g \in known : TRUE ELSE Wanted(p).gtin

(* COALESCE(EXCLUDED.gtin, variant.gtin) *)
Gtin(p) ==
    IF Wanted(p).gtin # NoGtin \/ Conflicting(p) = {} THEN Wanted(p).gtin
    ELSE (CHOOSE row \in Conflicting(p) : TRUE).gtin

(* Another transaction has written, or is changing, what the indexes       *)
(* compare with the row.                                                   *)
Blockers(p) ==
    {row \in Other(p) :
        \/ Key(row) = WantedKey(p)
        \/ /\ Gtin(p) # NoGtin
           /\ \/ row.gtin = Gtin(p)
              \/ \E old \in variants : old.tx = Committed /\ Key(old) = Key(row) /\ old.gtin = Gtin(p)}

Violates(p) ==
    \E row \in Visible(p) \ Conflicting(p) :
        Key(row) = WantedKey(p) \/ (Gtin(p) # NoGtin /\ row.gtin = Gtin(p))

(* A bug: each statement is a transaction of its own. *)
WriteVariantAtOnce(p) ==
    /\ AtVariant(p) /\ Blockers(p) = {} /\ ~Violates(p)
    /\ LET old == Conflicting(p)
           by == IF old = {} THEN p ELSE (CHOOSE row \in old : TRUE).by
       IN  variants' = {row \in variants : ~(row.tx = p /\ Key(row) = WantedKey(p))} \cup
                {[product |-> work[p].product, signature |-> Wanted(p).signature,
                  gtin |-> Gtin(p), by |-> by, tx |-> Committed]}
    /\ work' = [work EXCEPT ![p] = Advanced(p, work[p].product)]
    /\ UNCHANGED <<products, sources, ids, version, seeded, seeds, answer>>

WriteVariant(p) ==
    /\ AtVariant(p) /\ Blockers(p) = {} /\ ~Violates(p)
    /\ LET old == Conflicting(p)
           by == IF old = {} THEN p ELSE (CHOOSE row \in old : TRUE).by
       IN  variants' = {row \in variants : ~(row.tx = p /\ Key(row) = WantedKey(p))} \cup
                {[product |-> work[p].product, signature |-> Wanted(p).signature,
                  gtin |-> Gtin(p), by |-> by, tx |-> p]}
    /\ work' = [work EXCEPT ![p] = Advanced(p, work[p].product)]
    /\ UNCHANGED <<products, sources, ids, version, seeded, seeds, answer>>

(* A bug: the connection goes back as it is. *)
UniqueViolationLeft(p) ==
    /\ AtVariant(p) /\ Blockers(p) = {} /\ Violates(p)
    /\ work' = [work EXCEPT ![p] = Idle]
    /\ answer' = [answer EXCEPT ![p] = Refusal(p)]
    /\ UNCHANGED <<products, variants, sources, ids, version, seeded, seeds>>

UniqueViolation(p) ==
    /\ AtVariant(p) /\ Blockers(p) = {} /\ Violates(p)
    /\ Rollback(p, Refusal(p))

Commit(c) ==
    /\ c \in Clients /\ AtEnd(c)
    /\ Publish(c, "201")
    /\ UNCHANGED <<sources, ids, version, seeded, seeds>>

CommitSeed(s) ==
    /\ s \in Seeders /\ AtEnd(s)
    /\ Publish(s, "seeded")
    /\ sources' = SeedSources(sources, Registries[work[s].version].portfolio)
    /\ seeded' = work[s].version
    /\ UNCHANGED <<ids, version, seeds>>

(* Whose end p waits for. *)
WaitsFor(p) ==
    IF AtProduct(p) THEN IF Found(p) = {} THEN {row.tx : row \in SameName(p)} \ {p, Committed} ELSE {}
    ELSE IF AtVariant(p) THEN {row.tx : row \in Blockers(p)} ELSE {}

Stuck(S) == S # {} /\ \A p \in S : WaitsFor(p) \cap S # {}

(* Postgres ends one transaction of a circle; the API answers 500. *)
DeadlockDetected(p) ==
    /\ \E S \in SUBSET Processes :
        p \in S /\ Stuck(S) /\ \A T \in SUBSET S : T # S => ~Stuck(T)
    /\ Rollback(p, IF p \in Clients THEN "500" ELSE "aborted")

(* The process or its connection dies. *)
Die(p) ==
    /\ work[p] # Idle
    /\ Rollback(p, IF p \in Clients THEN "500" ELSE "aborted")

Step(p) ==
    \/ FindProduct(p) \/ InsertProduct(p) \/ ProductExists(p)
    \/ WriteVariant(p) \/ UniqueViolation(p)
    \/ Commit(p) \/ CommitSeed(p)
    \/ DeadlockDetected(p)

Next ==
    \/ Deploy
    \/ \E c \in Clients, body \in Bodies : Refuse(c, body) \/ CreateProduct(c, body)
    \/ \E s \in Seeders : StartSeed(s)
    \/ \E p \in Processes : Step(p) \/ Die(p)

Spec == Init /\ [][Next]_vars

(* The event loops and Postgres go on with some of what can go on. *)
FairSpec == Spec /\ WF_vars(\E p \in Processes : Step(p))

-----------------------------------------------------------------------------
(* Properties *)

Outcomes == {"none", "201", "403", "409", "422", "500", "seeded", "violation", "aborted"}
CommittedVariants == {row \in variants : row.tx = Committed}

(* Every row names the transaction that wrote it or is committed, and      *)
(* every transaction is at a statement of its own or at its end.           *)
TypeOK ==
    /\ \A row \in products : row.id \in 1 .. ids /\ row.tx \in Processes \cup {Committed}
    /\ \A row \in variants : row.product \in 1 .. ids /\ row.by \in Processes /\ row.tx \in Processes \cup {Committed}
    /\ ids \in Nat /\ version \in 1 .. Len(Registries) /\ seeded \in 0 .. version /\ seeds \in 0 .. MaxSeeds
    /\ \A p \in Processes :
        /\ answer[p] \in Outcomes
        /\ work[p] = Idle \/ AtProduct(p) \/ AtVariant(p) \/ AtEnd(p)
        /\ work[p] = Idle => \A row \in products \cup variants : row.tx # p

(* No transaction ever sees two products of one name, two variants of a    *)
(* product with one signature, or one GTIN twice, whatever the others have *)
(* begun, changed or undone meanwhile (the guards of INSERT in             *)
(* create_product_with_variants and _seed_product).                        *)
Keyed(rows) ==
    \A r1, r2 \in rows :
        Key(r1) = Key(r2) \/ (r1.gtin = r2.gtin /\ r1.gtin # NoGtin) => r1 = r2
CatalogueIsKeyed ==
    /\ \A r1, r2 \in products : Lower[r1.name] = Lower[r2.name] => r1 = r2
    /\ Keyed(CommittedVariants)
    /\ \A p \in Processes : Keyed(Visible(p))

(* A request that was not answered 201 has left nothing in the catalogue,  *)
(* and one that was has all of its product there, also when the seed has   *)
(* taken the product over (the one transaction of                          *)
(* create_product_with_variants).                                          *)
CreatedIsWhole ==
    \A row \in CommittedVariants : row.by \in Clients =>
        /\ answer[row.by] = "201"
        /\ \E product \in products : product.id = row.product /\ product.tx = Committed
        /\ \E body \in Bodies :
            {ComputeSignature(body.variants[k].attributes) : k \in DOMAIN body.variants} =
                {v.signature : v \in {v \in CommittedVariants : v.by = row.by}}

(* What was seeded once is seeded again: no product or variant that a      *)
(* request has created since stands in the way of a reseed of the same     *)
(* version ("idempotent reseed", seed_catalog.py).                         *)
SeededSeedsAgain ==
    [][\A s \in Seeders :
        work[s].again /\ seeded = work[s].version /\ work'[s] = Idle => answer'[s] # "violation"]_vars

(* A seed that was committed has left every variant of its registry with   *)
(* its code, until the next version is seeded (COALESCE in the upsert).    *)
SeedIsInTheCatalogue ==
    seeded # 0 =>
        \A i \in DOMAIN SeedJobs[seeded] :
            \E product \in {row \in products : row.tx = Committed /\ row.name = SeedJobs[seeded][i].name} :
                \A k \in DOMAIN SeedJobs[seeded][i].variants :
                    LET wanted == SeedJobs[seeded][i].variants[k]
                    IN  \E row \in CommittedVariants :
                            /\ Key(row) = <<product.id, wanted.signature>>
                            /\ wanted.gtin # NoGtin => row.gtin = wanted.gtin

(* After a seed no two enabled sources have the name of one shop of the    *)
(* portfolio, or the adapter of one that is collected from its root,       *)
(* whatever rows earlier versions have left ("two enabled collectors").    *)
OneCollectorPerShop ==
    seeded # 0 =>
        \A r1, r2 \in {row \in sources : row.status = "enabled"} :
            \/ r1 = r2
            \/ /\ r1.adapter = r2.adapter => r1.adapter \notin DOMAIN Roots
               /\ r1.name = r2.name =>
                    \A i \in DOMAIN Registries[seeded].portfolio : Registries[seeded].portfolio[i].name # r1.name

(* A request always ends: two transactions that wait for each other's      *)
(* names and codes do not wait for ever.                                   *)
EveryTransactionEnds == \A p \in Processes : work[p] # Idle ~> work[p] = Idle

-----------------------------------------------------------------------------
(* Matching, of a listing [gtin, signature] with what is committed *)

FindVariantByGtin(gtin) == {row \in CommittedVariants : row.gtin = gtin}
FindVariantBySignature(signature) == {row \in CommittedVariants : row.signature = signature}

(* The variants it may decide for: of several rows, fetchone takes any. *)
DecideMatch(listing) ==
    IF listing.gtin # NoGtin
    THEN {row \in FindVariantByGtin(listing.gtin) : row.signature = listing.signature}
    ELSE FindVariantBySignature(listing.signature)

(* What is on sale, as far as the catalogue knows of it. *)
Listings ==
    LET jobs == {SeedJobs[n] : n \in DOMAIN Registries}
        curated == UNION {UNION {{job[i].variants[k] : k \in DOMAIN job[i].variants} : i \in DOMAIN job} : job \in jobs}
        asked == UNION {{[signature |-> ComputeSignature(body.variants[k].attributes), gtin |-> body.variants[k].gtin] :
                            k \in DOMAIN body.variants} : body \in Bodies}
    IN  [signature : {v.signature : v \in curated \cup asked}, gtin : {v.gtin : v \in curated \cup asked}]

(* A listing is compared under its own attributes whatever its code says,  *)
(* a code decides for one variant only, and where the attributes fit two   *)
(* variants one of them was not curated: registry variants of different    *)
(* devices never answer for each other.                                    *)
MatchIsUnambiguous ==
    \A listing \in Listings : \A v1, v2 \in DecideMatch(listing) :
        /\ v1.signature = listing.signature
        /\ v1 = v2 \/ (listing.gtin = NoGtin /\ {v1.by, v2.by} \cap Clients # {})
=============================================================================
