--------------------------- MODULE CatalogProofs ---------------------------
(***************************************************************************)
(* Theorems about Catalog, for any number of requests and seeds at a time, *)
(* any bodies and any registries: the unique indexes as the transactions   *)
(* see them, what a request leaves behind, what a seed leaves behind and   *)
(* finds again, what a match can decide for, and the table of sources.     *)
(***************************************************************************)
EXTENDS Catalog, WellFoundedInduction, TLAPS

Writers == Processes \cup {Committed}

(* The jobs of the transactions. *)
Jobs ==
    {<<>>} \cup {<<Entry(body.name, body.variants)>> : body \in Bodies}
           \cup {SeedJobs[n] : n \in DOMAIN Registries}

Works ==
    [job : Jobs, version : Nat, again : BOOLEAN, i : Nat, j : Nat, product : Nat]

IsProduct(row) ==
    /\ row = [id |-> row.id, name |-> row.name, tx |-> row.tx]
    /\ row.id \in 1 .. ids /\ row.tx \in Writers

IsVariant(row) ==
    /\ row = [product |-> row.product, signature |-> row.signature, gtin |-> row.gtin,
              by |-> row.by, tx |-> row.tx]
    /\ row.product \in 1 .. ids /\ row.by \in Processes /\ row.tx \in Writers

(* Where a transaction is. *)
PlacedAt(w, n, v) ==
    /\ \/ w.i \in DOMAIN w.job /\ w.j = 0
       \/ w.i \in DOMAIN w.job /\ w.j \in DOMAIN w.job[w.i].variants /\ w.product \in 1 .. n
       \/ w.i > Len(w.job)
    /\ w.i >= 1 /\ w.version <= v

Types ==
    /\ ids \in Nat /\ version \in 1 .. Len(Registries) /\ seeded \in 0 .. version /\ seeds \in 0 .. MaxSeeds
    /\ work \in [Processes -> Works] /\ answer \in [Processes -> Outcomes]
    /\ \A row \in products : IsProduct(row)
    /\ \A row \in variants : IsVariant(row)
    /\ \A p \in Processes :
        \/ work[p] = Idle /\ \A row \in products \cup variants : row.tx # p
        \/ PlacedAt(work[p], ids, version)

(* What the unique indexes forbid. *)
Clash(r1, r2) == Key(r1) = Key(r2) \/ (r1.gtin = r2.gtin /\ r1.gtin # NoGtin)

(* No transaction has written what another has. *)
Isolated ==
    \A r1, r2 \in variants :
        r1.tx # r2.tx /\ r1.tx # Committed /\ r2.tx # Committed => ~Clash(r1, r2)

Indexed == CatalogueIsKeyed /\ Isolated

-----------------------------------------------------------------------------
(* Jobs *)

IsList(s) == DOMAIN s = 1 .. Len(s) /\ Len(s) \in Nat

LEMMA EntryIsList ==
    ASSUME NEW name, NEW requested, IsList(requested)
    PROVE  IsList(Entry(name, requested).variants)
BY DEF IsList, Entry

LEMMA ProductOfNats == \A a, b \in Nat : a * b \in Nat
OBVIOUS

LEMMA CombinationsAreList ==
    ASSUME NEW n \in DOMAIN Registries, NEW i \in DOMAIN Registries[n].products
    PROVE  IsList(Combinations(Registries[n].products[i]))
<1> DEFINE device == Registries[n].products[i]
<1>1. /\ DOMAIN device.pairs = 1 .. Len(device.pairs) /\ Len(device.pairs) \in Nat
      /\ Len(device.storages) \in Nat /\ Len(device.colors) \in Nat
    BY CatalogAssumption
<1> HIDE DEF device
<1>2. CASE device.pairs # <<>>
    BY <1>1, <1>2 DEF Combinations, IsList, device
<1>3. CASE device.pairs = <<>>
    <2> DEFINE m == Len(device.storages) * Len(device.colors)
    <2>1. m \in Nat
        BY <1>1, ProductOfNats
    <2>2. DOMAIN Combinations(device) = 1 .. m
        BY <1>3 DEF Combinations
    <2>3. \E f : Combinations(device) = [k \in 1 .. m |-> f[k]]
        <3>1. Combinations(device) = [k \in 1 .. m |-> Combinations(device)[k]]
            BY <1>3, Zenon DEF Combinations
        <3> QED BY <3>1
    <2> HIDE DEF m
    <2>4. Len(Combinations(device)) = m
        BY <2>1, <2>3
    <2> QED BY <2>1, <2>2, <2>4 DEF IsList, device
<1> QED BY <1>2, <1>3

LEMMA RegistryVariantsAreList ==
    ASSUME NEW n \in DOMAIN Registries, NEW i \in DOMAIN Registries[n].products
    PROVE  IsList(RegistryVariants(Registries[n].products[i]))
<1> DEFINE device == Registries[n].products[i]
<1>1. IsList(Combinations(device))
    BY CombinationsAreList
<1> HIDE DEF device
<1>2. RegistryVariants(device) = [k \in DOMAIN Combinations(device) |-> RegistryVariants(device)[k]]
    BY Zenon DEF RegistryVariants
<1>3. DOMAIN RegistryVariants(device) = DOMAIN Combinations(device)
    BY <1>2
<1> QED BY <1>1, <1>2, <1>3 DEF IsList, device

LEMMA JobsAreLists ==
    ASSUME NEW job \in Jobs
    PROVE  IsList(job) /\ \A i \in DOMAIN job : IsList(job[i].variants)
<1>1. CASE job = <<>>
    BY <1>1 DEF IsList
<1>2. ASSUME NEW body \in Bodies, job = <<Entry(body.name, body.variants)>>
      PROVE  IsList(job) /\ \A i \in DOMAIN job : IsList(job[i].variants)
    <2>1. IsList(Entry(body.name, body.variants).variants)
        BY EntryIsList, CatalogAssumption DEF IsList
    <2>2. DOMAIN job = {1} /\ job[1] = Entry(body.name, body.variants) /\ IsList(job)
        BY <1>2 DEF IsList
    <2> QED BY <2>1, <2>2
<1>3. ASSUME NEW n \in DOMAIN Registries, job = SeedJobs[n]
      PROVE  IsList(job) /\ \A i \in DOMAIN job : IsList(job[i].variants)
    <2> DEFINE listed == Registries[n].products
    <2>1. DOMAIN listed = 1 .. Len(listed) /\ Len(listed) \in Nat
        BY CatalogAssumption
    <2>2. job = [i \in DOMAIN listed |-> Entry(listed[i].name, RegistryVariants(listed[i]))]
        BY <1>3 DEF SeedJobs
    <2>3. \A i \in DOMAIN listed : IsList(Entry(listed[i].name, RegistryVariants(listed[i])).variants)
        BY RegistryVariantsAreList, EntryIsList
    <2>4. DOMAIN job = DOMAIN listed /\ \A i \in DOMAIN job : IsList(job[i].variants)
        BY <2>2, <2>3
    <2>5. job = [i \in 1 .. Len(listed) |-> job[i]]
        BY <2>1, <2>2
    <2> HIDE DEF listed
    <2>6. Len(job) = Len(listed)
        BY <2>1, <2>5
    <2> QED BY <2>1, <2>4, <2>6 DEF IsList
<1> QED BY <1>1, <1>2, <1>3 DEF Jobs

-----------------------------------------------------------------------------
(* Types *)

LEMMA IdleIsPlaced ==
    Idle \in Works /\ \A n, v : ~PlacedAt(Idle, n, v)
BY DEF Idle, Works, Jobs, PlacedAt

(* A transaction that is not idle, and its list of statements. *)
LEMMA Working ==
    ASSUME Types, NEW p \in Processes, work[p] # Idle
    PROVE  /\ work[p] \in Works /\ PlacedAt(work[p], ids, version)
           /\ IsList(work[p].job) /\ \A i \in DOMAIN work[p].job : IsList(work[p].job[i].variants)
<1>1. work[p] \in Works /\ PlacedAt(work[p], ids, version)
    BY DEF Types
<1>2. work[p].job \in Jobs
    BY <1>1 DEF Works
<1> QED BY <1>1, <1>2, JobsAreLists

LEMMA AtNotIdle ==
    ASSUME NEW p, AtProduct(p) \/ AtVariant(p)
    PROVE  work[p] # Idle
BY DEF AtProduct, AtVariant, Idle

(* The two ways on, to the statement k of the same entry and to the entry k. *)
ToVariant(old, id, k) == [old EXCEPT !.product = id, !.j = k]
ToEntry(old, id, k) == [old EXCEPT !.product = id, !.i = k, !.j = 0]

LEMMA SameEntry ==
    ASSUME NEW old \in Works, NEW id \in Nat, NEW k \in Nat
    PROVE  LET w == ToVariant(old, id, k)
           IN  /\ w \in Works /\ w.product = id /\ w.job = old.job /\ w.version = old.version
               /\ w.i = old.i /\ w.j = k
BY DEF Works, ToVariant

LEMMA NextEntry ==
    ASSUME NEW old \in Works, NEW id \in Nat, NEW k \in Nat
    PROVE  LET w == ToEntry(old, id, k)
           IN  /\ w \in Works /\ w.product = id /\ w.job = old.job /\ w.version = old.version
               /\ w.i = k /\ w.j = 0
BY DEF Works, ToEntry

LEMMA NextInList ==
    ASSUME NEW s, IsList(s), NEW j \in Nat
    PROVE  /\ j < Len(s) => j + 1 \in DOMAIN s
           /\ j + 1 \in DOMAIN s \/ j + 1 > Len(s) \/ j + 1 < 1
BY DEF IsList

LEMMA AdvancedIs ==
    ASSUME Types, NEW p \in Processes, AtProduct(p) \/ AtVariant(p), NEW id \in Nat
    PROVE  LET w == Advanced(p, id)
               more == work[p].j < Len(Here(p).variants)
           IN  /\ w \in Works /\ w.product = id /\ w.job = work[p].job /\ w.version = work[p].version
               /\ more => w.i = work[p].i /\ w.j = work[p].j + 1
               /\ ~more => w.i = work[p].i + 1 /\ w.j = 0
<1> DEFINE old == work[p]
           statements == Here(p).variants
           more == old.j < Len(statements)
           w == Advanced(p, id)
<1>1. old \in Works
    BY Working, AtNotIdle
<1>2. old.i \in Nat /\ old.j \in Nat
    BY <1>1 DEF Works
<1>4. /\ more => w = [old EXCEPT !.product = id, !.j = old.j + 1]
      /\ ~more => w = [old EXCEPT !.product = id, !.i = old.i + 1, !.j = 0]
    BY DEF Advanced
<1> HIDE DEF old, statements, w
<1>5. /\ w \in Works /\ w.product = id /\ w.job = old.job /\ w.version = old.version
      /\ more => w.i = old.i /\ w.j = old.j + 1
      /\ ~more => w.i = old.i + 1 /\ w.j = 0
    <2> HIDE DEF more
    <2>1. CASE more
        <3>1. PICK k \in Nat : k = old.j + 1
            BY <1>2
        <3>2. w = ToVariant(old, id, k)
            BY <1>4, <2>1, <3>1, Zenon DEF ToVariant
        <3>3. /\ w \in Works /\ w.product = id /\ w.job = old.job /\ w.version = old.version
              /\ w.i = old.i /\ w.j = k
            <4>1. old \in Works /\ id \in Nat /\ k \in Nat
                BY <1>1, <1>2
            <4> QED BY <3>2, <4>1, SameEntry, Zenon
        <3> QED BY <2>1, <3>1, <3>3
    <2>2. CASE ~more
        <3>1. PICK k \in Nat : k = old.i + 1
            BY <1>2
        <3>2. w = ToEntry(old, id, k)
            BY <1>4, <2>2, <3>1, Zenon DEF ToEntry
        <3>3. /\ w \in Works /\ w.product = id /\ w.job = old.job /\ w.version = old.version
              /\ w.i = k /\ w.j = 0
            <4>1. old \in Works /\ id \in Nat /\ k \in Nat
                BY <1>1, <1>2
            <4> QED BY <3>2, <4>1, NextEntry, Zenon
        <3> QED BY <2>2, <3>1, <3>3
    <2> QED BY <2>1, <2>2
<1> QED BY <1>5 DEF old, statements, w

(* The next statement is one of the job, or the job is at its end. *)
LEMMA AdvancedIsPlaced ==
    ASSUME Types, NEW p \in Processes, AtProduct(p) \/ AtVariant(p), NEW n \in Nat, NEW id \in 1 .. n
    PROVE  /\ Advanced(p, id) \in Works /\ PlacedAt(Advanced(p, id), n, version)
           /\ Advanced(p, id).job = work[p].job /\ Advanced(p, id).version = work[p].version
           /\ Advanced(p, id).product = id
<1> DEFINE old == work[p]
           statements == old.job[old.i].variants
           more == old.j < Len(statements)
           w == Advanced(p, id)
<1>1. /\ old \in Works /\ IsList(old.job) /\ old.i \in DOMAIN old.job /\ IsList(statements)
      /\ old.version <= version
    BY Working, AtNotIdle DEF AtProduct, AtVariant, PlacedAt
<1>2. old.i \in Nat /\ old.j \in Nat /\ id \in Nat
    BY <1>1 DEF Works
<1>3. old.i >= 1
    BY <1>1 DEF IsList
<1>5. /\ w \in Works /\ w.product = id /\ w.job = old.job /\ w.version = old.version
      /\ more => w.i = old.i /\ w.j = old.j + 1
      /\ ~more => w.i = old.i + 1 /\ w.j = 0
    BY <1>2, AdvancedIs DEF Here
<1> HIDE DEF old, statements, w
<1>6. CASE more
    <2>1. old.j + 1 \in DOMAIN statements
        BY <1>1, <1>2, <1>6, NextInList
    <2>2. PlacedAt(w, n, version)
        <3>1. w.i \in DOMAIN w.job /\ w.j \in DOMAIN w.job[w.i].variants
            BY <1>1, <1>5, <1>6, <2>1 DEF statements
        <3> QED BY <1>1, <1>3, <1>5, <1>6, <3>1 DEF PlacedAt
    <2> QED BY <1>5, <2>2 DEF w, old
<1>7. CASE ~more
    <2>1. old.i + 1 \in DOMAIN old.job \/ old.i + 1 > Len(old.job)
        BY <1>1, <1>2, <1>3, NextInList
    <2>2. PlacedAt(w, n, version)
        BY <1>1, <1>2, <1>3, <1>5, <1>7, <2>1 DEF PlacedAt
    <2> QED BY <1>5, <2>2 DEF w, old
<1> QED BY <1>6, <1>7

(* A step of one transaction that types its rows. *)
LEMMA TypesKept ==
    ASSUME Types, NEW p \in Processes,
           ids' \in Nat, ids <= ids', version' = version, seeded' \in 0 .. version, seeds' \in 0 .. MaxSeeds,
           NEW w \in Works, work' = [work EXCEPT ![p] = w], answer' \in [Processes -> Outcomes],
           \A row \in products' : IsProduct(row)',
           \A row \in variants' : IsVariant(row)',
           \A row \in products' \cup variants' :
                row.tx \in {p, Committed} \/ \E old \in products \cup variants : old.tx = row.tx,
           \/ w = Idle /\ \A row \in products' \cup variants' : row.tx # p
           \/ PlacedAt(w, ids', version)
    PROVE  Types'
<1>1. work' \in [Processes -> Works]
    BY DEF Types
<1>2. ASSUME NEW q \in Processes
      PROVE  \/ work'[q] = Idle /\ \A row \in products' \cup variants' : row.tx # q
             \/ PlacedAt(work'[q], ids', version)
    <2>1. CASE q = p
        BY <2>1 DEF Types
    <2>2. CASE q # p /\ work[q] = Idle
        <3>1. \A row \in products \cup variants : row.tx # q
            BY <2>2, IdleIsPlaced DEF Types
        <3>2. q # Committed
            BY CatalogAssumption
        <3> QED BY <2>2, <3>1, <3>2 DEF Types
    <2>3. CASE q # p /\ work[q] # Idle
        <3>1. PlacedAt(work[q], ids, version)
            BY <2>3 DEF Types
        <3>2. PlacedAt(work[q], ids', version)
            BY <3>1 DEF PlacedAt, Types
        <3> QED BY <2>3, <3>2 DEF Types
    <2> QED BY <2>1, <2>2, <2>3
<1>3. /\ ids' \in Nat /\ version' \in 1 .. Len(Registries) /\ seeded' \in 0 .. version'
    BY DEF Types
<1> QED BY <1>1, <1>2, <1>3 DEF Types

LEMMA InitTypes == Init => Types
BY IdleIsPlaced, CatalogAssumption DEF Init, Types, Outcomes

LEMMA RollbackTypes ==
    ASSUME Types, NEW p \in Processes, NEW outcome \in Outcomes, Rollback(p, outcome)
    PROVE  Types'
<1>1. /\ products' = {row \in products : row.tx # p} /\ variants' = variants \ Own(p)
      /\ work' = [work EXCEPT ![p] = Idle] /\ answer' = [answer EXCEPT ![p] = outcome]
      /\ UNCHANGED <<ids, version, seeded, seeds>>
    BY DEF Rollback
<1>2. \A row \in products' : IsProduct(row)'
    BY <1>1 DEF Types, IsProduct
<1>3. \A row \in variants' : IsVariant(row)'
    BY <1>1 DEF Types, IsVariant
<1>4. \A row \in products' \cup variants' : row \in products \cup variants /\ row.tx # p
    BY <1>1 DEF Own
<1>5. ids' \in Nat /\ ids <= ids' /\ seeded' \in 0 .. version /\ seeds' \in 0 .. MaxSeeds
      /\ answer' \in [Processes -> Outcomes]
    BY <1>1 DEF Types
<1> QED BY <1>1, <1>2, <1>3, <1>4, <1>5, IdleIsPlaced, TypesKept

LEMMA PublishTypes ==
    ASSUME Types, NEW p \in Processes, NEW outcome \in Outcomes, Publish(p, outcome),
           UNCHANGED <<ids, version, seeds>>, seeded' \in 0 .. version
    PROVE  Types'
<1>1. /\ products' = {[row EXCEPT !.tx = IF @ = p THEN Committed ELSE @] : row \in products}
      /\ variants' = {[row EXCEPT !.tx = Committed] : row \in Visible(p)} \cup Other(p)
      /\ work' = [work EXCEPT ![p] = Idle] /\ answer' = [answer EXCEPT ![p] = outcome]
    BY DEF Publish
<1>2. p # Committed
    BY CatalogAssumption
<1>3. ASSUME NEW row \in products'
      PROVE  IsProduct(row)' /\ row.tx # p /\ (row.tx = Committed \/ \E old \in products : old.tx = row.tx)
    <2>1. PICK old \in products : row = [old EXCEPT !.tx = IF @ = p THEN Committed ELSE @]
        BY <1>1
    <2>2. IsProduct(old)
        BY DEF Types
    <2> DEFINE tx == IF old.tx = p THEN Committed ELSE old.tx
    <2>3. row = [id |-> old.id, name |-> old.name, tx |-> tx]
        BY <2>1, <2>2 DEF IsProduct
    <2> QED BY <1>2, <2>2, <2>3 DEF IsProduct, Writers
<1>4. ASSUME NEW row \in variants'
      PROVE  IsVariant(row)' /\ row.tx # p /\ (row.tx = Committed \/ \E old \in variants : old.tx = row.tx)
    <2>1. CASE row \in Other(p)
        <3>1. row \in variants /\ row.tx # p /\ IsVariant(row)
            BY <2>1 DEF Other, Types
        <3> QED BY <3>1 DEF IsVariant
    <2>2. CASE row \notin Other(p)
        <3>1. PICK old \in Visible(p) : row = [old EXCEPT !.tx = Committed]
            BY <1>1, <2>2
        <3>2. IsVariant(old)
            BY DEF Visible, Own, Types
        <3>3. row = [product |-> old.product, signature |-> old.signature, gtin |-> old.gtin,
                     by |-> old.by, tx |-> Committed]
            BY <3>1, <3>2 DEF IsVariant
        <3> QED BY <1>2, <3>2, <3>3 DEF IsVariant, Writers
    <2> QED BY <2>1, <2>2
<1>5. ids' \in Nat /\ ids <= ids' /\ seeds' \in 0 .. MaxSeeds /\ answer' \in [Processes -> Outcomes]
    BY <1>1 DEF Types
<1> QED BY <1>1, <1>3, <1>4, <1>5, IdleIsPlaced, TypesKept

LEMMA DeployTypes == Types /\ Deploy => Types'
<1> SUFFICES ASSUME Types, Deploy PROVE Types'
    OBVIOUS
<1>1. /\ version' = version + 1 /\ version < Len(Registries)
      /\ UNCHANGED <<products, variants, ids, seeded, seeds, work, answer>>
    BY DEF Deploy
<1>2. version' \in 1 .. Len(Registries) /\ seeded' \in 0 .. version' /\ version <= version'
    BY <1>1, CatalogAssumption DEF Types
<1>3. \A n : \A w \in Works : PlacedAt(w, n, version) => PlacedAt(w, n, version')
    BY <1>2 DEF PlacedAt, Works, Types
<1>4. \A p \in Processes :
        \/ work'[p] = Idle /\ \A row \in products' \cup variants' : row.tx # p
        \/ PlacedAt(work'[p], ids', version')
    BY <1>1, <1>3 DEF Types
<1> QED BY <1>1, <1>2, <1>4 DEF Types, IsProduct, IsVariant

(* The first statement of a request and of a seed. *)
FirstOf(job) == [Idle EXCEPT !.job = job, !.i = 1]
FirstOfSeed(job, n, again) == [Idle EXCEPT !.job = job, !.i = 1, !.version = n, !.again = again]

LEMMA Begun ==
    ASSUME NEW job \in Jobs, NEW n, NEW v \in Nat
    PROVE  FirstOf(job) \in Works /\ PlacedAt(FirstOf(job), n, v)
<1>1. LET w == FirstOf(job) IN w \in Works /\ w.job = job /\ w.i = 1 /\ w.j = 0 /\ w.version = 0
    BY DEF Idle, Works, FirstOf
<1>2. 1 \in DOMAIN job \/ 1 > Len(job)
    BY JobsAreLists DEF IsList
<1> QED BY <1>1, <1>2 DEF PlacedAt

LEMMA BegunSeed ==
    ASSUME NEW job \in Jobs, NEW v \in Nat, NEW again \in BOOLEAN, NEW n
    PROVE  FirstOfSeed(job, v, again) \in Works /\ PlacedAt(FirstOfSeed(job, v, again), n, v)
<1>1. LET w == FirstOfSeed(job, v, again) IN w \in Works /\ w.job = job /\ w.i = 1 /\ w.j = 0 /\ w.version = v
    BY DEF Idle, Works, FirstOfSeed
<1>2. 1 \in DOMAIN job \/ 1 > Len(job)
    BY JobsAreLists DEF IsList
<1> QED BY <1>1, <1>2 DEF PlacedAt

LEMMA CreateTypes ==
    ASSUME Types, NEW c \in Clients, NEW body \in Bodies, CreateProduct(c, body)
    PROVE  Types'
<1> DEFINE job == <<Entry(body.name, body.variants)>>
           w == FirstOf(job)
<1>1. c \in Processes /\ job \in Jobs /\ version \in Nat
    BY CatalogAssumption DEF Processes, Jobs, Types
<1>2. /\ work' = [work EXCEPT ![c] = w]
      /\ UNCHANGED <<products, variants, ids, version, seeded, seeds, answer>>
    BY DEF CreateProduct, FirstOf
<1> HIDE DEF job
<1>4. w \in Works /\ PlacedAt(w, ids, version)
    BY <1>1, Begun
<1> HIDE DEF w
<1>5. /\ \A row \in products' : IsProduct(row)'
      /\ \A row \in variants' : IsVariant(row)'
      /\ ids' \in Nat /\ ids <= ids' /\ seeded' \in 0 .. version /\ seeds' \in 0 .. MaxSeeds
      /\ answer' \in [Processes -> Outcomes]
    BY <1>2 DEF Types, IsProduct, IsVariant
<1> QED BY <1>1, <1>2, <1>4, <1>5, TypesKept

LEMMA StartTypes ==
    ASSUME Types, NEW s \in Seeders, StartSeed(s)
    PROVE  Types'
<1> DEFINE job == SeedJobs[version]
           again == (seeded = version)
           w == FirstOfSeed(job, version, again)
<1>1. s \in Processes /\ job \in Jobs /\ version \in Nat /\ again \in BOOLEAN
    BY CatalogAssumption DEF Processes, Jobs, Types
<1>2. /\ work' = [work EXCEPT ![s] = w] /\ seeds' = seeds + 1 /\ seeds < MaxSeeds
      /\ UNCHANGED <<products, variants, ids, version, seeded, answer>>
    BY DEF StartSeed, FirstOfSeed
<1> HIDE DEF job, again
<1>3. w \in Works /\ PlacedAt(w, ids, version)
    BY <1>1, BegunSeed
<1> HIDE DEF w
<1>4. /\ \A row \in products' : IsProduct(row)'
      /\ \A row \in variants' : IsVariant(row)'
      /\ ids' \in Nat /\ ids <= ids' /\ seeded' \in 0 .. version /\ seeds' \in 0 .. MaxSeeds
      /\ answer' \in [Processes -> Outcomes]
    BY <1>2, CatalogAssumption DEF Types, IsProduct, IsVariant
<1> QED BY <1>1, <1>2, <1>3, <1>4, TypesKept

LEMMA FindTypes ==
    ASSUME Types, NEW p \in Processes, FindProduct(p)
    PROVE  Types'
<1>1. PICK row \in Found(p) : work' = [work EXCEPT ![p] = Advanced(p, row.id)]
    BY DEF FindProduct
<1>2. row.id \in 1 .. ids /\ AtProduct(p) /\ ids \in Nat
    BY DEF Found, SameName, Types, IsProduct, FindProduct
<1> DEFINE w == Advanced(p, row.id)
<1>3. w \in Works /\ PlacedAt(w, ids, version)
    BY <1>2, AdvancedIsPlaced
<1> HIDE DEF w
<1>4. work' = [work EXCEPT ![p] = w]
    BY <1>1 DEF w
<1>5. UNCHANGED <<products, variants, ids, version, seeded, seeds, answer>>
    BY DEF FindProduct
<1>6. /\ \A r \in products' : IsProduct(r)'
      /\ \A r \in variants' : IsVariant(r)'
      /\ ids' \in Nat /\ ids <= ids' /\ seeded' \in 0 .. version /\ seeds' \in 0 .. MaxSeeds
      /\ answer' \in [Processes -> Outcomes]
    BY <1>5 DEF Types, IsProduct, IsVariant
<1> QED BY <1>3, <1>4, <1>5, <1>6, TypesKept

LEMMA InsertTypes ==
    ASSUME Types, NEW p \in Processes, InsertProduct(p)
    PROVE  Types'
<1> DEFINE n == ids + 1
           w == Advanced(p, n)
           new == [id |-> n, name |-> Here(p).name, tx |-> p]
<1>1. /\ ids' = n /\ products' = products \cup {new} /\ work' = [work EXCEPT ![p] = w]
      /\ UNCHANGED <<variants, version, seeded, seeds, answer>> /\ AtProduct(p)
    BY DEF InsertProduct
<1>2. n \in Nat /\ n \in 1 .. n /\ ids <= n /\ ids \in Nat
    BY DEF Types
<1>3. w \in Works /\ PlacedAt(w, n, version)
    <2> HIDE DEF n
    <2> QED BY <1>1, <1>2, AdvancedIsPlaced
<1>4. new = [id |-> new.id, name |-> new.name, tx |-> new.tx] /\ new.id = n /\ new.tx = p
    OBVIOUS
<1> HIDE DEF n, w, new
<1>5. \A row \in products' : IsProduct(row)' /\ (row.tx \in {p} \/ row \in products)
    BY <1>1, <1>2, <1>4 DEF Types, IsProduct, Writers
<1>6. \A row \in variants' : IsVariant(row)'
    BY <1>1, <1>2 DEF Types, IsVariant
<1>7. ids' \in Nat /\ ids <= ids' /\ seeded' \in 0 .. version /\ seeds' \in 0 .. MaxSeeds
      /\ answer' \in [Processes -> Outcomes]
    BY <1>1, <1>2 DEF Types
<1> QED BY <1>1, <1>3, <1>5, <1>6, <1>7, TypesKept

(* What WriteVariant writes. *)
NewVersion(p) ==
    [product |-> work[p].product, signature |-> Wanted(p).signature, gtin |-> Gtin(p),
     by |-> IF Conflicting(p) = {} THEN p ELSE (CHOOSE row \in Conflicting(p) : TRUE).by, tx |-> p]

LEMMA WriteIs ==
    ASSUME NEW p, WriteVariant(p)
    PROVE  /\ AtVariant(p) /\ Blockers(p) = {} /\ ~Violates(p)
           /\ variants' = {row \in variants : ~(row.tx = p /\ Key(row) = WantedKey(p))} \cup {NewVersion(p)}
           /\ work' = [work EXCEPT ![p] = Advanced(p, work[p].product)]
           /\ UNCHANGED <<products, sources, ids, version, seeded, seeds, answer>>
BY DEF WriteVariant, NewVersion

LEMMA NewVersionTypes ==
    ASSUME Types, NEW p \in Processes, AtVariant(p)
    PROVE  /\ IsVariant(NewVersion(p)) /\ work[p].product \in 1 .. ids
           /\ NewVersion(p).tx = p /\ Key(NewVersion(p)) = WantedKey(p) /\ NewVersion(p).gtin = Gtin(p)
<1>1. PlacedAt(work[p], ids, version) /\ work[p] \in Works /\ IsList(work[p].job)
      /\ \A i \in DOMAIN work[p].job : IsList(work[p].job[i].variants)
    BY Working, AtNotIdle
<1>2. work[p].i \in DOMAIN work[p].job /\ work[p].j \in DOMAIN work[p].job[work[p].i].variants
    BY DEF AtVariant, Here
<1>3. work[p].i <= Len(work[p].job) /\ work[p].j # 0 /\ work[p].i \in Nat
    BY <1>1, <1>2 DEF IsList
<1>4. work[p].product \in 1 .. ids
    BY <1>1, <1>3 DEF PlacedAt, IsList
<1>5. (IF Conflicting(p) = {} THEN p ELSE (CHOOSE row \in Conflicting(p) : TRUE).by) \in Processes
    BY DEF Conflicting, Visible, Own, Types, IsVariant
<1> QED BY <1>4, <1>5 DEF NewVersion, IsVariant, Writers, Key, WantedKey

LEMMA WriteTypes ==
    ASSUME Types, NEW p \in Processes, WriteVariant(p)
    PROVE  Types'
<1> DEFINE w == Advanced(p, work[p].product)
           new == NewVersion(p)
<1>1. /\ AtVariant(p) /\ work' = [work EXCEPT ![p] = w]
      /\ \A row \in variants' : row \in variants \/ row = new
      /\ UNCHANGED <<products, ids, version, seeded, seeds, answer>>
    BY WriteIs
<1>2. IsVariant(new) /\ work[p].product \in 1 .. ids /\ new.tx = p /\ ids \in Nat
    BY <1>1, NewVersionTypes DEF Types
<1>3. w \in Works /\ PlacedAt(w, ids, version)
    BY <1>1, <1>2, AdvancedIsPlaced
<1> HIDE DEF w, new
<1>4. \A row \in variants' : IsVariant(row)' /\ (row.tx \in {p} \/ row \in variants)
    BY <1>1, <1>2 DEF Types, IsVariant
<1>5. \A row \in products' : IsProduct(row)'
    BY <1>1 DEF Types, IsProduct
<1>6. ids' \in Nat /\ ids <= ids' /\ seeded' \in 0 .. version /\ seeds' \in 0 .. MaxSeeds
      /\ answer' \in [Processes -> Outcomes]
    BY <1>1 DEF Types
<1> QED BY <1>1, <1>3, <1>4, <1>5, <1>6, TypesKept

LEMMA RolledBack ==
    ASSUME NEW p \in Processes, ProductExists(p) \/ UniqueViolation(p) \/ DeadlockDetected(p) \/ Die(p)
    PROVE  \E outcome \in Outcomes \ {"201"} : Rollback(p, outcome)
BY DEF ProductExists, UniqueViolation, DeadlockDetected, Die, Refusal, Outcomes

LEMMA NextTypes == Types /\ [Next]_vars => Types'
<1> SUFFICES ASSUME Types, [Next]_vars PROVE Types'
    OBVIOUS
<1>1. CASE Deploy
    BY <1>1, DeployTypes
<1>2. ASSUME NEW c \in Clients, NEW body \in Bodies, Refuse(c, body)
      PROVE  Types'
    <2>1. answer' \in [Processes -> Outcomes]
          /\ UNCHANGED <<products, variants, ids, version, seeded, seeds, work>>
        BY <1>2 DEF Refuse, Types, Outcomes
    <2> QED BY <2>1 DEF Types, IsProduct, IsVariant
<1>3. ASSUME NEW c \in Clients, NEW body \in Bodies, CreateProduct(c, body)
      PROVE  Types'
    BY <1>3, CreateTypes
<1>4. ASSUME NEW s \in Seeders, StartSeed(s)
      PROVE  Types'
    BY <1>4, StartTypes
<1>5. ASSUME NEW p \in Processes, FindProduct(p)
      PROVE  Types'
    BY <1>5, FindTypes
<1>6. ASSUME NEW p \in Processes, InsertProduct(p)
      PROVE  Types'
    BY <1>6, InsertTypes
<1>7. ASSUME NEW p \in Processes, WriteVariant(p)
      PROVE  Types'
    BY <1>7, WriteTypes
<1>8. ASSUME NEW p \in Processes, ProductExists(p) \/ UniqueViolation(p) \/ DeadlockDetected(p) \/ Die(p)
      PROVE  Types'
    BY <1>8, RolledBack, RollbackTypes
<1>9. ASSUME NEW p \in Processes, Commit(p)
      PROVE  Types'
    <2>1. Publish(p, "201") /\ "201" \in Outcomes /\ UNCHANGED <<ids, version, seeded, seeds>>
        BY <1>9 DEF Commit, Outcomes
    <2> QED BY <2>1, PublishTypes DEF Types
<1>10. ASSUME NEW p \in Processes, CommitSeed(p)
       PROVE  Types'
    <2>1. Publish(p, "seeded") /\ "seeded" \in Outcomes /\ UNCHANGED <<ids, version, seeds>>
        BY <1>10 DEF CommitSeed, Outcomes
    <2>2. work[p] \in Works /\ work[p].version <= version /\ seeded' = work[p].version
        BY <1>10, Working DEF CommitSeed, AtEnd, PlacedAt
    <2>3. seeded' \in 0 .. version
        BY <2>2 DEF Works, Types
    <2> QED BY <2>1, <2>3, PublishTypes DEF Types
<1>11. CASE UNCHANGED vars
    BY <1>11 DEF vars, Types, IsProduct, IsVariant
<1> QED BY <1>1, <1>2, <1>3, <1>4, <1>5, <1>6, <1>7, <1>8, <1>9, <1>10, <1>11 DEF Next, Step

(* Every row is of an open transaction or committed, with an id that was   *)
(* given, and every transaction stands at a statement of its list or at    *)
(* the end of it: no step of a job of any length leaves it elsewhere.      *)
THEOREM TypeCorrect == Spec => []TypeOK
<1>1. Types => TypeOK
    <2> SUFFICES ASSUME Types PROVE TypeOK
        OBVIOUS
    <2>1. \A p \in Processes : work[p] # Idle => AtProduct(p) \/ AtVariant(p) \/ AtEnd(p)
        BY DEF Types, PlacedAt, AtProduct, AtVariant, AtEnd, Here
    <2>2. \A p \in Processes : work[p] = Idle => \A row \in products \cup variants : row.tx # p
        BY IdleIsPlaced DEF Types
    <2> QED BY <2>1, <2>2 DEF Types, TypeOK, IsProduct, IsVariant, Writers
<1> QED BY <1>1, InitTypes, NextTypes, PTL DEF Spec

-----------------------------------------------------------------------------
(* The unique indexes *)

LEMMA ViewKept ==
    ASSUME NEW q, Own(q)' = Own(q), CommittedVariants' = CommittedVariants
    PROVE  Visible(q)' = Visible(q)
<1>1. Visible(q) = Own(q) \cup {row \in CommittedVariants : \A own \in Own(q) : Key(own) # Key(row)}
    BY DEF Visible, CommittedVariants
<1>2. Visible(q)' = Own(q)' \cup {row \in CommittedVariants' : \A own \in Own(q)' : Key(own) # Key(row)}
    BY DEF Visible, CommittedVariants, Own, Key
<1> QED BY <1>1, <1>2

LEMMA InitIndexed == Init => Indexed
BY DEF Init, Indexed, CatalogueIsKeyed, Isolated, Keyed, CommittedVariants, Visible, Own

LEMMA IndexedKept ==
    ASSUME Indexed, UNCHANGED <<products, variants>>
    PROVE  Indexed'
<1>1. CommittedVariants' = CommittedVariants /\ \A q : Visible(q)' = Visible(q)
    BY DEF CommittedVariants, Visible, Own, Key
<1> QED BY <1>1 DEF Indexed, CatalogueIsKeyed, Isolated, Keyed

LEMMA InsertIndexed ==
    ASSUME Indexed, NEW p \in Processes, InsertProduct(p)
    PROVE  Indexed'
<1> DEFINE new == [id |-> ids + 1, name |-> Here(p).name, tx |-> p]
<1>1. products' = products \cup {new} /\ variants' = variants /\ SameName(p) = {}
    BY DEF InsertProduct
<1>2. \A row \in products : Lower[row.name] # Lower[new.name]
    BY <1>1 DEF SameName
<1>3. \A r1, r2 \in products' : Lower[r1.name] = Lower[r2.name] => r1 = r2
    BY <1>1, <1>2 DEF Indexed, CatalogueIsKeyed
<1>4. CommittedVariants' = CommittedVariants /\ \A q : Visible(q)' = Visible(q)
    BY <1>1 DEF CommittedVariants, Visible, Own, Key
<1> QED BY <1>1, <1>3, <1>4 DEF Indexed, CatalogueIsKeyed, Isolated, Keyed

LEMMA RollbackIndexed ==
    ASSUME Indexed, NEW p \in Processes, NEW outcome, Rollback(p, outcome)
    PROVE  Indexed'
<1>1. products' = {row \in products : row.tx # p} /\ variants' = variants \ Own(p) /\ p # Committed
    BY CatalogAssumption DEF Rollback
<1>2. CommittedVariants' = CommittedVariants
    BY <1>1 DEF CommittedVariants, Own
<1>3. ASSUME NEW q \in Processes
      PROVE  Keyed(Visible(q))'
    <2>1. CASE q = p
        <3>1. Visible(q)' \subseteq CommittedVariants
            BY <1>1, <2>1 DEF Visible, Own, CommittedVariants
        <3> QED BY <3>1 DEF Keyed, Indexed, CatalogueIsKeyed
    <2>2. CASE q # p
        <3>1. Own(q)' = Own(q)
            BY <1>1, <2>2 DEF Own
        <3>2. Visible(q)' = Visible(q)
            BY <1>2, <3>1, ViewKept
        <3> QED BY <3>2 DEF Keyed, Indexed, CatalogueIsKeyed
    <2> QED BY <2>1, <2>2
<1>4. \A r1, r2 \in products' : Lower[r1.name] = Lower[r2.name] => r1 = r2
    BY <1>1 DEF Indexed, CatalogueIsKeyed
<1>5. Isolated'
    BY <1>1 DEF Indexed, Isolated, Clash, Key
<1>6. Keyed(CommittedVariants)'
    BY <1>2 DEF Indexed, CatalogueIsKeyed, Keyed
<1> QED BY <1>3, <1>4, <1>5, <1>6 DEF Indexed, CatalogueIsKeyed

LEMMA WriteIndexed ==
    ASSUME Types, Indexed, NEW p \in Processes, WriteVariant(p)
    PROVE  Indexed'
<1> DEFINE new == NewVersion(p)
<1>1. /\ Blockers(p) = {} /\ ~Violates(p) /\ products' = products
      /\ variants' = {row \in variants : ~(row.tx = p /\ Key(row) = WantedKey(p))} \cup {new}
    BY WriteIs
<1>2. new.tx = p /\ Key(new) = WantedKey(p) /\ new.gtin = Gtin(p) /\ p # Committed
    BY WriteIs, NewVersionTypes, CatalogAssumption
<1> HIDE DEF new
<1>3. CommittedVariants' = CommittedVariants
    BY <1>1, <1>2 DEF CommittedVariants
<1>4. \A q \in Processes : q # p => Visible(q)' = Visible(q)
    <2>1. \A q : q # p => Own(q)' = Own(q)
        BY <1>1, <1>2 DEF Own
    <2> QED BY <1>3, <2>1, ViewKept
<1>5. \A row \in Visible(p)' : row = new \/ (row \in Visible(p) /\ ~Clash(row, new))
    <2> SUFFICES ASSUME NEW row \in Visible(p)', row # new
                 PROVE  row \in Visible(p) /\ ~Clash(row, new)
        OBVIOUS
    <2>1. new \in Own(p)' /\ row \in variants
        BY <1>1, <1>2 DEF Own, Visible
    <2>2. Key(row) # Key(new)
        BY <1>1, <1>2, <2>1 DEF Visible, Own, Key
    <2>3. row \in Visible(p)
        <3>1. CASE row.tx = p
            BY <2>1, <3>1 DEF Visible, Own
        <3>2. CASE row.tx = Committed
            <4>1. \A own \in Own(p) : Key(own) # Key(row)
                BY <1>1, <1>2, <2>2, <3>2 DEF Visible, Own, Key
            <4> QED BY <2>1, <3>2, <4>1 DEF Visible
        <3> QED BY <3>1, <3>2 DEF Visible, Own
    <2>4. row \notin Conflicting(p)
        BY <1>2, <2>2 DEF Conflicting
    <2> QED BY <1>1, <1>2, <2>2, <2>3, <2>4 DEF Violates, Clash
<1>6. Keyed(Visible(p))'
    <2>1. \A r1, r2 \in Visible(p)' : Clash(r1, r2) => r1 = r2
        BY <1>5 DEF Clash, Indexed, CatalogueIsKeyed, Keyed
    <2> QED BY <2>1 DEF Clash, Keyed, Key
<1>7. Isolated'
    <2>1. \A row \in variants : row.tx \notin {p, Committed} => ~Clash(row, new)
        BY <1>1, <1>2 DEF Blockers, Other, Clash
    <2>2. \A r1, r2 \in variants' :
            r1.tx # r2.tx /\ r1.tx # Committed /\ r2.tx # Committed => ~Clash(r1, r2)
        BY <1>1, <1>2, <2>1 DEF Indexed, Isolated, Clash
    <2> QED BY <2>2 DEF Isolated, Clash, Key
<1>8. Keyed(CommittedVariants)' /\ \A q \in Processes : Keyed(Visible(q))'
    BY <1>3, <1>4, <1>6 DEF Indexed, CatalogueIsKeyed, Keyed
<1>9. \A r1, r2 \in products' : Lower[r1.name] = Lower[r2.name] => r1 = r2
    BY <1>1 DEF Indexed, CatalogueIsKeyed
<1> QED BY <1>7, <1>8, <1>9 DEF Indexed, CatalogueIsKeyed

(* A row as it is once its transaction has been committed. *)
Settled(row) == [row EXCEPT !.tx = Committed]

LEMMA SettledIs ==
    ASSUME NEW row, IsVariant(row)
    PROVE  /\ Settled(row).tx = Committed /\ Key(Settled(row)) = Key(row)
           /\ Settled(row).gtin = row.gtin /\ Settled(row).by = row.by
<1>1. row = [product |-> row.product, signature |-> row.signature, gtin |-> row.gtin,
             by |-> row.by, tx |-> row.tx]
    BY DEF IsVariant
<1>2. Settled(row) = [product |-> row.product, signature |-> row.signature, gtin |-> row.gtin,
                      by |-> row.by, tx |-> Committed]
    BY <1>1 DEF Settled
<1> QED BY <1>2 DEF Key

LEMMA PublishIndexed ==
    ASSUME Types, Indexed, NEW p \in Processes, NEW outcome, Publish(p, outcome)
    PROVE  Indexed'
<1>1. /\ products' = {[row EXCEPT !.tx = IF @ = p THEN Committed ELSE @] : row \in products}
      /\ variants' = {Settled(row) : row \in Visible(p)} \cup Other(p)
    BY DEF Publish, Settled
<1>2. \A row \in Visible(p) : IsVariant(row) /\ (row.tx = p \/ row.tx = Committed)
    BY DEF Visible, Own, Types
<1>3. \A row \in variants' : \/ row \in Other(p)
                             \/ \E old \in Visible(p) : row = Settled(old) /\ row.tx = Committed
                                   /\ Key(row) = Key(old) /\ row.gtin = old.gtin
    BY <1>1, <1>2, SettledIs
<1>4. \A row \in CommittedVariants' : \E old \in Visible(p) :
            row = Settled(old) /\ Key(row) = Key(old) /\ row.gtin = old.gtin
    BY <1>3 DEF CommittedVariants, Other
<1>5. \A r1, r2 \in CommittedVariants' : Clash(r1, r2) => r1 = r2
    <2> SUFFICES ASSUME NEW r1 \in CommittedVariants', NEW r2 \in CommittedVariants', Clash(r1, r2)
                 PROVE  r1 = r2
        OBVIOUS
    <2>1. PICK o1 \in Visible(p) : r1 = Settled(o1) /\ Key(r1) = Key(o1) /\ r1.gtin = o1.gtin
        BY <1>4
    <2>2. PICK o2 \in Visible(p) : r2 = Settled(o2) /\ Key(r2) = Key(o2) /\ r2.gtin = o2.gtin
        BY <1>4
    <2>3. o1 = o2
        BY <2>1, <2>2 DEF Clash, Indexed, CatalogueIsKeyed, Keyed
    <2> QED BY <2>1, <2>2, <2>3
<1>6. ASSUME NEW q \in Processes, NEW r1 \in Visible(q)', NEW r2 \in Visible(q)', Clash(r1, r2)
      PROVE  r1 = r2
    <2>1. \A row \in Visible(q)' : row \in Own(q)' \/ row \in CommittedVariants'
        BY DEF Visible, CommittedVariants
    <2>2. \A row \in Own(q)' : q # p /\ row \in Own(q) /\ row \in Visible(q)
        BY <1>3, CatalogAssumption DEF Own, Other, Visible, Processes
    <2>3. ASSUME NEW own \in Own(q)', NEW row \in CommittedVariants', row \in Visible(q)'
          PROVE  ~Clash(own, row) /\ ~Clash(row, own)
        <3>1. PICK old \in Visible(p) : row = Settled(old) /\ Key(row) = Key(old) /\ row.gtin = old.gtin
            BY <1>4
        <3>2. own \in variants /\ own.tx = q /\ q # p /\ own \in Visible(q) /\ q # Committed
            BY <2>2, CatalogAssumption DEF Own
        <3>3. CASE old.tx = p
            <4>1. old \in variants /\ ~Clash(own, old) /\ ~Clash(old, own)
                BY <3>2, <3>3, CatalogAssumption DEF Visible, Own, Indexed, Isolated
            <4> QED BY <3>1, <4>1 DEF Clash
        <3>4. CASE old.tx = Committed
            <4>1. \A other \in Own(q) : Key(other) # Key(row)
                <5>1. Own(q) \subseteq Own(q)'
                    BY <1>1, <3>2 DEF Own, Other
                <5>2. \A other \in Own(q)' : Key(other) # Key(row)
                    <6>1. row.tx = Committed
                        BY DEF CommittedVariants
                    <6> QED BY <2>3, <3>2, <6>1 DEF Visible, Own, Key
                <5> QED BY <5>1, <5>2
            <4>2. old \in Visible(q)
                BY <3>1, <3>4, <4>1 DEF Visible, Own
            <4>3. Clash(own, old) \/ Clash(old, own) => own = old
                BY <3>2, <4>2 DEF Clash, Indexed, CatalogueIsKeyed, Keyed
            <4> QED BY <3>1, <3>2, <3>4, <4>3 DEF Clash
        <3> QED BY <1>2, <3>3, <3>4
    <2>4. CASE r1 \in Own(q)' /\ r2 \in Own(q)'
        BY <1>6, <2>2, <2>4 DEF Clash, Indexed, CatalogueIsKeyed, Keyed
    <2>5. CASE r1 \in CommittedVariants' /\ r2 \in CommittedVariants'
        BY <1>5, <1>6, <2>5
    <2> QED BY <1>6, <2>1, <2>3, <2>4, <2>5
<1>7. Isolated'
    <2>1. \A row \in variants' : row.tx # Committed => row \in variants
        BY <1>3 DEF Other
    <2>2. \A r1, r2 \in variants' :
            r1.tx # r2.tx /\ r1.tx # Committed /\ r2.tx # Committed => ~Clash(r1, r2)
        BY <2>1 DEF Indexed, Isolated
    <2> QED BY <2>2 DEF Isolated, Clash, Key
<1>8. \A r1, r2 \in products' : Lower[r1.name] = Lower[r2.name] => r1 = r2
    <2>1. \A row \in products' : \E old \in products :
            row = [old EXCEPT !.tx = IF @ = p THEN Committed ELSE @] /\ row.name = old.name
        <3> SUFFICES ASSUME NEW row \in products'
                     PROVE  \E old \in products :
                                row = [old EXCEPT !.tx = IF @ = p THEN Committed ELSE @] /\ row.name = old.name
            OBVIOUS
        <3>1. PICK old \in products : row = [old EXCEPT !.tx = IF @ = p THEN Committed ELSE @]
            BY <1>1
        <3>2. old = [id |-> old.id, name |-> old.name, tx |-> old.tx]
            BY DEF Types, IsProduct
        <3>3. row.name = old.name
            BY <3>1, <3>2
        <3> QED BY <3>1, <3>3
    <2> QED BY <2>1 DEF Indexed, CatalogueIsKeyed
<1>9. Keyed(CommittedVariants)'
    BY <1>5 DEF Clash, Keyed, Key
<1>10. \A q \in Processes : Keyed(Visible(q))'
    BY <1>6 DEF Clash, Keyed, Key
<1> QED BY <1>7, <1>8, <1>9, <1>10 DEF Indexed, CatalogueIsKeyed

LEMMA NextIndexed == Types /\ Indexed /\ [Next]_vars => Indexed'
<1> SUFFICES ASSUME Types, Indexed, [Next]_vars PROVE Indexed'
    OBVIOUS
<1>1. CASE UNCHANGED <<products, variants>>
    BY <1>1, IndexedKept
<1>2. ASSUME NEW p \in Processes, InsertProduct(p)
      PROVE  Indexed'
    BY <1>2, InsertIndexed
<1>3. ASSUME NEW p \in Processes, WriteVariant(p)
      PROVE  Indexed'
    BY <1>3, WriteIndexed
<1>4. ASSUME NEW p \in Processes, ProductExists(p) \/ UniqueViolation(p) \/ DeadlockDetected(p) \/ Die(p)
      PROVE  Indexed'
    BY <1>4, RolledBack, RollbackIndexed
<1>5. ASSUME NEW p \in Processes, Commit(p) \/ CommitSeed(p)
      PROVE  Indexed'
    BY <1>5, PublishIndexed DEF Commit, CommitSeed
<1>6. \/ UNCHANGED <<products, variants>>
      \/ \E p \in Processes : InsertProduct(p) \/ WriteVariant(p) \/ Commit(p) \/ CommitSeed(p)
                \/ ProductExists(p) \/ UniqueViolation(p) \/ DeadlockDetected(p) \/ Die(p)
    BY DEF Next, Step, Deploy, Refuse, CreateProduct, StartSeed, FindProduct, vars
<1> QED BY <1>1, <1>2, <1>3, <1>4, <1>5, <1>6

(* Whatever transactions run beside it, none ever sees two products of one *)
(* name, two variants of a product with one signature or one GTIN twice:   *)
(* the indexes of the schema hold for what a transaction reads, not only   *)
(* for what is committed, as far as it waits for those it would clash with.*)
THEOREM CatalogueCorrect == Spec => []CatalogueIsKeyed
<1>1. Init => Types /\ Indexed
    BY InitTypes, InitIndexed
<1>2. Types /\ Indexed /\ [Next]_vars => (Types /\ Indexed)'
    BY NextTypes, NextIndexed
<1>3. Types /\ Indexed => CatalogueIsKeyed
    BY DEF Indexed
<1> QED BY <1>1, <1>2, <1>3, PTL DEF Spec

-----------------------------------------------------------------------------
(* A request, whole or not at all *)

(* What the variants of a body are called, and the list for one. *)
SignatureAt(body, k) == ComputeSignature(body.variants[k].attributes)
Asked(body) == {SignatureAt(body, k) : k \in DOMAIN body.variants}
JobOf(body) == <<Entry(body.name, body.variants)>>

Written(c) == {row.signature : row \in Own(c)}
FiledBy(c) == {row.signature : row \in {v \in CommittedVariants : v.by = c}}

(* The versions of a row have one author, and all but the author's own     *)
(* stand beside a committed one.                                           *)
OneAuthor == \A r1, r2 \in variants : Key(r1) = Key(r2) => r1.by = r2.by
Authored ==
    \A row \in variants : row.tx \in {Committed, row.by} \/ \E old \in CommittedVariants : Key(old) = Key(row)

(* What is committed was answered, with its product and all variants. *)
Filed ==
    \A row \in CommittedVariants : row.by \in Clients =>
        /\ answer[row.by] = "201"
        /\ \E product \in products : product.id = row.product /\ product.tx = Committed
Answered ==
    \A c \in Clients : answer[c] = "201" => \E body \in Bodies : FiledBy(c) = Asked(body)

(* How far a request has come with a body. *)
Before(c) == work[c].i = 1 /\ work[c].j = 0 /\ Own(c) = {}
Between(c, body) ==
    /\ \/ /\ work[c].i = 1 /\ work[c].j \in DOMAIN body.variants
          /\ Written(c) = {SignatureAt(body, k) : k \in 1 .. work[c].j - 1}
       \/ work[c].i = 2 /\ Written(c) = Asked(body)
    /\ \A row \in Own(c) : row.by = c /\ row.product = work[c].product
    /\ \E product \in products : product.id = work[c].product /\ product.tx = c
Underway(c) ==
    /\ answer[c] = "none"
    /\ \E body \in Bodies : work[c].job = JobOf(body) /\ (Before(c) \/ Between(c, body))

Whole ==
    /\ OneAuthor /\ Authored /\ Filed /\ Answered
    /\ \A c \in Clients : work[c] # Idle => Underway(c)

LEMMA KeyParts ==
    ASSUME NEW r1, NEW r2, Key(r1) = Key(r2)
    PROVE  r1.product = r2.product /\ r1.signature = r2.signature
BY DEF Key

LEMMA JobIs ==
    ASSUME NEW body \in Bodies
    PROVE  LET job == JobOf(body)
           IN  /\ DOMAIN job = {1} /\ Len(job) = 1
               /\ DOMAIN job[1].variants = DOMAIN body.variants
               /\ Len(job[1].variants) = Len(body.variants)
               /\ \A k \in DOMAIN body.variants : job[1].variants[k].signature = SignatureAt(body, k)
<1> DEFINE job == JobOf(body)
           entry == Entry(body.name, body.variants)
<1>1. job = <<entry>>
    BY DEF JobOf
<1>2. /\ DOMAIN entry.variants = DOMAIN body.variants
      /\ \A k \in DOMAIN body.variants : entry.variants[k].signature = SignatureAt(body, k)
    BY DEF Entry, SignatureAt
<1>3. DOMAIN body.variants = 1 .. Len(body.variants) /\ Len(body.variants) \in Nat
    BY CatalogAssumption
<1>4. IsList(entry.variants)
    BY <1>3, EntryIsList DEF IsList
<1>5. Len(entry.variants) = Len(body.variants)
    BY <1>2, <1>3, <1>4 DEF IsList
<1> HIDE DEF entry, job
<1>6. DOMAIN job = {1} /\ Len(job) = 1 /\ job[1] = entry
    BY <1>1
<1> QED BY <1>2, <1>5, <1>6 DEF job

LEMMA InitWhole == Init => Whole
<1> SUFFICES ASSUME Init PROVE Whole
    OBVIOUS
<1>1. variants = {} /\ \A c \in Clients : work[c] = Idle /\ answer[c] = "none"
    BY DEF Init, Processes
<1> QED BY <1>1 DEF Whole, OneAuthor, Authored, Filed, Answered, CommittedVariants

LEMMA UnderwayKept ==
    ASSUME NEW c \in Clients, Underway(c), work'[c] = work[c], answer'[c] = answer[c], Own(c)' = Own(c),
           \A product \in products : product.tx = c => product \in products'
    PROVE  Underway(c)'
<1>1. Written(c)' = Written(c)
    BY DEF Written
<1>2. PICK body \in Bodies : work[c].job = JobOf(body) /\ (Before(c) \/ Between(c, body))
    BY DEF Underway
<1>3. Before(c) => Before(c)'
    BY DEF Before
<1>4. Between(c, body) => Between(c, body)'
    BY <1>1 DEF Between
<1>5. work'[c].job = JobOf(body) /\ (Before(c)' \/ Between(c, body)')
    BY <1>2, <1>3, <1>4
<1> QED BY <1>5 DEF Underway, JobOf, Entry

(* A step that writes no variant. *)
LEMMA QuietWhole ==
    ASSUME Whole, variants' = variants,
           \A product \in products : product \in products',
           \A c \in Clients : answer[c] = "201" <=> answer'[c] = "201",
           \A c \in Clients : work'[c] # Idle => Underway(c)'
    PROVE  Whole'
<1>1. CommittedVariants' = CommittedVariants
    BY DEF CommittedVariants
<1>2. \A c : FiledBy(c)' = FiledBy(c)
    BY <1>1 DEF FiledBy
<1>3. OneAuthor' /\ Authored'
    BY <1>1 DEF Whole, OneAuthor, Authored, Key
<1>4. Filed'
    BY <1>1 DEF Whole, Filed
<1>5. Answered'
    BY <1>2 DEF Whole, Answered, Asked, SignatureAt
<1> QED BY <1>3, <1>4, <1>5 DEF Whole

LEMMA QuietStepsWhole ==
    ASSUME Types, Whole,
           \/ Deploy \/ UNCHANGED vars
           \/ \E c \in Clients, body \in Bodies : Refuse(c, body) \/ CreateProduct(c, body)
           \/ \E s \in Seeders : StartSeed(s)
           \/ \E p \in Processes : FindProduct(p)
    PROVE  Whole'
<1>1. UNCHANGED <<products, variants>>
    BY DEF Deploy, vars, Refuse, CreateProduct, StartSeed, FindProduct
<1>2. \A c : Own(c)' = Own(c)
    BY <1>1 DEF Own
<1>3. ASSUME \A c \in Clients : work'[c] = work[c] /\ (work[c] # Idle => answer'[c] = answer[c])
                             /\ (answer[c] = "201" <=> answer'[c] = "201")
      PROVE  Whole'
    <2>1. ASSUME NEW c \in Clients, work'[c] # Idle
          PROVE  Underway(c)'
        BY <1>1, <1>2, <1>3, <2>1, UnderwayKept DEF Whole
    <2> QED BY <1>1, <1>3, <2>1, QuietWhole
<1>4. CASE Deploy \/ UNCHANGED vars
    BY <1>3, <1>4 DEF Deploy, vars
<1>5. ASSUME NEW c \in Clients, NEW body \in Bodies, Refuse(c, body)
      PROVE  Whole'
    <2>1. /\ work' = work /\ work[c] = Idle /\ answer[c] = "none"
          /\ answer' = [answer EXCEPT ![c] = IF body.local THEN "422" ELSE "403"]
        BY <1>5 DEF Refuse
    <2>2. answer'[c] # "201" /\ \A d \in Clients : d # c => answer'[d] = answer[d]
        BY <2>1 DEF Types, Processes
    <2> QED BY <1>3, <2>1, <2>2
<1>6. ASSUME NEW c \in Clients, NEW body \in Bodies, CreateProduct(c, body)
      PROVE  Whole'
    <2>1. /\ work' = [work EXCEPT ![c] = FirstOf(JobOf(body))] /\ answer' = answer
          /\ work[c] = Idle /\ answer[c] = "none"
        BY <1>6 DEF CreateProduct, FirstOf, JobOf
    <2>2. work'[c] = FirstOf(JobOf(body))
        BY <2>1 DEF Types, Processes
    <2>3. work'[c].job = JobOf(body) /\ work'[c].i = 1 /\ work'[c].j = 0
        BY <2>2 DEF FirstOf, Idle
    <2>4. Own(c) = {}
        BY <2>1, IdleIsPlaced DEF Types, Own, Processes
    <2>5. Before(c)'
        BY <1>2, <2>3, <2>4 DEF Before
    <2>6. Underway(c)'
        BY <2>1, <2>3, <2>5 DEF Underway, JobOf, Entry
    <2>7. ASSUME NEW d \in Clients, work'[d] # Idle
          PROVE  Underway(d)'
        <3>1. CASE d = c
            BY <2>6, <3>1
        <3>2. CASE d # c
            <4>1. work'[d] = work[d]
                BY <2>1, <3>2
            <4> QED BY <1>1, <1>2, <2>1, <2>7, <4>1, UnderwayKept DEF Whole
        <3> QED BY <3>1, <3>2
    <2> QED BY <1>1, <2>1, <2>7, QuietWhole
<1>7. ASSUME NEW s \in Seeders, StartSeed(s)
      PROVE  Whole'
    <2>1. answer' = answer /\ \A c \in Clients : work'[c] = work[c]
        BY <1>7, CatalogAssumption DEF StartSeed
    <2> QED BY <1>3, <2>1
<1>8. ASSUME NEW p \in Processes, FindProduct(p)
      PROVE  Whole'
    <2>1. answer' = answer /\ p \in Seeders
        BY <1>8 DEF FindProduct, Found
    <2>2. \A c \in Clients : work'[c] = work[c]
        BY <1>8, <2>1, CatalogAssumption DEF FindProduct
    <2> QED BY <1>3, <2>1, <2>2
<1> QED BY <1>4, <1>5, <1>6, <1>7, <1>8

(* Where a request stands, by its body. *)
LEMMA Standing ==
    ASSUME Types, NEW c \in Clients, NEW body \in Bodies, work[c].job = JobOf(body), Before(c) \/ Between(c, body)
    PROVE  /\ AtProduct(c) => Before(c)
           /\ AtProduct(c) \/ AtVariant(c) => work[c].i = 1 /\ Len(Here(c).variants) = Len(body.variants)
           /\ AtVariant(c) =>
                /\ work[c].j \in DOMAIN body.variants /\ Between(c, body)
                /\ Written(c) = {SignatureAt(body, k) : k \in 1 .. work[c].j - 1}
                /\ Wanted(c).signature = SignatureAt(body, work[c].j)
           /\ AtEnd(c) => Between(c, body) /\ Written(c) = Asked(body)
<1>1. /\ DOMAIN work[c].job = {1} /\ Len(work[c].job) = 1
      /\ DOMAIN work[c].job[1].variants = DOMAIN body.variants
      /\ Len(work[c].job[1].variants) = Len(body.variants)
      /\ \A k \in DOMAIN body.variants : work[c].job[1].variants[k].signature = SignatureAt(body, k)
    BY JobIs
<1>2. 0 \notin DOMAIN body.variants
    BY CatalogAssumption
<1>3. AtProduct(c) => Before(c)
    BY <1>1, <1>2 DEF AtProduct, Between
<1>4. AtProduct(c) \/ AtVariant(c) => work[c].i = 1 /\ Here(c) = work[c].job[1]
    BY <1>1 DEF AtProduct, AtVariant, Here
<1>5. AtVariant(c) => work[c].j \in DOMAIN body.variants
    BY <1>1, <1>4 DEF AtVariant
<1>6. AtVariant(c) => Between(c, body) /\ Written(c) = {SignatureAt(body, k) : k \in 1 .. work[c].j - 1}
    BY <1>2, <1>4, <1>5 DEF Before, Between
<1>7. AtVariant(c) => Wanted(c).signature = SignatureAt(body, work[c].j)
    BY <1>1, <1>4, <1>5 DEF Wanted
<1>8. AtEnd(c) => work[c].i # 1
    BY <1>1 DEF AtEnd
<1>9. AtEnd(c) => Between(c, body) /\ Written(c) = Asked(body)
    BY <1>8 DEF Before, Between
<1> QED BY <1>1, <1>3, <1>4, <1>5, <1>6, <1>7, <1>9

(* The steps of the others. *)
LEMMA OthersKept ==
    ASSUME Whole, NEW p \in Processes, NEW w, work' = [work EXCEPT ![p] = w],
           NEW a, answer' = [answer EXCEPT ![p] = a],
           \A q \in Processes \ {p} : Own(q)' = Own(q),
           \A product \in products : product.tx # p => product \in products',
           NEW c \in Clients, c # p, work'[c] # Idle, work \in [Processes -> Works], answer \in [Processes -> Outcomes]
    PROVE  Underway(c)'
<1>1. c \in Processes /\ work'[c] = work[c] /\ answer'[c] = answer[c] /\ Own(c)' = Own(c)
    BY DEF Processes
<1>2. Underway(c)
    BY <1>1 DEF Whole
<1> QED BY <1>1, <1>2, UnderwayKept

LEMMA InsertWhole ==
    ASSUME Types, Whole, NEW p \in Processes, InsertProduct(p)
    PROVE  Whole'
<1> DEFINE n == ids + 1
           w == Advanced(p, n)
           new == [id |-> n, name |-> Here(p).name, tx |-> p]
<1>1. /\ products' = products \cup {new} /\ work' = [work EXCEPT ![p] = w] /\ AtProduct(p)
      /\ variants' = variants /\ answer' = answer
    BY DEF InsertProduct
<1>2. \A q : Own(q)' = Own(q)
    BY <1>1 DEF Own
<1>3. answer' = [answer EXCEPT ![p] = answer[p]] /\ work \in [Processes -> Works] /\ answer \in [Processes -> Outcomes]
    BY <1>1 DEF Types
<1>4. new.id = n /\ new.tx = p /\ n \in Nat
    BY DEF Types
<1>5. ASSUME p \in Clients
      PROVE  Underway(p)'
    <2>1. Underway(p)
        BY <1>1, <1>5, AtNotIdle DEF Whole
    <2>2. PICK body \in Bodies : work[p].job = JobOf(body) /\ (Before(p) \/ Between(p, body))
        BY <2>1 DEF Underway
    <2>3. Before(p) /\ work[p].i = 1 /\ Len(Here(p).variants) = Len(body.variants)
        BY <1>1, <1>5, <2>2, Standing
    <2> HIDE DEF n
    <2>4. /\ w.job = work[p].job /\ w.product = n
          /\ 0 < Len(body.variants) => w.i = 1 /\ w.j = 1
          /\ ~(0 < Len(body.variants)) => w.i = 2
        <3>1. work[p].j = 0
            BY <2>3 DEF Before
        <3> QED BY <1>1, <1>4, <2>3, <3>1, AdvancedIs
    <2> HIDE DEF w, new
    <2>5. work'[p] = w
        BY <1>1, <1>3
    <2>6. Own(p)' = {} /\ Written(p)' = {}
        BY <1>2, <2>3 DEF Before, Written
    <2>7. DOMAIN body.variants = 1 .. Len(body.variants) /\ Len(body.variants) \in Nat
        BY CatalogAssumption
    <2>8. \/ /\ work'[p].i = 1 /\ work'[p].j \in DOMAIN body.variants
             /\ Written(p)' = {SignatureAt(body, k) : k \in 1 .. work'[p].j - 1}
          \/ work'[p].i = 2 /\ Written(p)' = Asked(body)
        <3>1. CASE 0 < Len(body.variants)
            <4>1. work'[p].i = 1 /\ work'[p].j = 1 /\ 1 \in DOMAIN body.variants
                BY <2>4, <2>5, <2>7, <3>1
            <4> QED BY <2>6, <4>1
        <3>2. CASE ~(0 < Len(body.variants))
            <4>1. Asked(body) = {}
                BY <2>7, <3>2 DEF Asked
            <4> QED BY <2>4, <2>5, <2>6, <3>2, <4>1
        <3> QED BY <3>1, <3>2
    <2>9. \E product \in products' : product.id = work'[p].product /\ product.tx = p
        BY <1>1, <1>4, <2>4, <2>5
    <2>10. Between(p, body)'
        BY <2>6, <2>8, <2>9 DEF Between, Asked, SignatureAt
    <2>11. work'[p].job = JobOf(body)
        BY <2>2, <2>4, <2>5
    <2> QED BY <1>1, <2>1, <2>10, <2>11 DEF Underway, JobOf, Entry
<1> HIDE DEF new, w
<1>6. ASSUME NEW c \in Clients, work'[c] # Idle
      PROVE  Underway(c)'
    <2>1. CASE c = p
        BY <1>5, <2>1
    <2>2. CASE c # p
        BY <1>1, <1>2, <1>3, <1>6, <2>2, OthersKept
    <2> QED BY <2>1, <2>2
<1> QED BY <1>1, <1>6, QuietWhole

LEMMA RollbackWhole ==
    ASSUME Types, Whole, NEW p \in Processes, work[p] # Idle, NEW outcome \in Outcomes \ {"201"}, Rollback(p, outcome)
    PROVE  Whole'
<1>1. /\ products' = {row \in products : row.tx # p} /\ variants' = variants \ Own(p)
      /\ work' = [work EXCEPT ![p] = Idle] /\ answer' = [answer EXCEPT ![p] = outcome] /\ p # Committed
      /\ work \in [Processes -> Works] /\ answer \in [Processes -> Outcomes]
    BY CatalogAssumption DEF Rollback, Types
<1>2. CommittedVariants' = CommittedVariants /\ \A q : q # p => Own(q)' = Own(q)
    BY <1>1 DEF CommittedVariants, Own
<1>3. \A c : FiledBy(c)' = FiledBy(c)
    BY <1>2 DEF FiledBy
<1>4. OneAuthor'
    BY <1>1 DEF Whole, OneAuthor, Key
<1>5. Authored'
    BY <1>1, <1>2 DEF Whole, Authored, Key
<1>6. \A c \in Clients : answer[c] = "201" <=> answer'[c] = "201"
    <2>1. p \in Clients => answer[p] = "none"
        BY DEF Whole, Underway
    <2> QED BY <1>1, <2>1 DEF Processes
<1>7. Filed'
    BY <1>1, <1>2, <1>6 DEF Whole, Filed
<1>8. Answered'
    BY <1>3, <1>6 DEF Whole, Answered, Asked, SignatureAt
<1>9. ASSUME NEW c \in Clients, work'[c] # Idle
      PROVE  Underway(c)'
    <2>1. c # p
        BY <1>1, <1>9
    <2> QED BY <1>1, <1>2, <1>9, <2>1, OthersKept
<1> QED BY <1>4, <1>5, <1>7, <1>8, <1>9 DEF Whole

(* The author of what WriteVariant writes is that of every version with    *)
(* the same key, a request writes of its own only.                         *)
LEMMA AuthorOfNew ==
    ASSUME Types, OneAuthor, NEW p \in Processes, WriteVariant(p)
    PROVE  /\ \A row \in variants : Key(row) = WantedKey(p) =>
                row.by = NewVersion(p).by /\ Conflicting(p) # {} /\ row.tx \in {p, Committed}
           /\ NewVersion(p).by # p => \E old \in Conflicting(p) : NewVersion(p).by = old.by
           /\ p \in Clients => NewVersion(p).by = p /\ Conflicting(p) = {}
<1>1. Blockers(p) = {} /\ ~Violates(p)
    BY WriteIs
<1>2. NewVersion(p).by = IF Conflicting(p) = {} THEN p ELSE (CHOOSE row \in Conflicting(p) : TRUE).by
    BY DEF NewVersion
<1>3. Conflicting(p) # {} => \E old \in Conflicting(p) : NewVersion(p).by = old.by
    <2> DEFINE old == CHOOSE row \in Conflicting(p) : TRUE
    <2>1. Conflicting(p) # {} => old \in Conflicting(p)
        OBVIOUS
    <2> HIDE DEF old
    <2>2. Conflicting(p) # {} => NewVersion(p).by = old.by
        BY <1>2 DEF old
    <2> QED BY <2>1, <2>2
<1>4. \A old \in Conflicting(p) : Key(old) = WantedKey(p) /\ old \in variants
    BY DEF Conflicting, Visible, Own
<1>5. ASSUME NEW row \in variants, Key(row) = WantedKey(p)
      PROVE  row.by = NewVersion(p).by /\ Conflicting(p) # {} /\ row.tx \in {p, Committed}
    <2>1. row.tx \in {p, Committed}
        BY <1>1, <1>5 DEF Blockers, Other
    <2>2. \E seen \in Visible(p) : Key(seen) = WantedKey(p)
        <3>1. CASE row \in Visible(p)
            BY <1>5, <3>1
        <3>2. CASE row \notin Visible(p)
            <4>1. PICK own \in Own(p) : Key(own) = Key(row)
                BY <2>1, <3>2 DEF Visible, Own
            <4> QED BY <1>5, <4>1 DEF Visible
        <3> QED BY <3>1, <3>2
    <2>3. PICK seen \in Visible(p) : Key(seen) = WantedKey(p)
        BY <2>2
    <2>4. seen \in Conflicting(p)
        BY <1>1, <2>3 DEF Violates
    <2>5. PICK old \in Conflicting(p) : NewVersion(p).by = old.by
        BY <1>3, <2>4
    <2> QED BY <1>4, <1>5, <2>1, <2>4, <2>5 DEF OneAuthor
<1>6. p \in Clients => Conflicting(p) = {}
    BY CatalogAssumption DEF Conflicting
<1> QED BY <1>2, <1>3, <1>5, <1>6

LEMMA WriteWhole ==
    ASSUME Types, Whole, NEW p \in Processes, WriteVariant(p)
    PROVE  Whole'
<1> DEFINE new == NewVersion(p)
           w == Advanced(p, work[p].product)
<1>1. /\ AtVariant(p) /\ products' = products /\ answer' = answer /\ work' = [work EXCEPT ![p] = w]
      /\ variants' = {row \in variants : ~(row.tx = p /\ Key(row) = WantedKey(p))} \cup {new}
      /\ work \in [Processes -> Works] /\ answer \in [Processes -> Outcomes]
    BY WriteIs DEF Types
<1>2. /\ new.tx = p /\ Key(new) = WantedKey(p) /\ p # Committed /\ IsVariant(new)
      /\ work[p].product \in 1 .. ids /\ ids \in Nat
    BY <1>1, NewVersionTypes, CatalogAssumption DEF Types
<1>3. /\ \A row \in variants : Key(row) = Key(new) => row.by = new.by /\ Conflicting(p) # {} /\ row.tx \in {p, Committed}
      /\ new.by # p => \E old \in Conflicting(p) : new.by = old.by
      /\ p \in Clients => new.by = p /\ Conflicting(p) = {}
    BY <1>2, AuthorOfNew DEF Whole
<1>4. w.product = work[p].product /\ w.job = work[p].job
      /\ (work[p].j < Len(Here(p).variants) => w.i = work[p].i /\ w.j = work[p].j + 1)
      /\ (~(work[p].j < Len(Here(p).variants)) => w.i = work[p].i + 1 /\ w.j = 0)
    BY <1>1, <1>2, AdvancedIs
<1> HIDE DEF new, w
<1>5. CommittedVariants' = CommittedVariants /\ \A q : q # p => Own(q)' = Own(q)
    BY <1>1, <1>2 DEF CommittedVariants, Own
<1>6. \A row \in variants' : row = new \/ row \in variants
    BY <1>1
<1>7. OneAuthor'
    <2>1. \A r1, r2 \in variants' : Key(r1) = Key(r2) => r1.by = r2.by
        BY <1>3, <1>6 DEF Whole, OneAuthor
    <2> QED BY <2>1 DEF OneAuthor, Key
<1>8. Authored'
    <2>1. new.tx \in {Committed, new.by} \/ \E old \in CommittedVariants : Key(old) = Key(new)
        <3>1. CASE new.by # p
            <4>1. PICK old \in Conflicting(p) : new.by = old.by
                BY <1>3, <3>1
            <4>2. old \in variants /\ Key(old) = Key(new) /\ old.tx \in {p, Committed}
                BY <1>2 DEF Conflicting, Visible, Own
            <4>3. CASE old.tx = Committed
                BY <4>2, <4>3 DEF CommittedVariants
            <4>4. CASE old.tx = p
                BY <1>2, <3>1, <4>1, <4>2, <4>4 DEF Whole, Authored
            <4> QED BY <4>2, <4>3, <4>4
        <3> QED BY <1>2, <3>1
    <2>2. \A row \in variants' : row.tx \in {Committed, row.by} \/ \E old \in CommittedVariants' : Key(old) = Key(row)
        BY <1>5, <1>6, <2>1 DEF Whole, Authored
    <2> QED BY <2>2 DEF Authored, Key
<1>9. Filed' /\ Answered'
    <2>1. \A c : FiledBy(c)' = FiledBy(c)
        BY <1>5 DEF FiledBy
    <2> QED BY <1>1, <1>5, <2>1 DEF Whole, Filed, Answered, Asked, SignatureAt
<1>10. ASSUME p \in Clients
       PROVE  Underway(p)'
    <2>1. Underway(p)
        BY <1>1, <1>10, AtNotIdle DEF Whole
    <2>2. PICK body \in Bodies : work[p].job = JobOf(body) /\ (Before(p) \/ Between(p, body))
        BY <2>1 DEF Underway
    <2> DEFINE j == work[p].j
    <2>3. /\ work[p].i = 1 /\ Len(Here(p).variants) = Len(body.variants)
          /\ j \in DOMAIN body.variants /\ Between(p, body)
          /\ Written(p) = {SignatureAt(body, k) : k \in 1 .. j - 1}
          /\ Wanted(p).signature = SignatureAt(body, j)
        BY <1>1, <1>10, <2>2, Standing
    <2>4. Own(p)' = Own(p) \cup {new} /\ new.by = p
        <3>1. \A row \in Own(p) : Key(row) # WantedKey(p)
            BY <1>2, <1>3, <1>10 DEF Own
        <3> QED BY <1>1, <1>2, <1>3, <1>10, <3>1 DEF Own
    <2>5. new.signature = SignatureAt(body, j) /\ new.product = work[p].product
        BY <2>3 DEF new, NewVersion
    <2>6. DOMAIN body.variants = 1 .. Len(body.variants) /\ Len(body.variants) \in Nat
        BY CatalogAssumption
    <2>7. work'[p] = w
        BY <1>1
    <2> HIDE DEF j
    <2>8. Written(p)' = {SignatureAt(body, k) : k \in 1 .. j}
        <3>1. Written(p)' = Written(p) \cup {new.signature}
            BY <2>4 DEF Written
        <3>2. j \in Nat /\ j >= 1
            BY <2>3, <2>6
        <3>3. \A k : k \in 1 .. j <=> k \in 1 .. j - 1 \/ k = j
            BY <3>2
        <3> QED BY <2>3, <2>5, <3>1, <3>3
    <2>9. \/ /\ work'[p].i = 1 /\ work'[p].j \in DOMAIN body.variants
             /\ Written(p)' = {SignatureAt(body, k) : k \in 1 .. work'[p].j - 1}
          \/ work'[p].i = 2 /\ Written(p)' = Asked(body)
        <3>1. CASE j < Len(body.variants)
            <4>1. w.i = 1 /\ w.j = j + 1
                BY <1>4, <2>3, <3>1 DEF j
            <4>2. w.j \in DOMAIN body.variants /\ w.j - 1 = j
                BY <2>3, <2>6, <3>1, <4>1
            <4> QED BY <2>7, <2>8, <4>1, <4>2
        <3>2. CASE ~(j < Len(body.variants))
            <4>1. w.i = 2
                BY <1>4, <2>3, <3>2 DEF j
            <4>2. j = Len(body.variants)
                BY <2>3, <2>6, <3>2
            <4> QED BY <2>6, <2>7, <2>8, <4>1, <4>2 DEF Asked
        <3> QED BY <3>1, <3>2
    <2>10. work'[p].product = work[p].product /\ work'[p].job = JobOf(body)
        BY <1>4, <2>2, <2>7
    <2>11. /\ \A row \in Own(p)' : row.by = p /\ row.product = work'[p].product
           /\ \E product \in products' : product.id = work'[p].product /\ product.tx = p
        BY <1>1, <2>3, <2>4, <2>5, <2>10 DEF Between
    <2>12. Between(p, body)'
        BY <2>9, <2>11 DEF Between, Asked, SignatureAt
    <2> QED BY <1>1, <2>1, <2>10, <2>12 DEF Underway, JobOf, Entry
<1>11. ASSUME NEW c \in Clients, work'[c] # Idle
       PROVE  Underway(c)'
    <2>1. CASE c = p
        BY <1>10, <2>1
    <2>2. CASE c # p
        <3>1. answer' = [answer EXCEPT ![p] = answer[p]]
            BY <1>1
        <3> QED BY <1>1, <1>5, <1>11, <2>2, <3>1, OthersKept
    <2> QED BY <2>1, <2>2
<1> QED BY <1>7, <1>8, <1>9, <1>11 DEF Whole

(* What a commit makes of the versions. *)
LEMMA Published ==
    ASSUME Types, NEW p \in Processes, NEW outcome, Publish(p, outcome)
    PROVE  /\ \A row \in variants' : \/ row \in Other(p)
                                     \/ /\ row.tx = Committed
                                        /\ \E old \in Visible(p) : Key(row) = Key(old) /\ row.by = old.by
           /\ \A old \in Visible(p) : \E row \in CommittedVariants' : Key(row) = Key(old) /\ row.by = old.by
           /\ \A row \in Other(p) : row \in variants'
           /\ \A q \in Processes \ {p} : Own(q)' = Own(q)
<1>1. variants' = {Settled(row) : row \in Visible(p)} \cup Other(p)
    BY DEF Publish, Settled
<1>2. \A row \in Visible(p) : Settled(row).tx = Committed /\ Key(Settled(row)) = Key(row) /\ Settled(row).by = row.by
    BY SettledIs DEF Visible, Own, Types
<1>3. \A old \in Visible(p) : Settled(old) \in CommittedVariants'
    BY <1>1, <1>2 DEF CommittedVariants
<1>4. \A q \in Processes \ {p} : Own(q)' = Own(q)
    BY <1>1, <1>2, CatalogAssumption DEF Own, Other
<1> QED BY <1>1, <1>2, <1>3, <1>4

LEMMA PublishWhole ==
    ASSUME Types, Whole, NEW p \in Processes, NEW outcome, Publish(p, outcome),
           p \in Clients => outcome = "201" /\ AtEnd(p)
    PROVE  Whole'
<1>1. /\ work' = [work EXCEPT ![p] = Idle] /\ answer' = [answer EXCEPT ![p] = outcome] /\ p # Committed
      /\ work \in [Processes -> Works] /\ answer \in [Processes -> Outcomes]
    BY CatalogAssumption DEF Publish, Types
<1>2. /\ \A row \in variants' : \/ row \in Other(p)
                                \/ /\ row.tx = Committed
                                   /\ \E old \in Visible(p) : Key(row) = Key(old) /\ row.by = old.by
      /\ \A old \in Visible(p) : \E row \in CommittedVariants' : Key(row) = Key(old) /\ row.by = old.by
      /\ \A row \in Other(p) : row \in variants'
      /\ \A q \in Processes \ {p} : Own(q)' = Own(q)
    BY Published
<1>3. /\ Visible(p) \subseteq variants /\ Other(p) \subseteq variants /\ CommittedVariants \subseteq variants
      /\ \A row \in Visible(p) : row \in Own(p) \/ row \in CommittedVariants
      /\ \A row \in Own(p) : row.tx = p /\ row \in Visible(p)
      /\ \A row \in Other(p) : row.tx # p
    BY DEF Visible, Own, Other, CommittedVariants
<1>4. \A row \in CommittedVariants' : \E old \in Visible(p) : Key(row) = Key(old) /\ row.by = old.by
    BY <1>2 DEF CommittedVariants, Other
<1>5. \A old \in CommittedVariants : \E row \in CommittedVariants' : Key(row) = Key(old) /\ row.by = old.by
    <2> SUFFICES ASSUME NEW old \in CommittedVariants
                 PROVE  \E seen \in Visible(p) : Key(seen) = Key(old) /\ seen.by = old.by
        BY <1>2
    <2>1. CASE old \in Visible(p)
        BY <2>1
    <2>2. CASE old \notin Visible(p)
        <3>1. PICK own \in Own(p) : Key(own) = Key(old)
            BY <2>2 DEF Visible, CommittedVariants
        <3>2. own \in Visible(p) /\ own \in variants /\ old \in variants
            BY DEF Visible, Own, CommittedVariants
        <3>3. own.by = old.by
            BY <3>1, <3>2 DEF Whole, OneAuthor
        <3> QED BY <3>1, <3>2, <3>3
    <2> QED BY <2>1, <2>2
<1>6. OneAuthor'
    <2>1. \A row \in variants' : \E old \in variants : Key(row) = Key(old) /\ row.by = old.by
        BY <1>2, <1>3
    <2>2. \A r1, r2 \in variants' : Key(r1) = Key(r2) => r1.by = r2.by
        BY <2>1 DEF Whole, OneAuthor
    <2> QED BY <2>2 DEF OneAuthor, Key
<1>7. Authored'
    <2>1. \A row \in variants' : row.tx \in {Committed, row.by} \/ \E old \in CommittedVariants' : Key(old) = Key(row)
        BY <1>2, <1>3, <1>5 DEF Whole, Authored
    <2> QED BY <2>1 DEF Authored, Key
<1>8. ASSUME p \in Clients
      PROVE  /\ \E body \in Bodies : FiledBy(p)' = Asked(body)
             /\ \A old \in Own(p) : old.by = p /\ \E product \in products : product.id = old.product /\ product.tx = p
    <2>1. AtEnd(p) /\ work[p] # Idle /\ Underway(p)
        BY <1>8 DEF Whole, AtEnd
    <2>2. PICK body \in Bodies : work[p].job = JobOf(body) /\ (Before(p) \/ Between(p, body))
        BY <2>1 DEF Underway
    <2>3. Between(p, body) /\ Written(p) = Asked(body)
        BY <1>8, <2>1, <2>2, Standing
    <2>4. \A row \in CommittedVariants : row.by # p
        BY <1>8, <2>1 DEF Underway, Whole, Filed
    <2>5. \A row \in CommittedVariants' : row.by = p => row.signature \in Written(p)
        <3> SUFFICES ASSUME NEW row \in CommittedVariants', row.by = p PROVE row.signature \in Written(p)
            OBVIOUS
        <3>1. PICK old \in Visible(p) : Key(row) = Key(old) /\ row.by = old.by
            BY <1>4
        <3>2. old \in Own(p) /\ row.signature = old.signature
            BY <1>3, <2>4, <3>1, KeyParts
        <3> QED BY <3>2 DEF Written
    <2>6. \A old \in Own(p) : \E row \in CommittedVariants' : row.by = p /\ row.signature = old.signature
        <3> SUFFICES ASSUME NEW old \in Own(p)
                     PROVE  \E row \in CommittedVariants' : row.by = p /\ row.signature = old.signature
            OBVIOUS
        <3>1. old \in Visible(p)
            BY DEF Visible, Own
        <3>2. PICK row \in CommittedVariants' : Key(row) = Key(old) /\ row.by = old.by
            BY <1>2, <3>1
        <3> QED BY <2>3, <3>2, KeyParts DEF Between
    <2>7. FiledBy(p)' = Written(p)
        BY <2>5, <2>6 DEF FiledBy, Written
    <2> QED BY <2>3, <2>7 DEF Between
<1>9. ASSUME NEW product \in products, product.tx \in {p, Committed}
      PROVE  \E settled \in products' : settled.id = product.id /\ settled.tx = Committed
    <2> DEFINE settled == [product EXCEPT !.tx = IF @ = p THEN Committed ELSE @]
    <2>1. settled \in products'
        BY DEF Publish
    <2>2. product = [id |-> product.id, name |-> product.name, tx |-> product.tx]
        BY DEF Types, IsProduct
    <2>3. settled.id = product.id /\ settled.tx = Committed
        BY <1>9, <2>2
    <2> QED BY <2>1, <2>3
<1>10. \A c \in Clients \ {p} : answer'[c] = answer[c]
    BY <1>1
<1>11. Filed'
    <2> SUFFICES ASSUME NEW row \in CommittedVariants', row.by \in Clients
                 PROVE  /\ answer'[row.by] = "201"
                        /\ \E product \in products' : product.id = row.product /\ product.tx = Committed
        BY DEF Filed
    <2>1. PICK old \in Visible(p) : Key(row) = Key(old) /\ row.by = old.by
        BY <1>4
    <2>2. row.product = old.product
        BY <2>1, KeyParts
    <2>3. CASE old \in Own(p) /\ p \in Clients
        <3>1. old.by = p /\ \E product \in products : product.id = old.product /\ product.tx = p
            BY <1>8, <2>3
        <3>2. answer'[p] = "201"
            BY <1>1, <2>3
        <3> QED BY <1>9, <2>1, <2>2, <3>1, <3>2
    <2>4. CASE ~(old \in Own(p) /\ p \in Clients)
        <3>1. \E filed \in CommittedVariants : filed.product = old.product /\ filed.by = old.by
            <4>1. CASE old \in CommittedVariants
                BY <4>1
            <4>2. CASE old \notin CommittedVariants
                <5>1. old \in Own(p) /\ p \notin Clients /\ old \in variants /\ old.tx = p
                    BY <1>3, <2>4, <4>2
                <5>2. old.by # p
                    BY <2>1, <5>1
                <5>3. PICK filed \in CommittedVariants : Key(filed) = Key(old)
                    BY <1>1, <5>1, <5>2 DEF Whole, Authored
                <5> QED BY <1>3, <5>1, <5>3, KeyParts DEF Whole, OneAuthor
            <4> QED BY <4>1, <4>2
        <3>2. answer[row.by] = "201" /\ \E product \in products : product.id = row.product /\ product.tx = Committed
            BY <2>1, <2>2, <3>1 DEF Whole, Filed
        <3>3. row.by # p
            <4>1. p \in Clients => answer[p] = "none"
                BY DEF Whole, Underway, AtEnd
            <4> QED BY <3>2, <4>1
        <3> QED BY <1>9, <1>10, <3>2, <3>3
    <2> QED BY <2>3, <2>4
<1>12. ASSUME NEW c \in Clients, c # p
       PROVE  FiledBy(c)' = FiledBy(c)
    <2>1. \A row \in CommittedVariants : row.by = c => row.signature \in FiledBy(c)'
        <3> SUFFICES ASSUME NEW row \in CommittedVariants, row.by = c PROVE row.signature \in FiledBy(c)'
            OBVIOUS
        <3>1. PICK now \in CommittedVariants' : Key(now) = Key(row) /\ now.by = row.by
            BY <1>5
        <3> QED BY <3>1, KeyParts DEF FiledBy
    <2>2. \A row \in CommittedVariants' : row.by = c => row.signature \in FiledBy(c)
        <3> SUFFICES ASSUME NEW row \in CommittedVariants', row.by = c PROVE row.signature \in FiledBy(c)
            OBVIOUS
        <3>1. PICK old \in Visible(p) : Key(row) = Key(old) /\ row.by = old.by
            BY <1>4
        <3>2. \E filed \in CommittedVariants : Key(filed) = Key(old) /\ filed.by = old.by
            <4>1. CASE old \in CommittedVariants
                BY <4>1
            <4>2. CASE old \notin CommittedVariants
                <5>1. old \in variants /\ old.tx = p /\ old.by # p
                    BY <1>3, <1>12, <3>1, <4>2
                <5>2. PICK filed \in CommittedVariants : Key(filed) = Key(old)
                    BY <1>1, <5>1 DEF Whole, Authored
                <5> QED BY <1>3, <5>1, <5>2 DEF Whole, OneAuthor
            <4> QED BY <4>1, <4>2
        <3>3. PICK filed \in CommittedVariants : Key(filed) = Key(old) /\ filed.by = old.by
            BY <3>2
        <3>4. filed.signature = row.signature /\ filed.by = c
            BY <3>1, <3>3, KeyParts
        <3> QED BY <3>4 DEF FiledBy
    <2> QED BY <2>1, <2>2 DEF FiledBy
<1>13. Answered'
    <2>1. ASSUME NEW c \in Clients, answer'[c] = "201"
          PROVE  \E body \in Bodies : FiledBy(c)' = Asked(body)
        <3>1. CASE c = p
            BY <1>8, <3>1
        <3>2. CASE c # p
            BY <1>10, <1>12, <2>1, <3>2 DEF Whole, Answered
        <3> QED BY <3>1, <3>2
    <2> QED BY <2>1 DEF Answered, Asked, SignatureAt
<1>14. ASSUME NEW c \in Clients, work'[c] # Idle
       PROVE  Underway(c)'
    <2>1. c # p
        BY <1>1, <1>14
    <2>2. \A product \in products : product.tx # p => product \in products'
        <3> SUFFICES ASSUME NEW product \in products, product.tx # p PROVE product \in products'
            OBVIOUS
        <3>1. product = [id |-> product.id, name |-> product.name, tx |-> product.tx]
            BY DEF Types, IsProduct
        <3>2. [product EXCEPT !.tx = IF @ = p THEN Committed ELSE @] \in products'
            BY DEF Publish
        <3> QED BY <3>1, <3>2
    <2> QED BY <1>1, <1>2, <1>14, <2>1, <2>2, OthersKept
<1> QED BY <1>6, <1>7, <1>11, <1>13, <1>14 DEF Whole

LEMMA NextWhole == Types /\ Whole /\ [Next]_vars => Whole'
<1> SUFFICES ASSUME Types, Whole, [Next]_vars PROVE Whole'
    OBVIOUS
<1>1. ASSUME NEW p \in Processes, InsertProduct(p)
      PROVE  Whole'
    BY <1>1, InsertWhole
<1>2. ASSUME NEW p \in Processes, WriteVariant(p)
      PROVE  Whole'
    BY <1>2, WriteWhole
<1>3. ASSUME NEW p \in Processes, ProductExists(p) \/ UniqueViolation(p) \/ DeadlockDetected(p) \/ Die(p)
      PROVE  Whole'
    <2>1. PICK outcome \in Outcomes \ {"201"} : Rollback(p, outcome)
        BY <1>3, RolledBack
    <2>2. work[p] # Idle
        <3>1. DeadlockDetected(p) => AtProduct(p) \/ AtVariant(p)
            BY DEF DeadlockDetected, Stuck, WaitsFor
        <3> QED BY <1>3, <3>1, AtNotIdle DEF ProductExists, UniqueViolation, Die
    <2> QED BY <2>1, <2>2, RollbackWhole
<1>4. ASSUME NEW p \in Processes, Commit(p) \/ CommitSeed(p)
      PROVE  Whole'
    <2>1. Commit(p) => Whole'
        BY PublishWhole DEF Commit
    <2>2. CommitSeed(p) => Whole'
        BY PublishWhole, CatalogAssumption DEF CommitSeed
    <2> QED BY <1>4, <2>1, <2>2
<1>5. \/ Deploy \/ UNCHANGED vars
      \/ \E c \in Clients, body \in Bodies : Refuse(c, body) \/ CreateProduct(c, body)
      \/ \E s \in Seeders : StartSeed(s)
      \/ \E p \in Processes : FindProduct(p)
      \/ \E p \in Processes : InsertProduct(p) \/ WriteVariant(p) \/ Commit(p) \/ CommitSeed(p)
                \/ ProductExists(p) \/ UniqueViolation(p) \/ DeadlockDetected(p) \/ Die(p)
    BY DEF Next, Step
<1> QED BY <1>1, <1>2, <1>3, <1>4, <1>5, QuietStepsWhole

(* A variant of a request is in the catalogue only if the request was      *)
(* answered 201, and then with its product and with all that its body      *)
(* asked for, also after a seed has taken them over, and whatever request, *)
(* seed, refusal, deadlock or crash ran beside it.                         *)
THEOREM CreationIsWhole == Spec => []CreatedIsWhole
<1>1. Types /\ Whole => CreatedIsWhole
    BY DEF Whole, Filed, Answered, Asked, SignatureAt, FiledBy, CreatedIsWhole
<1>2. Init => Types /\ Whole
    BY InitTypes, InitWhole
<1>3. Types /\ Whole /\ [Next]_vars => (Types /\ Whole)'
    BY NextTypes, NextWhole
<1> QED BY <1>1, <1>2, <1>3, PTL DEF Spec

-----------------------------------------------------------------------------
(* What a signature tells of a variant of the registry *)

Alone(attributes, n, i) == \A j \in 1 .. n : Lower[attributes[j][1]] = Lower[attributes[i][1]] => j = i
Said(signature, attributes, n, i) ==
    /\ signature[Lower[attributes[i][1]]] = Lower[attributes[i][2]]
    /\ DOMAIN signature = {Lower[attributes[j][1]] : j \in 1 .. n}

LEMMA SignatureTells ==
    ASSUME NEW attributes, NEW n \in Nat, DOMAIN attributes = 1 .. n, NEW i \in 1 .. n, Alone(attributes, n, i)
    PROVE  Said(ComputeSignature(attributes), attributes, n, i)
<1> DEFINE pairs == Lowered(attributes)
           key == Lower[attributes[i][1]]
           IsLast(k, j) == pairs[j][1] = k /\ \A l \in DOMAIN pairs : pairs[l][1] = k => l <= j
           Last(k) == CHOOSE j \in DOMAIN pairs : IsLast(k, j)
<1>1. ComputeSignature(attributes) = [k \in {pairs[j][1] : j \in DOMAIN pairs} |-> pairs[Last(k)][2]]
    BY Zenon DEF ComputeSignature
<1>2. /\ DOMAIN pairs = 1 .. n
      /\ \A j \in 1 .. n : pairs[j][1] = Lower[attributes[j][1]] /\ pairs[j][2] = Lower[attributes[j][2]]
    BY DEF Lowered
<1> HIDE DEF pairs
<1>3. \A j \in DOMAIN pairs : IsLast(key, j) <=> j = i
    BY <1>2 DEF Alone
<1>4. Last(key) = i
    <2> HIDE DEF IsLast
    <2> QED BY <1>2, <1>3
<1>5. key \in {pairs[j][1] : j \in DOMAIN pairs}
    BY <1>2
<1>6. {pairs[j][1] : j \in DOMAIN pairs} = {Lower[attributes[j][1]] : j \in 1 .. n}
    BY <1>2
<1> HIDE DEF Last
<1> QED BY <1>1, <1>2, <1>4, <1>5, <1>6 DEF Said

Attributes(device, pair) ==
    (IF device.identity
     THEN << <<"brand", Lower[device.brand]>>, <<"model", device.model>>, <<"region", "br">> >>
     ELSE <<>>) \o << <<"storage_gb", pair[1]>>, <<"color", pair[2]>> >>

LEMMA JoinedFive ==
    ASSUME NEW a, NEW b, NEW c, NEW d, NEW e
    PROVE  LET s == <<a, b, c>> \o <<d, e>>
           IN  DOMAIN s = 1 .. 5 /\ s[1] = a /\ s[2] = b /\ s[3] = c /\ s[4] = d /\ s[5] = e
OBVIOUS

LEMMA JoinedTwo ==
    ASSUME NEW d, NEW e
    PROVE  LET s == <<>> \o <<d, e>> IN DOMAIN s = 1 .. 2 /\ s[1] = d /\ s[2] = e
OBVIOUS

(* What it says of the device and of the pair. *)
Tells(signature, device, pair) ==
    /\ signature["storage_gb"] = Lower[pair[1]] /\ signature["color"] = Lower[pair[2]]
    /\ device.identity => signature["model"] = Lower[device.model]
    /\ "model" \in DOMAIN signature <=> device.identity

LEMMA AttributesTell ==
    ASSUME NEW device, device.identity \in BOOLEAN, NEW pair
    PROVE  Tells(ComputeSignature(Attributes(device, pair)), device, pair)
<1> DEFINE attributes == Attributes(device, pair)
           signature == ComputeSignature(attributes)
           Same(i, j) == Lower[attributes[j][1]] = Lower[attributes[i][1]]
<1>0. \A key \in {"brand", "model", "region", "storage_gb", "color"} : Lower[key] = key
    BY RegistryAssumption
<1>1. CASE device.identity
    <2>1. attributes = << <<"brand", Lower[device.brand]>>, <<"model", device.model>>, <<"region", "br">> >>
                       \o << <<"storage_gb", pair[1]>>, <<"color", pair[2]>> >>
        BY <1>1, Zenon DEF Attributes
    <2> HIDE DEF attributes
    <2>2. /\ DOMAIN attributes = 1 .. 5
          /\ attributes[1] = <<"brand", Lower[device.brand]>> /\ attributes[2] = <<"model", device.model>>
          /\ attributes[3] = <<"region", "br">> /\ attributes[4] = <<"storage_gb", pair[1]>>
          /\ attributes[5] = <<"color", pair[2]>>
        BY <2>1, JoinedFive
    <2>3. /\ Lower[attributes[1][1]] = "brand" /\ Lower[attributes[2][1]] = "model"
          /\ Lower[attributes[3][1]] = "region" /\ Lower[attributes[4][1]] = "storage_gb"
          /\ Lower[attributes[5][1]] = "color"
          /\ Lower[attributes[2][2]] = Lower[device.model]
          /\ Lower[attributes[4][2]] = Lower[pair[1]] /\ Lower[attributes[5][2]] = Lower[pair[2]]
        BY <1>0, <2>2
    <2>4. 5 \in Nat /\ \A i : i \in 1 .. 5 <=> i \in {1, 2, 3, 4, 5}
        OBVIOUS
    <2>5. \A i, j \in 1 .. 5 : Same(i, j) => j = i
        BY <2>3, <2>4
    <2>6. ASSUME NEW i \in 1 .. 5
          PROVE  Said(signature, attributes, 5, i)
        <3>1. Alone(attributes, 5, i)
            BY <2>5 DEF Alone
        <3> QED BY <2>2, <2>4, <3>1, SignatureTells
    <2> HIDE DEF signature
    <2>7. /\ signature["storage_gb"] = Lower[pair[1]] /\ signature["color"] = Lower[pair[2]]
          /\ signature["model"] = Lower[device.model]
        BY <2>3, <2>4, <2>6 DEF Said
    <2>8. "model" \in DOMAIN signature
        BY <2>3, <2>4, <2>6 DEF Said
    <2> QED BY <1>1, <2>7, <2>8 DEF signature, attributes, Tells
<1>2. CASE ~device.identity
    <2>1. attributes = <<>> \o << <<"storage_gb", pair[1]>>, <<"color", pair[2]>> >>
        BY <1>2, Zenon DEF Attributes
    <2> HIDE DEF attributes
    <2>2. /\ DOMAIN attributes = 1 .. 2
          /\ attributes[1] = <<"storage_gb", pair[1]>> /\ attributes[2] = <<"color", pair[2]>>
        BY <2>1, JoinedTwo, Zenon
    <2>3. /\ Lower[attributes[1][1]] = "storage_gb" /\ Lower[attributes[2][1]] = "color"
          /\ Lower[attributes[1][2]] = Lower[pair[1]] /\ Lower[attributes[2][2]] = Lower[pair[2]]
        BY <1>0, <2>2
    <2>4. 2 \in Nat /\ \A i : i \in 1 .. 2 <=> i \in {1, 2}
        OBVIOUS
    <2>5. \A i, j \in 1 .. 2 : Same(i, j) => j = i
        BY <2>3, <2>4
    <2>6. ASSUME NEW i \in 1 .. 2
          PROVE  Said(signature, attributes, 2, i)
        <3>1. Alone(attributes, 2, i)
            BY <2>5 DEF Alone
        <3> QED BY <2>2, <2>4, <3>1, SignatureTells
    <2> HIDE DEF signature
    <2>7. /\ signature["storage_gb"] = Lower[pair[1]] /\ signature["color"] = Lower[pair[2]]
        BY <2>3, <2>4, <2>6 DEF Said
    <2>8. "model" \notin DOMAIN signature
        BY <2>3, <2>4, <2>6 DEF Said
    <2> QED BY <1>2, <2>7, <2>8 DEF signature, attributes, Tells
<1> QED BY <1>1, <1>2

LEMMA EntryTells ==
    ASSUME NEW n \in DOMAIN Registries, NEW i \in DOMAIN SeedJobs[n], NEW k \in DOMAIN SeedJobs[n][i].variants
    PROVE  LET device == Registries[n].products[i]
               pair == Combinations(device)[k]
           IN  /\ i \in DOMAIN Registries[n].products /\ k \in DOMAIN Combinations(device)
               /\ SeedJobs[n][i].name = device.name
               /\ SeedJobs[n][i].variants[k].signature = ComputeSignature(Attributes(device, pair))
               /\ SeedJobs[n][i].variants[k].gtin = IF pair \in DOMAIN device.gtins THEN device.gtins[pair] ELSE NoGtin
<1> DEFINE device == Registries[n].products[i]
           pair == Combinations(device)[k]
           asked == RegistryVariants(device)
<1>1. /\ SeedJobs[n] = [j \in DOMAIN Registries[n].products |->
                            Entry(Registries[n].products[j].name, RegistryVariants(Registries[n].products[j]))]
      /\ i \in DOMAIN Registries[n].products
    BY DEF SeedJobs
<1>2. SeedJobs[n][i] = Entry(device.name, asked)
    BY <1>1
<1>3. /\ SeedJobs[n][i].name = device.name /\ k \in DOMAIN asked
      /\ SeedJobs[n][i].variants[k].signature = ComputeSignature(asked[k].attributes)
      /\ SeedJobs[n][i].variants[k].gtin = asked[k].gtin
    BY <1>2 DEF Entry
<1>4. k \in DOMAIN Combinations(device)
    BY <1>3 DEF RegistryVariants
<1>5. asked[k] = [attributes |-> Attributes(device, pair),
                  gtin |-> IF pair \in DOMAIN device.gtins THEN device.gtins[pair] ELSE NoGtin]
    BY <1>4, Zenon DEF RegistryVariants, Attributes
<1> HIDE DEF device, pair, asked
<1>6. asked[k].attributes = Attributes(device, pair)
      /\ asked[k].gtin = IF pair \in DOMAIN device.gtins THEN device.gtins[pair] ELSE NoGtin
    BY <1>5
<1> QED BY <1>1, <1>3, <1>4, <1>6 DEF device, pair

(* Variants of one signature are variants of one device, and the same one. *)
LEMMA SameSignature ==
    ASSUME NEW n1 \in DOMAIN Registries, NEW i1 \in DOMAIN SeedJobs[n1], NEW k1 \in DOMAIN SeedJobs[n1][i1].variants,
           NEW n2 \in DOMAIN Registries, NEW i2 \in DOMAIN SeedJobs[n2], NEW k2 \in DOMAIN SeedJobs[n2][i2].variants,
           SeedJobs[n1][i1].variants[k1].signature = SeedJobs[n2][i2].variants[k2].signature
    PROVE  /\ SeedJobs[n1][i1].name = SeedJobs[n2][i2].name
           /\ n1 = n2 => /\ i1 = i2
                         /\ SeedJobs[n1][i1].variants[k1].gtin = SeedJobs[n2][i2].variants[k2].gtin
<1> DEFINE d1 == Registries[n1].products[i1]
           d2 == Registries[n2].products[i2]
           p1 == Combinations(d1)[k1]
           p2 == Combinations(d2)[k2]
<1>1. /\ i1 \in DOMAIN Registries[n1].products /\ k1 \in DOMAIN Combinations(d1)
      /\ i2 \in DOMAIN Registries[n2].products /\ k2 \in DOMAIN Combinations(d2)
    BY EntryTells
<1>2. d1.identity \in BOOLEAN /\ d2.identity \in BOOLEAN /\ ToldApart(d1, d2)
    BY <1>1, RegistryAssumption
<1>3. n1 = n2 /\ d1.name = d2.name => i1 = i2
    BY <1>1, RegistryAssumption
<1>4. /\ SeedJobs[n1][i1].name = d1.name /\ SeedJobs[n2][i2].name = d2.name
      /\ ComputeSignature(Attributes(d1, p1)) = ComputeSignature(Attributes(d2, p2))
      /\ SeedJobs[n1][i1].variants[k1].gtin = IF p1 \in DOMAIN d1.gtins THEN d1.gtins[p1] ELSE NoGtin
      /\ SeedJobs[n2][i2].variants[k2].gtin = IF p2 \in DOMAIN d2.gtins THEN d2.gtins[p2] ELSE NoGtin
    BY EntryTells
<1>5. n1 = n2 /\ i1 = i2 => d1 = d2
    OBVIOUS
<1>6. Alike(p1, p2) => /\ ~d1.identity /\ ~d2.identity => d1.name = d2.name
                       /\ d1 = d2 => p1 = p2
    BY <1>1, <1>2 DEF ToldApart
<1> HIDE DEF d1, d2, p1, p2
<1>7. /\ Alike(p1, p2) /\ (d1.identity <=> d2.identity)
      /\ d1.identity => Lower[d1.model] = Lower[d2.model]
    <2> DEFINE s1 == ComputeSignature(Attributes(d1, p1))
               s2 == ComputeSignature(Attributes(d2, p2))
    <2>1. Tells(s1, d1, p1) /\ Tells(s2, d2, p2)
        BY <1>2, AttributesTell
    <2>2. s1 = s2
        BY <1>4
    <2> HIDE DEF s1, s2
    <2> QED BY <2>1, <2>2 DEF Tells, Alike
<1>8. d1.name = d2.name
    BY <1>2, <1>6, <1>7 DEF ToldApart
<1> QED BY <1>3, <1>4, <1>5, <1>6, <1>7, <1>8

-----------------------------------------------------------------------------
(* A seed, how far it has come *)

(* p sees a product of this name and id. *)
Knows(listed, p, name, id) ==
    \E row \in listed : row.name = name /\ row.id = id /\ row.tx \in {p, Committed}

(* A row of the product id is the variant that is wanted, with its code. *)
Holds(row, id, wanted) ==
    Key(row) = <<id, wanted.signature>> /\ (wanted.gtin # NoGtin => row.gtin = wanted.gtin)
Stored(rows, id, wanted) == \E row \in rows : Holds(row, id, wanted)

(* The first m variants of an entry are among the rows, under this id. *)
Filled(listed, p, rows, id, entry, m) ==
    Knows(listed, p, entry.name, id) /\ \A k \in 1 .. m : Stored(rows, id, entry.variants[k])
Complete(listed, p, rows, n, entry) ==
    \E id \in 1 .. n : Filled(listed, p, rows, id, entry, Len(entry.variants))

(* A seed has written what its list says up to where it stands. *)
Reached(w, listed, s, own, n) ==
    /\ \A i \in DOMAIN w.job : i < w.i => Complete(listed, s, own, n, w.job[i])
    /\ w.i \in DOMAIN w.job /\ w.j # 0 => Filled(listed, s, own, w.product, w.job[w.i], w.j - 1)

(* And nothing else. *)
Listed(row, listed, p, job) ==
    \E i \in DOMAIN job : \E k \in DOMAIN job[i].variants :
        Knows(listed, p, job[i].name, row.product) /\ Holds(row, row.product, job[i].variants[k])
OnlyListed(listed, s, own, job) == \A row \in own : Listed(row, listed, s, job)

Loaded(w) == w.version \in DOMAIN Registries /\ w.job = SeedJobs[w.version]
Progress(s) ==
    Loaded(work[s]) /\ Reached(work[s], products, s, Own(s), ids) /\ OnlyListed(products, s, Own(s), work[s].job)

(* A client changes no row that was there before. *)
NewKeys == \A row \in variants : row.tx \in Clients => \A old \in CommittedVariants : Key(old) # Key(row)

(* What a seed has created is a variant of a registry, under its name. *)
Curated(row, listed) ==
    \E n \in DOMAIN Registries : \E i \in DOMAIN SeedJobs[n] : \E k \in DOMAIN SeedJobs[n][i].variants :
        /\ row.signature = SeedJobs[n][i].variants[k].signature
        /\ Knows(listed, row.tx, SeedJobs[n][i].name, row.product)
FromRegistry == \A row \in variants : row.by \in Seeders => Curated(row, products)

(* What was seeded last is in the catalogue. *)
OnShelf ==
    seeded # 0 =>
        /\ seeded \in DOMAIN Registries
        /\ \A i \in DOMAIN SeedJobs[seeded] :
            Complete(products, Committed, CommittedVariants, ids, SeedJobs[seeded][i])

Seeding ==
    /\ \A s \in Seeders : work[s] # Idle => Progress(s)
    /\ NewKeys /\ FromRegistry /\ OnShelf

-----------------------------------------------------------------------------
(* What stays *)

KeepsNames(listed, p, now, q) == \A name, id : Knows(listed, p, name, id) => Knows(now, q, name, id)
KeepsRows(rows, now) == \A row \in rows : \E r \in now : Key(r) = Key(row) /\ r.gtin = row.gtin

LEMMA StoredStays ==
    ASSUME NEW rows, NEW now, KeepsRows(rows, now), NEW id, NEW wanted, Stored(rows, id, wanted)
    PROVE  Stored(now, id, wanted)
BY DEF KeepsRows, Stored, Holds

LEMMA FilledStays ==
    ASSUME NEW listed, NEW p, NEW rows, NEW id, NEW entry, NEW m, Filled(listed, p, rows, id, entry, m),
           NEW listed2, NEW q, NEW rows2, KeepsNames(listed, p, listed2, q), KeepsRows(rows, rows2)
    PROVE  Filled(listed2, q, rows2, id, entry, m)
BY StoredStays DEF Filled, KeepsNames

LEMMA CompleteStays ==
    ASSUME NEW listed, NEW p, NEW rows, NEW n \in Nat, NEW entry, Complete(listed, p, rows, n, entry),
           NEW listed2, NEW q, NEW rows2, KeepsNames(listed, p, listed2, q), KeepsRows(rows, rows2),
           NEW n2 \in Nat, n <= n2
    PROVE  Complete(listed2, q, rows2, n2, entry)
<1>1. PICK id \in 1 .. n : Filled(listed, p, rows, id, entry, Len(entry.variants))
    BY DEF Complete
<1>2. id \in 1 .. n2
    OBVIOUS
<1>3. Filled(listed2, q, rows2, id, entry, Len(entry.variants))
    BY <1>1, FilledStays
<1> QED BY <1>2, <1>3 DEF Complete

LEMMA ReachedStays ==
    ASSUME NEW w, NEW s, NEW listed, NEW own, NEW n \in Nat, Reached(w, listed, s, own, n),
           NEW listed2, NEW own2, KeepsNames(listed, s, listed2, s), KeepsRows(own, own2),
           NEW n2 \in Nat, n <= n2
    PROVE  Reached(w, listed2, s, own2, n2)
<1>1. \A i \in DOMAIN w.job : i < w.i => Complete(listed2, s, own2, n2, w.job[i])
    BY CompleteStays DEF Reached
<1>2. w.i \in DOMAIN w.job /\ w.j # 0 => Filled(listed2, s, own2, w.product, w.job[w.i], w.j - 1)
    BY FilledStays DEF Reached
<1> QED BY <1>1, <1>2 DEF Reached

LEMMA SameRows == \A rows : KeepsRows(rows, rows)
BY DEF KeepsRows

LEMMA SameNames == \A listed, p : KeepsNames(listed, p, listed, p)
BY DEF KeepsNames

LEMMA MoreNames ==
    ASSUME NEW listed, NEW listed2, NEW p, \A row \in listed : row.tx \in {p, Committed} => row \in listed2
    PROVE  KeepsNames(listed, p, listed2, p)
BY DEF KeepsNames, Knows

LEMMA OnlyStays ==
    ASSUME NEW listed, NEW listed2, NEW s, NEW own, NEW job, OnlyListed(listed, s, own, job),
           KeepsNames(listed, s, listed2, s)
    PROVE  OnlyListed(listed2, s, own, job)
<1>1. ASSUME NEW row \in own PROVE Listed(row, listed2, s, job)
    <2>1. PICK i \in DOMAIN job : \E k \in DOMAIN job[i].variants :
            Knows(listed, s, job[i].name, row.product) /\ Holds(row, row.product, job[i].variants[k])
        BY DEF OnlyListed, Listed
    <2>2. Knows(listed2, s, job[i].name, row.product)
        BY <2>1 DEF KeepsNames
    <2> QED BY <2>1, <2>2 DEF Listed
<1> QED BY <1>1 DEF OnlyListed

(* A seed that does not take the step. *)
LEMMA ProgressStays ==
    ASSUME Types, Types', NEW s \in Seeders, Progress(s), work'[s] = work[s], Own(s)' = Own(s), ids <= ids',
           KeepsNames(products, s, products', s)
    PROVE  Progress(s)'
<1>1. ids \in Nat /\ ids' \in Nat
    BY DEF Types
<1>2. Reached(work[s], products', s, Own(s), ids')
    BY <1>1, ReachedStays, SameRows DEF Progress
<1>3. OnlyListed(products', s, Own(s), work[s].job)
    BY OnlyStays DEF Progress
<1> QED BY <1>2, <1>3 DEF Progress

LEMMA ShelfStays ==
    ASSUME Types, Types', OnShelf, UNCHANGED seeded, ids <= ids',
           KeepsNames(products, Committed, products', Committed),
           KeepsRows(CommittedVariants, CommittedVariants')
    PROVE  OnShelf'
<1>1. ids \in Nat /\ ids' \in Nat
    BY DEF Types
<1>2. \A i \in DOMAIN SeedJobs[seeded] :
        Complete(products, Committed, CommittedVariants, ids, SeedJobs[seeded][i]) =>
        Complete(products', Committed, CommittedVariants', ids', SeedJobs[seeded][i])
    BY <1>1, CompleteStays
<1> QED BY <1>2 DEF OnShelf

-----------------------------------------------------------------------------
(* The next statement of a seed *)

LEMMA ReachedNext ==
    ASSUME NEW w \in Works, NEW next, NEW id, NEW s, NEW listed, NEW listed2, NEW own, NEW own2,
           NEW n \in Nat, NEW n2 \in Nat, n <= n2, id \in 1 .. n2,
           IsList(w.job), w.i \in DOMAIN w.job, IsList(w.job[w.i].variants), w.j <= Len(w.job[w.i].variants),
           next.job = w.job, next.product = id,
           w.j < Len(w.job[w.i].variants) => next.i = w.i /\ next.j = w.j + 1,
           ~(w.j < Len(w.job[w.i].variants)) => next.i = w.i + 1 /\ next.j = 0,
           Reached(w, listed, s, own, n), KeepsNames(listed, s, listed2, s), KeepsRows(own, own2),
           Filled(listed2, s, own2, id, w.job[w.i], w.j)
    PROVE  Reached(next, listed2, s, own2, n2)
<1> DEFINE entry == w.job[w.i]
           m == Len(entry.variants)
<1>1. w.i \in Nat /\ w.j \in Nat /\ m \in Nat /\ DOMAIN w.job \subseteq Nat
    BY DEF Works, IsList
<1>2. \A i \in DOMAIN w.job : i < w.i => Complete(listed2, s, own2, n2, w.job[i])
    BY CompleteStays DEF Reached
<1>3. CASE w.j < m
    <2>1. next.i = w.i /\ next.j - 1 = w.j
        BY <1>1, <1>3
    <2> QED BY <1>2, <2>1 DEF Reached
<1>4. CASE ~(w.j < m)
    <2>1. w.j = m /\ next.i = w.i + 1 /\ next.j = 0
        BY <1>1, <1>4
    <2>2. Complete(listed2, s, own2, n2, entry)
        BY <2>1 DEF Complete
    <2>3. \A i \in DOMAIN w.job : i < w.i + 1 => i < w.i \/ i = w.i
        BY <1>1
    <2> QED BY <1>2, <2>1, <2>2, <2>3 DEF Reached
<1> QED BY <1>3, <1>4

(* The step of a seed that finds, inserts or writes. *)
LEMMA ProgressNext ==
    ASSUME Types, Types', NEW s \in Seeders, Progress(s), AtProduct(s) \/ AtVariant(s),
           NEW id \in 1 .. ids', work'[s] = Advanced(s, id), ids <= ids',
           KeepsNames(products, s, products', s), KeepsRows(Own(s), Own(s)'),
           Filled(products', s, Own(s)', id, Here(s), work[s].j),
           OnlyListed(products', s, Own(s)', work[s].job)
    PROVE  Progress(s)'
<1> DEFINE w == work[s]
           next == Advanced(s, id)
<1>1. s \in Processes
    BY DEF Processes
<1>2. /\ w \in Works /\ IsList(w.job) /\ w.i \in DOMAIN w.job /\ IsList(w.job[w.i].variants)
    BY <1>1, Working, AtNotIdle DEF AtProduct, AtVariant
<1>3. w.j <= Len(w.job[w.i].variants)
    BY <1>2 DEF AtProduct, AtVariant, IsList, Here
<1>4. id \in Nat /\ ids \in Nat /\ ids' \in Nat
    BY DEF Types
<1>5. /\ next.product = id /\ next.job = w.job /\ next.version = w.version
      /\ w.j < Len(w.job[w.i].variants) => next.i = w.i /\ next.j = w.j + 1
      /\ ~(w.j < Len(w.job[w.i].variants)) => next.i = w.i + 1 /\ next.j = 0
    BY <1>1, <1>4, AdvancedIs DEF Here
<1>6. Loaded(w) /\ Reached(w, products, s, Own(s), ids)
    BY DEF Progress
<1>7. Filled(products', s, Own(s)', id, w.job[w.i], w.j)
    BY DEF Here
<1> HIDE DEF w, next
<1>8. Reached(next, products', s, Own(s)', ids')
    BY <1>2, <1>3, <1>4, <1>5, <1>6, <1>7, ReachedNext
<1>9. Loaded(next)
    BY <1>5, <1>6 DEF Loaded
<1>10. OnlyListed(products', s, Own(s)', next.job)
    BY <1>5 DEF w
<1> QED BY <1>8, <1>9, <1>10 DEF Progress, next

-----------------------------------------------------------------------------
(* Every step *)

LEMMA InitSeeding == Init => Seeding
<1> SUFFICES ASSUME Init PROVE Seeding
    OBVIOUS
<1>1. variants = {} /\ seeded = 0 /\ \A p \in Processes : work[p] = Idle
    BY DEF Init
<1> QED BY <1>1 DEF Seeding, NewKeys, FromRegistry, OnShelf, Processes

LEMMA OthersProgress ==
    ASSUME Types, Types', Seeding, NEW p \in Processes, ids <= ids',
           NEW w, work' = [work EXCEPT ![p] = w],
           \A q \in Processes \ {p} : Own(q)' = Own(q) /\ KeepsNames(products, q, products', q),
           p \in Seeders /\ w # Idle => Progress(p)'
    PROVE  \A s \in Seeders : work'[s] # Idle => Progress(s)'
<1> SUFFICES ASSUME NEW s \in Seeders, work'[s] # Idle PROVE Progress(s)'
    OBVIOUS
<1>1. s \in Processes /\ work \in [Processes -> Works]
    BY DEF Processes, Types
<1>2. CASE s = p
    BY <1>1, <1>2
<1>3. CASE s # p
    <2>1. work'[s] = work[s] /\ Own(s)' = Own(s) /\ KeepsNames(products, s, products', s)
        BY <1>1, <1>3
    <2>2. Progress(s)
        BY <2>1 DEF Seeding
    <2> QED BY <2>1, <2>2, ProgressStays
<1> QED BY <1>2, <1>3

(* Nothing but the work of one process changes, if that. *)
LEMMA QuietSeeding ==
    ASSUME Types, Types', Seeding, UNCHANGED <<products, variants, ids, seeded>>,
           NEW p \in Processes, NEW w, work' = [work EXCEPT ![p] = w],
           p \in Seeders /\ w # Idle => Progress(p)'
    PROVE  Seeding'
<1>1. /\ \A q : Own(q)' = Own(q) /\ KeepsNames(products, q, products', q)
      /\ CommittedVariants' = CommittedVariants /\ ids <= ids'
    BY SameNames DEF Own, CommittedVariants, Types
<1>2. \A s \in Seeders : work'[s] # Idle => Progress(s)'
    BY <1>1, OthersProgress
<1>3. NewKeys'
    BY <1>1 DEF Seeding, NewKeys, Key
<1>4. FromRegistry'
    BY DEF Seeding, FromRegistry
<1>5. OnShelf'
    BY <1>1, ShelfStays, SameRows DEF Seeding
<1> QED BY <1>2, <1>3, <1>4, <1>5 DEF Seeding

LEMMA StandingSeeding ==
    ASSUME Types, Types', Seeding, UNCHANGED <<products, variants, ids, seeded, work>>
    PROVE  Seeding'
<1>1. /\ \A q : Own(q)' = Own(q) /\ KeepsNames(products, q, products', q)
      /\ CommittedVariants' = CommittedVariants /\ ids <= ids'
    BY SameNames DEF Own, CommittedVariants, Types
<1>2. \A s \in Seeders : work'[s] # Idle => Progress(s)'
    BY <1>1, ProgressStays DEF Seeding
<1>3. NewKeys'
    BY <1>1 DEF Seeding, NewKeys, Key
<1>4. FromRegistry'
    BY DEF Seeding, FromRegistry
<1>5. OnShelf'
    BY <1>1, ShelfStays, SameRows DEF Seeding
<1> QED BY <1>2, <1>3, <1>4, <1>5 DEF Seeding

LEMMA StartSeeding ==
    ASSUME Types, Types', Seeding, NEW s \in Seeders, StartSeed(s)
    PROVE  Seeding'
<1> DEFINE again == (seeded = version)
           w == FirstOfSeed(SeedJobs[version], version, again)
<1>1. /\ s \in Processes /\ work[s] = Idle /\ work' = [work EXCEPT ![s] = w]
      /\ UNCHANGED <<products, variants, ids, seeded>>
    BY DEF Processes, StartSeed, FirstOfSeed
<1>2. version \in DOMAIN Registries
    BY CatalogAssumption DEF Types
<1>3. SeedJobs[version] \in Jobs
    BY <1>2 DEF Jobs
<1> HIDE DEF again
<1>4. w.job = SeedJobs[version] /\ w.version = version /\ w.i = 1 /\ w.j = 0
    BY DEF FirstOfSeed, Idle
<1>5. DOMAIN w.job \subseteq Nat \ {0}
    BY <1>3, <1>4, JobsAreLists DEF IsList
<1>6. Own(s) = {} /\ Own(s)' = {}
    BY <1>1, IdleIsPlaced DEF Types, Own
<1> HIDE DEF w
<1>7. Progress(s)'
    <2>1. work'[s] = w
        BY <1>1 DEF Types
    <2>2. Loaded(w)
        BY <1>2, <1>4 DEF Loaded
    <2>3. \A i \in DOMAIN w.job : ~(i < w.i)
        BY <1>4, <1>5
    <2>4. \A listed, own, n : Reached(w, listed, s, own, n)
        BY <1>4, <2>3 DEF Reached
    <2>5. \A listed : OnlyListed(listed, s, {}, w.job)
        BY DEF OnlyListed
    <2> QED BY <1>6, <2>1, <2>2, <2>4, <2>5 DEF Progress
<1> QED BY <1>1, <1>7, QuietSeeding

LEMMA FindSeeding ==
    ASSUME Types, Types', Seeding, NEW p \in Processes, FindProduct(p)
    PROVE  Seeding'
<1>1. PICK row \in Found(p) : work' = [work EXCEPT ![p] = Advanced(p, row.id)]
    BY DEF FindProduct
<1>2. AtProduct(p) /\ UNCHANGED <<products, variants, ids, seeded>>
    BY DEF FindProduct
<1>3. /\ p \in Seeders /\ row \in products /\ row.name = Here(p).name /\ row.tx \in {p, Committed}
      /\ row.id \in 1 .. ids
    BY DEF Found, SameName, Types, IsProduct
<1>4. work[p] # Idle /\ Progress(p)
    BY <1>2, <1>3, AtNotIdle DEF Seeding
<1>5. Own(p)' = Own(p) /\ ids <= ids' /\ row.id \in 1 .. ids'
    BY <1>2, <1>3 DEF Own, Types
<1>6. Filled(products', p, Own(p)', row.id, Here(p), work[p].j)
    <2>1. Knows(products, p, Here(p).name, row.id)
        BY <1>3 DEF Knows
    <2>2. work[p].j = 0
        BY <1>2 DEF AtProduct
    <2>3. 1 .. 0 = {}
        OBVIOUS
    <2> QED BY <1>2, <2>1, <2>2, <2>3 DEF Filled
<1>7. OnlyListed(products', p, Own(p)', work[p].job)
    BY <1>2, <1>4, <1>5 DEF Progress
<1>8. work'[p] = Advanced(p, row.id)
    BY <1>1 DEF Types
<1>9. Progress(p)'
    BY <1>2, <1>3, <1>4, <1>5, <1>6, <1>7, <1>8, SameNames, SameRows, ProgressNext
<1> QED BY <1>1, <1>2, <1>9, QuietSeeding

LEMMA InsertSeeding ==
    ASSUME Types, Types', Seeding, NEW p \in Processes, InsertProduct(p)
    PROVE  Seeding'
<1> DEFINE n == ids + 1
           new == [id |-> n, name |-> Here(p).name, tx |-> p]
           w == Advanced(p, n)
<1>1. /\ ids' = n /\ products' = products \cup {new} /\ work' = [work EXCEPT ![p] = w]
      /\ UNCHANGED <<variants, seeded>> /\ AtProduct(p)
    BY DEF InsertProduct
<1>2. n \in 1 .. ids' /\ ids <= ids'
    BY <1>1 DEF Types
<1>3. new.id = n /\ new.name = Here(p).name /\ new.tx = p
    OBVIOUS
<1>4. work'[p] = Advanced(p, n)
    BY <1>1 DEF Types
<1> HIDE DEF n, new, w
<1>5. \A q : KeepsNames(products, q, products', q)
    BY <1>1, MoreNames
<1>6. /\ \A q : Own(q)' = Own(q)
      /\ CommittedVariants' = CommittedVariants
    BY <1>1 DEF Own, CommittedVariants
<1>7. ASSUME p \in Seeders PROVE Progress(p)'
    <2>1. Progress(p)
        BY <1>1, <1>7, AtNotIdle DEF Seeding
    <2>2. Filled(products', p, Own(p)', n, Here(p), work[p].j)
        <3>1. Knows(products', p, Here(p).name, n)
            BY <1>1, <1>3 DEF Knows
        <3>2. work[p].j = 0
            BY <1>1 DEF AtProduct
        <3>3. 1 .. 0 = {}
            OBVIOUS
        <3> QED BY <3>1, <3>2, <3>3 DEF Filled
    <2>3. OnlyListed(products', p, Own(p)', work[p].job)
        BY <1>5, <1>6, <2>1, OnlyStays DEF Progress
    <2>4. KeepsRows(Own(p), Own(p)') /\ KeepsNames(products, p, products', p)
        BY <1>5, <1>6, SameRows
    <2> QED BY <1>1, <1>2, <1>4, <1>7, <2>1, <2>2, <2>3, <2>4, ProgressNext
<1>8. \A s \in Seeders : work'[s] # Idle => Progress(s)'
    BY <1>1, <1>2, <1>5, <1>6, <1>7, OthersProgress
<1>9. NewKeys'
    BY <1>1, <1>6 DEF Seeding, NewKeys, Key
<1>10. FromRegistry'
    <2>1. \A row : Curated(row, products) => Curated(row, products')
        BY <1>5 DEF Curated, KeepsNames
    <2> QED BY <1>1, <2>1 DEF Seeding, FromRegistry
<1>11. OnShelf'
    BY <1>1, <1>2, <1>5, <1>6, ShelfStays, SameRows DEF Seeding
<1> QED BY <1>8, <1>9, <1>10, <1>11 DEF Seeding

LEMMA RollbackSeeding ==
    ASSUME Types, Types', Seeding, NEW p \in Processes, NEW outcome, Rollback(p, outcome)
    PROVE  Seeding'
<1>1. /\ products' = {row \in products : row.tx # p} /\ variants' = variants \ Own(p)
      /\ work' = [work EXCEPT ![p] = Idle] /\ UNCHANGED <<ids, seeded>> /\ p # Committed
    BY CatalogAssumption DEF Rollback
<1>2. \A q : q # p => KeepsNames(products, q, products', q)
    BY <1>1, MoreNames
<1>3. /\ \A q : q # p => Own(q)' = Own(q)
      /\ CommittedVariants' = CommittedVariants /\ ids <= ids'
      /\ \A row \in variants' : row \in variants /\ row.tx # p
    BY <1>1 DEF Own, CommittedVariants, Types
<1>4. \A s \in Seeders : work'[s] # Idle => Progress(s)'
    BY <1>1, <1>2, <1>3, OthersProgress
<1>5. NewKeys'
    BY <1>3 DEF Seeding, NewKeys, Key
<1>6. FromRegistry'
    <2>1. \A row : row.tx # p /\ Curated(row, products) => Curated(row, products')
        BY <1>2 DEF Curated, KeepsNames
    <2> QED BY <1>3, <2>1 DEF Seeding, FromRegistry
<1>7. OnShelf'
    BY <1>1, <1>2, <1>3, ShelfStays, SameRows DEF Seeding
<1> QED BY <1>4, <1>5, <1>6, <1>7 DEF Seeding

(* The version a seed writes, and the one it replaces. *)
LEMMA WrittenIsListed ==
    ASSUME Types, Indexed, NEW s \in Seeders, Progress(s), AtVariant(s)
    PROVE  /\ Loaded(work[s]) /\ work[s].i \in DOMAIN work[s].job
           /\ work[s].j \in DOMAIN Here(s).variants
           /\ Knows(products, s, Here(s).name, work[s].product)
           /\ Holds(NewVersion(s), work[s].product, Wanted(s))
           /\ \A old \in Own(s) : Key(old) = WantedKey(s) => old.gtin = Gtin(s)
<1> DEFINE w == work[s]
           wanted == Wanted(s)
           new == NewVersion(s)
<1>1. s \in Processes
    BY DEF Processes
<1>2. /\ w.i \in DOMAIN w.job /\ w.j \in DOMAIN Here(s).variants /\ w.j # 0
      /\ wanted = Here(s).variants[w.j] /\ Here(s) = w.job[w.i]
    <2>1. IsList(Here(s).variants)
        BY <1>1, Working, AtNotIdle DEF AtVariant, Here
    <2> QED BY <2>1 DEF AtVariant, Wanted, Here, IsList
<1>3. Loaded(w) /\ Knows(products, s, Here(s).name, w.product)
    BY <1>2 DEF Progress, Reached, Filled
<1>4. Key(new) = WantedKey(s) /\ new.gtin = Gtin(s) /\ WantedKey(s) = <<w.product, wanted.signature>>
    BY <1>1, NewVersionTypes DEF WantedKey
<1>5. Holds(new, w.product, wanted)
    BY <1>4 DEF Holds, Gtin
<1>6. ASSUME NEW old \in Own(s), Key(old) = WantedKey(s)
      PROVE  old.gtin = Gtin(s)
    <2>1. PICK i \in DOMAIN w.job : \E k \in DOMAIN w.job[i].variants :
            Holds(old, old.product, w.job[i].variants[k])
        BY DEF Progress, OnlyListed, Listed
    <2>2. PICK k \in DOMAIN w.job[i].variants : Holds(old, old.product, w.job[i].variants[k])
        BY <2>1
    <2> DEFINE listed == w.job[i].variants[k]
    <2>3. listed.signature = wanted.signature /\ (listed.gtin # NoGtin => old.gtin = listed.gtin)
        BY <1>4, <1>6, <2>2 DEF Holds, Key
    <2>4. listed.gtin = wanted.gtin
        <3> DEFINE n == w.version
        <3>1. n \in DOMAIN Registries /\ w.job = SeedJobs[n]
            BY <1>3 DEF Loaded
        <3>2. /\ i \in DOMAIN SeedJobs[n] /\ k \in DOMAIN SeedJobs[n][i].variants
              /\ w.i \in DOMAIN SeedJobs[n] /\ w.j \in DOMAIN SeedJobs[n][w.i].variants
              /\ listed = SeedJobs[n][i].variants[k] /\ wanted = SeedJobs[n][w.i].variants[w.j]
            BY <1>2, <3>1
        <3> HIDE DEF n, w, listed, wanted
        <3> QED BY <2>3, <3>1, <3>2, SameSignature
    <2>5. CASE wanted.gtin # NoGtin
        BY <2>3, <2>4, <2>5 DEF Gtin
    <2>6. CASE wanted.gtin = NoGtin
        <3>1. old \in Conflicting(s) /\ Conflicting(s) \subseteq Visible(s)
              /\ \A row \in Conflicting(s) : Key(row) = Key(old)
            BY <1>6 DEF Conflicting, Visible
        <3>2. \A row \in Conflicting(s) : row = old
            BY <1>1, <3>1 DEF Indexed, CatalogueIsKeyed, Keyed
        <3>3. Gtin(s) = (CHOOSE row \in Conflicting(s) : TRUE).gtin
            BY <2>6, <3>1 DEF Gtin
        <3>4. (CHOOSE row \in Conflicting(s) : TRUE) = old
            BY <3>1, <3>2
        <3> QED BY <3>3, <3>4
    <2> QED BY <2>5, <2>6
<1> QED BY <1>2, <1>3, <1>5, <1>6

LEMMA WriteSeeding ==
    ASSUME Types, Types', Indexed, Seeding, NEW p \in Processes, WriteVariant(p)
    PROVE  Seeding'
<1> DEFINE new == NewVersion(p)
           w == Advanced(p, work[p].product)
           id == work[p].product
<1>1. /\ AtVariant(p) /\ Blockers(p) = {} /\ ~Violates(p)
      /\ variants' = {row \in variants : ~(row.tx = p /\ Key(row) = WantedKey(p))} \cup {new}
      /\ work' = [work EXCEPT ![p] = w]
      /\ UNCHANGED <<products, ids, seeded>>
    BY WriteIs
<1>2. /\ new.tx = p /\ Key(new) = WantedKey(p) /\ new.gtin = Gtin(p) /\ p # Committed /\ id \in 1 .. ids
    BY <1>1, NewVersionTypes, CatalogAssumption
<1>3. work'[p] = Advanced(p, id)
    BY <1>1 DEF Types
<1>4. new.by = IF Conflicting(p) = {} THEN p ELSE (CHOOSE row \in Conflicting(p) : TRUE).by
    BY DEF NewVersion
<1>5. new.product = id /\ new.signature = Wanted(p).signature
    BY DEF NewVersion
<1> HIDE DEF new, w
<1>6. /\ CommittedVariants' = CommittedVariants
      /\ \A q \in Processes \ {p} : Own(q)' = Own(q) /\ KeepsNames(products, q, products', q)
      /\ ids <= ids'
    <2>1. CommittedVariants' = CommittedVariants
        BY <1>1, <1>2 DEF CommittedVariants
    <2>2. \A q \in Processes \ {p} : Own(q)' = Own(q)
        BY <1>1, <1>2 DEF Own
    <2>3. \A q : KeepsNames(products, q, products', q)
        BY <1>1, SameNames
    <2>4. ids <= ids'
        BY <1>1 DEF Types
    <2> QED BY <2>1, <2>2, <2>3, <2>4
<1>7. \A row \in Own(p)' : row = new \/ row \in Own(p)
    BY <1>1 DEF Own
<1>8. new \in Own(p)' /\ \A row \in Own(p) : Key(row) # Key(new) => row \in Own(p)'
    BY <1>1, <1>2 DEF Own
<1>9. p \in Seeders => Progress(p)
    BY <1>1, AtNotIdle DEF Seeding
<1>10. ASSUME p \in Seeders
       PROVE  Progress(p)' /\ Curated(new, products)
    <2>1. /\ Loaded(work[p]) /\ work[p].i \in DOMAIN work[p].job /\ work[p].j \in DOMAIN Here(p).variants
          /\ Knows(products, p, Here(p).name, id)
          /\ Holds(new, id, Wanted(p))
          /\ \A old \in Own(p) : Key(old) = WantedKey(p) => old.gtin = Gtin(p)
        BY <1>1, <1>9, <1>10, WrittenIsListed DEF new
    <2>2. Here(p) = work[p].job[work[p].i] /\ Wanted(p) = Here(p).variants[work[p].j]
        BY DEF Here, Wanted
    <2>3. KeepsRows(Own(p), Own(p)')
        <3> SUFFICES ASSUME NEW row \in Own(p)
                     PROVE  \E now \in Own(p)' : Key(now) = Key(row) /\ now.gtin = row.gtin
            <4>1. KeepsRows(Own(p), Own(p)') <=>
                    \A row \in Own(p) : \E now \in Own(p)' : Key(now) = Key(row) /\ now.gtin = row.gtin
                BY DEF KeepsRows, Key
            <4> QED BY <4>1
        <3>1. CASE Key(row) = Key(new)
            BY <1>2, <1>8, <2>1, <3>1
        <3>2. CASE Key(row) # Key(new)
            BY <1>8, <3>2
        <3> QED BY <3>1, <3>2
    <2>4. Listed(new, products, p, work[p].job)
        BY <1>5, <2>1, <2>2 DEF Listed
    <2>5. OnlyListed(products', p, Own(p)', work[p].job)
        <3>1. \A row \in Own(p)' : Listed(row, products, p, work[p].job)
            BY <1>7, <1>9, <1>10, <2>4 DEF Progress, OnlyListed
        <3> QED BY <1>1, <3>1 DEF OnlyListed
    <2>6. Filled(products', p, Own(p)', id, Here(p), work[p].j)
        <3>1. work[p].j \in Nat /\ work[p].j >= 1
            <4>1. IsList(Here(p).variants)
                BY <1>1, Working, AtNotIdle DEF AtVariant, Here
            <4> QED BY <2>1, <4>1 DEF IsList
        <3>2. \A k \in 1 .. work[p].j - 1 : Stored(Own(p), id, Here(p).variants[k])
            BY <1>9, <1>10, <2>1, <2>2, <3>1 DEF Progress, Reached, Filled
        <3>3. \A k \in 1 .. work[p].j : k = work[p].j \/ k \in 1 .. work[p].j - 1
            BY <3>1
        <3>4. Stored(Own(p)', id, Here(p).variants[work[p].j])
            BY <1>8, <2>1, <2>2 DEF Stored
        <3>5. \A k \in 1 .. work[p].j : Stored(Own(p)', id, Here(p).variants[k])
            BY <2>3, <3>2, <3>3, <3>4, StoredStays
        <3>6. Knows(products', p, Here(p).name, id)
            BY <1>1, <2>1
        <3> QED BY <3>5, <3>6 DEF Filled
    <2>7. KeepsNames(products, p, products', p) /\ id \in 1 .. ids'
        BY <1>1, <1>2, SameNames
    <2>8. Progress(p)'
        BY <1>1, <1>3, <1>6, <1>9, <1>10, <2>3, <2>5, <2>6, <2>7, ProgressNext
    <2>9. Curated(new, products)
        <3> DEFINE n == work[p].version
                   i == work[p].i
                   k == work[p].j
        <3>1. n \in DOMAIN Registries /\ i \in DOMAIN SeedJobs[n] /\ k \in DOMAIN SeedJobs[n][i].variants
              /\ SeedJobs[n][i] = Here(p)
            BY <2>1, <2>2 DEF Loaded
        <3>2. new.signature = SeedJobs[n][i].variants[k].signature
              /\ Knows(products, new.tx, SeedJobs[n][i].name, new.product)
            BY <1>2, <1>5, <2>1, <2>2, <3>1
        <3> HIDE DEF n, i, k
        <3> QED BY <3>1, <3>2 DEF Curated
    <2> QED BY <2>8, <2>9
<1>11. ASSUME p \in Clients
       PROVE  new.by = p /\ \A old \in CommittedVariants : Key(old) # Key(new)
    <2>1. Conflicting(p) = {}
        BY <1>11, CatalogAssumption DEF Conflicting
    <2>2. \A row \in Visible(p) : Key(row) # WantedKey(p)
        BY <1>1, <2>1 DEF Violates
    <2>3. ASSUME NEW old \in CommittedVariants, Key(old) = WantedKey(p) PROVE FALSE
        <3>1. old \notin Visible(p)
            BY <2>2, <2>3
        <3>2. PICK own \in Own(p) : Key(own) = Key(old)
            BY <3>1 DEF Visible, CommittedVariants
        <3>3. own \in Visible(p)
            BY DEF Visible
        <3> QED BY <2>2, <2>3, <3>2, <3>3
    <2> QED BY <1>2, <1>4, <2>1, <2>3
<1>12. \A s \in Seeders : work'[s] # Idle => Progress(s)'
    BY <1>1, <1>6, <1>10, OthersProgress
<1>13. NewKeys'
    <2>1. \A row \in variants' : row.tx \in Clients => \A old \in CommittedVariants : Key(old) # Key(row)
        BY <1>1, <1>2, <1>11 DEF Seeding, NewKeys
    <2> QED BY <1>6, <2>1 DEF NewKeys, Key
<1>14. FromRegistry'
    <2>1. p \in Clients \/ p \in Seeders
        BY DEF Processes
    <2>2. new.by \in Seeders => Curated(new, products)
        BY <1>10, <1>11, <2>1, CatalogAssumption
    <2>3. \A row \in variants' : row.by \in Seeders => Curated(row, products)
        BY <1>1, <2>2 DEF Seeding, FromRegistry
    <2> QED BY <1>1, <2>3 DEF FromRegistry
<1>15. OnShelf'
    BY <1>1, <1>6, ShelfStays, SameRows, SameNames DEF Seeding
<1> QED BY <1>12, <1>13, <1>14, <1>15 DEF Seeding

(* What a commit makes of the names and the rows, as others know them and  *)
(* as they are then for everyone.                                          *)
LEMMA PublishedKeeps ==
    ASSUME Types, NEW p \in Processes, NEW outcome, Publish(p, outcome)
    PROVE  /\ \A q : q # p => KeepsNames(products, q, products', q)
           /\ KeepsNames(products, p, products', Committed)
           /\ KeepsRows(Visible(p), CommittedVariants')
           /\ \A row \in variants' : row \in Other(p) \/ \E old \in Visible(p) :
                row.tx = Committed /\ Key(row) = Key(old) /\ row.by = old.by
<1>1. /\ products' = {[row EXCEPT !.tx = IF @ = p THEN Committed ELSE @] : row \in products}
      /\ variants' = {Settled(row) : row \in Visible(p)} \cup Other(p)
    BY DEF Publish, Settled
<1>2. ASSUME NEW row \in products
      PROVE  \E now \in products' : /\ now.id = row.id /\ now.name = row.name
                                    /\ now.tx = IF row.tx = p THEN Committed ELSE row.tx
    <2> DEFINE now == [row EXCEPT !.tx = IF @ = p THEN Committed ELSE @]
    <2>1. row = [id |-> row.id, name |-> row.name, tx |-> row.tx]
        BY DEF Types, IsProduct
    <2>2. now \in products'
        BY <1>1
    <2>3. now.id = row.id /\ now.name = row.name /\ now.tx = IF row.tx = p THEN Committed ELSE row.tx
        BY <2>1
    <2> QED BY <2>2, <2>3
<1>3. \A q : q # p => KeepsNames(products, q, products', q)
    BY <1>2 DEF KeepsNames, Knows
<1>4. KeepsNames(products, p, products', Committed)
    BY <1>2 DEF KeepsNames, Knows
<1>5. \A old \in Visible(p) : /\ Settled(old).tx = Committed /\ Key(Settled(old)) = Key(old)
                              /\ Settled(old).gtin = old.gtin /\ Settled(old).by = old.by
    BY SettledIs DEF Visible, Own, Types
<1>6. \A old \in Visible(p) : Settled(old) \in CommittedVariants'
    BY <1>1, <1>5 DEF CommittedVariants
<1>7. KeepsRows(Visible(p), CommittedVariants')
    <2>1. KeepsRows(Visible(p), CommittedVariants') <=>
            \A row \in Visible(p) : \E now \in CommittedVariants' : Key(now) = Key(row) /\ now.gtin = row.gtin
        BY DEF KeepsRows, Key
    <2> QED BY <1>5, <1>6, <2>1
<1>8. \A row \in variants' : row \in Other(p) \/ \E old \in Visible(p) :
        row.tx = Committed /\ Key(row) = Key(old) /\ row.by = old.by
    BY <1>1, <1>5
<1> QED BY <1>3, <1>4, <1>7, <1>8

LEMMA PublishKept ==
    ASSUME Types, Types', Indexed, Seeding, NEW p \in Processes, NEW outcome, Publish(p, outcome),
           UNCHANGED ids
    PROVE  (\A s \in Seeders : work'[s] # Idle => Progress(s)') /\ NewKeys' /\ FromRegistry'
<1>1. work' = [work EXCEPT ![p] = Idle] /\ p # Committed /\ Committed \notin Clients
    BY CatalogAssumption DEF Publish, Processes
<1>2. /\ \A q : q # p => KeepsNames(products, q, products', q)
      /\ KeepsNames(products, p, products', Committed)
      /\ \A row \in variants' : row \in Other(p) \/ \E old \in Visible(p) :
                row.tx = Committed /\ Key(row) = Key(old) /\ row.by = old.by
    BY PublishedKeeps
<1>3. \A q \in Processes \ {p} : Own(q)' = Own(q)
    BY Published
<1>4. ids <= ids'
    BY DEF Types
<1>5. \A s \in Seeders : work'[s] # Idle => Progress(s)'
    BY <1>1, <1>2, <1>3, <1>4, OthersProgress
<1>6. NewKeys'
    <2> SUFFICES ASSUME NEW row \in variants', row.tx \in Clients, NEW now \in CommittedVariants'
                 PROVE  Key(now) # Key(row)
        BY DEF NewKeys, Key
    <2>1. row \in variants /\ row.tx # p /\ row.tx # Committed
        BY <1>1, <1>2 DEF Other
    <2>2. PICK old \in Visible(p) : Key(now) = Key(old)
        BY <1>2 DEF CommittedVariants, Other
    <2>3. CASE old.tx = Committed
        <3>1. old \in CommittedVariants
            BY <2>3 DEF Visible, Own, CommittedVariants
        <3> QED BY <2>1, <2>2, <3>1 DEF Seeding, NewKeys
    <2>4. CASE old.tx # Committed
        <3>1. old \in variants /\ old.tx = p
            BY <2>4 DEF Visible, Own
        <3> QED BY <1>1, <2>1, <2>2, <3>1 DEF Indexed, Isolated, Clash
    <2> QED BY <2>3, <2>4
<1>7. FromRegistry'
    <2> SUFFICES ASSUME NEW row \in variants', row.by \in Seeders
                 PROVE  Curated(row, products')
        BY DEF FromRegistry
    <2>1. CASE row \in Other(p)
        <3>1. row \in variants /\ row.tx # p
            BY <2>1 DEF Other
        <3>2. Curated(row, products)
            BY <3>1 DEF Seeding, FromRegistry
        <3> QED BY <1>2, <3>1, <3>2 DEF Curated, KeepsNames
    <2>2. CASE row \notin Other(p)
        <3>1. PICK old \in Visible(p) : row.tx = Committed /\ Key(row) = Key(old) /\ row.by = old.by
            BY <1>2, <2>2
        <3>2. old \in variants /\ (old.tx = p \/ old.tx = Committed)
            BY DEF Visible, Own
        <3>3. Curated(old, products)
            BY <3>1, <3>2 DEF Seeding, FromRegistry
        <3>4. KeepsNames(products, old.tx, products', Committed)
            BY <1>1, <1>2, <3>2
        <3>5. row.product = old.product /\ row.signature = old.signature
            BY <3>1, KeyParts
        <3> QED BY <3>1, <3>3, <3>4, <3>5 DEF Curated, KeepsNames
    <2> QED BY <2>1, <2>2
<1> QED BY <1>5, <1>6, <1>7

LEMMA CommitSeeding ==
    ASSUME Types, Types', Indexed, Seeding, NEW c \in Processes, Commit(c)
    PROVE  Seeding'
<1>1. Publish(c, "201") /\ c \in Clients /\ UNCHANGED <<ids, seeded>> /\ c # Committed
    BY CatalogAssumption DEF Commit
<1>2. /\ KeepsNames(products, Committed, products', Committed)
      /\ KeepsRows(Visible(c), CommittedVariants')
    BY <1>1, PublishedKeeps
<1>3. CommittedVariants \subseteq Visible(c)
    <2> SUFFICES ASSUME NEW old \in CommittedVariants, NEW own \in Own(c) PROVE Key(own) # Key(old)
        BY DEF Visible, CommittedVariants
    <2> QED BY <1>1 DEF Seeding, NewKeys, Own
<1>4. KeepsRows(CommittedVariants, CommittedVariants')
    <2>1. \A rows, seen, now : rows \subseteq seen /\ KeepsRows(seen, now) => KeepsRows(rows, now)
        BY DEF KeepsRows
    <2> QED BY <1>2, <1>3, <2>1
<1>5. ids <= ids'
    BY <1>1 DEF Types
<1>6. OnShelf'
    BY <1>1, <1>2, <1>4, <1>5, ShelfStays DEF Seeding
<1> QED BY <1>1, <1>6, PublishKept DEF Seeding

LEMMA CommitSeedSeeding ==
    ASSUME Types, Types', Indexed, Seeding, NEW s \in Processes, CommitSeed(s)
    PROVE  Seeding'
<1> DEFINE w == work[s]
<1>1. /\ Publish(s, "seeded") /\ s \in Seeders /\ AtEnd(s) /\ seeded' = w.version
      /\ UNCHANGED ids /\ s # Committed
    BY CatalogAssumption DEF CommitSeed
<1>2. /\ KeepsNames(products, s, products', Committed)
      /\ KeepsRows(Visible(s), CommittedVariants')
    BY <1>1, PublishedKeeps
<1>3. w # Idle /\ Progress(s)
    BY <1>1 DEF AtEnd, Seeding
<1>4. Loaded(w) /\ Reached(w, products, s, Own(s), ids)
    BY <1>3 DEF Progress
<1>5. w.i > Len(w.job) /\ IsList(w.job) /\ w.i \in Nat
    BY <1>1, <1>3, Working DEF AtEnd, Works
<1>6. \A i \in DOMAIN w.job : i < w.i
    BY <1>5 DEF IsList
<1>7. KeepsRows(Own(s), CommittedVariants')
    <2>1. \A rows, seen, now : rows \subseteq seen /\ KeepsRows(seen, now) => KeepsRows(rows, now)
        BY DEF KeepsRows
    <2>2. Own(s) \subseteq Visible(s)
        BY DEF Visible
    <2> QED BY <1>2, <2>1, <2>2
<1>8. ids \in Nat /\ ids' \in Nat /\ ids <= ids'
    BY <1>1 DEF Types
<1> HIDE DEF w
<1>9. ASSUME NEW i \in DOMAIN w.job
      PROVE  Complete(products', Committed, CommittedVariants', ids', w.job[i])
    <2>1. Complete(products, s, Own(s), ids, w.job[i])
        BY <1>4, <1>6 DEF Reached
    <2> QED BY <1>2, <1>7, <1>8, <2>1, CompleteStays
<1>10. OnShelf'
    BY <1>1, <1>4, <1>9 DEF OnShelf, Loaded
<1> QED BY <1>1, <1>10, PublishKept DEF Seeding

LEMMA NextSeeding == Types /\ Indexed /\ Seeding /\ [Next]_vars => Seeding'
<1> SUFFICES ASSUME Types, Indexed, Seeding, [Next]_vars PROVE Seeding'
    OBVIOUS
<1>0. Types'
    BY NextTypes
<1>1. CASE Deploy
    BY <1>0, <1>1, StandingSeeding DEF Deploy
<1>2. ASSUME NEW c \in Clients, NEW body \in Bodies, Refuse(c, body)
      PROVE  Seeding'
    BY <1>0, <1>2, StandingSeeding DEF Refuse
<1>3. ASSUME NEW c \in Clients, NEW body \in Bodies, CreateProduct(c, body)
      PROVE  Seeding'
    <2>1. c \in Processes /\ c \notin Seeders
        BY CatalogAssumption DEF Processes
    <2>2. PICK w : work' = [work EXCEPT ![c] = w]
        BY <1>3 DEF CreateProduct
    <2>3. UNCHANGED <<products, variants, ids, seeded>>
        BY <1>3 DEF CreateProduct
    <2> QED BY <1>0, <2>1, <2>2, <2>3, QuietSeeding
<1>4. ASSUME NEW s \in Seeders, StartSeed(s)
      PROVE  Seeding'
    BY <1>0, <1>4, StartSeeding
<1>5. ASSUME NEW p \in Processes, FindProduct(p)
      PROVE  Seeding'
    BY <1>0, <1>5, FindSeeding
<1>6. ASSUME NEW p \in Processes, InsertProduct(p)
      PROVE  Seeding'
    BY <1>0, <1>6, InsertSeeding
<1>7. ASSUME NEW p \in Processes, WriteVariant(p)
      PROVE  Seeding'
    BY <1>0, <1>7, WriteSeeding
<1>8. ASSUME NEW p \in Processes, ProductExists(p) \/ UniqueViolation(p) \/ DeadlockDetected(p) \/ Die(p)
      PROVE  Seeding'
    BY <1>0, <1>8, RolledBack, RollbackSeeding
<1>9. ASSUME NEW p \in Processes, Commit(p)
      PROVE  Seeding'
    BY <1>0, <1>9, CommitSeeding
<1>10. ASSUME NEW p \in Processes, CommitSeed(p)
       PROVE  Seeding'
    BY <1>0, <1>10, CommitSeedSeeding
<1>11. CASE UNCHANGED vars
    BY <1>0, <1>11, StandingSeeding DEF vars
<1> QED BY <1>1, <1>2, <1>3, <1>4, <1>5, <1>6, <1>7, <1>8, <1>9, <1>10, <1>11 DEF Next, Step

LEMMA Seeded ==
    ASSUME Types, Seeding, seeded # 0, NEW i \in DOMAIN SeedJobs[seeded]
    PROVE  /\ seeded \in DOMAIN Registries
           /\ \E product \in {row \in products : row.tx = Committed /\ row.name = SeedJobs[seeded][i].name} :
                \A k \in DOMAIN SeedJobs[seeded][i].variants :
                    \E row \in CommittedVariants : Holds(row, product.id, SeedJobs[seeded][i].variants[k])
<1> DEFINE entry == SeedJobs[seeded][i]
<1>1. seeded \in DOMAIN Registries /\ Complete(products, Committed, CommittedVariants, ids, entry)
    BY DEF Seeding, OnShelf
<1>2. SeedJobs[seeded] \in Jobs
    BY <1>1 DEF Jobs
<1>3. IsList(entry.variants)
    BY <1>2, JobsAreLists
<1> HIDE DEF entry
<1>4. PICK id \in 1 .. ids : Filled(products, Committed, CommittedVariants, id, entry, Len(entry.variants))
    BY <1>1 DEF Complete
<1>5. PICK product \in products : product.name = entry.name /\ product.id = id /\ product.tx = Committed
    BY <1>4 DEF Filled, Knows
<1>6. \A k \in DOMAIN entry.variants : \E row \in CommittedVariants : Holds(row, product.id, entry.variants[k])
    BY <1>3, <1>4, <1>5 DEF Filled, Stored, IsList
<1> QED BY <1>1, <1>5, <1>6 DEF entry

SeedInv == Types /\ Indexed /\ Seeding

LEMMA SeedInvHolds == Spec => []SeedInv
<1>1. Init => SeedInv
    BY InitTypes, InitIndexed, InitSeeding DEF SeedInv
<1>2. SeedInv /\ [Next]_vars => SeedInv'
    BY NextTypes, NextIndexed, NextSeeding DEF SeedInv
<1> QED BY <1>1, <1>2, PTL DEF Spec

(* A committed seed has left every variant of its registry with its code,  *)
(* and no request, other seed, rollback or crash takes one away until the  *)
(* next version is seeded.                                                 *)
THEOREM SeedStays == Spec => []SeedIsInTheCatalogue
<1>1. SeedInv => SeedIsInTheCatalogue
    <2> SUFFICES ASSUME SeedInv, seeded # 0, NEW i \in DOMAIN SeedJobs[seeded]
                 PROVE  \E product \in {row \in products : row.tx = Committed /\ row.name = SeedJobs[seeded][i].name} :
                            \A k \in DOMAIN SeedJobs[seeded][i].variants :
                                LET wanted == SeedJobs[seeded][i].variants[k]
                                IN  \E row \in CommittedVariants :
                                        /\ Key(row) = <<product.id, wanted.signature>>
                                        /\ wanted.gtin # NoGtin => row.gtin = wanted.gtin
        BY DEF SeedIsInTheCatalogue
    <2> QED BY Seeded DEF SeedInv, Holds
<1> QED BY <1>1, SeedInvHolds, PTL

(* The code decides for one variant, and variants that the attributes fit  *)
(* alike are not both curated.                                             *)
THEOREM MatchDecides == Spec => []MatchIsUnambiguous
<1>1. SeedInv => MatchIsUnambiguous
    <2> SUFFICES ASSUME SeedInv, NEW listing \in Listings,
                        NEW v1 \in DecideMatch(listing), NEW v2 \in DecideMatch(listing)
                 PROVE  /\ v1.signature = listing.signature
                        /\ v1 = v2 \/ (listing.gtin = NoGtin /\ {v1.by, v2.by} \cap Clients # {})
        BY DEF MatchIsUnambiguous
    <2>1. /\ v1 \in CommittedVariants /\ v2 \in CommittedVariants
          /\ v1.signature = listing.signature /\ v2.signature = listing.signature
          /\ listing.gtin # NoGtin => v1.gtin = listing.gtin /\ v2.gtin = listing.gtin
        BY DEF DecideMatch, FindVariantByGtin, FindVariantBySignature
    <2>2. CASE listing.gtin # NoGtin
        BY <2>1, <2>2 DEF SeedInv, Indexed, CatalogueIsKeyed, Keyed
    <2>3. CASE listing.gtin = NoGtin /\ v1.by \notin Clients /\ v2.by \notin Clients
        <3>1. /\ v1 \in variants /\ v1.tx = Committed /\ v1.by \in Seeders
              /\ v2 \in variants /\ v2.tx = Committed /\ v2.by \in Seeders
            BY <2>1, <2>3 DEF CommittedVariants, SeedInv, Types, IsVariant, Processes
        <3>2. Curated(v1, products) /\ Curated(v2, products)
            BY <3>1 DEF SeedInv, Seeding, FromRegistry
        <3>3. PICK n1 \in DOMAIN Registries : \E i \in DOMAIN SeedJobs[n1] :
                \E k \in DOMAIN SeedJobs[n1][i].variants :
                    /\ v1.signature = SeedJobs[n1][i].variants[k].signature
                    /\ Knows(products, v1.tx, SeedJobs[n1][i].name, v1.product)
            BY <3>2 DEF Curated
        <3>4. PICK i1 \in DOMAIN SeedJobs[n1] : \E k \in DOMAIN SeedJobs[n1][i1].variants :
                    /\ v1.signature = SeedJobs[n1][i1].variants[k].signature
                    /\ Knows(products, v1.tx, SeedJobs[n1][i1].name, v1.product)
            BY <3>3
        <3>5. PICK n2 \in DOMAIN Registries : \E i \in DOMAIN SeedJobs[n2] :
                \E k \in DOMAIN SeedJobs[n2][i].variants :
                    /\ v2.signature = SeedJobs[n2][i].variants[k].signature
                    /\ Knows(products, v2.tx, SeedJobs[n2][i].name, v2.product)
            BY <3>2 DEF Curated
        <3>6. PICK i2 \in DOMAIN SeedJobs[n2] : \E k \in DOMAIN SeedJobs[n2][i2].variants :
                    /\ v2.signature = SeedJobs[n2][i2].variants[k].signature
                    /\ Knows(products, v2.tx, SeedJobs[n2][i2].name, v2.product)
            BY <3>5
        <3>7. SeedJobs[n1][i1].name = SeedJobs[n2][i2].name
            BY <2>1, <3>4, <3>6, SameSignature
        <3>8. PICK r1 \in products : r1.name = SeedJobs[n1][i1].name /\ r1.id = v1.product
            BY <3>4 DEF Knows
        <3>9. PICK r2 \in products : r2.name = SeedJobs[n2][i2].name /\ r2.id = v2.product
            BY <3>6 DEF Knows
        <3>10. r1 = r2
            BY <3>7, <3>8, <3>9 DEF SeedInv, Indexed, CatalogueIsKeyed
        <3>11. Key(v1) = Key(v2)
            BY <2>1, <3>8, <3>9, <3>10 DEF Key
        <3> QED BY <2>1, <3>11 DEF SeedInv, Indexed, CatalogueIsKeyed, Keyed
    <2> QED BY <2>1, <2>2, <2>3
<1> QED BY <1>1, SeedInvHolds, PTL

(* No statement of a seed of the version that was seeded last meets a name *)
(* or a code that stands in its way.                                       *)
LEMMA NothingInTheWay ==
    ASSUME SeedInv, NEW s \in Seeders, seeded = work[s].version
    PROVE  ~ProductExists(s) /\ ~UniqueViolation(s)
<1> DEFINE w == work[s]
           v == w.version
<1>1. SUFFICES ASSUME ProductExists(s) \/ UniqueViolation(s)
               PROVE  FALSE
    OBVIOUS
<1>2. /\ AtProduct(s) \/ AtVariant(s)
      /\ w # Idle /\ s \in Processes /\ s \notin Clients
    BY <1>1, AtNotIdle, CatalogAssumption DEF ProductExists, UniqueViolation, Processes
<1>3. /\ Progress(s) /\ Loaded(w) /\ w.i \in DOMAIN w.job /\ Here(s) = w.job[w.i]
      /\ Types /\ Indexed /\ Seeding
    BY <1>2 DEF SeedInv, Seeding, Progress, AtProduct, AtVariant, Here
<1>4. v \in DOMAIN Registries /\ v # 0 /\ Here(s) = SeedJobs[v][w.i] /\ w.i \in DOMAIN SeedJobs[v]
    BY <1>3, CatalogAssumption DEF Loaded
<1>5. PICK product \in {row \in products : row.tx = Committed /\ row.name = Here(s).name} :
            \A k \in DOMAIN Here(s).variants :
                \E row \in CommittedVariants : Holds(row, product.id, Here(s).variants[k])
    BY <1>3, <1>4, Seeded
<1>6. product \in Found(s)
    BY <1>5 DEF Found, SameName
<1>7. CASE ProductExists(s)
    BY <1>6, <1>7 DEF ProductExists
<1>8. CASE UniqueViolation(s)
    <2>1. AtVariant(s) /\ Violates(s)
        BY <1>8 DEF UniqueViolation
    <2> DEFINE wanted == Wanted(s)
    <2>2. /\ w.j \in DOMAIN Here(s).variants /\ wanted = Here(s).variants[w.j]
          /\ Knows(products, s, Here(s).name, w.product)
          /\ \A old \in Own(s) : Key(old) = WantedKey(s) => old.gtin = Gtin(s)
        BY <1>3, <2>1, WrittenIsListed DEF Wanted
    <2>3. PICK known \in products : known.name = Here(s).name /\ known.id = w.product
        BY <2>2 DEF Knows
    <2>4. known = product
        BY <1>3, <1>5, <2>3 DEF Indexed, CatalogueIsKeyed
    <2>5. PICK stored \in CommittedVariants : Holds(stored, w.product, wanted)
        BY <1>5, <2>2, <2>3, <2>4
    <2>6. Key(stored) = WantedKey(s) /\ (wanted.gtin # NoGtin => stored.gtin = wanted.gtin)
        BY <2>5 DEF Holds, WantedKey
    <2>7. PICK row \in Visible(s) \ Conflicting(s) :
            Key(row) = WantedKey(s) \/ (Gtin(s) # NoGtin /\ row.gtin = Gtin(s))
        BY <2>1 DEF Violates
    <2>8. Key(row) # WantedKey(s) /\ Gtin(s) # NoGtin /\ row.gtin = Gtin(s)
        BY <2>7 DEF Conflicting
    <2>9. \A r1, r2 \in Visible(s) : Clash(r1, r2) => r1 = r2
        BY <1>2, <1>3 DEF Indexed, CatalogueIsKeyed, Keyed, Clash
    <2>10. \A old \in Visible(s) : ~(Key(old) = WantedKey(s) /\ old.gtin = Gtin(s))
        BY <2>7, <2>8, <2>9 DEF Clash
    <2>11. stored \in Visible(s)
        <3>1. \A own \in Own(s) : own \in Visible(s)
            BY DEF Visible
        <3>2. \A own \in Own(s) : Key(own) # Key(stored)
            BY <2>2, <2>6, <2>10, <3>1
        <3> QED BY <3>2 DEF Visible, CommittedVariants
    <2>12. stored \in Conflicting(s) /\ \A old \in Conflicting(s) : old = stored
        BY <2>6, <2>9, <2>11 DEF Conflicting, Clash
    <2>13. stored.gtin = Gtin(s)
        <3>1. CASE wanted.gtin # NoGtin
            BY <2>6, <3>1 DEF Gtin
        <3>2. CASE wanted.gtin = NoGtin
            <4>1. Gtin(s) = (CHOOSE old \in Conflicting(s) : TRUE).gtin
                BY <2>12, <3>2 DEF Gtin
            <4>2. (CHOOSE old \in Conflicting(s) : TRUE) = stored
                BY <2>12
            <4> QED BY <4>1, <4>2
        <3> QED BY <3>1, <3>2
    <2> QED BY <2>6, <2>10, <2>11, <2>13
<1> QED BY <1>1, <1>7, <1>8

LEMMA WorkingOn ==
    ASSUME Types, NEW p \in Processes, FindProduct(p) \/ InsertProduct(p) \/ WriteVariant(p)
    PROVE  \E w : w # Idle /\ work' = [work EXCEPT ![p] = w]
<1>1. AtProduct(p) \/ AtVariant(p)
    BY DEF FindProduct, InsertProduct, WriteVariant
<1>2. ASSUME NEW n \in Nat, NEW id \in 1 .. n PROVE Advanced(p, id) # Idle
    <2>1. PlacedAt(Advanced(p, id), n, version)
        BY <1>1, AdvancedIsPlaced
    <2> QED BY <2>1, IdleIsPlaced
<1>3. CASE FindProduct(p)
    <2>1. PICK row \in Found(p) : work' = [work EXCEPT ![p] = Advanced(p, row.id)]
        BY <1>3 DEF FindProduct
    <2>2. row.id \in 1 .. ids /\ ids \in Nat
        BY DEF Found, SameName, Types, IsProduct
    <2> QED BY <1>2, <2>1, <2>2
<1>4. CASE InsertProduct(p)
    <2>1. work' = [work EXCEPT ![p] = Advanced(p, ids + 1)] /\ ids + 1 \in Nat /\ ids + 1 \in 1 .. ids + 1
        BY <1>4 DEF InsertProduct, Types
    <2> QED BY <1>2, <2>1
<1>5. CASE WriteVariant(p)
    <2>1. AtVariant(p) /\ work' = [work EXCEPT ![p] = Advanced(p, work[p].product)]
        BY <1>5 DEF WriteVariant
    <2>2. work[p].product \in 1 .. ids /\ ids \in Nat
        BY <2>1, NewVersionTypes DEF Types
    <2> QED BY <1>2, <2>1, <2>2
<1> QED BY <1>3, <1>4, <1>5

LEMMA EndedBy ==
    ASSUME Types, Next, NEW s \in Seeders, work[s] # Idle, work'[s] = Idle, answer'[s] = "violation"
    PROVE  ProductExists(s) \/ UniqueViolation(s)
<1>1. /\ s \in Processes /\ s \notin Clients
      /\ work \in [Processes -> Works] /\ answer \in [Processes -> Outcomes]
    BY CatalogAssumption DEF Processes, Types
<1>2. ASSUME NEW p \in Processes, NEW w, work' = [work EXCEPT ![p] = w]
      PROVE  p = s /\ w = Idle
    BY <1>1, <1>2
<1>3. ~(UNCHANGED work)
    OBVIOUS
<1>4. ~Deploy /\ \A c \in Clients, body \in Bodies : ~Refuse(c, body)
    BY <1>3 DEF Deploy, Refuse
<1>5. ASSUME NEW c \in Clients, NEW body \in Bodies, CreateProduct(c, body) PROVE FALSE
    <2>1. c \in Processes /\ c # s
        BY <1>1 DEF Processes
    <2> QED BY <1>2, <1>5, <2>1 DEF CreateProduct
<1>6. ASSUME NEW r \in Seeders, StartSeed(r) PROVE FALSE
    <2>1. r \in Processes /\ r # s
        BY <1>6 DEF Processes, StartSeed
    <2> QED BY <1>2, <1>6, <2>1 DEF StartSeed
<1>7. PICK p \in Processes : Step(p) \/ Die(p)
    BY <1>4, <1>5, <1>6 DEF Next
<1>8. ~(FindProduct(p) \/ InsertProduct(p) \/ WriteVariant(p))
    BY <1>2, WorkingOn
<1>9. ASSUME NEW outcome, outcome # "violation" PROVE ~Rollback(p, outcome) /\ ~Publish(p, outcome)
    BY <1>1, <1>2, <1>9 DEF Rollback, Publish
<1>10. ~Commit(p) /\ ~CommitSeed(p) /\ ~DeadlockDetected(p) /\ ~Die(p)
    BY <1>9 DEF Commit, CommitSeed, DeadlockDetected, Die
<1>11. ProductExists(p) \/ UniqueViolation(p)
    BY <1>7, <1>8, <1>10 DEF Step
<1>12. p = s
    BY <1>2, <1>11 DEF ProductExists, UniqueViolation, Rollback
<1> QED BY <1>11, <1>12

(* A seed of the version that was seeded last is never ended by what       *)
(* requests, or another seed, have left or are at.                         *)
THEOREM SeedsAgain == Spec => SeededSeedsAgain
<1>1. SeedInv /\ [Next]_vars =>
        [\A s \in Seeders :
            work[s].again /\ seeded = work[s].version /\ work'[s] = Idle => answer'[s] # "violation"]_vars
    <2> SUFFICES ASSUME SeedInv, Next, NEW s \in Seeders,
                        work[s].again, seeded = work[s].version, work'[s] = Idle, answer'[s] = "violation"
                 PROVE  FALSE
        OBVIOUS
    <2>1. work[s] # Idle
        BY DEF Idle
    <2>2. ProductExists(s) \/ UniqueViolation(s)
        BY <2>1, EndedBy DEF SeedInv
    <2> QED BY <2>2, NothingInTheWay
<1> QED BY <1>1, SeedInvHolds, PTL DEF Spec, SeededSeedsAgain


-----------------------------------------------------------------------------
(* The loop over the portfolio *)

LEMMA LeastNatural ==
    ASSUME NEW bad, bad \subseteq Nat, bad # {}
    PROVE  \E n \in bad : \A m \in bad : n <= m
<1>1. PICK n \in bad : \A m \in bad : <<m, n>> \notin OpToRel(<, Nat)
    BY NatLessThanWellFounded, WFMin
<1>2. \A m \in bad : ~(m < n)
    BY <1>1 DEF OpToRel
<1> QED BY <1>2

(* The tables after the statements of the loop over the portfolio. *)
Loop(after, rows, portfolio, m) ==
    after = [n \in 0 .. m |->
                IF n = 0 THEN RetireLegacy(rows) ELSE UpsertSource(after[n - 1], portfolio[n])]

IsOver(after, m) == after = [n \in 0 .. m |-> after[n]]

LEMMA LoopIs ==
    ASSUME NEW after, NEW rows, NEW portfolio, NEW m \in Nat
    PROVE  Loop(after, rows, portfolio, m) <=>
            /\ IsOver(after, m)
            /\ after[0] = RetireLegacy(rows)
            /\ \A n \in 1 .. m : after[n] = UpsertSource(after[n - 1], portfolio[n])
<1> DEFINE Value(n) == IF n = 0 THEN RetireLegacy(rows) ELSE UpsertSource(after[n - 1], portfolio[n])
<1>1. Loop(after, rows, portfolio, m) <=> after = [n \in 0 .. m |-> Value(n)]
    BY DEF Loop
<1>2. Value(0) = RetireLegacy(rows) /\ \A n \in 1 .. m : Value(n) = UpsertSource(after[n - 1], portfolio[n])
    OBVIOUS
<1> HIDE DEF Value
<1>3. 0 \in 0 .. m /\ \A n : n \in 0 .. m <=> n = 0 \/ n \in 1 .. m
    OBVIOUS
<1>4. after = [n \in 0 .. m |-> Value(n)] <=>
        after = [n \in 0 .. m |-> after[n]] /\ \A n \in 0 .. m : after[n] = Value(n)
    OBVIOUS
<1> QED BY <1>1, <1>2, <1>3, <1>4 DEF IsOver

LEMMA LoopRuns ==
    ASSUME NEW rows, NEW portfolio, NEW m \in Nat
    PROVE  \E after : Loop(after, rows, portfolio, m)
<1> DEFINE bad == {n \in Nat : ~\E after : Loop(after, rows, portfolio, n)}
<1> SUFFICES ASSUME bad # {} PROVE FALSE
    OBVIOUS
<1>1. PICK n \in bad : \A k \in bad : n <= k
    BY LeastNatural
<1>2. CASE n = 0
    <2> DEFINE after == [k \in 0 .. 0 |-> RetireLegacy(rows)]
    <2>1. IsOver(after, 0) /\ after[0] = RetireLegacy(rows) /\ 1 .. 0 = {}
        BY DEF IsOver
    <2> HIDE DEF after
    <2>2. Loop(after, rows, portfolio, 0)
        BY <2>1, LoopIs
    <2> QED BY <1>2, <2>2
<1>3. CASE n # 0
    <2>1. n - 1 \in Nat /\ n - 1 \notin bad
        BY <1>1, <1>3
    <2>2. PICK before : Loop(before, rows, portfolio, n - 1)
        BY <2>1
    <2>3. /\ before[0] = RetireLegacy(rows)
          /\ \A k \in 1 .. n - 1 : before[k] = UpsertSource(before[k - 1], portfolio[k])
        BY <2>1, <2>2, LoopIs
    <2> DEFINE last == UpsertSource(before[n - 1], portfolio[n])
    <2> DEFINE after == [k \in 0 .. n |-> IF k = n THEN last ELSE before[k]]
    <2>4. /\ IsOver(after, n) /\ after[n] = last
          /\ \A k \in 0 .. n - 1 : after[k] = before[k]
        BY <2>1 DEF IsOver
    <2> HIDE DEF after
    <2>5. after[0] = RetireLegacy(rows)
        <3>1. 0 \in 0 .. n - 1
            BY <2>1
        <3> QED BY <2>3, <2>4, <3>1
    <2>6. ASSUME NEW k \in 1 .. n PROVE after[k] = UpsertSource(after[k - 1], portfolio[k])
        <3>0. k - 1 \in 0 .. n - 1
            BY <2>1
        <3>1. after[k - 1] = before[k - 1]
            BY <2>4, <3>0
        <3>2. CASE k = n
            BY <2>4, <3>1, <3>2
        <3>3. CASE k # n
            <4>1. k \in 1 .. n - 1 /\ k \in 0 .. n - 1
                BY <2>1, <3>3
            <4> QED BY <2>3, <2>4, <3>1, <4>1
        <3> QED BY <3>2, <3>3
    <2> HIDE DEF last
    <2>7. Loop(after, rows, portfolio, n)
        BY <2>4, <2>5, <2>6, LoopIs
    <2> QED BY <2>7
<1> QED BY <1>2, <1>3

-----------------------------------------------------------------------------
(* The table of sources *)

IsSource(row) == DOMAIN row = {"url", "name", "adapter", "status"}

(* base_url is the key of the table. *)
ByAddress(rows) ==
    /\ \A row \in rows : IsSource(row)
    /\ \A r1, r2 \in rows : r1.url = r2.url => r1 = r2

(* What is collected by an adapter of Roots is collected from its root. *)
AtRoot(rows) ==
    \A row \in rows : row.status = "enabled" /\ row.adapter \in DOMAIN Roots => row.url = Roots[row.adapter]

(* No two collectors have the name. *)
OneOf(rows, name) ==
    \A r1, r2 \in rows :
        r1.status = "enabled" /\ r2.status = "enabled" /\ r1.name = name /\ r2.name = name => r1 = r2

Disabled(row, out) == [row EXCEPT !.status = IF out THEN "disabled" ELSE @]

LEMMA DisabledIs ==
    ASSUME NEW row, IsSource(row), NEW out \in BOOLEAN
    PROVE  LET now == Disabled(row, out)
           IN  /\ IsSource(now) /\ now.url = row.url /\ now.name = row.name /\ now.adapter = row.adapter
               /\ now.status = IF out THEN "disabled" ELSE row.status
BY DEF IsSource, Disabled

LEMMA RetireLegacyKeeps ==
    ASSUME NEW rows, ByAddress(rows)
    PROVE  ByAddress(RetireLegacy(rows)) /\ AtRoot(RetireLegacy(rows))
<1> DEFINE Legacy(row) == row.adapter \in DOMAIN Roots /\ row.url # Roots[row.adapter]
<1>1. RetireLegacy(rows) = {Disabled(row, Legacy(row)) : row \in rows}
    BY DEF RetireLegacy, Disabled
<1>2. \A now \in RetireLegacy(rows) : \E row \in rows :
        /\ now = Disabled(row, Legacy(row)) /\ IsSource(now)
        /\ now.url = row.url /\ now.adapter = row.adapter
        /\ Legacy(row) => now.status = "disabled"
    <2> SUFFICES ASSUME NEW row \in rows
                 PROVE  LET now == Disabled(row, Legacy(row))
                        IN  /\ IsSource(now) /\ now.url = row.url /\ now.adapter = row.adapter
                            /\ Legacy(row) => now.status = "disabled"
        BY <1>1
    <2>1. IsSource(row) /\ Legacy(row) \in BOOLEAN
        BY DEF ByAddress
    <2> HIDE DEF Legacy
    <2> QED BY <2>1, DisabledIs
<1>3. ByAddress(RetireLegacy(rows))
    <2> HIDE DEF Legacy
    <2> QED BY <1>2 DEF ByAddress
<1>4. AtRoot(RetireLegacy(rows))
    BY <1>2 DEF AtRoot
<1> QED BY <1>3, <1>4

LEMMA UpsertSourceKeeps ==
    ASSUME NEW rows, NEW source, ByAddress(rows), AtRoot(rows), IsSource(source),
           source.adapter \in DOMAIN Roots => source.url = Roots[source.adapter]
    PROVE  /\ ByAddress(UpsertSource(rows, source)) /\ AtRoot(UpsertSource(rows, source))
           /\ OneOf(UpsertSource(rows, source), source.name)
           /\ \A name : OneOf(rows, name) => OneOf(UpsertSource(rows, source), name)
<1> DEFINE Moved(row) == row.name = source.name
<1>1. UpsertSource(rows, source) =
        {Disabled(row, Moved(row)) : row \in {r \in rows : r.url # source.url}} \cup {source}
    BY DEF UpsertSource, Disabled
<1>2. \A now \in UpsertSource(rows, source) : now = source \/ \E row \in rows :
        /\ now = Disabled(row, Moved(row)) /\ IsSource(now) /\ row.url # source.url
        /\ now.url = row.url /\ now.name = row.name /\ now.adapter = row.adapter
        /\ now.status = IF Moved(row) THEN "disabled" ELSE row.status
    <2> SUFFICES ASSUME NEW row \in rows
                 PROVE  LET now == Disabled(row, Moved(row))
                        IN  /\ IsSource(now)
                            /\ now.url = row.url /\ now.name = row.name /\ now.adapter = row.adapter
                            /\ now.status = IF Moved(row) THEN "disabled" ELSE row.status
        BY <1>1
    <2>1. IsSource(row) /\ Moved(row) \in BOOLEAN
        BY DEF ByAddress
    <2> HIDE DEF Moved
    <2> QED BY <2>1, DisabledIs
<1>3. ByAddress(UpsertSource(rows, source))
    <2> HIDE DEF Moved
    <2> QED BY <1>2 DEF ByAddress
<1>4. AtRoot(UpsertSource(rows, source))
    BY <1>2 DEF AtRoot
<1>5. OneOf(UpsertSource(rows, source), source.name)
    BY <1>2 DEF OneOf
<1>6. ASSUME NEW name, OneOf(rows, name) PROVE OneOf(UpsertSource(rows, source), name)
    BY <1>2, <1>6 DEF OneOf
<1> QED BY <1>3, <1>4, <1>5, <1>6

(* The table after n shops of the portfolio. *)
Good(rows, portfolio, n) ==
    ByAddress(rows) /\ AtRoot(rows) /\ \A i \in 1 .. n : OneOf(rows, portfolio[i].name)

LEMMA SeedSourcesIsGood ==
    ASSUME NEW rows, ByAddress(rows), NEW v \in DOMAIN Registries
    PROVE  LET portfolio == Registries[v].portfolio
           IN  Good(SeedSources(rows, portfolio), portfolio, Len(portfolio))
<1> DEFINE portfolio == Registries[v].portfolio
           m == Len(portfolio)
           Right(after) == Loop(after, rows, portfolio, m)
           after == CHOOSE f : Right(f)
<1>1. /\ m \in Nat
      /\ \A i \in 1 .. m : /\ IsSource(portfolio[i])
                           /\ portfolio[i].adapter \in DOMAIN Roots =>
                                portfolio[i].url = Roots[portfolio[i].adapter]
    BY SourcesAssumption DEF IsSource
<1>2. SeedSources(rows, portfolio) = after[m]
    BY DEF SeedSources, Loop
<1> HIDE DEF portfolio, m
<1>3. Right(after)
    <2>1. \E f : Right(f)
        BY <1>1, LoopRuns
    <2> HIDE DEF Right
    <2> QED BY <2>1
<1>4. /\ after[0] = RetireLegacy(rows)
      /\ \A n \in 1 .. m : after[n] = UpsertSource(after[n - 1], portfolio[n])
    BY <1>1, <1>3, LoopIs
<1> HIDE DEF after, Right
<1>5. \A n \in 0 .. m : Good(after[n], portfolio, n)
    <2> DEFINE bad == {n \in 0 .. m : ~Good(after[n], portfolio, n)}
    <2> SUFFICES ASSUME bad # {} PROVE FALSE
        OBVIOUS
    <2>1. bad \subseteq Nat
        BY <1>1
    <2>2. PICK n \in bad : \A k \in bad : n <= k
        BY <2>1, LeastNatural
    <2>3. CASE n = 0
        <3>1. Good(after[0], portfolio, 0)
            BY <1>4, RetireLegacyKeeps DEF Good
        <3> QED BY <2>2, <2>3, <3>1
    <2>4. CASE n # 0
        <3>1. n \in 1 .. m /\ n - 1 \in 0 .. m /\ n - 1 \notin bad
            BY <1>1, <2>2, <2>4
        <3> DEFINE old == after[n - 1]
                   new == after[n]
        <3>2. Good(old, portfolio, n - 1)
            BY <3>1
        <3>3. new = UpsertSource(old, portfolio[n])
            BY <1>4, <3>1
        <3>4. /\ IsSource(portfolio[n])
              /\ portfolio[n].adapter \in DOMAIN Roots => portfolio[n].url = Roots[portfolio[n].adapter]
            BY <1>1, <3>1
        <3>5. ~Good(new, portfolio, n)
            BY <2>2
        <3> HIDE DEF old, new, bad
        <3>6. /\ ByAddress(new) /\ AtRoot(new) /\ OneOf(new, portfolio[n].name)
              /\ \A name : OneOf(old, name) => OneOf(new, name)
            BY <3>2, <3>3, <3>4, UpsertSourceKeeps DEF Good
        <3>7. \A i \in 1 .. n : i = n \/ i \in 1 .. n - 1
            BY <3>1
        <3>8. Good(new, portfolio, n)
            BY <3>2, <3>6, <3>7 DEF Good
        <3> QED BY <3>5, <3>8
    <2> QED BY <2>3, <2>4
<1>6. Good(after[m], portfolio, m)
    BY <1>1, <1>5
<1> QED BY <1>2, <1>6 DEF portfolio, m

Collected ==
    /\ ByAddress(sources)
    /\ seeded # 0 => Good(sources, Registries[seeded].portfolio, Len(Registries[seeded].portfolio))

LEMMA InitCollected == Init => Collected
BY SourcesAssumption DEF Init, Collected, ByAddress, IsSource

LEMMA NextCollected == SeedInv /\ Collected /\ [Next]_vars => Collected'
<1> SUFFICES ASSUME SeedInv, Collected, [Next]_vars PROVE Collected'
    OBVIOUS
<1>1. CASE UNCHANGED <<sources, seeded>>
    BY <1>1 DEF Collected
<1>2. ASSUME NEW s \in Processes, CommitSeed(s)
      PROVE  Collected'
    <2> DEFINE v == work[s].version
    <2>1. s \in Seeders /\ work[s] # Idle /\ seeded' = v
          /\ sources' = SeedSources(sources, Registries[v].portfolio)
        BY <1>2 DEF CommitSeed, AtEnd
    <2>2. v \in DOMAIN Registries
        BY <2>1 DEF SeedInv, Seeding, Progress, Loaded
    <2> HIDE DEF v
    <2>3. Good(sources', Registries[v].portfolio, Len(Registries[v].portfolio))
        BY <2>1, <2>2, SeedSourcesIsGood DEF Collected
    <2> QED BY <2>1, <2>3 DEF Collected, Good
<1>3. UNCHANGED <<sources, seeded>> \/ \E s \in Processes : CommitSeed(s)
    <2>1. \A p \in Processes : Step(p) \/ Die(p) => UNCHANGED <<sources, seeded>> \/ CommitSeed(p)
        BY DEF Step, FindProduct, InsertProduct, ProductExists, WriteVariant,
           UniqueViolation, Commit,
               DeadlockDetected, Die, Rollback
    <2> QED BY <2>1 DEF Next, Deploy, Refuse, CreateProduct, StartSeed, vars
<1> QED BY <1>1, <1>2, <1>3

(* Whatever rows earlier versions have left, after a seed no shop of the   *)
(* portfolio has two enabled sources, and no adapter of Roots has one away *)
(* from its root, however the loop over the portfolio meets names and      *)
(* addresses of its own.                                                   *)
THEOREM OneCollector == Spec => []OneCollectorPerShop
<1>1. SeedInv /\ Collected => OneCollectorPerShop
    <2> SUFFICES ASSUME SeedInv, Collected, seeded # 0,
                        NEW r1 \in {row \in sources : row.status = "enabled"},
                        NEW r2 \in {row \in sources : row.status = "enabled"}, r1 # r2
                 PROVE  /\ r1.adapter = r2.adapter => r1.adapter \notin DOMAIN Roots
                        /\ r1.name = r2.name => \A i \in DOMAIN Registries[seeded].portfolio :
                                Registries[seeded].portfolio[i].name # r1.name
        BY DEF OneCollectorPerShop
    <2> DEFINE portfolio == Registries[seeded].portfolio
    <2>1. ByAddress(sources) /\ Good(sources, portfolio, Len(portfolio))
        BY DEF Collected
    <2>2. seeded \in DOMAIN Registries
        BY CatalogAssumption DEF SeedInv, Types
    <2>3. DOMAIN portfolio = 1 .. Len(portfolio)
        BY <2>2, SourcesAssumption
    <2> HIDE DEF portfolio
    <2>4. r1.adapter = r2.adapter => r1.adapter \notin DOMAIN Roots
        BY <2>1 DEF Good, AtRoot, ByAddress
    <2>5. r1.name = r2.name => \A i \in DOMAIN portfolio : portfolio[i].name # r1.name
        BY <2>1, <2>3 DEF Good, OneOf
    <2> QED BY <2>4, <2>5 DEF portfolio
<1>2. Init => SeedInv /\ Collected
    BY InitTypes, InitIndexed, InitSeeding, InitCollected DEF SeedInv
<1>3. SeedInv /\ Collected /\ [Next]_vars => (SeedInv /\ Collected)'
    BY NextTypes, NextIndexed, NextSeeding, NextCollected DEF SeedInv
<1> QED BY <1>1, <1>2, <1>3, PTL DEF Spec
=============================================================================
