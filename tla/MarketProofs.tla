---------------------------- MODULE MarketProofs ----------------------------
(***************************************************************************)
(* Theorems about Market, for any listings, quotes, variants and bounds:   *)
(* what the loops and sorts of compare_variant and analyze_product compute *)
(* of any market, and the contract of the answers that follows from it.    *)
(*                                                                         *)
(* An induction over data is an argument about a least counterexample:     *)
(* strict inclusion is well-founded on the subsets of a finite set.        *)
(***************************************************************************)
EXTENDS Market, FiniteSetTheorems, FunctionTheorems, TLAPS

-----------------------------------------------------------------------------
(* Finite sets *)

(* A non-empty set of subsets of a finite set has a least member. *)
LEMMA LeastSet ==
    ASSUME NEW S, IsFiniteSet(S), NEW B \in SUBSET (SUBSET S), B # {}
    PROVE  \E T \in B : \A U \in B : U \subseteq T => U = T
<1>1. IsWellFoundedOn(StrictSubsetOrdering(S), SUBSET S)
    BY FS_StrictSubsetOrderingWellFounded, FS_FiniteSubsetsOfFinite
<1> DEFINE R == StrictSubsetOrdering(S)
           D == SUBSET S
<1> HIDE DEF R, D
<1>2. IsWellFoundedOn(R, D) /\ B \subseteq D
    BY <1>1 DEF R, D
<1>3. \E T \in B : \A U \in B : ~ (<<U, T>> \in R)
    BY <1>2, WFMin
<1> QED BY <1>3 DEF R, D, StrictSubsetOrdering

(* A function by recursion over the subsets of a finite set: what a loop   *)
(* has computed after the elements of T, when the last of them comes after *)
(* those of rest[T] and its turn makes op[T][v] of a value v.              *)
Loop(S, V, base, op, rest) ==
    /\ IsFiniteSet(S) /\ base \in V
    /\ \A T \in SUBSET S : \A v \in V : op[T][v] \in V
    /\ \A T \in SUBSET S : T # {} => rest[T] \subseteq T /\ rest[T] # T

Runs(f, S, V, base, op, rest) ==
    /\ f \in [SUBSET S -> V]
    /\ \A T \in SUBSET S : f[T] = IF T = {} THEN base ELSE op[T][f[rest[T]]]

(* Such a function exists. *)
LEMMA LoopRuns ==
    ASSUME NEW S, NEW V, NEW base, NEW op, NEW rest, Loop(S, V, base, op, rest)
    PROVE  \E f : Runs(f, S, V, base, op, rest)
<1>0. /\ IsFiniteSet(S) /\ base \in V
      /\ \A T \in SUBSET S : \A v \in V : op[T][v] \in V
      /\ \A T \in SUBSET S : T # {} => rest[T] \subseteq T /\ rest[T] # T
    BY DEF Loop
<1> USE <1>0
<1> DEFINE Round(f, T) == IF T = {} THEN base ELSE op[T][f[rest[T]]]
           Good(A, f) == f \in [SUBSET A -> V] /\ \A T \in SUBSET A : f[T] = Round(f, T)
<1>1. ASSUME NEW A \in SUBSET S, NEW B \in SUBSET A, NEW f, NEW g, Good(A, f), Good(B, g)
      PROVE  \A T \in SUBSET B : f[T] = g[T]
    <2> DEFINE Diff == {T \in SUBSET B : f[T] # g[T]}
    <2> SUFFICES ASSUME Diff # {} PROVE FALSE
        OBVIOUS
    <2>0. IsFiniteSet(B) /\ Diff \in SUBSET (SUBSET B)
        BY FS_Subset
    <2>1. PICK T \in Diff : \A U \in Diff : U \subseteq T => U = T
        <3> HIDE DEF Diff
        <3> QED BY <2>0, LeastSet
    <2>2. T # {} /\ rest[T] \subseteq T /\ rest[T] # T /\ rest[T] \notin Diff
        BY <2>1, <1>1
    <2>3. f[rest[T]] = g[rest[T]]
        BY <2>2
    <2> QED BY <2>1, <2>2, <2>3, <1>1
<1> DEFINE Val(T) == (CHOOSE f : Good(T, f))[T]
           Bad == {A \in SUBSET S : ~ \E f : Good(A, f)}
<1>2. ASSUME NEW T \in SUBSET S, T # {}, \E f : Good(T, f), \E f : Good(rest[T], f)
      PROVE  Val(T) = op[T][Val(rest[T])] /\ Val(T) \in V
    <2> DEFINE f == CHOOSE f : Good(T, f)
               U == rest[T]
               g == CHOOSE g : Good(U, g)
    <2>1. Good(T, f) /\ Good(U, g) /\ U \in SUBSET T
        <3> HIDE DEF Good
        <3> QED BY <1>2
    <2> HIDE DEF f, g
    <2>2. f[U] = g[U]
        <3>1. U \in SUBSET U
            OBVIOUS
        <3> HIDE DEF Good, U
        <3> QED BY <2>1, <3>1, <1>1
    <2>3. f[T] = op[T][f[U]] /\ f[T] \in V
        BY <2>1, <1>2
    <2> HIDE DEF Good
    <2> QED BY <2>2, <2>3 DEF f, g
<1>3. ASSUME \E f : Good({}, f)
      PROVE  Val({}) = base
    <2> DEFINE f == CHOOSE f : Good({}, f)
    <2>1. Good({}, f)
        <3> HIDE DEF Good
        <3> QED BY <1>3
    <2> HIDE DEF f
    <2>2. f[{}] = base
        BY <2>1
    <2> HIDE DEF Good
    <2> QED BY <2>2 DEF f
<1>4. ASSUME NEW A \in SUBSET S, \A T \in SUBSET A : T # A => \E f : Good(T, f)
      PROVE  \E f : Good(A, f)
    <2> DEFINE Value(T) == IF T = {} THEN base ELSE IF T = A THEN op[A][Val(rest[A])] ELSE Val(T)
               f == [T \in SUBSET A |-> Value(T)]
    <2>1. ASSUME NEW T \in SUBSET A, T # {}
          PROVE  /\ rest[T] \subseteq T /\ rest[T] # T /\ rest[T] # A /\ rest[T] \in SUBSET A
                 /\ Val(rest[T]) = Value(rest[T])
        <3> HIDE DEF Val
        <3> DEFINE U == rest[T]
        <3>1. rest[T] \subseteq T /\ rest[T] # T /\ U # A /\ U \in SUBSET A
            BY <2>1
        <3>2. \E g : Good(U, g)
            <4> HIDE DEF Good, U
            <4> QED BY <3>1, <1>4
        <3>3. Val(U) = Value(U)
            <4>1. CASE U = {}
                <5> HIDE DEF Good, U
                <5> QED BY <3>2, <4>1, <1>3
            <4>2. CASE U # {}
                BY <3>1, <4>2
            <4> QED BY <4>1, <4>2
        <3> QED BY <3>1, <3>3
    <2>2. ASSUME NEW T \in SUBSET A, T # {}
          PROVE  Value(T) = op[T][Value(rest[T])]
        <3>1. CASE T = A
            <4> HIDE DEF Val
            <4> QED BY <2>1, <2>2, <3>1
        <3>2. CASE T # A
            <4> DEFINE U == rest[T]
            <4>1. (\E g : Good(T, g)) /\ \E g : Good(U, g)
                <5>1. U \in SUBSET A /\ U # A
                    BY <2>1, <2>2
                <5> HIDE DEF Good, U
                <5> QED BY <5>1, <1>4, <3>2
            <4>2. Val(T) = op[T][Val(U)]
                <5> HIDE DEF Good, Val
                <5> QED BY <4>1, <1>2, <2>2
            <4> HIDE DEF Val, Good
            <4> QED BY <4>2, <2>1, <2>2, <3>2
        <3> QED BY <3>1, <3>2
    <2>3. ASSUME NEW T \in SUBSET A
          PROVE  Value(T) \in V
        <3>1. CASE T = {}
            BY <3>1
        <3>2. CASE T # {} /\ T # A
            <4> DEFINE U == rest[T]
            <4>1. (\E g : Good(T, g)) /\ \E g : Good(U, g)
                <5>1. U \in SUBSET A /\ U # A
                    BY <2>1, <3>2
                <5> HIDE DEF Good, U
                <5> QED BY <5>1, <1>4, <3>2
            <4>2. Val(T) \in V
                <5> HIDE DEF Good, Val
                <5> QED BY <4>1, <1>2, <3>2
            <4> HIDE DEF Val, Good
            <4> QED BY <4>2, <3>2
        <3>3. CASE T # {} /\ T = A
            <4> DEFINE U == rest[A]
            <4>0. U \in SUBSET A /\ U # A
                BY <2>1, <3>3
            <4>1. \E g : Good(U, g)
                <5> HIDE DEF Good, U
                <5> QED BY <4>0, <1>4
            <4>2. Val(U) \in V
                <5>1. CASE U = {}
                    <6> HIDE DEF Good, Val, U
                    <6> QED BY <1>3, <4>1, <5>1
                <5>2. CASE U # {}
                    <6> DEFINE X == rest[U]
                    <6>1. X \in SUBSET A /\ X # A
                        BY <4>0, <5>2
                    <6>2. \E g : Good(X, g)
                        <7> HIDE DEF Good, X
                        <7> QED BY <6>1, <1>4
                    <6> HIDE DEF Good, Val, U
                    <6> QED BY <6>2, <4>1, <4>0, <5>2, <1>2
                <5> QED BY <5>1, <5>2
            <4> HIDE DEF Val, Good
            <4> QED BY <4>0, <4>2, <3>3
        <3> QED BY <3>1, <3>2, <3>3
    <2> HIDE DEF Value
    <2>4. f \in [SUBSET A -> V]
        BY <2>3
    <2>5. \A T \in SUBSET A : f[T] = Round(f, T)
        <3> SUFFICES ASSUME NEW T \in SUBSET A PROVE f[T] = Round(f, T)
            OBVIOUS
        <3>1. CASE T = {}
            BY <3>1 DEF Value
        <3>2. CASE T # {}
            BY <3>2, <2>1, <2>2
        <3> QED BY <3>1, <3>2
    <2> QED BY <2>4, <2>5
<1>5. Bad = {}
    <2> SUFFICES ASSUME Bad # {} PROVE FALSE
        OBVIOUS
    <2>1. Bad \in SUBSET (SUBSET S)
        OBVIOUS
    <2>2. PICK A \in Bad : \A U \in Bad : U \subseteq A => U = A
        <3> HIDE DEF Bad
        <3> QED BY <2>1, LeastSet
    <2> HIDE DEF Good
    <2>3. \A T \in SUBSET A : T # A => \E f : Good(T, f)
        BY <2>2
    <2> QED BY <2>2, <2>3, <1>4
<1>6. PICK f : Good(S, f)
    <2> HIDE DEF Good
    <2> QED BY <1>5
<1> QED BY <1>6 DEF Runs

-----------------------------------------------------------------------------
(* The sort and the loop of compare_variant *)

(* Rows that the sort key tells apart. *)
Sortable(S) ==
    /\ IsFiniteSet(S)
    /\ \A s \in S : s.offer \in Nat /\ s.at \in Int
    /\ \A s, t \in S : s.offer = t.offer => s = t

LEMMA SortKeyOrders ==
    ASSUME NEW S, Sortable(S)
    PROVE  /\ \A s, t \in S : s = t \/ Preferred(s, t) \/ Preferred(t, s)
           /\ \A s, t \in S : ~ (Preferred(s, t) /\ Preferred(t, s))
           /\ \A s, t, u \in S : Preferred(s, t) /\ Preferred(t, u) => Preferred(s, u)
BY DEF Sortable, Preferred

LEMMA SortablePart ==
    ASSUME NEW S, Sortable(S), NEW T \in SUBSET S
    PROVE  Sortable(T)
BY FS_Subset DEF Sortable

(* Every non-empty set of rows has one that the sort puts last. *)
LEMMA LastIsLast ==
    ASSUME NEW S, Sortable(S), S # {}
    PROVE  LastOf(S) \in S /\ \A t \in S : t = LastOf(S) \/ Preferred(t, LastOf(S))
<1> DEFINE HasLast(T) == \E s \in T : \A t \in T : t = s \/ Preferred(t, s)
           Bad == {T \in SUBSET S : T # {} /\ ~ HasLast(T)}
<1>1. Bad = {}
    <2> SUFFICES ASSUME Bad # {} PROVE FALSE
        OBVIOUS
    <2>1. PICK T \in Bad : \A U \in Bad : U \subseteq T => U = T
        <3>1. Bad \in SUBSET (SUBSET S) /\ IsFiniteSet(S)
            BY DEF Sortable
        <3> HIDE DEF Bad
        <3> QED BY <3>1, LeastSet
    <2>2. PICK x \in T : TRUE
        BY <2>1
    <2>3. T \ {x} # {}
        BY <2>1, <2>2
    <2>4. PICK s \in T \ {x} : \A t \in T \ {x} : t = s \/ Preferred(t, s)
        <3>1. T \ {x} \in SUBSET S /\ T \ {x} \notin Bad
            BY <2>1, <2>2
        <3>2. HasLast(T \ {x})
            <4> HIDE DEF HasLast
            <4> QED BY <2>3, <3>1
        <3> QED BY <3>2
    <2>5. CASE Preferred(x, s)
        BY <2>1, <2>4, <2>5
    <2>6. CASE ~ Preferred(x, s)
        <3>1. Preferred(s, x)
            BY <2>1, <2>4, <2>6, SortKeyOrders
        <3>2. \A t \in T : t = x \/ Preferred(t, x)
            BY <2>1, <2>4, <3>1, SortKeyOrders
        <3> QED BY <2>1, <2>2, <3>2
    <2> QED BY <2>5, <2>6
<1>2. HasLast(S)
    BY <1>1
<1> QED BY <1>2 DEF LastOf

(* And one that it puts first. *)
LEMMA FirstOf ==
    ASSUME NEW S, Sortable(S), S # {}
    PROVE  \E s \in S : \A t \in S : t = s \/ Preferred(s, t)
<1> DEFINE HasFirst(T) == \E s \in T : \A t \in T : t = s \/ Preferred(s, t)
           Bad == {T \in SUBSET S : T # {} /\ ~ HasFirst(T)}
<1>1. Bad = {}
    <2> SUFFICES ASSUME Bad # {} PROVE FALSE
        OBVIOUS
    <2>1. PICK T \in Bad : \A U \in Bad : U \subseteq T => U = T
        <3>1. Bad \in SUBSET (SUBSET S) /\ IsFiniteSet(S)
            BY DEF Sortable
        <3> HIDE DEF Bad
        <3> QED BY <3>1, LeastSet
    <2>2. PICK x \in T : TRUE
        BY <2>1
    <2>3. T \ {x} # {}
        BY <2>1, <2>2
    <2>4. PICK s \in T \ {x} : \A t \in T \ {x} : t = s \/ Preferred(s, t)
        <3>1. T \ {x} \in SUBSET S /\ T \ {x} \notin Bad
            BY <2>1, <2>2
        <3>2. HasFirst(T \ {x})
            <4> HIDE DEF HasFirst
            <4> QED BY <2>3, <3>1
        <3> QED BY <3>2
    <2>5. CASE Preferred(s, x)
        BY <2>1, <2>4, <2>5
    <2>6. CASE ~ Preferred(s, x)
        <3>1. Preferred(x, s)
            BY <2>1, <2>4, <2>6, SortKeyOrders
        <3>2. \A t \in T : t = x \/ Preferred(x, t)
            BY <2>1, <2>4, <3>1, SortKeyOrders
        <3> QED BY <2>1, <2>2, <3>2
    <2> QED BY <2>5, <2>6
<1> QED BY <1>1

(* The voices of the retailers in a set of rows: those nobody of the same  *)
(* retailer is preferred to.                                               *)
Voices(C) == {s \in C : \A t \in C : SameRetailer(s, t) /\ t # s => Preferred(s, t)}

(* What the loop makes of the rows C, and where it starts. *)
Heard(C, refused) ==
    [included |-> Voices(C), excluded |-> refused \cup {<<s, "duplicate">> : s \in C \ Voices(C)}]

(* One turn: the last of the list is a voice unless its retailer has one. *)
LEMMA TurnHears ==
    ASSUME NEW C, Sortable(C), C # {}, NEW refused
    PROVE  Admit(Heard(C \ {LastOf(C)}, refused), LastOf(C)) = Heard(C, refused)
<1> DEFINE x == LastOf(C)
           D == C \ {x}
<1>1. x \in C /\ \A t \in C : t = x \/ Preferred(t, x)
    BY LastIsLast
<1> HIDE DEF x
<1>2. \A t \in D : ~ Preferred(x, t)
    BY <1>1, SortKeyOrders
<1>3. Voices(C) \ {x} = Voices(D)
    BY <1>1, <1>2 DEF Voices
<1>4. x \in Voices(C) <=> ~ \E t \in D : SameRetailer(x, t)
    BY <1>1, <1>2 DEF Voices
<1>5. (\E t \in D : SameRetailer(x, t)) <=> \E t \in Voices(D) : SameRetailer(x, t)
    <2> SUFFICES ASSUME NEW t \in D, SameRetailer(x, t)
                 PROVE  \E u \in Voices(D) : SameRetailer(x, u)
        BY DEF Voices
    <2> DEFINE Rivals == {u \in D : SameRetailer(x, u)}
    <2>1. Sortable(Rivals) /\ Rivals # {}
        BY SortablePart, <1>1
    <2>2. PICK u \in Rivals : \A v \in Rivals : v = u \/ Preferred(u, v)
        <3> HIDE DEF Rivals
        <3> QED BY <2>1, FirstOf
    <2> QED BY <2>2 DEF Voices, SameRetailer
<1>6. CASE \E t \in D : SameRetailer(x, t)
    <2>1. Admit(Heard(D, refused), x) = [Heard(D, refused) EXCEPT !.excluded = @ \cup {<<x, "duplicate">>}]
        BY <1>5, <1>6 DEF Admit, Heard, SameRetailer
    <2>2. Voices(C) = Voices(D) /\ C \ Voices(C) = (D \ Voices(D)) \cup {x}
        BY <1>1, <1>3, <1>4, <1>6 DEF Voices
    <2> QED BY <2>1, <2>2 DEF Heard, x
<1>7. CASE ~ \E t \in D : SameRetailer(x, t)
    <2>1. Admit(Heard(D, refused), x) = [Heard(D, refused) EXCEPT !.included = @ \cup {x}]
        BY <1>5, <1>7 DEF Admit, Heard, SameRetailer
    <2>2. Voices(C) = Voices(D) \cup {x} /\ C \ Voices(C) = D \ Voices(D)
        BY <1>1, <1>3, <1>4, <1>7 DEF Voices
    <2> QED BY <2>1, <2>2 DEF Heard, x
<1> QED BY <1>6, <1>7

(* The whole loop, in the order of the sort. *)
LEMMA LoopHears ==
    ASSUME NEW C, Sortable(C), NEW refused
    PROVE  MapThenFoldSet(LAMBDA s, population : Admit(population, s),
                          [included |-> {}, excluded |-> refused], LAMBDA s : s, LastOf, C)
             = Heard(C, refused)
<1> DEFINE V == [included : SUBSET C, excluded : SUBSET (refused \cup (C \X {"duplicate"}))]
           base == [included |-> {}, excluded |-> refused]
           rest == [T \in SUBSET C |-> T \ {LastOf(T)}]
           op == [T \in SUBSET C |-> [v \in V |-> IF T = {} THEN base ELSE Admit(v, LastOf(T))]]
           Turn(g, T) == IF T = {} THEN base ELSE Admit(g[T \ {LastOf(T)}], LastOf(T))
           Recurs(g) == g = [T \in SUBSET C |-> Turn(g, T)]
<1>1. \A T \in SUBSET C : T # {} => LastOf(T) \in T
    BY SortablePart, LastIsLast
<1>2. base \in V
    OBVIOUS
<1>3. \A T \in SUBSET C : \A v \in V : op[T][v] \in V
    <2>1. \A s \in C, population \in V : Admit(population, s) \in V
        BY DEF Admit
    <2> HIDE DEF base, V
    <2> QED BY <1>1, <1>2, <2>1
<1>4. PICK f : Runs(f, C, V, base, op, rest)
    <2>1. IsFiniteSet(C) /\ \A T \in SUBSET C : T # {} => rest[T] \subseteq T /\ rest[T] # T
        BY <1>1 DEF Sortable
    <2>2. Loop(C, V, base, op, rest)
        <3> HIDE DEF V, base, op, rest
        <3> QED BY <1>2, <1>3, <2>1 DEF Loop
    <2> HIDE DEF V, base, op, rest
    <2> QED BY <2>2, LoopRuns
<1>5. Recurs(f)
    <2> SUFFICES ASSUME NEW T \in SUBSET C
                 PROVE  f[T] = Turn(f, T)
        BY <1>4 DEF Runs
    <2>1. CASE T = {}
        BY <1>4, <2>1 DEF Runs
    <2>2. CASE T # {}
        <3>1. rest[T] = T \ {LastOf(T)} /\ f[rest[T]] \in V
            BY <1>4 DEF Runs
        <3>2. f[T] = op[T][f[rest[T]]]
            BY <1>4, <2>2 DEF Runs
        <3> HIDE DEF V
        <3> QED BY <3>1, <3>2, <2>2
    <2> QED BY <2>1, <2>2
<1>6. ASSUME NEW g, Recurs(g)
      PROVE  g[C] = Heard(C, refused)
    <2> DEFINE Bad == {T \in SUBSET C : g[T] # Heard(T, refused)}
    <2> SUFFICES ASSUME Bad # {} PROVE FALSE
        OBVIOUS
    <2>1. PICK T \in Bad : \A U \in Bad : U \subseteq T => U = T
        <3>1. Bad \in SUBSET (SUBSET C) /\ IsFiniteSet(C)
            BY DEF Sortable
        <3> HIDE DEF Bad
        <3> QED BY <3>1, LeastSet
    <2>2. T \in SUBSET C /\ g[T] = Turn(g, T) /\ Sortable(T)
        BY <1>6, SortablePart
    <2>3. T # {}
        BY <2>2 DEF Heard, Voices
    <2>4. LastOf(T) \in T /\ T \ {LastOf(T)} \notin Bad
        BY <1>1, <2>1, <2>3
    <2>5. g[T \ {LastOf(T)}] = Heard(T \ {LastOf(T)}, refused)
        BY <2>2, <2>4
    <2>6. g[T] = Heard(T, refused)
        BY <2>2, <2>3, <2>5, TurnHears
    <2> QED BY <2>1, <2>6
<1>7. Recurs(CHOOSE g : Recurs(g))
    <2> HIDE DEF Recurs
    <2> QED BY <1>5
<1>8. MapThenFoldSet(LAMBDA s, population : Admit(population, s), base, LAMBDA s : s, LastOf, C)
        = (CHOOSE g : Recurs(g))[C]
    BY DEF MapThenFoldSet
<1> HIDE DEF Recurs
<1> QED BY <1>6, <1>7, <1>8

(* The population of a comparison: each row refused for its own reason, or *)
(* the voice of its retailer, or a duplicate of one.                       *)
LEMMA PopulationIs ==
    ASSUME NEW S, Sortable(S), NEW cutoff, NEW C, C = {s \in S : Reason(s, cutoff) = "base"}
    PROVE  Population(S, cutoff) = Heard(C, {<<s, Reason(s, cutoff)>> : s \in S \ C})
<1>1. Sortable(C)
    BY SortablePart
<1> QED BY <1>1, LoopHears DEF Population

-----------------------------------------------------------------------------
(* The voices *)

(* Each row has exactly one voice: the first of its retailer's.            *)
LEMMA EachHasOneVoice ==
    ASSUME NEW C, Sortable(C), NEW s \in C
    PROVE  \E t \in Voices(C) : /\ SameRetailer(s, t) /\ (t = s \/ Preferred(t, s))
                                /\ \A u \in Voices(C) : SameRetailer(s, u) => u = t
<1> DEFINE Own == {t \in C : SameRetailer(s, t)}
<1>1. Sortable(Own) /\ Own # {}
    BY SortablePart DEF SameRetailer
<1>2. PICK t \in Own : \A u \in Own : u = t \/ Preferred(t, u)
    <2> HIDE DEF Own
    <2> QED BY <1>1, FirstOf
<1>3. t \in Voices(C) /\ SameRetailer(s, t) /\ (t = s \/ Preferred(t, s))
    BY <1>2 DEF Voices, SameRetailer
<1>4. ASSUME NEW u \in Voices(C), SameRetailer(s, u)
      PROVE  u = t
    BY <1>2, <1>3, <1>4, SortKeyOrders DEF Voices, SameRetailer
<1> QED BY <1>3, <1>4

(* A copy beside a direct row of its retailer is no voice, and silences    *)
(* none.                                                                   *)
LEMMA CopiesAreNoVoices ==
    ASSUME NEW C, Sortable(C), NEW D \in SUBSET C, NEW s \in D, s.source \notin Aggregators,
           \A x \in C \ D : x.source \in Aggregators /\ SameRetailer(x, s)
    PROVE  Voices(C) = Voices(D)
<1>1. ASSUME NEW x \in C \ D
      PROVE  Preferred(s, x) /\ ~ Preferred(x, s)
    BY DEF Preferred
<1>2. Voices(C) \subseteq D
    BY <1>1 DEF Voices, SameRetailer
<1>3. ASSUME NEW c \in Voices(D), NEW t \in C \ D, SameRetailer(c, t)
      PROVE  Preferred(c, t)
    <2>1. c = s \/ Preferred(c, s)
        BY <1>3 DEF Voices, SameRetailer
    <2> QED BY <1>1, <2>1, SortKeyOrders DEF Voices
<1> QED BY <1>2, <1>3 DEF Voices

(* The voices speak for all the retailers there are. *)
LEMMA VoicesSpeakForAll ==
    ASSUME NEW C, Sortable(C)
    PROVE  /\ Voices(C) = {} <=> C = {}
           /\ {RetailerOf[s.seller] : s \in Voices(C)} = {RetailerOf[s.seller] : s \in C}
<1>1. ASSUME NEW s \in C
      PROVE  \E t \in Voices(C) : RetailerOf[s.seller] = RetailerOf[t.seller]
    <2>1. PICK t \in Voices(C) : SameRetailer(s, t)
        BY EachHasOneVoice
    <2> QED BY <2>1 DEF SameRetailer
<1>2. Voices(C) \subseteq C
    BY DEF Voices
<1> QED BY <1>1, <1>2

(* The rows that a comparison admits to its loop. *)
Admitted(S, cutoff) == {s \in S : Reason(s, cutoff) = "base"}

(* The prices of a set of rows, in order too. *)
Prices(S) == [s \in S |-> s.price]
PricesInOrder(S) == SortedValues(LAMBDA s : s.price, S)

(* What the comparison of a set of rows tells of its voices. *)
LEMMA CompareTells ==
    ASSUME NEW S, Sortable(S), NEW cutoff
    PROVE  /\ Compare(S, cutoff).included = Voices(Admitted(S, cutoff))
           /\ Compare(S, cutoff).excluded =
                     {<<s, Reason(s, cutoff)>> : s \in S \ Admitted(S, cutoff)}
                \cup {<<s, "duplicate">> : s \in Admitted(S, cutoff) \ Voices(Admitted(S, cutoff))}
           /\ Compare(S, cutoff).retailers = {RetailerOf[s.seller] : s \in Admitted(S, cutoff)}
           /\ Compare(S, cutoff).median =
                IF Admitted(S, cutoff) = {} THEN None
                ELSE Median(PricesInOrder(Voices(Admitted(S, cutoff))))
<1> DEFINE C == Admitted(S, cutoff)
<1>0. C = {s \in S : Reason(s, cutoff) = "base"}
    BY DEF Admitted
<1> HIDE DEF C
<1>1. Population(S, cutoff).included = Voices(C)
    BY <1>0, PopulationIs DEF Heard
<1>2. Population(S, cutoff).excluded =
        {<<s, Reason(s, cutoff)>> : s \in S \ C} \cup {<<s, "duplicate">> : s \in C \ Voices(C)}
    BY <1>0, PopulationIs DEF Heard
<1>3. Sortable(C)
    BY <1>0, SortablePart
<1>4. Voices(C) = {} <=> C = {}
    BY <1>3, VoicesSpeakForAll
<1>5. {RetailerOf[s.seller] : s \in Voices(C)} = {RetailerOf[s.seller] : s \in C}
    BY <1>3, VoicesSpeakForAll
<1> HIDE DEF Voices
<1> QED BY <1>1, <1>2, <1>4, <1>5 DEF Compare, C, PricesInOrder

-----------------------------------------------------------------------------
(* Types, and the rows of a state *)

(* The variables have their types: in particular every offer has a newest  *)
(* observation, no later than now, of a positive price.                    *)
THEOREM TypeCorrect == Spec => []TypeOK
<1>1. Init => TypeOK
    BY MarketAssumption, FS_EmptySet DEF Init, TypeOK
<1>2. TypeOK /\ [Next]_vars => TypeOK'
    <2> SUFFICES ASSUME TypeOK, [Next]_vars PROVE TypeOK'
        OBVIOUS
    <2>1. CASE Tick
        <3>1. now' \in 0 .. MaxNow /\ latest' = latest /\ observations' = observations
            BY <2>1, MarketAssumption DEF Tick, TypeOK
        <3>2. 0 .. now \subseteq 0 .. now'
            BY <2>1, MarketAssumption DEF Tick, TypeOK
        <3> QED BY <3>1, <3>2 DEF TypeOK
    <2>2. ASSUME NEW l \in Listings, NEW quote \in Quotes, Observe(l, quote)
          PROVE  TypeOK'
        <3>1. IsFiniteSet(DOMAIN latest \cup {l})
            BY FS_AddElement DEF TypeOK
        <3>2. quote.price \in Nat \ {0} /\ quote.terms \in Terms
            BY MarketAssumption
        <3>3. now' \in 0 .. MaxNow /\ observations' \in 0 .. MaxObservations
            BY <2>2, MarketAssumption DEF Observe, TypeOK
        <3>4. DOMAIN latest' = DOMAIN latest \cup {l}
            BY <2>2 DEF Observe
        <3>5. ASSUME NEW k \in DOMAIN latest'
              PROVE  latest'[k] \in [price : Nat \ {0}, terms : Terms, at : 0 .. now']
            <4>1. now' = now /\ now \in 0 .. now
                BY <2>2, MarketAssumption DEF Observe, TypeOK
            <4>2. latest'[k] = IF k = l THEN [price |-> quote.price, terms |-> quote.terms, at |-> now]
                               ELSE latest[k]
                BY <2>2, <3>4, <3>5 DEF Observe
            <4>3. CASE k = l
                BY <3>2, <4>1, <4>2, <4>3
            <4>4. CASE k # l
                BY <3>4, <3>5, <4>1, <4>2, <4>4 DEF TypeOK
            <4> QED BY <4>3, <4>4
        <3> QED BY <3>1, <3>3, <3>4, <3>5 DEF TypeOK
    <2>3. CASE UNCHANGED vars
        BY <2>3 DEF vars, TypeOK
    <2> QED BY <2>1, <2>2, <2>3 DEF Next
<1> QED BY <1>1, <1>2, PTL DEF Spec

(* The row of a listing, given its newest observation. *)
Row(l, o) ==
    [offer |-> l.offer, variant |-> l.variant, source |-> l.source, seller |-> l.seller,
     price |-> o.price, terms |-> o.terms, at |-> o.at]

(* The rows of the observations L at time n, and those a comparison admits. *)
LEMMA RowsOf ==
    ASSUME NEW L, IsFiniteSet(DOMAIN L), DOMAIN L \subseteq Listings, NEW n \in Nat,
           \A l \in DOMAIN L : L[l] \in [price : Nat \ {0}, terms : Terms, at : 0 .. n],
           NEW R, R = {Row(l, L[l]) : l \in DOMAIN L}
    PROVE  /\ Sortable(R)
           /\ \A s \in R : s.price \in Nat \ {0} /\ s.terms \in Terms /\ s.at \in Nat
           /\ \A S \in SUBSET R : {s \in S : s.terms = "base" /\ s.at + MaxAge >= n} = Admitted(S, n - MaxAge)
<1> DEFINE f == [l \in DOMAIN L |-> Row(l, L[l])]
<1>1. f \in Surjection(DOMAIN L, R)
    <2>1. f \in [DOMAIN L -> R] /\ \A r \in R : \E l \in DOMAIN L : f[l] = r
        OBVIOUS
    <2> HIDE DEF f
    <2> QED BY <2>1, Fun_IsSurj
<1>2. IsFiniteSet(R)
    <2> HIDE DEF f
    <2> QED BY <1>1, FS_Surjection
<1>3. ASSUME NEW l \in DOMAIN L
      PROVE  Row(l, L[l]).offer = l.offer /\ l.offer \in Nat /\ Row(l, L[l]).at \in Nat
    BY MarketAssumption DEF Row
<1>4. \A k, l \in DOMAIN L : Row(k, L[k]).offer = Row(l, L[l]).offer => k = l
    BY <1>3, MarketAssumption
<1> HIDE DEF f
<1>5. Sortable(R)
    BY <1>2, <1>3, <1>4 DEF Sortable
<1>6. \A s \in R : s.price \in Nat \ {0} /\ s.terms \in Terms /\ s.at \in Nat
    BY DEF Row
<1>7. ASSUME NEW S \in SUBSET R
      PROVE  {s \in S : s.terms = "base" /\ s.at + MaxAge >= n} = Admitted(S, n - MaxAge)
    <2>1. ASSUME NEW s \in S
          PROVE  s.terms = "base" /\ s.at + MaxAge >= n <=> Reason(s, n - MaxAge) = "base"
        BY <1>6, MarketAssumption DEF Reason
    <2> QED BY <2>1 DEF Admitted
<1> QED BY <1>5, <1>6, <1>7

(* The rows of a state, and of the state after a step. *)
LEMMA RowsOfAState ==
    TypeOK =>
      /\ Snapshots = {Row(l, latest[l]) : l \in DOMAIN latest}
      /\ Sortable(Snapshots)
      /\ \A s \in Snapshots : s.price \in Nat \ {0} /\ s.terms \in Terms /\ s.at \in Nat
      /\ \A v : Sortable(OfVariant(v))
      /\ \A v : Comparable(v) = Admitted(OfVariant(v), Cutoff)
<1> SUFFICES ASSUME TypeOK
             PROVE  /\ Snapshots = {Row(l, latest[l]) : l \in DOMAIN latest}
                    /\ Sortable(Snapshots)
                    /\ \A s \in Snapshots : s.price \in Nat \ {0} /\ s.terms \in Terms /\ s.at \in Nat
                    /\ \A v : Sortable(OfVariant(v))
                    /\ \A v : Comparable(v) = Admitted(OfVariant(v), Cutoff)
    OBVIOUS
<1>1. Snapshots = {Row(l, latest[l]) : l \in DOMAIN latest}
    BY DEF Snapshots, Row
<1>2. /\ now \in Nat /\ IsFiniteSet(DOMAIN latest) /\ DOMAIN latest \subseteq Listings
      /\ \A l \in DOMAIN latest : latest[l] \in [price : Nat \ {0}, terms : Terms, at : 0 .. now]
    BY MarketAssumption DEF TypeOK
<1>3. /\ Sortable(Snapshots)
      /\ \A s \in Snapshots : s.price \in Nat \ {0} /\ s.terms \in Terms /\ s.at \in Nat
      /\ \A S \in SUBSET Snapshots :
            {s \in S : s.terms = "base" /\ s.at + MaxAge >= now} = Admitted(S, now - MaxAge)
    BY <1>1, <1>2, RowsOf
<1>4. ASSUME NEW v
      PROVE  Sortable(OfVariant(v)) /\ Comparable(v) = Admitted(OfVariant(v), Cutoff)
    BY <1>3, SortablePart DEF OfVariant, Comparable, Cutoff
<1> QED BY <1>1, <1>3, <1>4

LEMMA RowsOfTheNextState ==
    TypeOK' =>
      /\ Snapshots' = {Row(l, latest'[l]) : l \in DOMAIN latest'}
      /\ Sortable(Snapshots')
      /\ \A v : Sortable(OfVariant(v)')
      /\ \A v : Comparable(v)' = Admitted(OfVariant(v)', Cutoff')
<1> SUFFICES ASSUME TypeOK'
             PROVE  /\ Snapshots' = {Row(l, latest'[l]) : l \in DOMAIN latest'}
                    /\ Sortable(Snapshots')
                    /\ \A v : Sortable(OfVariant(v)')
                    /\ \A v : Comparable(v)' = Admitted(OfVariant(v)', Cutoff')
    OBVIOUS
<1>1. Snapshots' = {Row(l, latest'[l]) : l \in DOMAIN latest'}
    BY DEF Snapshots, Row
<1>2. /\ now' \in Nat /\ IsFiniteSet(DOMAIN latest') /\ DOMAIN latest' \subseteq Listings
      /\ \A l \in DOMAIN latest' : latest'[l] \in [price : Nat \ {0}, terms : Terms, at : 0 .. now']
    BY MarketAssumption DEF TypeOK
<1>3. /\ Sortable(Snapshots')
      /\ \A S \in SUBSET Snapshots' :
            {s \in S : s.terms = "base" /\ s.at + MaxAge >= now'} = Admitted(S, now' - MaxAge)
    BY <1>1, <1>2, RowsOf
<1>4. ASSUME NEW v
      PROVE  Sortable(OfVariant(v)') /\ Comparable(v)' = Admitted(OfVariant(v)', Cutoff')
    BY <1>3, SortablePart DEF OfVariant, Comparable, Cutoff
<1> QED BY <1>1, <1>3, <1>4

-----------------------------------------------------------------------------
(* The contract of a comparison *)

(* Whatever the offers, their sources and the names they are sold under,   *)
(* a comparison hears each retailer once: directly if it can be, and by    *)
(* the newest observation of that kind.                                    *)
THEOREM OneVoice == Spec => []OneVoicePerRetailer
<1>1. TypeOK => OneVoicePerRetailer
    <2> SUFFICES ASSUME TypeOK, NEW v \in Variants
                 PROVE  LET included == Comparison(v).included
                        IN  /\ included \subseteq Comparable(v)
                            /\ \A s \in Comparable(v) : \E t \in included :
                                 /\ \A u \in included : SameRetailer(s, u) => u = t
                                 /\ SameRetailer(s, t)
                                 /\ t.source \in Aggregators => s.source \in Aggregators
                                 /\ (t.source \in Aggregators <=> s.source \in Aggregators) => s.at <= t.at
        BY DEF OneVoicePerRetailer
    <2> DEFINE C == Comparable(v)
    <2>1. Sortable(C) /\ C \subseteq Snapshots
        BY RowsOfAState, SortablePart DEF Comparable, OfVariant
    <2>2. Comparison(v).included = Voices(C)
        BY RowsOfAState, CompareTells DEF Comparison
    <2>3. \A s \in C : s.at \in Nat
        BY <2>1, RowsOfAState
    <2> HIDE DEF C
    <2>4. ASSUME NEW s \in C
          PROVE  \E t \in Voices(C) :
                     /\ \A u \in Voices(C) : SameRetailer(s, u) => u = t
                     /\ SameRetailer(s, t)
                     /\ t.source \in Aggregators => s.source \in Aggregators
                     /\ (t.source \in Aggregators <=> s.source \in Aggregators) => s.at <= t.at
        <3>1. PICK t \in Voices(C) : /\ SameRetailer(s, t) /\ (t = s \/ Preferred(t, s))
                                      /\ \A u \in Voices(C) : SameRetailer(s, u) => u = t
            BY <2>1, EachHasOneVoice
        <3>2. t \in C
            BY DEF Voices
        <3>3. /\ t.source \in Aggregators => s.source \in Aggregators
              /\ (t.source \in Aggregators <=> s.source \in Aggregators) => s.at <= t.at
            BY <2>3, <3>1, <3>2 DEF Preferred
        <3> QED BY <3>1, <3>3
    <2>5. Voices(C) \subseteq C
        BY DEF Voices
    <2> QED BY <2>2, <2>4, <2>5 DEF C
<1> QED BY <1>1, TypeCorrect, PTL

(* However many offers a variant has, each is compared, or excluded for    *)
(* exactly one reason, and a duplicate beside the voice of its retailer.   *)
THEOREM Explained == Spec => []EveryOfferExplained
<1>1. TypeOK => EveryOfferExplained
    <2> SUFFICES ASSUME TypeOK, NEW v \in Variants
                 PROVE  LET c == Comparison(v)
                        IN  /\ c.included \cup {e[1] : e \in c.excluded} = OfVariant(v)
                            /\ \A e \in c.excluded :
                                 /\ e[1] \notin c.included
                                 /\ \A f \in c.excluded : f[1] = e[1] => f = e
                                 /\ e[2] = "duplicate" => \E t \in c.included : SameRetailer(e[1], t)
        BY DEF EveryOfferExplained
    <2> DEFINE S == OfVariant(v)
               C == Comparable(v)
               E == {<<s, Reason(s, Cutoff)>> : s \in S \ C} \cup {<<s, "duplicate">> : s \in C \ Voices(C)}
    <2>1. Sortable(C) /\ C \subseteq S
        BY RowsOfAState, SortablePart DEF Comparable
    <2>2. Comparison(v).included = Voices(C) /\ Comparison(v).excluded = E
        BY RowsOfAState, CompareTells DEF Comparison
    <2>3. \A s \in S : Reason(s, Cutoff) # "duplicate"
        BY RowsOfAState DEF Reason, OfVariant, Terms
    <2> HIDE DEF S, C
    <2>4. Voices(C) \subseteq C
        BY DEF Voices
    <2>5. ASSUME NEW s \in C
          PROVE  \E t \in Voices(C) : SameRetailer(s, t)
        BY <2>1, EachHasOneVoice
    <2>6. Voices(C) \cup {e[1] : e \in E} = S
        <3>1. \A e \in E : e[1] \in S
            BY <2>1
        <3>2. ASSUME NEW s \in S \ Voices(C)
              PROVE  \E e \in E : e[1] = s
            <4>1. CASE s \in C
                <5>1. <<s, "duplicate">> \in E
                    BY <4>1, <3>2
                <5> QED BY <5>1
            <4>2. CASE s \notin C
                <5>1. <<s, Reason(s, Cutoff)>> \in E
                    BY <4>2, <3>2
                <5> QED BY <5>1
            <4> QED BY <4>1, <4>2
        <3> HIDE DEF E
        <3> QED BY <2>1, <2>4, <3>1, <3>2
    <2>7. ASSUME NEW e \in E
          PROVE  /\ e[1] \notin Voices(C)
                 /\ \A f \in E : f[1] = e[1] => f = e
                 /\ e[2] = "duplicate" => \E t \in Voices(C) : SameRetailer(e[1], t)
        <3>1. e[1] \notin Voices(C) /\ \A f \in E : f[1] = e[1] => f = e
            BY <2>4
        <3>2. e[2] = "duplicate" => e[1] \in C
            BY <2>3
        <3> QED BY <2>5, <3>1, <3>2
    <2> HIDE DEF E
    <2> QED BY <2>2, <2>6, <2>7 DEF S
<1> QED BY <1>1, TypeCorrect, PTL

(* The figures of a comparison depend on the voices alone. *)
LEMMA FiguresOfVoices ==
    ASSUME NEW S, NEW c, NEW T, NEW d, Compare(S, c).included = Compare(T, d).included
    PROVE  /\ Compare(S, c).min = Compare(T, d).min
           /\ Compare(S, c).median = Compare(T, d).median
           /\ Compare(S, c).max = Compare(T, d).max
           /\ Compare(S, c).offers = Compare(T, d).offers
           /\ Compare(S, c).sources = Compare(T, d).sources
<1>1. Population(S, c).included = Population(T, d).included
    BY DEF Compare
<1> QED BY <1>1 DEF Compare

(* While a retailer is heard directly, no observation of an aggregator's   *)
(* copy of its offer, at any price, moves a figure of the comparison.      *)
THEOREM Silent == Spec => CopiesAreSilent
<1>1. ASSUME TypeOK, TypeOK', NEW l \in Listings, NEW quote \in Quotes, Observe(l, quote),
             l.source \in Aggregators,
             NEW s \in Comparable(l.variant), SameRetailer(l, s), s.source \notin Aggregators
      PROVE  Comparison(l.variant).included = Comparison(l.variant)'.included
    <2> DEFINE v == l.variant
               C == Comparable(v)
               N == Comparable(v)'
               D == {r \in C : r.offer # l.offer}
    <2>1. Snapshots = {Row(k, latest[k]) : k \in DOMAIN latest}
          /\ Snapshots' = {Row(k, latest'[k]) : k \in DOMAIN latest'}
        BY DEF Snapshots, Row
    <2>2. \A r \in Snapshots \cup Snapshots' : r.offer = l.offer =>
                 r.source = l.source /\ r.seller = l.seller
        BY <2>1, <1>1, MarketAssumption DEF Row, TypeOK
    <2>3. ASSUME NEW r, r.offer # l.offer
          PROVE  r \in Snapshots <=> r \in Snapshots'
        <3>1. \A k : k # l => (k \in DOMAIN latest <=> k \in DOMAIN latest')
            BY <1>1 DEF Observe
        <3>2. \A k \in DOMAIN latest : k # l => latest'[k] = latest[k]
            BY <1>1 DEF Observe
        <3>3. \A o : Row(l, o).offer = l.offer
            BY DEF Row
        <3> QED BY <2>1, <2>3, <3>1, <3>2, <3>3
    <2>4. now' = now /\ Cutoff' = Cutoff
        BY <1>1 DEF Observe, Cutoff
    <2>5. D = {r \in N : r.offer # l.offer}
        BY <2>3, <2>4 DEF Comparable, OfVariant
    <2>6. s \in D
        BY <2>2, <1>1 DEF Comparable, OfVariant
    <2>7. Sortable(C) /\ Sortable(N)
        <3>1. Sortable(OfVariant(v)) /\ Sortable(OfVariant(v)')
            BY <1>1, RowsOfAState, RowsOfTheNextState
        <3>2. C \in SUBSET OfVariant(v) /\ N \in SUBSET OfVariant(v)'
            BY DEF Comparable
        <3> HIDE DEF C, N
        <3> QED BY <3>1, <3>2, SortablePart
    <2>8. /\ \A x \in C \ D : x.source \in Aggregators /\ SameRetailer(x, s)
          /\ \A x \in N \ D : x.source \in Aggregators /\ SameRetailer(x, s)
        BY <2>2, <2>5, <1>1 DEF Comparable, OfVariant, SameRetailer
    <2>9. Voices(C) = Voices(D) /\ Voices(N) = Voices(D)
        <3>1. D \in SUBSET C /\ D \in SUBSET N
            BY <2>5
        <3> HIDE DEF C, N, D
        <3>2. s \in D /\ s.source \notin Aggregators
            BY <1>1, <2>6
        <3>3. Voices(C) = Voices(D)
            BY <2>7, <2>8, <3>1, <3>2, CopiesAreNoVoices
        <3>4. Voices(N) = Voices(D)
            BY <2>7, <2>8, <3>1, <3>2, CopiesAreNoVoices
        <3> QED BY <3>3, <3>4
    <2>10. Comparison(v).included = Voices(C)
        <3>1. Sortable(OfVariant(v)) /\ C = Admitted(OfVariant(v), Cutoff)
            BY <1>1, RowsOfAState
        <3> HIDE DEF C
        <3> QED BY <3>1, CompareTells DEF Comparison
    <2>11. Comparison(v)'.included = Voices(N)
        <3>1. Sortable(OfVariant(v)') /\ N = Admitted(OfVariant(v)', Cutoff')
            BY <1>1, RowsOfTheNextState
        <3>2. Comparison(v)' = Compare(OfVariant(v)', Cutoff')
            BY DEF Comparison
        <3> HIDE DEF N
        <3> QED BY <3>1, <3>2, CompareTells
    <2> QED BY <2>9, <2>10, <2>11
<1>2. TypeOK /\ TypeOK' => CopyIsSilent
    <2> SUFFICES ASSUME TypeOK, TypeOK', NEW l \in Listings, NEW quote \in Quotes, Observe(l, quote),
                        l.source \in Aggregators,
                        NEW s \in Comparable(l.variant), SameRetailer(l, s), s.source \notin Aggregators
                 PROVE  /\ Comparison(l.variant)'.min = Comparison(l.variant).min
                        /\ Comparison(l.variant)'.median = Comparison(l.variant).median
                        /\ Comparison(l.variant)'.max = Comparison(l.variant).max
                        /\ Comparison(l.variant)'.offers = Comparison(l.variant).offers
                        /\ Comparison(l.variant)'.sources = Comparison(l.variant).sources
        BY DEF CopyIsSilent
    <2>1. Comparison(l.variant).included = Comparison(l.variant)'.included
        BY <1>1
    <2> QED BY <2>1, FiguresOfVoices DEF Comparison
<1> QED BY <1>2, TypeCorrect, PTL DEF CopiesAreSilent

-----------------------------------------------------------------------------
(* Sorted lists and medians *)

(* A list of the elements of S, each once, in the order of their keys. *)
Sorts(e, S, key) ==
    /\ e \in [1 .. Cardinality(S) -> S]
    /\ \A i, j \in 1 .. Cardinality(S) : i # j => e[i] # e[j]
    /\ \A i, j \in 1 .. Cardinality(S) : i < j => key[e[i]] <= key[e[j]]

(* A non-empty finite set has an element of the greatest key. *)
LEMMA Greatest ==
    ASSUME NEW S, IsFiniteSet(S), S # {}, NEW key \in [S -> Int]
    PROVE  \E x \in S : \A y \in S : key[y] <= key[x]
<1> DEFINE Has(T) == \E x \in T : \A y \in T : key[y] <= key[x]
           Bad == {T \in SUBSET S : T # {} /\ ~ Has(T)}
<1>1. Bad = {}
    <2> SUFFICES ASSUME Bad # {} PROVE FALSE
        OBVIOUS
    <2>1. PICK T \in Bad : \A U \in Bad : U \subseteq T => U = T
        <3>1. Bad \in SUBSET (SUBSET S)
            OBVIOUS
        <3> HIDE DEF Bad
        <3> QED BY <3>1, LeastSet
    <2>2. PICK x \in T : TRUE
        BY <2>1
    <2>3. T \ {x} # {} /\ T \ {x} \in SUBSET S /\ T \ {x} \notin Bad
        <3>1. key[x] <= key[x]
            BY <2>1, <2>2
        <3> QED BY <2>1, <2>2, <3>1
    <2>4. Has(T \ {x})
        <3> HIDE DEF Has
        <3> QED BY <2>3
    <2>5. PICK s \in T \ {x} : \A y \in T \ {x} : key[y] <= key[s]
        BY <2>4
    <2>6. \A y \in T : key[y] \in Int
        BY <2>1
    <2>7. CASE key[x] <= key[s]
        BY <2>1, <2>5, <2>7
    <2>8. CASE ~ (key[x] <= key[s])
        <3>1. \A y \in T : key[y] <= key[x]
            BY <2>5, <2>6, <2>8
        <3> QED BY <2>1, <2>2, <3>1
    <2> QED BY <2>7, <2>8
<1> QED BY <1>1

(* Every finite set can be sorted. *)
LEMMA SortedListExists ==
    ASSUME NEW S, IsFiniteSet(S), NEW key \in [S -> Int]
    PROVE  \E e : Sorts(e, S, key)
<1> DEFINE Bad == {T \in SUBSET S : ~ \E e : Sorts(e, T, key)}
<1>1. Bad = {}
    <2> SUFFICES ASSUME Bad # {} PROVE FALSE
        OBVIOUS
    <2>1. PICK T \in Bad : \A U \in Bad : U \subseteq T => U = T
        <3>1. Bad \in SUBSET (SUBSET S)
            OBVIOUS
        <3> HIDE DEF Bad
        <3> QED BY <3>1, LeastSet
    <2>2. T \in SUBSET S /\ IsFiniteSet(T) /\ ~ \E e : Sorts(e, T, key)
        BY <2>1, FS_Subset
    <2>3. CASE T = {}
        <3>1. Sorts([i \in 1 .. 0 |-> i], {}, key)
            BY FS_EmptySet DEF Sorts
        <3> QED BY <2>2, <2>3, <3>1
    <2>4. CASE T # {}
        <3>1. PICK x \in T : \A y \in T : key[y] <= key[x]
            <4>1. [y \in T |-> key[y]] \in [T -> Int]
                BY <2>2
            <4> QED BY <2>2, <2>4, <4>1, Greatest
        <3> DEFINE U == T \ {x}
                   n == Cardinality(U)
        <3>2. n \in Nat /\ Cardinality(T) = n + 1
            <4>1. IsFiniteSet(U) /\ Cardinality(U) = Cardinality(T) - 1
                BY <2>2, FS_RemoveElement
            <4>2. Cardinality(U) \in Nat /\ Cardinality(T) \in Nat
                BY <2>2, <4>1, FS_CardinalityType
            <4> HIDE DEF U
            <4> QED BY <4>1, <4>2
        <3>3. PICK e : Sorts(e, U, key)
            <4>1. U \in SUBSET S /\ U \notin Bad
                BY <2>1, <2>2
            <4> HIDE DEF U
            <4> QED BY <4>1
        <3> DEFINE g == [i \in 1 .. n + 1 |-> IF i = n + 1 THEN x ELSE e[i]]
        <3>4. /\ \A i \in 1 .. n : e[i] \in T /\ e[i] # x
              /\ \A i, j \in 1 .. n : i # j => e[i] # e[j]
              /\ \A i, j \in 1 .. n : i < j => key[e[i]] <= key[e[j]]
            BY <3>3 DEF Sorts
        <3> HIDE DEF n
        <3>5. g \in [1 .. n + 1 -> T]
            BY <3>2, <3>4
        <3>6. \A i \in 1 .. n + 1 : i \in 1 .. n \/ i = n + 1
            BY <3>2
        <3>7. /\ \A i \in 1 .. n : g[i] = e[i] /\ i < n + 1 /\ i # n + 1
              /\ g[n + 1] = x
            BY <3>2
        <3> HIDE DEF g
        <3>8. ASSUME NEW i \in 1 .. n + 1, NEW j \in 1 .. n + 1
              PROVE  (i # j => g[i] # g[j]) /\ (i < j => key[g[i]] <= key[g[j]])
            <4>1. CASE i \in 1 .. n /\ j \in 1 .. n
                BY <3>4, <3>7, <4>1
            <4>2. CASE i \in 1 .. n /\ j = n + 1
                BY <3>1, <3>4, <3>7, <4>2
            <4>3. CASE i = n + 1
                BY <3>2, <3>4, <3>6, <3>7, <4>3
            <4> QED BY <3>6, <4>1, <4>2, <4>3
        <3>9. Sorts(g, T, key)
            BY <3>2, <3>5, <3>8 DEF Sorts
        <3> QED BY <2>2, <3>9
    <2> QED BY <2>3, <2>4
<1> QED BY <1>1

(* A lower half of the list is at most the median, an upper half at least. *)
LEMMA MedianIsCentral ==
    ASSUME NEW n \in Nat \ {0}, NEW q \in [1 .. n -> Nat],
           \A i, j \in 1 .. n : i < j => q[i] <= q[j]
    PROVE  /\ Median(q) \in Nat
           /\ \E a, b \in 1 .. n : /\ 2 * a >= n /\ q[a] <= Median(q)
                                   /\ 2 * (n - b + 1) >= n /\ Median(q) <= q[b]
<1>1. Len(q) = n
    OBVIOUS
<1>2. PICK h \in Nat : h = n \div 2 /\ (n = 2 * h \/ n = 2 * h + 1)
    OBVIOUS
<1>3. CASE n = 2 * h + 1
    <2>1. Median(q) = q[h + 1] /\ h + 1 \in 1 .. n
        BY <1>1, <1>2, <1>3 DEF Median
    <2>2. 2 * (h + 1) >= n /\ 2 * (n - (h + 1) + 1) >= n /\ q[h + 1] \in Nat
        BY <1>3, <2>1
    <2> QED BY <2>1, <2>2
<1>4. CASE n = 2 * h
    <2>1. Median(q) = RoundHalfUp(q[h] + q[h + 1], 2) /\ h \in 1 .. n /\ h + 1 \in 1 .. n
        BY <1>1, <1>2, <1>4 DEF Median
    <2>2. q[h] \in Nat /\ q[h + 1] \in Nat /\ q[h] <= q[h + 1]
        BY <2>1
    <2>3. \A x, y \in Nat : x <= y => LET r == RoundHalfUp(x + y, 2) IN r \in Nat /\ x <= r /\ r <= y
        BY DEF RoundHalfUp
    <2>4. 2 * h >= n /\ 2 * (n - (h + 1) + 1) >= n
        BY <1>4
    <2> QED BY <2>1, <2>2, <2>3, <2>4
<1> QED BY <1>2, <1>3, <1>4

UpTo(S, key, m) == {x \in S : key[x] <= m}
From(S, key, m) == {x \in S : key[x] >= m}

(* As many elements have a key up to that of the a-th of the list, or from *)
(* that of the b-th.                                                       *)
LEMMA CountsOfSorted ==
    ASSUME NEW S, IsFiniteSet(S), NEW key \in [S -> Nat], NEW e, Sorts(e, S, key), NEW m \in Nat,
           NEW n, n = Cardinality(S), NEW a \in 1 .. n, NEW b \in 1 .. n,
           key[e[a]] <= m, m <= key[e[b]]
    PROVE  /\ Cardinality(UpTo(S, key, m)) >= a /\ Cardinality(From(S, key, m)) >= n - b + 1
           /\ Cardinality(UpTo(S, key, m)) \in Nat /\ Cardinality(From(S, key, m)) \in Nat
<1> DEFINE Low == {x \in S : key[x] <= m}
           High == {x \in S : key[x] >= m}
           low == [i \in 1 .. a |-> e[i]]
           high == [i \in b .. n |-> e[i]]
<1>0. n \in Nat /\ a \in Nat /\ b \in Nat
    BY FS_CardinalityType
<1>1. /\ e \in [1 .. n -> S]
      /\ \A i, j \in 1 .. n : i # j => e[i] # e[j]
      /\ \A i, j \in 1 .. n : i < j => key[e[i]] <= key[e[j]]
    BY DEF Sorts
<1>2. IsFiniteSet(Low) /\ IsFiniteSet(High) /\ Cardinality(Low) \in Nat /\ Cardinality(High) \in Nat
    <2>1. Low \in SUBSET S /\ High \in SUBSET S
        OBVIOUS
    <2> HIDE DEF Low, High
    <2> QED BY <2>1, FS_Subset, FS_CardinalityType
<1>3. low \in Injection(1 .. a, Low)
    <2>1. \A i \in 1 .. a : i \in 1 .. n
        BY <1>0
    <2>2. ASSUME NEW i \in 1 .. a
          PROVE  e[i] \in Low
        <3>1. i \in 1 .. n /\ (i < a \/ i = a)
            BY <1>0
        <3>2. key[e[i]] <= key[e[a]] /\ key[e[i]] \in Nat /\ key[e[a]] \in Nat /\ e[i] \in S
            BY <1>1, <3>1
        <3> QED BY <3>2
    <2>3. low \in [1 .. a -> Low]
        BY <2>2
    <2>4. \A i, j \in 1 .. a : low[i] = low[j] => i = j
        BY <1>1, <2>1
    <2> HIDE DEF Low, low
    <2> QED BY <2>3, <2>4, Fun_IsInj
<1>4. high \in Injection(b .. n, High)
    <2>1. \A i \in b .. n : i \in 1 .. n
        BY <1>0
    <2>2. ASSUME NEW i \in b .. n
          PROVE  e[i] \in High
        <3>1. i \in 1 .. n /\ (b < i \/ i = b)
            BY <1>0
        <3>2. key[e[b]] <= key[e[i]] /\ key[e[i]] \in Nat /\ key[e[b]] \in Nat /\ e[i] \in S
            BY <1>1, <3>1
        <3> QED BY <3>2
    <2>3. high \in [b .. n -> High]
        BY <2>2
    <2>4. \A i, j \in b .. n : high[i] = high[j] => i = j
        BY <1>1, <2>1
    <2> HIDE DEF High, high
    <2> QED BY <2>3, <2>4, Fun_IsInj
<1>5. Cardinality(1 .. a) = a /\ Cardinality(b .. n) = n - b + 1
    <2>1. 1 \in Int /\ a \in Int /\ b \in Int /\ n \in Int /\ 1 <= a /\ b <= n
        BY <1>0
    <2>2. Cardinality(1 .. a) = IF 1 > a THEN 0 ELSE a - 1 + 1
        BY <2>1, FS_Interval
    <2>3. Cardinality(b .. n) = IF b > n THEN 0 ELSE n - b + 1
        BY <2>1, FS_Interval
    <2> QED BY <2>1, <2>2, <2>3
<1>6. Cardinality(1 .. a) <= Cardinality(Low) /\ Cardinality(b .. n) <= Cardinality(High)
    <2> HIDE DEF Low, High, low, high
    <2> QED BY <1>2, <1>3, <1>4, FS_Injection
<1> HIDE DEF Low, High
<1>7. Cardinality(Low) >= a /\ Cardinality(High) >= n - b + 1
    BY <1>0, <1>2, <1>5, <1>6
<1> QED BY <1>2, <1>7 DEF Low, High, UpTo, From

LEMMA PricesAreSorted ==
    ASSUME NEW S, IsFiniteSet(S), \A s \in S : s.price \in Nat
    PROVE  \E e : /\ Sorts(e, S, Prices(S))
                 /\ PricesInOrder(S) = [i \in 1 .. Cardinality(S) |-> e[i].price]
<1> DEFINE key == Prices(S)
           e == CHOOSE q \in SetToSeqs(S) : \A i, j \in DOMAIN q : i < j => q[i].price <= q[j].price
<1>1. PICK g : Sorts(g, S, key)
    <2>1. key \in [S -> Int]
        BY DEF Prices
    <2> HIDE DEF key
    <2> QED BY <2>1, SortedListExists
<1>2. g \in SetToSeqs(S)
    BY <1>1 DEF Sorts, SetToSeqs
<1>3. \A i, j \in DOMAIN g : i < j => g[i].price <= g[j].price
    BY <1>1 DEF Sorts, Prices
<1>4. e \in SetToSeqs(S) /\ \A i, j \in DOMAIN e : i < j => e[i].price <= e[j].price
    BY <1>2, <1>3
<1>5. PricesInOrder(S) = [i \in DOMAIN e |-> e[i].price]
    BY DEF SortedValues, PricesInOrder
<1> HIDE DEF e
<1>6. DOMAIN e = 1 .. Cardinality(S) /\ Sorts(e, S, key)
    BY <1>4 DEF Sorts, SetToSeqs, Prices
<1> QED BY <1>5, <1>6

(* The medians of a set of variants, in order too. *)
Medians(points, S) == [v \in S |-> points[v].median]
MediansInOrder(points, S) == SortedValues(LAMBDA v : points[v].median, S)

LEMMA MediansAreSorted ==
    ASSUME NEW S, IsFiniteSet(S), NEW points, \A v \in S : points[v].median \in Nat
    PROVE  \E e : /\ Sorts(e, S, Medians(points, S))
                 /\ MediansInOrder(points, S) = [i \in 1 .. Cardinality(S) |-> points[e[i]].median]
<1> DEFINE key == Medians(points, S)
           e == CHOOSE q \in SetToSeqs(S) : \A i, j \in DOMAIN q : i < j => points[q[i]].median <= points[q[j]].median
<1>1. PICK g : Sorts(g, S, key)
    <2>1. key \in [S -> Int]
        BY DEF Medians
    <2> HIDE DEF key
    <2> QED BY <2>1, SortedListExists
<1>2. g \in SetToSeqs(S)
    BY <1>1 DEF Sorts, SetToSeqs
<1>3. \A i, j \in DOMAIN g : i < j => points[g[i]].median <= points[g[j]].median
    BY <1>1 DEF Sorts, Medians
<1>4. /\ e \in SetToSeqs(S)
      /\ \A i, j \in DOMAIN e : i < j => points[e[i]].median <= points[e[j]].median
    BY <1>2, <1>3
<1>5. MediansInOrder(points, S) = [i \in DOMAIN e |-> points[e[i]].median]
    BY DEF SortedValues, MediansInOrder
<1> HIDE DEF e
<1>6. DOMAIN e = 1 .. Cardinality(S) /\ Sorts(e, S, key)
    BY <1>4 DEF Sorts, SetToSeqs, Medians
<1> QED BY <1>5, <1>6

(* The median of prices splits them in halves, and is one of money. *)
LEMMA MedianOfPrices ==
    ASSUME NEW S, IsFiniteSet(S), S # {}, \A s \in S : s.price \in Nat \ {0},
           NEW m, m = Median(PricesInOrder(S))
    PROVE  /\ m \in Nat \ {0}
           /\ 2 * Cardinality(UpTo(S, Prices(S), m)) >= Cardinality(S)
           /\ 2 * Cardinality(From(S, Prices(S), m)) >= Cardinality(S)
<1> DEFINE key == Prices(S)
           n == Cardinality(S)
           Low == UpTo(S, key, m)
           High == From(S, key, m)
<1>1. PICK e : Sorts(e, S, key) /\ PricesInOrder(S) = [i \in 1 .. n |-> e[i].price]
    BY PricesAreSorted
<1> DEFINE q == [i \in 1 .. n |-> e[i].price]
<1>2. n \in Nat \ {0}
    BY FS_CardinalityType, FS_EmptySet
<1>3. /\ \A i \in 1 .. n : e[i] \in S /\ q[i] = key[e[i]] /\ q[i] \in Nat \ {0}
      /\ \A i, j \in 1 .. n : i < j => q[i] <= q[j]
    BY <1>1 DEF Sorts, Prices
<1>4. m = Median(q)
    BY <1>1
<1>5. q \in [1 .. n -> Nat] /\ key \in [S -> Nat]
    BY <1>3 DEF Prices
<1> HIDE DEF n, q, key
<1>6. PICK a, b \in 1 .. n : 2 * a >= n /\ q[a] <= m /\ 2 * (n - b + 1) >= n /\ m <= q[b]
    <2>1. \E a, b \in 1 .. n : /\ 2 * a >= n /\ q[a] <= Median(q)
                              /\ 2 * (n - b + 1) >= n /\ Median(q) <= q[b]
        BY <1>2, <1>3, <1>5, MedianIsCentral
    <2> QED BY <1>4, <2>1
<1>7. m \in Nat
    BY <1>2, <1>3, <1>4, <1>5, MedianIsCentral
<1>8. /\ Cardinality(Low) >= a /\ Cardinality(High) >= n - b + 1
      /\ Cardinality(Low) \in Nat /\ Cardinality(High) \in Nat
    <2>1. key[e[a]] <= m /\ m <= key[e[b]]
        BY <1>3, <1>6
    <2>2. n = Cardinality(S)
        BY DEF n
    <2> QED BY <1>1, <1>5, <1>7, <2>1, <2>2, CountsOfSorted
<1> HIDE DEF Low, High
<1>9. a \in Nat /\ b \in Nat /\ q[a] \in Nat \ {0}
    BY <1>2, <1>3
<1>10. m # 0 /\ 2 * Cardinality(Low) >= n /\ 2 * Cardinality(High) >= n
    BY <1>2, <1>6, <1>7, <1>8, <1>9
<1> QED BY <1>7, <1>10 DEF n, Low, High, key

(* And so does the median of the medians of variants. *)
LEMMA MedianOfVariants ==
    ASSUME NEW S, IsFiniteSet(S), S # {}, NEW points, \A v \in S : points[v].median \in Nat,
           NEW m, m = MedianOf(points, S)
    PROVE  /\ m \in Nat
           /\ 2 * Cardinality(UpTo(S, Medians(points, S), m)) >= Cardinality(S)
           /\ 2 * Cardinality(From(S, Medians(points, S), m)) >= Cardinality(S)
           /\ \A c \in Nat : (\A v \in S : points[v].median = c) => m = c
<1> DEFINE key == Medians(points, S)
           n == Cardinality(S)
           Low == UpTo(S, key, m)
           High == From(S, key, m)
<1>1. PICK e : /\ Sorts(e, S, key)
               /\ MediansInOrder(points, S) = [i \in 1 .. n |-> points[e[i]].median]
    BY MediansAreSorted
<1> DEFINE q == [i \in 1 .. n |-> points[e[i]].median]
<1>2. n \in Nat \ {0}
    BY FS_CardinalityType, FS_EmptySet
<1>3. /\ \A i \in 1 .. n : e[i] \in S /\ q[i] = key[e[i]] /\ q[i] \in Nat
      /\ \A i, j \in 1 .. n : i < j => q[i] <= q[j]
    BY <1>1 DEF Sorts, Medians
<1>4. m = Median(q)
    BY <1>1 DEF MedianOf, MediansInOrder
<1>5. q \in [1 .. n -> Nat] /\ key \in [S -> Nat]
    BY <1>3 DEF Medians
<1>6. \A v \in S : key[v] = points[v].median
    BY DEF Medians
<1> HIDE DEF n, q, key
<1>7. PICK a, b \in 1 .. n : 2 * a >= n /\ q[a] <= m /\ 2 * (n - b + 1) >= n /\ m <= q[b]
    <2>1. \E a, b \in 1 .. n : /\ 2 * a >= n /\ q[a] <= Median(q)
                              /\ 2 * (n - b + 1) >= n /\ Median(q) <= q[b]
        BY <1>2, <1>3, <1>5, MedianIsCentral
    <2> QED BY <1>4, <2>1
<1>8. m \in Nat
    BY <1>2, <1>3, <1>4, <1>5, MedianIsCentral
<1>9. /\ Cardinality(Low) >= a /\ Cardinality(High) >= n - b + 1
      /\ Cardinality(Low) \in Nat /\ Cardinality(High) \in Nat
    <2>1. key[e[a]] <= m /\ m <= key[e[b]]
        BY <1>3, <1>7
    <2>2. n = Cardinality(S)
        BY DEF n
    <2> QED BY <1>1, <1>5, <1>8, <2>1, <2>2, CountsOfSorted
<1>10. ASSUME NEW c \in Nat, \A v \in S : points[v].median = c
      PROVE  m = c
    <2>1. q[a] = c /\ q[b] = c
        BY <1>3, <1>6, <1>10
    <2> QED BY <1>7, <1>8, <2>1
<1> HIDE DEF Low, High
<1>11. 2 * Cardinality(Low) >= n /\ 2 * Cardinality(High) >= n
    <2>1. a \in Nat /\ b \in Nat
        BY <1>2
    <2> QED BY <1>2, <1>7, <1>9, <2>1
<1> QED BY <1>8, <1>10, <1>11 DEF n, Low, High, key

-----------------------------------------------------------------------------
(* The contract of a product's intelligence *)

(* What the comparisons of the variants tell of the rows of a state. *)
LEMMA PointsTell ==
    ASSUME TypeOK, NEW P, P = Points(Snapshots, Cutoff)
    PROVE  /\ DOMAIN P = Canonical /\ IsFiniteSet(Canonical)
           /\ \A v \in Canonical :
                /\ P[v].included = Voices(Comparable(v)) /\ IsFiniteSet(P[v].included)
                /\ P[v].retailers = {RetailerOf[s.seller] : s \in Comparable(v)}
                /\ P[v].median \in Nat /\ (P[v].median = None <=> Comparable(v) = {})
                /\ LET I == P[v].included
                       m == P[v].median
                   IN  /\ 2 * Cardinality(UpTo(I, Prices(I), m)) >= Cardinality(I)
                       /\ 2 * Cardinality(From(I, Prices(I), m)) >= Cardinality(I)
<1>1. DOMAIN P = Canonical /\ IsFiniteSet(Canonical)
    <2>1. Canonical \in SUBSET Variants
        BY DEF Canonical
    <2> QED BY <2>1, FS_Subset, MarketAssumption DEF Points
<1>2. ASSUME NEW v \in Canonical
      PROVE  /\ P[v].included = Voices(Comparable(v)) /\ IsFiniteSet(P[v].included)
             /\ P[v].retailers = {RetailerOf[s.seller] : s \in Comparable(v)}
             /\ P[v].median \in Nat /\ (P[v].median = None <=> Comparable(v) = {})
             /\ LET I == P[v].included
                    m == P[v].median
                IN  /\ 2 * Cardinality(UpTo(I, Prices(I), m)) >= Cardinality(I)
                    /\ 2 * Cardinality(From(I, Prices(I), m)) >= Cardinality(I)
    <2> DEFINE C == Comparable(v)
               I == Voices(C)
    <2>1. P[v] = Compare(OfVariant(v), Cutoff)
        BY DEF Points, OfVariant
    <2>2. Sortable(OfVariant(v)) /\ C = Admitted(OfVariant(v), Cutoff) /\ C \subseteq OfVariant(v)
        BY RowsOfAState DEF Comparable
    <2>3. Sortable(C) /\ C \subseteq Snapshots
        BY <2>2, SortablePart DEF OfVariant
    <2>4. \A s \in C : s.price \in Nat \ {0}
        BY <2>3, RowsOfAState
    <2> HIDE DEF C
    <2>5. P[v].included = I /\ P[v].retailers = {RetailerOf[s.seller] : s \in C}
        BY <2>1, <2>2, CompareTells
    <2>6. P[v].median = IF C = {} THEN None ELSE Median(PricesInOrder(I))
        BY <2>1, <2>2, CompareTells
    <2>7. I \in SUBSET C /\ IsFiniteSet(I) /\ (I = {} <=> C = {})
        <3>1. I \in SUBSET C
            BY DEF Voices
        <3>2. IsFiniteSet(C)
            BY <2>3 DEF Sortable
        <3> HIDE DEF I
        <3>3. IsFiniteSet(I)
            BY <3>1, <3>2, FS_Subset
        <3>4. I = {} <=> C = {}
            BY <2>3, VoicesSpeakForAll DEF I
        <3> QED BY <3>1, <3>3, <3>4
    <2> HIDE DEF I
    <2>8. CASE C = {}
        <3>1. I = {} /\ P[v].median = 0
            BY <2>6, <2>7, <2>8 DEF None
        <3>2. UpTo(I, Prices(I), P[v].median) = {} /\ From(I, Prices(I), P[v].median) = {}
            BY <3>1 DEF UpTo, From
        <3>3. 2 * Cardinality({}) >= Cardinality({})
            BY FS_EmptySet
        <3> QED BY <2>5, <2>7, <2>8, <3>1, <3>2, <3>3 DEF None, C, I
    <2>9. CASE C # {}
        <3> DEFINE m == P[v].median
        <3>1. m = Median(PricesInOrder(I)) /\ I # {} /\ \A s \in I : s.price \in Nat \ {0}
            BY <2>4, <2>6, <2>7, <2>9
        <3> HIDE DEF m
        <3>2. /\ m \in Nat \ {0}
              /\ 2 * Cardinality(UpTo(I, Prices(I), m)) >= Cardinality(I)
              /\ 2 * Cardinality(From(I, Prices(I), m)) >= Cardinality(I)
            BY <2>7, <3>1, MedianOfPrices
        <3> QED BY <2>5, <2>7, <2>9, <3>2 DEF None, C, I, m
    <2> QED BY <2>8, <2>9
<1> QED BY <1>1, <1>2

(* Every group of variants splits in halves at its median. *)
LEMMA SeenTell ==
    ASSUME TypeOK, NEW P, P = Points(Snapshots, Cutoff), NEW S \in SUBSET Canonical,
           NEW seen, seen = S \cap Observed(P)
    PROVE  /\ seen = {v \in S : Comparable(v) # {}} /\ IsFiniteSet(seen)
           /\ \A v \in seen : P[v].median \in Nat \ {0}
<1>1. seen = {v \in S : P[v].median # None}
    BY PointsTell DEF Observed
<1>2. \A v \in S : P[v].median \in Nat /\ (P[v].median = None <=> Comparable(v) = {})
    BY PointsTell
<1>3. IsFiniteSet(seen)
    <2>1. seen \in SUBSET Canonical /\ IsFiniteSet(Canonical)
        BY <1>1, PointsTell
    <2> QED BY <2>1, FS_Subset
<1> QED BY <1>1, <1>2, <1>3 DEF None

(* However many retailers quote a variant, and however many variants a     *)
(* storage has, as many are at or above its central price as at or below.  *)
THEOREM Central == Spec => []MedianSplitsMarket
<1>1. TypeOK => MedianSplitsMarket
    <2> SUFFICES ASSUME TypeOK PROVE MedianSplitsMarket
        OBVIOUS
    <2> DEFINE P == Points(Snapshots, Cutoff)
               a == Analyze(Snapshots, Cutoff)
    <2>1. /\ a.points = P
          /\ \A g \in Storages : a.storages[g].median =
                LET seen == OfStorage(g) \cap Observed(P) IN IF seen = {} THEN None ELSE MedianOf(P, seen)
        BY DEF Analyze, Group
    <2> HIDE DEF P, a
    <2>2. ASSUME NEW v \in Canonical
          PROVE  LET S == P[v].included
                     m == P[v].median
                 IN  /\ 2 * Cardinality({s \in S : s.price <= m}) >= Cardinality(S)
                     /\ 2 * Cardinality({s \in S : s.price >= m}) >= Cardinality(S)
        <3> DEFINE S == P[v].included
                   m == P[v].median
        <3>1. /\ 2 * Cardinality(UpTo(S, Prices(S), m)) >= Cardinality(S)
              /\ 2 * Cardinality(From(S, Prices(S), m)) >= Cardinality(S)
            BY PointsTell DEF P
        <3>2. {s \in S : s.price <= m} = UpTo(S, Prices(S), m) /\ {s \in S : s.price >= m} = From(S, Prices(S), m)
            BY DEF UpTo, From, Prices
        <3> QED BY <3>1, <3>2
    <2>3. ASSUME NEW g \in Storages
          PROVE  LET S == OfStorage(g) \cap Observed(P)
                     m == a.storages[g].median
                 IN  /\ 2 * Cardinality({v \in S : P[v].median <= m}) >= Cardinality(S)
                     /\ 2 * Cardinality({v \in S : P[v].median >= m}) >= Cardinality(S)
        <3> DEFINE S == OfStorage(g) \cap Observed(P)
                   m == a.storages[g].median
        <3>1. IsFiniteSet(S) /\ \A v \in S : P[v].median \in Nat
            <4>1. OfStorage(g) \in SUBSET Canonical
                BY DEF OfStorage
            <4> HIDE DEF S
            <4> QED BY <4>1, SeenTell DEF P, S
        <3>2. m = IF S = {} THEN None ELSE MedianOf(P, S)
            BY <2>1
        <3> HIDE DEF S, m
        <3>3. CASE S = {}
            <4>1. {v \in S : P[v].median <= m} = {} /\ {v \in S : P[v].median >= m} = {}
                BY <3>3
            <4>2. 2 * Cardinality({}) >= Cardinality({})
                BY FS_EmptySet
            <4>3. /\ 2 * Cardinality({v \in S : P[v].median <= m}) >= Cardinality(S)
                  /\ 2 * Cardinality({v \in S : P[v].median >= m}) >= Cardinality(S)
                BY <3>3, <4>1, <4>2
            <4> QED BY <4>3 DEF S, m
        <3>4. CASE S # {}
            <4>1. /\ 2 * Cardinality(UpTo(S, Medians(P, S), m)) >= Cardinality(S)
                  /\ 2 * Cardinality(From(S, Medians(P, S), m)) >= Cardinality(S)
                BY <3>1, <3>2, <3>4, MedianOfVariants
            <4>2. /\ {v \in S : P[v].median <= m} = UpTo(S, Medians(P, S), m)
                  /\ {v \in S : P[v].median >= m} = From(S, Medians(P, S), m)
                BY DEF UpTo, From, Medians
            <4>3. /\ 2 * Cardinality({v \in S : P[v].median <= m}) >= Cardinality(S)
                  /\ 2 * Cardinality({v \in S : P[v].median >= m}) >= Cardinality(S)
                BY <4>1, <4>2
            <4> QED BY <4>3 DEF S, m
        <3> QED BY <3>3, <3>4
    <2> QED BY <2>1, <2>2, <2>3 DEF MedianSplitsMarket, a
<1> QED BY <1>1, TypeCorrect, PTL

(* A storage step is never told from less than two variants priced on each *)
(* side and three retailers, whatever names these trade under, nor across  *)
(* a storage in between.                                                   *)
THEOREM Supports == Spec => []StepsAreSupported
<1>1. TypeOK => StepsAreSupported
    <2> DEFINE P == Points(Snapshots, Cutoff)
               priced(g) == {v \in OfStorage(g) : Comparable(v) # {}}
               sellers(S) == {RetailerOf[s.seller] : s \in UNION {Comparable(v) : v \in S}}
               Backed(step) ==
                 /\ Cardinality(priced(step.from)) >= 2 /\ Cardinality(priced(step.to)) >= 2
                 /\ Cardinality(sellers(priced(step.from) \cup priced(step.to))) >= 3
                 /\ \A k \in Storages : k <= step.from \/ step.to <= k
    <2>0. StepsAreSupported <=> \A step \in StorageSteps(P) : Backed(step)
        BY DEF StepsAreSupported
    <2> HIDE DEF Backed
    <2> SUFFICES ASSUME TypeOK, NEW g \in Storages, NEW h \in Storages, Adjacent(g, h), Supported(P, g, h)
                 PROVE  Backed(Step(P, g, h))
        <3>1. ASSUME NEW p \in Storages \X Storages, TypeOK,
                     \A g, h \in Storages : Adjacent(g, h) /\ Supported(P, g, h) => Backed(Step(P, g, h))
              PROVE  Adjacent(p[1], p[2]) /\ Supported(P, p[1], p[2]) => Backed(Step(P, p[1], p[2]))
            BY <3>1
        <3> QED BY <2>0, <3>1 DEF StorageSteps
    <2>1. \A k \in Storages : OfStorage(k) \cap Observed(P) = priced(k)
        <3>1. ASSUME NEW k \in Storages
              PROVE  OfStorage(k) \cap Observed(P) = priced(k)
            <4>1. OfStorage(k) \in SUBSET Canonical
                BY DEF OfStorage
            <4> QED BY <4>1, SeenTell
        <3> QED BY <3>1
    <2>2. Retailers(P, OfStorage(g) \cup OfStorage(h)) = sellers(priced(g) \cup priced(h))
        <3>1. \A v \in OfStorage(g) \cup OfStorage(h) :
                P[v].retailers = {RetailerOf[s.seller] : s \in Comparable(v)}
            BY PointsTell DEF OfStorage
        <3> HIDE DEF P
        <3>2. \A x : x \in Retailers(P, OfStorage(g) \cup OfStorage(h)) <=>
                      \E v \in OfStorage(g) \cup OfStorage(h) : x \in P[v].retailers
            BY DEF Retailers
        <3>3. \A x : x \in sellers(priced(g) \cup priced(h)) <=>
                      \E v \in OfStorage(g) \cup OfStorage(h) : \E s \in Comparable(v) : x = RetailerOf[s.seller]
            <4> DEFINE X == priced(g) \cup priced(h)
            <4>1. \A v : v \in X <=> v \in OfStorage(g) \cup OfStorage(h) /\ Comparable(v) # {}
                OBVIOUS
            <4> HIDE DEF X
            <4>2. \A s : s \in UNION {Comparable(v) : v \in X} <=> \E v \in X : s \in Comparable(v)
                OBVIOUS
            <4>3. \A x : x \in sellers(X) <=> \E v \in X : \E s \in Comparable(v) : x = RetailerOf[s.seller]
                BY <4>2
            <4> HIDE DEF sellers
            <4>4. \A x : x \in sellers(X) <=>
                        \E v \in OfStorage(g) \cup OfStorage(h) : \E s \in Comparable(v) : x = RetailerOf[s.seller]
                BY <4>1, <4>3
            <4> HIDE DEF priced
            <4> QED BY <4>4 DEF X
        <3>4. \A x : x \in Retailers(P, OfStorage(g) \cup OfStorage(h)) <=>
                      \E v \in OfStorage(g) \cup OfStorage(h) : \E s \in Comparable(v) : x = RetailerOf[s.seller]
            <4>1. ASSUME NEW x, NEW v \in OfStorage(g) \cup OfStorage(h)
                  PROVE  x \in P[v].retailers <=> \E s \in Comparable(v) : x = RetailerOf[s.seller]
                BY <3>1
            <4> QED BY <3>2, <4>1
        <3> HIDE DEF sellers, priced
        <3> QED BY <3>3, <3>4
    <2>3. \A k \in Storages : k \in Nat
        BY MarketAssumption DEF Storages, Canonical
    <2>4. \A k \in Storages : k <= g \/ h <= k
        BY <2>3 DEF Adjacent
    <2>5. Step(P, g, h).from = g /\ Step(P, g, h).to = h
        BY DEF Step
    <2> QED BY <2>1, <2>2, <2>4, <2>5 DEF Supported, Backed
<1> QED BY <1>1, TypeCorrect, PTL

(* A sum of deltas that are all zero is zero. *)
SumOfDeltas(points, S) == MapThenSumSet(LAMBDA v : Delta(points, v), S)

LEMMA NoDeltaNoSum ==
    ASSUME NEW S, IsFiniteSet(S), NEW points, \A v \in S : Delta(points, v) = 0
    PROVE  SumOfDeltas(points, S) = 0
<1> DEFINE next(T) == CHOOSE v \in T : TRUE
           Turn(g, T) == IF T = {} THEN 0 ELSE Delta(points, next(T)) + g[T \ {next(T)}]
           Recurs(g) == g = [T \in SUBSET S |-> Turn(g, T)]
           zero == [T \in SUBSET S |-> 0]
<1>1. \A T \in SUBSET S : T # {} => next(T) \in T /\ Delta(points, next(T)) = 0
    OBVIOUS
<1> HIDE DEF next
<1>2. Recurs(zero)
    <2>1. ASSUME NEW T \in SUBSET S
          PROVE  Turn(zero, T) = 0
        <3>1. T \ {next(T)} \in SUBSET S
            OBVIOUS
        <3> QED BY <1>1, <3>1
    <2> HIDE DEF Turn
    <2> QED BY <2>1
<1>3. ASSUME NEW g, Recurs(g)
      PROVE  g[S] = 0
    <2> DEFINE Bad == {T \in SUBSET S : g[T] # 0}
    <2> SUFFICES ASSUME Bad # {} PROVE FALSE
        OBVIOUS
    <2>1. PICK T \in Bad : \A U \in Bad : U \subseteq T => U = T
        <3>1. Bad \in SUBSET (SUBSET S)
            OBVIOUS
        <3> HIDE DEF Bad
        <3> QED BY <3>1, LeastSet
    <2>2. T \in SUBSET S /\ g[T] = Turn(g, T)
        BY <1>3
    <2>3. T # {} /\ next(T) \in T
        BY <1>1, <2>1, <2>2
    <2>4. g[T \ {next(T)}] = 0
        BY <2>1, <2>2, <2>3
    <2> QED BY <1>1, <2>1, <2>2, <2>3, <2>4
<1>4. Recurs(CHOOSE g : Recurs(g))
    <2> HIDE DEF Recurs
    <2> QED BY <1>2
<1>5. SumOfDeltas(points, S) = (CHOOSE g : Recurs(g))[S]
    BY DEF SumOfDeltas, MapThenSumSet, MapThenFoldSet, next
<1> HIDE DEF Recurs
<1> QED BY <1>3, <1>4, <1>5

LEMMA NoDifference ==
    ASSUME NEW n \in Nat \ {0}
    PROVE  Bps(n, n) = 0 /\ RoundHalfUp(0, n) = 0
<1>1. n \div (2 * n) = 0
    OBVIOUS
<1> QED BY <1>1 DEF Bps, RoundHalfUp

(* However much the storages differ in price, and whichever colours were   *)
(* seen in which of them, colours that cost the same beside each other     *)
(* have no premium.                                                        *)
THEOREM Impartial == Spec => []ColorsIgnoreStorage
<1>1. TypeOK => ColorsIgnoreStorage
    <2> DEFINE P == Points(Snapshots, Cutoff)
    <2> SUFFICES ASSUME TypeOK,
                        \A v, w \in Observed(P) : StorageOf[v] = StorageOf[w] => P[v].median = P[w].median,
                        NEW c \in Colors, Indexed(P, c) # {}
                 PROVE  ColorDelta(P, c) = 0
        BY DEF ColorsIgnoreStorage
    <2> DEFINE S == Indexed(P, c)
    <2>1. S \subseteq Observed(P) /\ S \subseteq Canonical
        BY DEF Indexed, OfColor
    <2>2. IsFiniteSet(S) /\ Cardinality(S) \in Nat \ {0}
        <3>1. IsFiniteSet(Canonical)
            BY PointsTell
        <3> HIDE DEF S
        <3> QED BY <2>1, <3>1, FS_Subset, FS_CardinalityType, FS_EmptySet DEF S
    <2>3. ASSUME NEW v \in S
          PROVE  Delta(P, v) = 0
        <3> DEFINE seen == OfStorage(StorageOf[v]) \cap Observed(P)
        <3>1. v \in seen
            BY <2>1 DEF OfStorage
        <3>2. IsFiniteSet(seen) /\ \A w \in seen : P[w].median \in Nat \ {0}
            <4>1. OfStorage(StorageOf[v]) \in SUBSET Canonical
                BY DEF OfStorage
            <4> HIDE DEF seen
            <4> QED BY <4>1, SeenTell DEF seen
        <3>3. \A w \in seen : P[w].median = P[v].median
            BY <2>1 DEF OfStorage
        <3>4. Baseline(P, StorageOf[v]) = MedianOf(P, seen)
            BY DEF Baseline
        <3> HIDE DEF seen, P
        <3>5. MedianOf(P, seen) = P[v].median
            BY <3>1, <3>2, <3>3, MedianOfVariants
        <3> QED BY <3>1, <3>2, <3>4, <3>5, NoDifference DEF Delta
    <2> HIDE DEF S, P
    <2>4. SumOfDeltas(P, S) = 0
        BY <2>2, <2>3, NoDeltaNoSum
    <2> QED BY <2>2, <2>4, NoDifference DEF ColorDelta, SumOfDeltas, S
<1> QED BY <1>1, TypeCorrect, PTL

=============================================================================
