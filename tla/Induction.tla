------------------------------ MODULE Induction ------------------------------
(***************************************************************************)
(* Induction over numbers and finite sets in a form the provers can        *)
(* instantiate: what is to hold is a set, not an operator.  Each is a      *)
(* minimal counterexample under the strict subset ordering of finite sets, *)
(* which is well founded.  Then what the folds of the community modules    *)
(* compute: sums over finite sets, and loops over sequences.               *)
(***************************************************************************)
EXTENDS Integers, FiniteSets, Sequences, FiniteSetTheorems, Functions, FiniteSetsExt, TLAPS

\* The first n positive numbers are n in number.
LEMMA FirstNumbers ==
    ASSUME NEW n \in Nat
    PROVE  IsFiniteSet(1 .. n) /\ Cardinality(1 .. n) = n
<1>1. 1 \in Int /\ n \in Int /\ n - 1 + 1 = n
    OBVIOUS
<1>2. IsFiniteSet(1 .. n) /\ Cardinality(1 .. n) = IF 1 > n THEN 0 ELSE n - 1 + 1
    BY <1>1, FS_Interval
<1> QED BY <1>1, <1>2

\* Every nonempty set of naturals has a least element.
LEMMA LeastNat ==
    ASSUME NEW T \in SUBSET Nat, T # {}
    PROVE  \E m \in T : \A n \in T : m <= n
<1> DEFINE U == {0 .. n - 1 : n \in T}
<1>1. U \subseteq FiniteSubsetsOf(Nat) /\ U # {}
    <2>1. ASSUME NEW n \in T PROVE IsFiniteSet(0 .. n - 1)
        <3>1. 0 \in Int /\ n - 1 \in Int
            OBVIOUS
        <3> QED BY <3>1, FS_Interval
    <2>2. ASSUME NEW x \in U PROVE x \in FiniteSubsetsOf(Nat)
        <3>1. PICK n \in T : x = 0 .. n - 1
            OBVIOUS
        <3>2. x \in SUBSET Nat /\ IsFiniteSet(x)
            BY <2>1, <3>1
        <3> QED BY <3>2 DEF FiniteSubsetsOf
    <2> QED BY <2>2
<1>2. PICK x \in U : \A y \in U : <<y, x>> \notin StrictSubsetOrdering(Nat)
    <2> HIDE DEF U
    <2> QED BY <1>1, FS_StrictSubsetOrderingWellFounded, WFMin
<1>3. PICK m \in T : x = 0 .. m - 1
    OBVIOUS
<1>4. ASSUME NEW n \in T, n < m PROVE FALSE
    <2>1. 0 .. n - 1 \in U /\ 0 .. n - 1 \subseteq x /\ n \in x /\ n \notin 0 .. n - 1
        BY <1>3, <1>4
    <2>2. x \in SUBSET Nat /\ 0 .. n - 1 \in SUBSET Nat
        BY <1>3
    <2>3. <<0 .. n - 1, x>> \in StrictSubsetOrdering(Nat)
        BY <2>1, <2>2, Zenon DEF StrictSubsetOrdering
    <2> QED BY <1>2, <2>1, <2>3
<1> QED BY <1>4

\* Induction over the naturals.
LEMMA OverNat ==
    ASSUME NEW P, 0 \in P, \A n \in Nat : n \in P => n + 1 \in P
    PROVE  Nat \subseteq P
<1> SUFFICES ASSUME Nat \ P # {} PROVE FALSE
    OBVIOUS
<1>1. PICK m \in Nat \ P : \A n \in Nat \ P : m <= n
    BY LeastNat
<1>2. m # 0 /\ m - 1 \in Nat /\ m - 1 \in P
    BY <1>1
<1> QED BY <1>1, <1>2

\* Every set of finite subsets, unless it is empty, has one with no other
\* below it.
LEMMA LeastFinite ==
    ASSUME NEW S, IsFiniteSet(S), NEW U \in SUBSET SUBSET S, U # {}
    PROVE  \E T \in U : \A V \in U : V \subseteq T => V = T
<1>1. U \subseteq FiniteSubsetsOf(S)
    BY FS_Subset DEF FiniteSubsetsOf
<1>2. PICK T \in U : \A V \in U : <<V, T>> \notin StrictSubsetOrdering(S)
    BY <1>1, FS_StrictSubsetOrderingWellFounded, WFMin
<1>3. \A V \in U : V \subseteq T => V = T
    BY <1>2, Zenon DEF StrictSubsetOrdering
<1> QED BY <1>3

\* Induction over the subsets of a finite set.
LEMMA OverFinite ==
    ASSUME NEW S, IsFiniteSet(S), NEW P, {} \in P,
           \A T \in SUBSET S, x \in S : T \in P => T \cup {x} \in P
    PROVE  S \in P
<1> SUFFICES ASSUME S \notin P PROVE FALSE
    OBVIOUS
<1> DEFINE U == {T \in SUBSET S : T \notin P}
<1>1. U \in SUBSET SUBSET S /\ U # {}
    OBVIOUS
<1>2. PICK T \in U : \A V \in U : V \subseteq T => V = T
    <2> HIDE DEF U
    <2> QED BY <1>1, LeastFinite
<1>3. PICK x \in T : TRUE
    OBVIOUS
<1>4. T \ {x} \in P
    BY <1>2, <1>3
<1>5. (T \ {x}) \cup {x} = T
    BY <1>3
<1> QED BY <1>3, <1>4, <1>5

\* A finite set has an element with none before it, whatever the strict order.
LEMMA FirstOne ==
    ASSUME NEW S, IsFiniteSet(S), S # {}, NEW R,
           \A x \in S : <<x, x>> \notin R,
           \A x, y, z \in S : <<x, y>> \in R /\ <<y, z>> \in R => <<x, z>> \in R
    PROVE  \E x \in S : \A y \in S : <<y, x>> \notin R
<1> DEFINE U == {{y \in S : <<y, x>> \in R} : x \in S}
<1>1. U # {} /\ U \in SUBSET SUBSET S
    <2>1. \A T \in U : T \in SUBSET S
        OBVIOUS
    <2>2. PICK x \in S : TRUE
        OBVIOUS
    <2>3. {y \in S : <<y, x>> \in R} \in U
        OBVIOUS
    <2> HIDE DEF U
    <2> QED BY <2>1, <2>3
<1>2. PICK T \in U : \A V \in U : V \subseteq T => V = T
    <2> HIDE DEF U
    <2> QED BY <1>1, LeastFinite
<1>3. PICK x \in S : T = {y \in S : <<y, x>> \in R}
    OBVIOUS
<1>4. ASSUME NEW y \in S, <<y, x>> \in R PROVE FALSE
    <2> DEFINE V == {z \in S : <<z, y>> \in R}
    <2>1. V \in U
        OBVIOUS
    <2>2. V \subseteq T
        BY <1>3, <1>4
    <2>3. y \in T /\ y \notin V
        BY <1>3, <1>4
    <2> HIDE DEF U, V
    <2> QED BY <1>2, <2>1, <2>2, <2>3
<1> QED BY <1>4

----------------------------------------------------------------------------
(* Folds.  A fold over S takes out one element after the other, c[T] from  *)
(* T, and folds it with op on what the rest gives.                         *)

\* The solutions of the equation a fold is defined by.
SolutionsOf(S, V, base, c, op) ==
    {g \in [SUBSET S -> V] :
       \A T \in SUBSET S : g[T] = IF T = {} THEN base ELSE op[c[T]][g[T \ {c[T]}]]}

\* There is one.
LEMMA FoldExists ==
    ASSUME NEW S, IsFiniteSet(S), NEW V, NEW base \in V,
           NEW c \in [(SUBSET S) \ {{}} -> S], \A T \in (SUBSET S) \ {{}} : c[T] \in T,
           NEW op \in [S -> [V -> V]]
    PROVE  SolutionsOf(S, V, base, c, op) # {}
<1> DEFINE Sets(n) == {T \in SUBSET S : Cardinality(T) <= n}
           Upto == [n \in Nat |-> Sets(n)]
           P == {n \in Nat : \E g \in [Upto[n] -> V] :
                   \A T \in Upto[n] : g[T] = IF T = {} THEN base ELSE op[c[T]][g[T \ {c[T]}]]}
<1>0. \A T \in SUBSET S : IsFiniteSet(T) /\ Cardinality(T) \in Nat /\ (Cardinality(T) = 0 <=> T = {})
    BY FS_Subset, FS_CardinalityType, FS_EmptySet
<1>a. ASSUME NEW n \in Nat, NEW T PROVE T \in Upto[n] <=> T \in SUBSET S /\ Cardinality(T) <= n
    OBVIOUS
<1>b. Upto[0] = {{}}
    <2>1. ASSUME NEW T PROVE T \in Upto[0] <=> T = {}
        <3> HIDE DEF Upto
        <3>1. T \in SUBSET S => Cardinality(T) \in Nat
            BY <1>0
        <3>2. {} \in SUBSET S
            OBVIOUS
        <3>3. T \in Upto[0] <=> T \in SUBSET S /\ Cardinality(T) <= 0
            BY <1>a
        <3> QED BY <1>0, <3>1, <3>2, <3>3
    <2> HIDE DEF Upto
    <2> QED BY <2>1
<1>c. ASSUME NEW n \in Nat, NEW T \in Upto[n + 1], T # {}
      PROVE  c[T] \in S /\ T \ {c[T]} \in Upto[n] /\ T \ {c[T]} \in Upto[n + 1]
    <2> HIDE DEF Upto
    <2>1. T \in SUBSET S /\ Cardinality(T) <= n + 1
        BY <1>a, <1>c
    <2>2. c[T] \in T /\ IsFiniteSet(T) /\ Cardinality(T) \in Nat
        BY <1>0, <1>c, <2>1
    <2>3. Cardinality(T \ {c[T]}) = Cardinality(T) - 1
        <3>1. PICK e \in T : e = c[T]
            BY <2>2
        <3>2. Cardinality(T \ {e}) = Cardinality(T) - 1
            BY <2>2, FS_RemoveElement
        <3> QED BY <3>1, <3>2
    <2>4. T \ {c[T]} \in SUBSET S /\ Cardinality(T \ {c[T]}) <= n /\ Cardinality(T \ {c[T]}) <= n + 1
        BY <2>1, <2>2, <2>3
    <2>5. T \ {c[T]} \in Upto[n]
        BY <1>a, <2>4
    <2>6. T \ {c[T]} \in Upto[n + 1]
        BY <1>a, <2>4
    <2> QED BY <2>1, <2>2, <2>5, <2>6
<1>d. ASSUME NEW n \in Nat PROVE Upto[n] \subseteq Upto[n + 1]
    <2> HIDE DEF Upto
    <2>1. ASSUME NEW T \in Upto[n] PROVE T \in Upto[n + 1]
        <3>1. T \in SUBSET S /\ Cardinality(T) <= n
            BY <1>a
        <3>2. Cardinality(T) \in Nat
            BY <1>0, <3>1
        <3>3. Cardinality(T) <= n + 1
            BY <3>1, <3>2
        <3> QED BY <1>a, <3>1, <3>3
    <2> QED BY <2>1
<1>e. Upto[Cardinality(S)] = SUBSET S
    <2>1. Cardinality(S) \in Nat /\ \A T \in SUBSET S : Cardinality(T) <= Cardinality(S)
        BY FS_CardinalityType, FS_Subset
    <2> QED BY <2>1
<1> HIDE DEF Upto
<1>1. 0 \in P
    <2> DEFINE g == [T \in {{}} |-> base]
    <2>1. g \in [{{}} -> V] /\ \A T \in {{}} : g[T] = IF T = {} THEN base ELSE op[c[T]][g[T \ {c[T]}]]
        OBVIOUS
    <2> QED BY <1>b, <2>1
<1>2. ASSUME NEW n \in Nat, n \in P PROVE n + 1 \in P
    <2>1. PICK g \in [Upto[n] -> V] :
                 \A T \in Upto[n] : g[T] = IF T = {} THEN base ELSE op[c[T]][g[T \ {c[T]}]]
        BY <1>2
    <2> DEFINE h == [T \in Upto[n + 1] |-> IF T = {} THEN base ELSE op[c[T]][g[T \ {c[T]}]]]
    <2>2. h \in [Upto[n + 1] -> V]
        <3>1. ASSUME NEW T \in Upto[n + 1]
              PROVE  (IF T = {} THEN base ELSE op[c[T]][g[T \ {c[T]}]]) \in V
            <4>1. CASE T = {}
                BY <4>1
            <4>2. CASE T # {}
                <5>1. c[T] \in S /\ g[T \ {c[T]}] \in V
                    BY <1>c, <2>1, <4>2
                <5>2. \A x \in S, v \in V : op[x][v] \in V
                    OBVIOUS
                <5> QED BY <4>2, <5>1, <5>2
            <4> QED BY <4>1, <4>2
        <3> QED BY <3>1
    <2>3. ASSUME NEW T \in Upto[n] PROVE h[T] = g[T]
        BY <1>d, <2>1
    <2>4. ASSUME NEW T \in Upto[n + 1]
          PROVE  h[T] = IF T = {} THEN base ELSE op[c[T]][h[T \ {c[T]}]]
        <3>1. CASE T = {}
            BY <3>1
        <3>2. CASE T # {}
            <4>1. h[T] = op[c[T]][g[T \ {c[T]}]]
                BY <3>2
            <4> HIDE DEF h
            <4>2. T \ {c[T]} \in Upto[n]
                BY <1>c, <3>2
            <4>3. h[T \ {c[T]}] = g[T \ {c[T]}]
                BY <2>3, <4>2
            <4> QED BY <3>2, <4>1, <4>3
        <3> QED BY <3>1, <3>2
    <2> HIDE DEF h
    <2>5. n + 1 \in Nat
        OBVIOUS
    <2> QED BY <2>2, <2>4, <2>5
<1>3. \E g \in [SUBSET S -> V] :
        \A T \in SUBSET S : g[T] = IF T = {} THEN base ELSE op[c[T]][g[T \ {c[T]}]]
    <2>1. Nat \subseteq P
        <3> HIDE DEF P
        <3> QED BY <1>1, <1>2, OverNat
    <2>2. Cardinality(S) \in P
        <3> HIDE DEF P
        <3> QED BY <2>1, FS_CardinalityType
    <2> QED BY <1>e, <2>2
<1> QED BY <1>3 DEF SolutionsOf

\* Two solutions agree where both are defined.
LEMMA FoldUnique ==
    ASSUME NEW S, IsFiniteSet(S), NEW R \in SUBSET S, NEW base, NEW c, NEW op, NEW g, NEW h,
           \A T \in SUBSET S : T # {} => c[T] \in T,
           \A T \in SUBSET S : g[T] = IF T = {} THEN base ELSE op[c[T]][g[T \ {c[T]}]],
           \A T \in SUBSET R : h[T] = IF T = {} THEN base ELSE op[c[T]][h[T \ {c[T]}]]
    PROVE  g[R] = h[R]
<1> DEFINE U == {T \in SUBSET R : g[T] # h[T]}
<1> SUFFICES ASSUME U # {} PROVE FALSE
    OBVIOUS
<1>0. U # {} /\ U \in SUBSET SUBSET R /\ IsFiniteSet(R)
    BY FS_Subset
<1>1. PICK T \in U : \A V \in U : V \subseteq T => V = T
    <2> HIDE DEF U
    <2> QED BY <1>0, LeastFinite
<1>2. T \in SUBSET R /\ T \in SUBSET S /\ g[T] # h[T]
    OBVIOUS
<1>3. T # {}
    BY <1>2
<1>4. c[T] \in T
    BY <1>2, <1>3
<1> DEFINE W == T \ {c[T]}
<1>5. W \in SUBSET R /\ W \subseteq T /\ W # T
    BY <1>2, <1>4
<1>6. g[W] = h[W]
    <2> HIDE DEF W
    <2> QED BY <1>1, <1>5
<1> QED BY <1>2, <1>3, <1>6

----------------------------------------------------------------------------
(* Sums over finite sets.                                                  *)

\* What the sum of the values of f over R is, for every R within S at once.
TablesOf(S, f, V) ==
    {g \in [SUBSET S -> V] :
       /\ \A T \in SUBSET S :
            g[T] = IF T = {} THEN 0 ELSE f[CHOOSE x \in T : TRUE] + g[T \ {CHOOSE x \in T : TRUE}]
       /\ \A R \in SUBSET S : SumFunctionOnSet(f, R) = g[R]}

LEMMA SumTable ==
    ASSUME NEW S, IsFiniteSet(S), NEW f, NEW V, V \in {Nat, Int}, \A x \in S : f[x] \in V
    PROVE  TablesOf(S, f, V) # {}
<1>3. ASSUME NEW R \in SUBSET S
      PROVE  \E g \in [SUBSET R -> V] :
               \A T \in SUBSET R :
                 g[T] = IF T = {} THEN 0 ELSE f[CHOOSE x \in T : TRUE] + g[T \ {CHOOSE x \in T : TRUE}]
    <2> DEFINE c == [T \in (SUBSET R) \ {{}} |-> CHOOSE x \in T : TRUE]
               op == [x \in R |-> [v \in V |-> f[x] + v]]
    <2>1. IsFiniteSet(R) /\ 0 \in V
        BY FS_Subset
    <2>2. c \in [(SUBSET R) \ {{}} -> R] /\ \A T \in (SUBSET R) \ {{}} : c[T] \in T
        OBVIOUS
    <2>3. op \in [R -> [V -> V]] /\ \A x \in R, v \in V : op[x][v] = f[x] + v
        OBVIOUS
    <2>4. PICK g \in [SUBSET R -> V] :
                 \A T \in SUBSET R : g[T] = IF T = {} THEN 0 ELSE op[c[T]][g[T \ {c[T]}]]
        <3> DEFINE zero == 0
        <3>1. zero \in V
            BY <2>1
        <3> HIDE DEF c, op, zero
        <3>2. \E g \in [SUBSET R -> V] :
                \A T \in SUBSET R : g[T] = IF T = {} THEN zero ELSE op[c[T]][g[T \ {c[T]}]]
            <4>1. SolutionsOf(R, V, zero, c, op) # {}
                BY <2>1, <2>2, <2>3, <3>1, FoldExists
            <4> QED BY <4>1 DEF SolutionsOf
        <3> QED BY <3>2 DEF zero
    <2>5. ASSUME NEW T \in SUBSET R, T # {}
          PROVE  g[T] = f[CHOOSE x \in T : TRUE] + g[T \ {CHOOSE x \in T : TRUE}]
        <3>1. c[T] = (CHOOSE x \in T : TRUE) /\ c[T] \in T
            BY <2>2, <2>5
        <3>2. g[T] = op[c[T]][g[T \ {c[T]}]]
            BY <2>4, <2>5
        <3>3. T \ {c[T]} \in SUBSET R
            OBVIOUS
        <3>4. g[T \ {c[T]}] \in V /\ c[T] \in R
            BY <3>1, <3>3
        <3> HIDE DEF c, op
        <3>5. op[c[T]][g[T \ {c[T]}]] = f[c[T]] + g[T \ {c[T]}]
            BY <2>3, <3>4
        <3> QED BY <3>1, <3>2, <3>5
    <2> QED BY <2>4, <2>5
<1>5. PICK g \in [SUBSET S -> V] :
             \A T \in SUBSET S :
               g[T] = IF T = {} THEN 0 ELSE f[CHOOSE x \in T : TRUE] + g[T \ {CHOOSE x \in T : TRUE}]
    BY <1>3
<1>6. \A T \in SUBSET S :
        g[T] = IF T = {} THEN 0 ELSE f[CHOOSE x \in T : TRUE] + g[T \ {CHOOSE x \in T : TRUE}]
    BY <1>5
<1>7. ASSUME NEW R \in SUBSET S PROVE SumFunctionOnSet(f, R) = g[R]
    <2> DEFINE it == CHOOSE it : it = [T \in SUBSET R |->
                    IF T = {} THEN 0 ELSE f[CHOOSE x \in T : TRUE] + it[T \ {CHOOSE x \in T : TRUE}]]
    <2>1. SumFunctionOnSet(f, R) = it[R]
        BY DEF SumFunctionOnSet, FoldFunctionOnSet, MapThenFoldSet
    <2>2. \E h : h = [T \in SUBSET R |->
                    IF T = {} THEN 0 ELSE f[CHOOSE x \in T : TRUE] + h[T \ {CHOOSE x \in T : TRUE}]]
        <3>1. PICK h \in [SUBSET R -> V] :
                     \A T \in SUBSET R :
                       h[T] = IF T = {} THEN 0 ELSE f[CHOOSE x \in T : TRUE] + h[T \ {CHOOSE x \in T : TRUE}]
            BY <1>3
        <3>2. h = [T \in SUBSET R |->
                    IF T = {} THEN 0 ELSE f[CHOOSE x \in T : TRUE] + h[T \ {CHOOSE x \in T : TRUE}]]
            BY <3>1
        <3> QED BY <3>2
    <2>3. it = [T \in SUBSET R |->
                    IF T = {} THEN 0 ELSE f[CHOOSE x \in T : TRUE] + it[T \ {CHOOSE x \in T : TRUE}]]
        BY <2>2, Zenon
    <2>4. \A T \in SUBSET R :
            it[T] = IF T = {} THEN 0 ELSE f[CHOOSE x \in T : TRUE] + it[T \ {CHOOSE x \in T : TRUE}]
        <3> HIDE DEF it
        <3> QED BY <2>3
    <2> HIDE DEF it
    <2> DEFINE U == {T \in SUBSET R : it[T] # g[T]}
    <2>5. CASE U = {}
        BY <2>1, <2>5
    <2>6. CASE U # {}
        <3>1. IsFiniteSet(R) /\ U \in SUBSET SUBSET R
            BY FS_Subset
        <3>2. PICK T \in U : \A W \in U : W \subseteq T => W = T
            <4> HIDE DEF U
            <4> QED BY <2>6, <3>1, LeastFinite
        <3> DEFINE x == CHOOSE x \in T : TRUE
        <3>3. T \in SUBSET R /\ it[T] # g[T]
            OBVIOUS
        <3>4. T # {}
            BY <1>6, <2>4, <3>3
        <3>5. x \in T
            BY <3>4
        <3>6. it[T \ {x}] = g[T \ {x}]
            <4> HIDE DEF x
            <4>1. T \ {x} \in SUBSET R /\ T \ {x} \subseteq T /\ T \ {x} # T
                BY <3>3, <3>5
            <4> QED BY <3>2, <4>1
        <3> QED BY <1>6, <2>4, <3>3, <3>4, <3>6
    <2> QED BY <2>5, <2>6
<1> QED BY <1>6, <1>7 DEF TablesOf

\* A sum is a number of the kind it adds, and the empty sum is zero.
LEMMA SumType ==
    ASSUME NEW S, IsFiniteSet(S), NEW f, NEW V, V \in {Nat, Int}, \A x \in S : f[x] \in V
    PROVE  SumFunctionOnSet(f, S) \in V /\ (S = {} => SumFunctionOnSet(f, S) = 0)
<1>1. PICK g \in [SUBSET S -> V] :
        /\ \A T \in SUBSET S :
             g[T] = IF T = {} THEN 0 ELSE f[CHOOSE x \in T : TRUE] + g[T \ {CHOOSE x \in T : TRUE}]
        /\ \A R \in SUBSET S : SumFunctionOnSet(f, R) = g[R]
    <2>1. TablesOf(S, f, V) # {}
        BY SumTable
    <2> QED BY <2>1 DEF TablesOf
<1>2. S \in SUBSET S
    OBVIOUS
<1>3. SumFunctionOnSet(f, S) = g[S] /\ g[S] \in V
    BY <1>1, <1>2
<1>4. S = {} => g[S] = 0
    BY <1>1, <1>2
<1> QED BY <1>3, <1>4

\* The order in which a sum takes its elements does not matter: any of them
\* may come first.
LEMMA SumRemove ==
    ASSUME NEW S, IsFiniteSet(S), NEW f, \A x \in S : f[x] \in Int, NEW e \in S
    PROVE  SumFunctionOnSet(f, S) = f[e] + SumFunctionOnSet(f, S \ {e})
<1>1. PICK g \in [SUBSET S -> Int] :
        /\ \A T \in SUBSET S :
             g[T] = IF T = {} THEN 0 ELSE f[CHOOSE x \in T : TRUE] + g[T \ {CHOOSE x \in T : TRUE}]
        /\ \A R \in SUBSET S : SumFunctionOnSet(f, R) = g[R]
    <2>1. Int \in {Nat, Int}
        OBVIOUS
    <2>2. TablesOf(S, f, Int) # {}
        BY <2>1, SumTable
    <2> QED BY <2>2 DEF TablesOf
<1> DEFINE U == {T \in SUBSET S : \E x \in T : g[T] # f[x] + g[T \ {x}]}
<1>2. U = {}
    <2> SUFFICES ASSUME U # {} PROVE FALSE
        OBVIOUS
    <2>0. U # {} /\ U \in SUBSET SUBSET S
        OBVIOUS
    <2>1. PICK T \in U : \A W \in U : W \subseteq T => W = T
        <3> HIDE DEF U
        <3> QED BY <2>0, LeastFinite
    <2>2. PICK x \in T : g[T] # f[x] + g[T \ {x}]
        OBVIOUS
    <2>3. PICK y \in T : g[T] = f[y] + g[T \ {y}]
        <3>1. (CHOOSE z \in T : TRUE) \in T
            BY <2>2
        <3> QED BY <1>1, <2>2, <3>1
    <2> DEFINE TX == T \ {x}
               TY == T \ {y}
               TXY == T \ {x, y}
    <2>4. x # y /\ x \in S /\ y \in S
        BY <2>2, <2>3
    <2>5. /\ TX \in SUBSET S /\ TX \subseteq T /\ TX # T /\ y \in TX /\ TX \ {y} = TXY
          /\ TY \in SUBSET S /\ TY \subseteq T /\ TY # T /\ x \in TY /\ TY \ {x} = TXY
          /\ TXY \in SUBSET S
        BY <2>2, <2>3, <2>4
    <2>6. TX \notin U /\ TY \notin U
        <3> HIDE DEF TX, TY, U
        <3> QED BY <2>1, <2>5
    <2>7. g[TX] = f[y] + g[TXY] /\ g[TY] = f[x] + g[TXY]
        <3> HIDE DEF TX, TY, TXY
        <3> QED BY <2>5, <2>6
    <2>8. g[TX] \in Int /\ g[TY] \in Int /\ g[TXY] \in Int /\ f[x] \in Int /\ f[y] \in Int
        <3> HIDE DEF TX, TY, TXY
        <3> QED BY <2>4, <2>5
    <2> HIDE DEF U
    <2>9. g[T] # f[x] + g[TX] /\ g[T] = f[y] + g[TY]
        BY <2>2, <2>3
    <2> HIDE DEF TX, TY, TXY
    <2> QED BY <2>7, <2>8, <2>9
<1>3. g[S] = f[e] + g[S \ {e}]
    BY <1>2
<1>4. S \in SUBSET S /\ S \ {e} \in SUBSET S
    OBVIOUS
<1> QED BY <1>1, <1>3, <1>4

\* The sum over a set with one more element.
LEMMA SumAdd ==
    ASSUME NEW S, IsFiniteSet(S), NEW e, e \notin S, NEW f, \A x \in S \cup {e} : f[x] \in Int
    PROVE  SumFunctionOnSet(f, S \cup {e}) = f[e] + SumFunctionOnSet(f, S)
<1> DEFINE T == S \cup {e}
<1>1. IsFiniteSet(T) /\ e \in T /\ T \ {e} = S
    BY FS_AddElement
<1>2. SumFunctionOnSet(f, T) = f[e] + SumFunctionOnSet(f, T \ {e})
    <2> HIDE DEF T
    <2>1. \A x \in T : f[x] \in Int
        BY DEF T
    <2> QED BY <1>1, <2>1, SumRemove
<1> QED BY <1>1, <1>2

\* Functions with the same values have the same sum.
LEMMA SumEqual ==
    ASSUME NEW S, IsFiniteSet(S), NEW f, NEW h, \A x \in S : f[x] \in Int /\ f[x] = h[x]
    PROVE  SumFunctionOnSet(f, S) = SumFunctionOnSet(h, S)
<1> DEFINE P == {T \in SUBSET S : SumFunctionOnSet(f, T) = SumFunctionOnSet(h, T)}
<1>1. {} \in P
    <2>1. SumFunctionOnSet(f, {}) = 0 /\ SumFunctionOnSet(h, {}) = 0
        <3>1. IsFiniteSet({})
            BY FS_EmptySet
        <3>2. Int \in {Nat, Int}
            OBVIOUS
        <3>3. /\ SumFunctionOnSet(f, {}) \in Int /\ ({} = {} => SumFunctionOnSet(f, {}) = 0)
              /\ SumFunctionOnSet(h, {}) \in Int /\ ({} = {} => SumFunctionOnSet(h, {}) = 0)
            BY <3>1, <3>2, SumType
        <3> QED BY <3>3
    <2> QED BY <2>1
<1>2. ASSUME NEW T \in SUBSET S, NEW e \in S, T \in P PROVE T \cup {e} \in P
    <2>1. CASE e \in T
        <3>1. T \cup {e} = T
            BY <2>1
        <3> QED BY <1>2, <3>1
    <2>2. CASE e \notin T
        <3>1. IsFiniteSet(T)
            BY FS_Subset
        <3>2. \A x \in T \cup {e} : f[x] \in Int /\ h[x] \in Int
            OBVIOUS
        <3>3. /\ SumFunctionOnSet(f, T \cup {e}) = f[e] + SumFunctionOnSet(f, T)
              /\ SumFunctionOnSet(h, T \cup {e}) = h[e] + SumFunctionOnSet(h, T)
            BY <2>2, <3>1, <3>2, SumAdd
        <3>4. T \cup {e} \in SUBSET S /\ f[e] = h[e] /\ SumFunctionOnSet(f, T) = SumFunctionOnSet(h, T)
            BY <1>2
        <3> QED BY <3>3, <3>4
    <2> QED BY <2>1, <2>2
<1>3. S \in P
    <2> HIDE DEF P
    <2> QED BY <1>1, <1>2, OverFinite
<1> QED BY <1>3

\* The sum over two sets with nothing in common.
LEMMA SumUnion ==
    ASSUME NEW S, IsFiniteSet(S), NEW R, IsFiniteSet(R), S \cap R = {},
           NEW f, \A x \in S \cup R : f[x] \in Int
    PROVE  SumFunctionOnSet(f, S \cup R) = SumFunctionOnSet(f, S) + SumFunctionOnSet(f, R)
<1> DEFINE P == {T \in SUBSET R :
                   SumFunctionOnSet(f, S \cup T) = SumFunctionOnSet(f, S) + SumFunctionOnSet(f, T)}
<1>0. ASSUME NEW T \in SUBSET R
      PROVE  /\ IsFiniteSet(T) /\ IsFiniteSet(S \cup T)
             /\ SumFunctionOnSet(f, T) \in Int /\ SumFunctionOnSet(f, S \cup T) \in Int
             /\ T = {} => SumFunctionOnSet(f, T) = 0
    <2>1. IsFiniteSet(T)
        BY FS_Subset
    <2>2. IsFiniteSet(S \cup T)
        BY <2>1, FS_Union
    <2>3. Int \in {Nat, Int} /\ (\A x \in T : f[x] \in Int) /\ \A x \in S \cup T : f[x] \in Int
        OBVIOUS
    <2>4. SumFunctionOnSet(f, T) \in Int /\ (T = {} => SumFunctionOnSet(f, T) = 0)
        BY <2>1, <2>3, SumType
    <2> DEFINE ST == S \cup T
    <2>5. SumFunctionOnSet(f, ST) \in Int
        <3>1. IsFiniteSet(ST) /\ \A x \in ST : f[x] \in Int
            BY <2>2, <2>3
        <3> HIDE DEF ST
        <3> QED BY <2>3, <3>1, SumType
    <2> QED BY <2>1, <2>2, <2>4, <2>5
<1>1. {} \in P
    <2>1. S \cup {} = S /\ {} \in SUBSET R
        OBVIOUS
    <2>2. SumFunctionOnSet(f, {}) = 0 /\ SumFunctionOnSet(f, S) \in Int
        BY <1>0, <2>1
    <2> QED BY <2>1, <2>2
<1>2. ASSUME NEW T \in SUBSET R, NEW e \in R, T \in P PROVE T \cup {e} \in P
    <2>1. CASE e \in T
        <3>1. T \cup {e} = T
            BY <2>1
        <3> QED BY <1>2, <3>1
    <2>2. CASE e \notin T
        <3>1. /\ e \notin S \cup T /\ S \cup (T \cup {e}) = (S \cup T) \cup {e}
              /\ f[e] \in Int /\ T \cup {e} \in SUBSET R
              /\ \A x \in (S \cup T) \cup {e} : f[x] \in Int
              /\ \A x \in T \cup {e} : f[x] \in Int
            BY <2>2
        <3>2. SumFunctionOnSet(f, T \cup {e}) = f[e] + SumFunctionOnSet(f, T)
            BY <1>0, <2>2, <3>1, SumAdd
        <3> DEFINE ST == S \cup T
        <3>3. SumFunctionOnSet(f, ST \cup {e}) = f[e] + SumFunctionOnSet(f, ST)
            <4>1. IsFiniteSet(ST) /\ e \notin ST /\ \A x \in ST \cup {e} : f[x] \in Int
                BY <1>0, <3>1
            <4> HIDE DEF ST
            <4> QED BY <4>1, SumAdd
        <3>4. SumFunctionOnSet(f, S \cup (T \cup {e})) = SumFunctionOnSet(f, ST \cup {e})
            BY <3>1
        <3>5. SumFunctionOnSet(f, ST) = SumFunctionOnSet(f, S) + SumFunctionOnSet(f, T)
            BY <1>2
        <3>6. SumFunctionOnSet(f, S) \in Int /\ SumFunctionOnSet(f, T) \in Int
            <4>1. {} \in SUBSET R /\ S \cup {} = S
                OBVIOUS
            <4> QED BY <1>0, <4>1
        <3>7. SumFunctionOnSet(f, S \cup (T \cup {e})) = SumFunctionOnSet(f, S) + SumFunctionOnSet(f, T \cup {e})
            BY <3>1, <3>2, <3>3, <3>4, <3>5, <3>6
        <3> QED BY <3>1, <3>7
    <2> QED BY <2>1, <2>2
<1>3. R \in P
    <2> HIDE DEF P
    <2> QED BY <1>1, <1>2, OverFinite
<1> QED BY <1>3

----------------------------------------------------------------------------
(* Recursion along a pointer, sorting and loops.                           *)

\* The functions on S that start at first[x] where x is a root, and go on
\* from what its pointer gives elsewhere.
PointerSolutions(S, V, roots, first, next, step) ==
    {g \in [S -> V] : \A x \in S : g[x] = IF x \in roots THEN first[x] ELSE step[x][g[next[x]]]}

\* There is one when the pointer goes down a rank.
LEMMA RecursionExists ==
    ASSUME NEW S, NEW rank, \A x \in S : rank[x] \in Nat,
           NEW roots, NEW V, NEW first, \A x \in S : x \in roots => first[x] \in V,
           NEW next, \A x \in S \ roots : next[x] \in S /\ rank[next[x]] < rank[x],
           NEW step, \A x \in S \ roots : \A v \in V : step[x][v] \in V
    PROVE  PointerSolutions(S, V, roots, first, next, step) # {}
<1> DEFINE Good(n, g) == /\ g \in [{x \in S : rank[x] <= n} -> V]
                         /\ \A x \in S : rank[x] <= n =>
                              g[x] = IF x \in roots THEN first[x] ELSE step[x][g[next[x]]]
           P == {n \in Nat : \E g : Good(n, g)}
<1>1. ASSUME NEW n \in Nat, NEW g,
             \/ n = 0
             \/ n > 0 /\ Good(n - 1, g)
      PROVE  \E h : Good(n, h)
    <2> DEFINE L == {x \in S : rank[x] <= n}
               h == [x \in L |-> IF x \in roots THEN first[x] ELSE step[x][g[next[x]]]]
    <2>1. ASSUME NEW x \in S, rank[x] <= n, x \notin roots
          PROVE  n > 0 /\ next[x] \in S /\ rank[next[x]] <= n - 1 /\ rank[next[x]] <= n
        <3>1. next[x] \in S /\ rank[next[x]] < rank[x] /\ rank[next[x]] \in Nat /\ rank[x] \in Nat
            BY <2>1
        <3> QED BY <2>1, <3>1
    <2>2. ASSUME NEW x \in L PROVE (IF x \in roots THEN first[x] ELSE step[x][g[next[x]]]) \in V
        <3>1. CASE x \in roots
            BY <3>1
        <3>2. CASE x \notin roots
            <4>1. n > 0 /\ next[x] \in S /\ rank[next[x]] <= n - 1
                BY <2>1, <3>2
            <4>2. Good(n - 1, g)
                BY <1>1, <4>1
            <4>3. g[next[x]] \in V
                BY <4>1, <4>2
            <4> QED BY <3>2, <4>3
        <3> QED BY <3>1, <3>2
    <2>3. h \in [L -> V]
        BY <2>2
    <2>4. ASSUME NEW x \in S, rank[x] <= n
          PROVE  h[x] = IF x \in roots THEN first[x] ELSE step[x][h[next[x]]]
        <3>1. h[x] = IF x \in roots THEN first[x] ELSE step[x][g[next[x]]]
            BY <2>4
        <3>2. CASE x \in roots
            BY <3>1, <3>2
        <3>3. CASE x \notin roots
            <4> DEFINE y == next[x]
            <4>1. n > 0 /\ y \in S /\ rank[y] <= n - 1 /\ rank[y] <= n
                BY <2>1, <2>4, <3>3
            <4>2. Good(n - 1, g)
                BY <1>1, <4>1
            <4> HIDE DEF y
            <4>3. g[y] = IF y \in roots THEN first[y] ELSE step[y][g[next[y]]]
                BY <4>1, <4>2
            <4>4. h[y] = IF y \in roots THEN first[y] ELSE step[y][g[next[y]]]
                BY <4>1
            <4> HIDE DEF h
            <4> QED BY <3>1, <3>3, <4>3, <4>4 DEF y
        <3> QED BY <3>2, <3>3
    <2>5. Good(n, h)
        <3> HIDE DEF h
        <3> QED BY <2>3, <2>4
    <2> QED BY <2>5
<1>2. Nat \subseteq P
    <2>1. 0 \in P
        <3>1. \E h : Good(0, h)
            <4> HIDE DEF Good
            <4> QED BY <1>1
        <3> QED BY <3>1
    <2>2. ASSUME NEW n \in Nat, n \in P PROVE n + 1 \in P
        <3>1. PICK g : Good(n, g)
            BY <2>2
        <3>2. n + 1 \in Nat /\ n + 1 > 0 /\ (n + 1) - 1 = n
            OBVIOUS
        <3>3. \E h : Good(n + 1, h)
            <4> HIDE DEF Good
            <4> DEFINE m == n + 1
            <4>1. m \in Nat /\ m > 0 /\ Good(m - 1, g)
                BY <3>1, <3>2
            <4> HIDE DEF m
            <4>2. \E h : Good(m, h)
                BY <4>1, <1>1
            <4> QED BY <4>2 DEF m
        <3> QED BY <3>2, <3>3
    <2> HIDE DEF P
    <2> QED BY <2>1, <2>2, OverNat
<1>u. ASSUME NEW n \in Nat, NEW m \in Nat, NEW g, NEW h, Good(n, g), Good(m, h)
      PROVE  \A z \in S : rank[z] <= n /\ rank[z] <= m => g[z] = h[z]
    <2> DEFINE Bad == {x \in S : rank[x] <= n /\ rank[x] <= m /\ g[x] # h[x]}
               T == {rank[x] : x \in Bad}
    <2> SUFFICES ASSUME Bad # {} PROVE FALSE
        OBVIOUS
    <2>1. T # {} /\ T \in SUBSET Nat
        OBVIOUS
    <2>2. PICK k \in T : \A j \in T : k <= j
        <3> HIDE DEF T
        <3> QED BY <2>1, LeastNat
    <2>3. PICK x \in Bad : k = rank[x]
        OBVIOUS
    <2>4. x \in S /\ rank[x] <= n /\ rank[x] <= m /\ g[x] # h[x] /\ rank[x] \in Nat
        OBVIOUS
    <2>5. /\ g[x] = IF x \in roots THEN first[x] ELSE step[x][g[next[x]]]
          /\ h[x] = IF x \in roots THEN first[x] ELSE step[x][h[next[x]]]
        BY <1>u, <2>4
    <2>6. x \notin roots
        BY <2>4, <2>5
    <2>7. next[x] \in S /\ rank[next[x]] < rank[x] /\ rank[next[x]] \in Nat
        BY <2>4, <2>6
    <2>8. next[x] \notin Bad
        <3> SUFFICES ASSUME next[x] \in Bad PROVE FALSE
            OBVIOUS
        <3>1. rank[next[x]] \in T
            OBVIOUS
        <3> HIDE DEF T, Bad
        <3>2. k <= rank[next[x]]
            BY <2>2, <3>1
        <3> QED BY <2>3, <2>4, <2>7, <3>2
    <2>9. g[next[x]] = h[next[x]]
        BY <2>4, <2>7, <2>8
    <2> QED BY <2>4, <2>5, <2>6, <2>9
<1> DEFINE sol == [n \in Nat |-> CHOOSE g : Good(n, g)]
<1>3. \A n \in Nat : Good(n, sol[n])
    <2> SUFFICES ASSUME NEW n \in Nat PROVE Good(n, sol[n])
        OBVIOUS
    <2>1. \E g : Good(n, g)
        BY <1>2
    <2> HIDE DEF Good
    <2> QED BY <2>1
<1> HIDE DEF sol
<1> DEFINE f == [x \in S |-> sol[rank[x]][x]]
<1>4. f \in [S -> V]
    <2>1. ASSUME NEW x \in S PROVE sol[rank[x]][x] \in V
        <3>1. rank[x] \in Nat /\ rank[x] <= rank[x]
            OBVIOUS
        <3> QED BY <1>3, <3>1
    <2> QED BY <2>1
<1>5. ASSUME NEW x \in S PROVE f[x] = IF x \in roots THEN first[x] ELSE step[x][f[next[x]]]
    <2>1. rank[x] \in Nat /\ rank[x] <= rank[x]
        OBVIOUS
    <2>2. f[x] = IF x \in roots THEN first[x] ELSE step[x][sol[rank[x]][next[x]]]
        BY <1>3, <2>1
    <2>3. ASSUME x \notin roots PROVE f[next[x]] = sol[rank[x]][next[x]]
        <3> DEFINE y == next[x]
        <3>1. y \in S /\ rank[y] < rank[x] /\ rank[y] \in Nat
            BY <2>3
        <3> HIDE DEF y
        <3>2. rank[y] <= rank[x] /\ rank[y] <= rank[y]
            BY <2>1, <3>1
        <3> DEFINE n == rank[x]
                   m == rank[y]
                   g == sol[n]
                   h == sol[m]
        <3>3. Good(n, g) /\ Good(m, h)
            BY <1>3, <2>1, <3>1
        <3>4. n \in Nat /\ m \in Nat /\ rank[y] <= n /\ rank[y] <= m
            BY <2>1, <3>1, <3>2
        <3> HIDE DEF n, m, g, h, f
        <3>5. \A z \in S : rank[z] <= n /\ rank[z] <= m => g[z] = h[z]
            <4> HIDE DEF Good
            <4> QED BY <3>3, <3>4, <1>u
        <3>6. g[y] = h[y]
            BY <3>1, <3>4, <3>5
        <3>7. f[y] = h[y]
            BY <3>1 DEF f, h, m
        <3>8. f[y] = g[y]
            BY <3>6, <3>7
        <3> QED BY <3>8 DEF y, g, n
    <2> HIDE DEF f
    <2> QED BY <2>2, <2>3
<1> HIDE DEF f
<1> QED BY <1>4, <1>5 DEF PointerSolutions

\* R is a strict total order on S.
StrictlyOrders(R, S) ==
    /\ \A x \in S : <<x, x>> \notin R
    /\ \A x, y, z \in S : <<x, y>> \in R /\ <<y, z>> \in R => <<x, z>> \in R
    /\ \A x, y \in S : x # y => <<x, y>> \in R \/ <<y, x>> \in R

Below(x, S, R) == {y \in S : <<y, x>> \in R}

\* The number of elements below another grows along the order.
LEMMA RankGrows ==
    ASSUME NEW S, IsFiniteSet(S), NEW R, StrictlyOrders(R, S)
    PROVE  /\ \A x \in S : Cardinality(Below(x, S, R)) \in 0 .. Cardinality(S) - 1
           /\ \A x, y \in S : <<x, y>> \in R <=>
                Cardinality(Below(x, S, R)) < Cardinality(Below(y, S, R))
<1>1. ASSUME NEW x \in S
      PROVE  /\ IsFiniteSet(Below(x, S, R)) /\ Cardinality(Below(x, S, R)) \in Nat
             /\ Below(x, S, R) \in SUBSET (S \ {x})
    <2>1. Below(x, S, R) \in SUBSET (S \ {x}) /\ Below(x, S, R) \in SUBSET S
        BY DEF Below, StrictlyOrders
    <2> QED BY <2>1, FS_Subset, FS_CardinalityType
<1>2. ASSUME NEW x \in S
      PROVE  Cardinality(Below(x, S, R)) \in 0 .. Cardinality(S) - 1
    <2> DEFINE T == S \ {x}
    <2>1. IsFiniteSet(T) /\ Cardinality(T) = Cardinality(S) - 1
        BY FS_RemoveElement
    <2>2. Cardinality(Below(x, S, R)) <= Cardinality(T)
        <3> HIDE DEF T
        <3>1. Below(x, S, R) \in SUBSET T
            BY <1>1 DEF T
        <3> QED BY <2>1, <3>1, FS_Subset
    <2>3. Cardinality(S) \in Nat
        BY FS_CardinalityType
    <2> QED BY <1>1, <2>1, <2>2, <2>3
<1>3. ASSUME NEW x \in S, NEW y \in S, <<x, y>> \in R
      PROVE  Cardinality(Below(x, S, R)) < Cardinality(Below(y, S, R))
    <2>1. Below(x, S, R) \in SUBSET Below(y, S, R)
        BY <1>3 DEF Below, StrictlyOrders
    <2>2. x \in Below(y, S, R) /\ x \notin Below(x, S, R)
        BY <1>3 DEF Below, StrictlyOrders
    <2>3. /\ Cardinality(Below(x, S, R)) <= Cardinality(Below(y, S, R))
          /\ Cardinality(Below(x, S, R)) # Cardinality(Below(y, S, R))
        BY <1>1, <2>1, <2>2, FS_Subset
    <2> QED BY <1>1, <2>3
<1>4. ASSUME NEW x \in S, NEW y \in S, <<x, y>> \notin R
      PROVE  ~(Cardinality(Below(x, S, R)) < Cardinality(Below(y, S, R)))
    <2>1. CASE x = y
        BY <1>1, <2>1
    <2>2. CASE <<y, x>> \in R
        BY <1>1, <1>3, <2>2
    <2> QED BY <1>4, <2>1, <2>2 DEF StrictlyOrders
<1> QED BY <1>2, <1>3, <1>4

\* Every rank is taken.
LEMMA RankExists ==
    ASSUME NEW S, IsFiniteSet(S), NEW R, StrictlyOrders(R, S),
           NEW i \in 1 .. Cardinality(S)
    PROVE  \E x \in S : Cardinality(Below(x, S, R)) = i - 1
<1> DEFINE n == Cardinality(S)
           T == 0 .. n - 1
           rank == [x \in S |-> Cardinality(Below(x, S, R))]
<1>1. n \in Nat /\ IsFiniteSet(T) /\ Cardinality(T) = n
    <2>1. n \in Nat
        BY FS_CardinalityType
    <2> HIDE DEF n
    <2>2. 0 \in Int /\ n - 1 \in Int /\ (0 > n - 1 => n = 0) /\ (n - 1) - 0 + 1 = n
        BY <2>1
    <2> QED BY <2>1, <2>2, FS_Interval
<1>2. rank \in Injection(S, T)
    <2>1. rank \in [S -> T]
        BY RankGrows
    <2>2. ASSUME NEW x \in S, NEW y \in S, rank[x] = rank[y] PROVE x = y
        <3>1. Cardinality(Below(x, S, R)) = Cardinality(Below(y, S, R))
            BY <2>2
        <3>2. Cardinality(Below(x, S, R)) \in Nat
            BY RankGrows
        <3>3. <<x, y>> \notin R /\ <<y, x>> \notin R
            BY <3>1, <3>2, RankGrows
        <3> QED BY <3>3 DEF StrictlyOrders
    <2> HIDE DEF rank, T
    <2>3. DOMAIN rank = S
        BY <2>1
    <2>4. \A x, y \in S : rank[x] = rank[y] => x = y
        BY <2>2
    <2> QED BY <2>1, <2>3, <2>4, Zenon DEF Injection, IsInjective
<1>3. rank \in Surjection(S, T)
    <2> HIDE DEF rank, T
    <2> QED BY <1>1, <1>2, FS_Injection
<1>4. i - 1 \in T
    BY <1>1
<1>5. \E x \in S : rank[x] = i - 1
    <2> HIDE DEF rank, T
    <2> QED BY <1>3, <1>4 DEF Surjection
<1> QED BY <1>5

\* A sequence whose every place holds the element of that rank lists S in
\* the order.
LEMMA RankedLists ==
    ASSUME NEW S, IsFiniteSet(S), NEW R, StrictlyOrders(R, S),
           NEW s, s = [i \in 1 .. Cardinality(S) |-> s[i]],
           \A i \in 1 .. Cardinality(S) : s[i] \in S /\ Cardinality(Below(s[i], S, R)) = i - 1
    PROVE  /\ s \in Seq(S) /\ Len(s) = Cardinality(S) /\ DOMAIN s = 1 .. Cardinality(S)
           /\ \A x \in S : \E i \in DOMAIN s : s[i] = x
           /\ \A i, j \in DOMAIN s : i < j <=> <<s[i], s[j]>> \in R
<1>1. Cardinality(S) \in Nat
    BY FS_CardinalityType
<1>2. s \in Seq(S) /\ Len(s) = Cardinality(S) /\ DOMAIN s = 1 .. Cardinality(S)
    BY <1>1
<1>3. ASSUME NEW i \in DOMAIN s, NEW j \in DOMAIN s
      PROVE  i < j <=> <<s[i], s[j]>> \in R
    <2>1. <<s[i], s[j]>> \in R <=> Cardinality(Below(s[i], S, R)) < Cardinality(Below(s[j], S, R))
        BY <1>2, RankGrows
    <2>2. i \in Nat /\ j \in Nat /\ Cardinality(Below(s[i], S, R)) = i - 1 /\ Cardinality(Below(s[j], S, R)) = j - 1
        BY <1>1, <1>2
    <2> QED BY <2>1, <2>2
<1>4. ASSUME NEW x \in S PROVE \E i \in DOMAIN s : s[i] = x
    <2> DEFINE r == Cardinality(Below(x, S, R))
    <2>1. r \in 0 .. Cardinality(S) - 1
        BY RankGrows
    <2>2. r + 1 \in DOMAIN s /\ s[r + 1] \in S /\ Cardinality(Below(s[r + 1], S, R)) = r
        <3> HIDE DEF r
        <3>1. r + 1 \in 1 .. Cardinality(S) /\ (r + 1) - 1 = r
            BY <1>1, <2>1
        <3> QED BY <1>2, <3>1
    <2>3. <<x, s[r + 1]>> \notin R /\ <<s[r + 1], x>> \notin R
        BY <2>1, <2>2, RankGrows
    <2>4. s[r + 1] = x
        BY <2>2, <2>3 DEF StrictlyOrders
    <2> QED BY <2>2, <2>4
<1> QED BY <1>2, <1>3, <1>4

\* A finite nonempty set of naturals has a maximum, and Max is it.
LEMMA MaxIs ==
    ASSUME NEW n \in Nat, NEW T \in SUBSET (1 .. n), T # {}
    PROVE  Max(T) \in T /\ \A y \in T : Max(T) >= y
<1> DEFINE U == {m \in Nat : \A y \in T : m >= y}
<1>1. U \in SUBSET Nat /\ n \in U
    OBVIOUS
<1>2. PICK m \in U : \A k \in U : m <= k
    <2> HIDE DEF U
    <2> QED BY <1>1, LeastNat
<1>3. m \in T
    <2> SUFFICES ASSUME m \notin T PROVE FALSE
        OBVIOUS
    <2>1. PICK y \in T : TRUE
        OBVIOUS
    <2>2. m \in Nat /\ \A z \in T : z \in Nat /\ z >= 1 /\ m >= z /\ z # m
        OBVIOUS
    <2>3. m - 1 \in Nat /\ \A z \in T : m - 1 >= z
        BY <2>1, <2>2
    <2>4. m - 1 \in U
        BY <2>3
    <2> HIDE DEF U
    <2>5. m <= m - 1
        BY <1>2, <2>4
    <2> QED BY <2>2, <2>5
<1>4. \E x \in T : \A y \in T : x >= y
    BY <1>2, <1>3
<1> QED BY <1>4, Zenon DEF Max

\* g tells what a loop over 1 .. n makes of base, for every set of turns at
\* once.
IsLoop(n, base, op, g) ==
    \A T \in SUBSET (1 .. n) : g[T] = IF T = {} THEN base ELSE op[Max(T)][g[T \ {Max(T)}]]

LoopTables(n, V, base, op) == {g \in [SUBSET (1 .. n) -> V] : IsLoop(n, base, op, g)}

LEMMA LoopExists ==
    ASSUME NEW n \in Nat, NEW V, NEW base \in V, NEW op,
           \A i \in 1 .. n : \A v \in V : op[i][v] \in V
    PROVE  LoopTables(n, V, base, op) # {}
<1> DEFINE S == 1 .. n
           c == [T \in (SUBSET S) \ {{}} |-> Max(T)]
           f == [i \in S |-> [v \in V |-> op[i][v]]]
<1>1. IsFiniteSet(S)
    BY FirstNumbers
<1>2. c \in [(SUBSET S) \ {{}} -> S] /\ \A T \in (SUBSET S) \ {{}} : c[T] \in T /\ c[T] = Max(T)
    <2>1. \A T \in (SUBSET S) \ {{}} : Max(T) \in T
        BY MaxIs
    <2> QED BY <2>1
<1>3. f \in [S -> [V -> V]] /\ \A i \in S, v \in V : f[i][v] = op[i][v]
    OBVIOUS
<1> HIDE DEF c, f, S
<1>4. SolutionsOf(S, V, base, c, f) # {}
    BY <1>1, <1>2, <1>3, FoldExists
<1>5. PICK g \in [SUBSET S -> V] :
        \A T \in SUBSET S : g[T] = IF T = {} THEN base ELSE f[c[T]][g[T \ {c[T]}]]
    BY <1>4 DEF SolutionsOf
<1>6. ASSUME NEW T \in SUBSET S
      PROVE  g[T] = IF T = {} THEN base ELSE op[Max(T)][g[T \ {Max(T)}]]
    <2>1. CASE T = {}
        BY <1>5, <2>1
    <2>2. CASE T # {}
        <3>1. c[T] = Max(T) /\ c[T] \in S
            BY <1>2, <2>2
        <3>2. T \ {c[T]} \in SUBSET S
            OBVIOUS
        <3>3. g[T \ {c[T]}] \in V
            BY <3>2
        <3>4. f[c[T]][g[T \ {c[T]}]] = op[c[T]][g[T \ {c[T]}]]
            BY <1>3, <3>1, <3>3
        <3> QED BY <1>5, <2>2, <3>1, <3>4
    <2> QED BY <2>1, <2>2
<1>7. IsLoop(n, base, op, g)
    BY <1>6 DEF IsLoop, S
<1> QED BY <1>7 DEF LoopTables, S

\* What a loop does turn by turn.
LEMMA LoopTurns ==
    ASSUME NEW n \in Nat, NEW base, NEW op, NEW g, IsLoop(n, base, op, g)
    PROVE  /\ g[{}] = base
           /\ \A i \in 1 .. n : g[1 .. i] = op[i][g[1 .. i - 1]]
<1> USE DEF IsLoop
<1>1. g[{}] = base
    OBVIOUS
<1>2. ASSUME NEW i \in 1 .. n PROVE g[1 .. i] = op[i][g[1 .. i - 1]]
    <2> DEFINE T == 1 .. i
    <2>1. T \in SUBSET (1 .. n) /\ T # {} /\ i \in T
        OBVIOUS
    <2>2. Max(T) = i
        <3>1. Max(T) \in T /\ \A y \in T : Max(T) >= y
            <4> HIDE DEF T
            <4> QED BY <2>1, MaxIs
        <3> QED BY <2>1, <3>1
    <2>3. T \ {i} = 1 .. i - 1
        OBVIOUS
    <2> HIDE DEF T
    <2>4. g[T] = op[i][g[T \ {i}]]
        BY <2>1, <2>2
    <2> QED BY <2>3, <2>4 DEF T
<1> QED BY <1>1, <1>2
=============================================================================
