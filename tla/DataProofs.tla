------------------------------ MODULE DataProofs ------------------------------
(***************************************************************************)
(* What the proofs need to know of data: that Ascending puts a finite set of *)
(* integers in order; that what passes from the smaller subsets of a finite  *)
(* set to the next is true of the set; and what a sum over such a set is.    *)
(***************************************************************************)
EXTENDS Ascending, Functions, Sequences, FiniteSetTheorems, TLAPS

\* The sequence f has the elements of S, each once, the smaller first.
Enumerates(f, S) ==
    /\ f \in Seq(S) /\ Len(f) = Cardinality(S)
    /\ \A i, j \in 1..Len(f) : i < j => f[i] < f[j]
    /\ \A x \in S : \E i \in 1..Len(f) : f[i] = x

\* The place of an element is one of the set's places.
LEMMA RankIsAPlace ==
    ASSUME NEW S \in SUBSET Int, IsFiniteSet(S), NEW x \in S
    PROVE  Rank(x, S) \in 1..Cardinality(S)
<1> DEFINE B == {y \in S : y <= x}
<1>1. B \in SUBSET S /\ x \in B
    OBVIOUS
<1> HIDE DEF B
<1>2. IsFiniteSet(B) /\ Cardinality(B) <= Cardinality(S)
    BY <1>1, FS_Subset
<1>3. Cardinality(B) \in Nat /\ Cardinality(S) \in Nat /\ Cardinality(B) # 0
    BY <1>1, <1>2, FS_CardinalityType, FS_EmptySet
<1>4. Cardinality(B) \in 1..Cardinality(S)
    BY <1>2, <1>3
<1> QED BY <1>4 DEF B, Rank

\* A greater element has a later place.
LEMMA RankIsIncreasing ==
    ASSUME NEW S \in SUBSET Int, IsFiniteSet(S), NEW x \in S, NEW z \in S, x < z
    PROVE  Rank(x, S) < Rank(z, S)
<1> DEFINE B == {y \in S : y <= x}
           C == {y \in S : y <= z}
<1>1. B \in SUBSET C /\ C \in SUBSET S /\ z \in C /\ z \notin B
    <2>1. x \in Int /\ z \in Int /\ \A y \in S : y \in Int
        OBVIOUS
    <2>2. \A y \in B : y \in C
        BY <2>1
    <2>3. z \in C /\ ~ (z <= x)
        BY <2>1
    <2> QED BY <2>2, <2>3
<1> HIDE DEF B, C
<1>2. IsFiniteSet(C)
    BY <1>1, FS_Subset
<1>3. IsFiniteSet(B) /\ Cardinality(B) <= Cardinality(C) /\ Cardinality(B) # Cardinality(C)
    BY <1>1, <1>2, FS_Subset
<1>4. Cardinality(B) \in Nat /\ Cardinality(C) \in Nat
    BY <1>2, <1>3, FS_CardinalityType
<1>5. Cardinality(B) < Cardinality(C)
    BY <1>3, <1>4
<1> QED BY <1>5 DEF B, C, Rank

\* Every place is taken by one element.
LEMMA EveryPlaceIsTaken ==
    ASSUME NEW S \in SUBSET Int, IsFiniteSet(S), NEW i \in 1..Cardinality(S)
    PROVE  \E x \in S : Rank(x, S) = i
<1> DEFINE n == Cardinality(S)
           r == [x \in S |-> Rank(x, S)]
<1>0. n \in Nat /\ \A x \in S : x \in Int
    BY FS_CardinalityType
<1>1. r \in [S -> 1..n]
    BY RankIsAPlace
<1>2. \A x, z \in S : r[x] = r[z] => x = z
    <2> SUFFICES ASSUME NEW x \in S, NEW z \in S, r[x] = r[z] PROVE x = z
        OBVIOUS
    <2>1. r[x] \in 1..n /\ r[z] \in 1..n
        BY <1>1
    <2>2. x < z => r[x] < r[z]
        BY RankIsIncreasing
    <2>3. z < x => r[z] < r[x]
        BY RankIsIncreasing
    <2> HIDE DEF r
    <2>4. ~ (r[x] < r[z]) /\ ~ (r[z] < r[x])
        BY <2>1, <1>0
    <2>5. ~ (x < z) /\ ~ (z < x)
        BY <2>2, <2>3, <2>4
    <2> QED BY <2>5, <1>0
<1> HIDE DEF r
<1>3. r \in Injection(S, 1..n)
    BY <1>1, <1>2 DEF Injection, IsInjective
<1>4. IsFiniteSet(1..n) /\ Cardinality(1..n) = n
    BY <1>0, FS_Interval
<1>5. r \in Surjection(S, 1..n)
    BY <1>3, <1>4, FS_Injection
<1> QED BY <1>5 DEF Surjection, r

\* Ascending lists a finite set of integers in order, each element once.
THEOREM AscendingEnumerates ==
    ASSUME NEW S \in SUBSET Int, IsFiniteSet(S)
    PROVE  Enumerates(Ascending(S), S)
<1> DEFINE n == Cardinality(S)
           f == Ascending(S)
<1>0. n \in Nat /\ \A x \in S : x \in Int
    BY FS_CardinalityType
<1>1. f = [i \in 1..n |-> f[i]] /\ \A i \in 1..n : f[i] \in S /\ Rank(f[i], S) = i
    BY EveryPlaceIsTaken DEF Ascending
<1> HIDE DEF f
<1>2. f \in [1..n -> S]
    BY <1>1
<1>3. f \in Seq(S) /\ Len(f) = n
    BY <1>0, <1>2
<1>4. ASSUME NEW i \in 1..n, NEW j \in 1..n, i < j PROVE f[i] < f[j]
    <2>1. f[j] < f[i] => j < i
        BY <1>1, RankIsIncreasing
    <2>2. f[i] # f[j]
        BY <1>1, <1>4
    <2>3. f[i] \in Int /\ f[j] \in Int /\ i \in Nat /\ j \in Nat
        BY <1>0, <1>1
    <2> QED BY <2>1, <2>2, <2>3, <1>4
<1>5. ASSUME NEW x \in S PROVE \E i \in 1..n : f[i] = x
    <2> DEFINE i == Rank(x, S)
    <2>1. i \in 1..n
        BY RankIsAPlace
    <2>2. f[i] \in S /\ Rank(f[i], S) = i
        BY <1>1, <2>1
    <2>3. ~ (f[i] < x) /\ ~ (x < f[i])
        <3>1. Rank(f[i], S) \in Nat /\ Rank(x, S) \in Nat /\ Rank(f[i], S) = Rank(x, S)
            BY <2>1, <2>2
        <3>2. ~ (Rank(f[i], S) < Rank(x, S)) /\ ~ (Rank(x, S) < Rank(f[i], S))
            BY <3>1
        <3> QED BY <2>2, <3>2, RankIsIncreasing
    <2>4. f[i] = x
        <3>1. f[i] \in Int /\ x \in Int
            BY <1>0, <2>2
        <3> HIDE DEF i
        <3> QED BY <2>3, <3>1
    <2> QED BY <2>1, <2>4
<1>6. Enumerates(f, S)
    BY <1>0, <1>3, <1>4, <1>5 DEF Enumerates
<1> QED BY <1>6 DEF f

\* What joins a set above all its elements leaves their places as they were.
LEMMA JoinedAbove ==
    ASSUME NEW S \in SUBSET Int, IsFiniteSet(S), NEW T \in SUBSET S,
           \A x \in S \ T, y \in T : y < x
    PROVE  /\ Cardinality(T) <= Cardinality(S)
           /\ \A i \in 1..Cardinality(T) : Ascending(S)[i] = Ascending(T)[i]
<1>1. IsFiniteSet(T) /\ T \in SUBSET Int /\ Cardinality(T) <= Cardinality(S)
    BY FS_Subset
<1>2. Cardinality(S) \in Nat /\ Cardinality(T) \in Nat
    BY <1>1, FS_CardinalityType
<1>3. ASSUME NEW x \in T PROVE Rank(x, S) = Rank(x, T)
    <2>1. \A y \in S : y <= x => y \in T
        BY <1>1
    <2>2. {y \in S : y <= x} = {y \in T : y <= x}
        BY <2>1
    <2> QED BY <2>2 DEF Rank
<1>4. ASSUME NEW i \in 1..Cardinality(T) PROVE Ascending(S)[i] = Ascending(T)[i]
    <2> DEFINE x == Ascending(T)[i]
               z == Ascending(S)[i]
    <2>1. i \in 1..Cardinality(S)
        BY <1>1, <1>2
    <2>2. x \in T /\ Rank(x, T) = i
        BY <1>1, EveryPlaceIsTaken DEF Ascending
    <2>3. z \in S /\ Rank(z, S) = i
        BY <2>1, EveryPlaceIsTaken DEF Ascending
    <2> HIDE DEF x, z
    <2>4. Rank(x, S) = i /\ x \in S /\ x \in Int /\ z \in Int
        BY <1>3, <2>2, <2>3
    <2>5. ~ (Rank(x, S) < Rank(z, S)) /\ ~ (Rank(z, S) < Rank(x, S))
        BY <2>3, <2>4
    <2>6. ~ (x < z) /\ ~ (z < x)
        BY <2>3, <2>4, <2>5, RankIsIncreasing
    <2>7. x = z
        BY <2>4, <2>6
    <2> QED BY <2>7 DEF x, z
<1> QED BY <1>1, <1>4

\* A finite set of integers has a least and a greatest element.
LEMMA FiniteHasEnds ==
    ASSUME NEW S \in SUBSET Int, IsFiniteSet(S), S # {}
    PROVE  /\ \E x \in S : \A y \in S : x <= y
           /\ \E x \in S : \A y \in S : x >= y
<1> DEFINE n == Cardinality(S)
           f == Ascending(S)
<1>1. n \in Nat /\ n # 0
    BY FS_CardinalityType, FS_EmptySet
<1>2. /\ f \in Seq(S) /\ Len(f) = n
      /\ \A i, j \in 1..n : i < j => f[i] < f[j]
      /\ \A x \in S : \E i \in 1..n : f[i] = x
    BY AscendingEnumerates DEF Enumerates
<1> HIDE DEF f, n
<1>3. 1 \in 1..n /\ n \in 1..n
    BY <1>1
<1>4. \A i \in 1..n : f[i] \in S /\ f[i] \in Int
    <2>1. \A i \in 1..n : f[i] \in S
        BY <1>2
    <2>2. \A x \in S : x \in Int
        OBVIOUS
    <2> QED BY <2>1, <2>2
<1>5. ASSUME NEW y \in S PROVE f[1] <= y /\ f[n] >= y
    <2>1. PICK i \in 1..n : f[i] = y
        BY <1>2
    <2>2. CASE i = 1 /\ i = n
        BY <2>1, <2>2, <1>4
    <2>3. 1 < i => f[1] < f[i]
        BY <1>2, <1>3
    <2>4. i < n => f[i] < f[n]
        BY <1>2, <1>3
    <2>5. (i = 1 \/ 1 < i) /\ (i = n \/ i < n)
        BY <1>1
    <2> QED BY <2>1, <2>3, <2>4, <2>5, <1>3, <1>4
<1> QED BY <1>3, <1>4, <1>5

\* So has what is bounded below, at its lower end.
LEMMA NaturalsHaveLeast ==
    ASSUME NEW S \in SUBSET Nat, S # {}
    PROVE  \E x \in S : \A y \in S : x <= y
<1>1. PICK n \in S : TRUE
    OBVIOUS
<1> DEFINE B == {y \in S : y <= n}
<1>2. n \in B /\ B \in SUBSET Nat /\ B \in SUBSET Int /\ n \in Nat /\ \A y \in B : y <= n
    <2>1. \A y \in S : y \in Nat /\ y \in Int
        OBVIOUS
    <2>2. n <= n
        BY <2>1
    <2> QED BY <2>1, <2>2
<1>3. \A y \in S \ B : n <= y
    BY <1>2
<1>4. IsFiniteSet(B)
    BY <1>2, FS_BoundedSetOfNaturals
<1>5. B \subseteq S
    OBVIOUS
<1> HIDE DEF B
<1>6. PICK x \in B : \A y \in B : x <= y
    BY <1>2, <1>4, FiniteHasEnds
<1>7. \A y \in S : x <= y
    <2> SUFFICES ASSUME NEW y \in S \ B PROVE x <= y
        BY <1>6
    <2>1. n <= y /\ x <= n /\ x \in Nat /\ y \in Nat
        BY <1>2, <1>3, <1>6
    <2> QED BY <2>1, <1>2
<1> QED BY <1>5, <1>7

\* What can be matched one to one is equally many.
LEMMA MatchedIsAsMany ==
    ASSUME NEW S, IsFiniteSet(S), NEW T, NEW f, \A x \in S : f[x] \in T,
           \A x, y \in S : f[x] = f[y] => x = y,
           \A t \in T : \E x \in S : f[x] = t
    PROVE  IsFiniteSet(T) /\ Cardinality(T) = Cardinality(S)
<1> DEFINE g == [x \in S |-> f[x]]
<1>1. g \in [S -> T] /\ \A x \in S : g[x] = f[x]
    OBVIOUS
<1> HIDE DEF g
<1>2. g \in Bijection(S, T)
    BY <1>1 DEF Bijection, Injection, IsInjective, Surjection
<1> QED BY <1>2, FS_Bijection DEF ExistsBijection

-----------------------------------------------------------------------------
(* Induction over a finite set, of which subset belongs to F. *)

\* A family of subsets that has the empty one, and each that has all it needs of the smaller
\* ones, has the whole set.
LEMMA SubsetInduction ==
    ASSUME NEW S, IsFiniteSet(S), NEW F,
           {} \in F,
           \A T \in SUBSET S : T # {} /\ (\A x \in T : T \ {x} \in F) => T \in F
    PROVE  S \in F
<1> DEFINE Out == {T \in SUBSET S : T \notin F}
           N == {Cardinality(T) : T \in Out}
<1>1. SUFFICES ASSUME S \notin F PROVE FALSE
    OBVIOUS
<1>2. \A T \in SUBSET S : IsFiniteSet(T) /\ Cardinality(T) \in Nat
    BY FS_Subset, FS_CardinalityType
<1>3. N \in SUBSET Nat /\ N # {}
    BY <1>1, <1>2
<1>4. PICK n \in N : \A k \in N : n <= k
    <2> HIDE DEF N
    <2> QED BY <1>3, NaturalsHaveLeast
<1>5. PICK T \in Out : Cardinality(T) = n
    BY <1>4
<1>6. T # {}
    OBVIOUS
<1>7. ASSUME NEW x \in T PROVE T \ {x} \in F
    <2>1. T \ {x} \in SUBSET S /\ IsFiniteSet(T)
        BY <1>2
    <2>2. Cardinality(T \ {x}) = Cardinality(T) - 1 /\ Cardinality(T) \in Nat
        BY <1>2, <2>1, FS_RemoveElement
    <2>3. T \ {x} \in Out => Cardinality(T \ {x}) \in N
        OBVIOUS
    <2>4. Cardinality(T \ {x}) \notin N
        BY <1>4, <1>5, <2>2
    <2> QED BY <2>1, <2>3, <2>4
<1> QED BY <1>5, <1>6, <1>7

-----------------------------------------------------------------------------
(* Sums. *)

\* The sums of f over the subsets of S, element by element.
IsSumOf(g, f, S) ==
    g = [s \in SUBSET S |-> IF s = {} THEN 0 ELSE LET x == CHOOSE x \in s : TRUE IN f[x] + g[s \ {x}]]

\* There is at most one.
LEMMA SumsAreUnique ==
    ASSUME NEW A, NEW B, NEW f, NEW g, NEW h, IsSumOf(g, f, A), IsSumOf(h, f, B),
           NEW s, IsFiniteSet(s), s \subseteq A, s \subseteq B
    PROVE  g[s] = h[s]
<1> DEFINE F == {T \in SUBSET s : g[T] = h[T]}
<1>1. /\ \A T \in SUBSET A : g[T] = IF T = {} THEN 0 ELSE LET x == CHOOSE x \in T : TRUE IN f[x] + g[T \ {x}]
      /\ \A T \in SUBSET B : h[T] = IF T = {} THEN 0 ELSE LET x == CHOOSE x \in T : TRUE IN f[x] + h[T \ {x}]
    BY DEF IsSumOf
<1>2. {} \in F
    BY <1>1
<1>3. ASSUME NEW T \in SUBSET s, T # {}, \A x \in T : T \ {x} \in F PROVE T \in F
    <2> DEFINE c == CHOOSE x \in T : TRUE
    <2>1. c \in T
        BY <1>3
    <2>2. g[T] = f[c] + g[T \ {c}] /\ h[T] = f[c] + h[T \ {c}]
        BY <1>1, <1>3
    <2> QED BY <2>1, <2>2, <1>3
<1>4. s \in F
    <2> HIDE DEF F
    <2> QED BY <1>2, <1>3, SubsetInduction
<1> QED BY <1>4

\* And one there is.
LEMMA SumsExist ==
    ASSUME NEW S, IsFiniteSet(S), NEW f
    PROVE  \E g : IsSumOf(g, f, S)
<1> DEFINE F == {T \in SUBSET S : \E g : IsSumOf(g, f, T)}
           G(T) == CHOOSE g : IsSumOf(g, f, T)
<1>1. {} \in F
    <2> DEFINE g == [s \in SUBSET {} |-> 0]
    <2>1. \A s \in SUBSET {} : s = {} /\ g[s] = 0
        OBVIOUS
    <2>2. IsSumOf(g, f, {})
        BY <2>1 DEF IsSumOf
    <2> QED BY <2>2
<1>2. ASSUME NEW T \in SUBSET S, T # {}, \A x \in T : T \ {x} \in F PROVE T \in F
    <2> DEFINE c == CHOOSE x \in T : TRUE
               out(s) == CHOOSE y \in T : y \notin s
               h == [s \in SUBSET T |-> IF s = T THEN f[c] + G(T \ {c})[T \ {c}] ELSE G(T \ {out(s)})[s]]
    <2>1. c \in T /\ \A s \in SUBSET T : s # T => out(s) \in T /\ out(s) \notin s
        BY <1>2
    <2>2. \A y \in T : IsSumOf(G(T \ {y}), f, T \ {y})
        BY <1>2
    <2> HIDE DEF G, out, c
    <2>3. ASSUME NEW y \in T, NEW z \in T, NEW s \in SUBSET T, y \notin s, z \notin s
          PROVE  G(T \ {y})[s] = G(T \ {z})[s]
        <3>1. s \subseteq T \ {y} /\ s \subseteq T \ {z} /\ IsFiniteSet(s)
            BY <2>3, FS_Subset
        <3> QED BY <2>2, <3>1, SumsAreUnique
    <2>4. \A s \in SUBSET T : s # T => \A y \in T : y \notin s => h[s] = G(T \ {y})[s]
        BY <2>1, <2>3
    <2>5. h[T] = f[c] + h[T \ {c}]
        BY <2>1, <2>4
    <2>8. ASSUME NEW s \in SUBSET T
          PROVE  h[s] = IF s = {} THEN 0 ELSE LET x == CHOOSE x \in s : TRUE IN f[x] + h[s \ {x}]
        <3> DEFINE x == CHOOSE x \in s : TRUE
        <3>1. CASE s = T
            BY <2>5, <3>1, <1>2 DEF c
        <3>2. CASE s # T
            <4>1. PICK y \in T : y \notin s
                BY <3>2
            <4>2. h[s] = G(T \ {y})[s] /\ s \in SUBSET (T \ {y})
                BY <2>4, <3>2, <4>1
            <4>3. G(T \ {y})[s] = IF s = {} THEN 0 ELSE f[x] + G(T \ {y})[s \ {x}]
                BY <2>2, <4>1, <4>2 DEF IsSumOf
            <4>4. h[s \ {x}] = G(T \ {y})[s \ {x}]
                BY <2>4, <4>1, <3>2
            <4> QED BY <4>2, <4>3, <4>4
        <3> QED BY <3>1, <3>2
    <2>9. h = [s \in SUBSET T |-> h[s]]
        OBVIOUS
    <2> HIDE DEF h
    <2>11. IsSumOf(h, f, T)
        BY <2>8, <2>9 DEF IsSumOf
    <2> QED BY <2>11
<1> HIDE DEF F
<1>3. S \in F
    BY <1>1, <1>2, SubsetInduction
<1> QED BY <1>3 DEF F

\* SumFunctionOnSet is the last of them.
LEMMA SumIsOfSums ==
    ASSUME NEW S, IsFiniteSet(S), NEW f, NEW g, IsSumOf(g, f, S)
    PROVE  SumFunctionOnSet(f, S) = g[S]
<1> DEFINE B(h) == [s \in SUBSET S |-> IF s = {} THEN 0 ELSE LET x == CHOOSE x \in s : TRUE IN f[x] + h[s \ {x}]]
           h0 == CHOOSE h : h = B(h)
<1>1. SumFunctionOnSet(f, S) = h0[S]
    BY DEF SumFunctionOnSet, FoldFunctionOnSet, MapThenFoldSet
<1>2. g = B(g)
    BY DEF IsSumOf
<1> HIDE DEF B
<1>3. h0 = B(h0)
    BY <1>2
<1> HIDE DEF h0
<1>4. IsSumOf(h0, f, S)
    BY <1>3 DEF B, IsSumOf
<1> QED BY <1>1, <1>4, SumsAreUnique

\* The sum over nothing is nothing, over more it is that of any one and of the rest, and it is an integer.
LEMMA SumStep ==
    ASSUME NEW S, IsFiniteSet(S), NEW f, \A x \in S : f[x] \in Int
    PROVE  /\ SumFunctionOnSet(f, S) \in Int
           /\ S = {} => SumFunctionOnSet(f, S) = 0
           /\ \A x \in S : SumFunctionOnSet(f, S) = f[x] + SumFunctionOnSet(f, S \ {x})
<1>1. PICK g : IsSumOf(g, f, S)
    BY SumsExist
<1> DEFINE F == {T \in SUBSET S : \A x \in T : g[T] = f[x] + g[T \ {x}]}
<1>2. \A T \in SUBSET S : SumFunctionOnSet(f, T) = g[T]
    <2> SUFFICES ASSUME NEW T \in SUBSET S PROVE SumFunctionOnSet(f, T) = g[T]
        OBVIOUS
    <2>1. IsFiniteSet(T)
        BY FS_Subset
    <2>2. PICK h : IsSumOf(h, f, T)
        BY <2>1, SumsExist
    <2>3. SumFunctionOnSet(f, T) = h[T]
        BY <2>1, <2>2, SumIsOfSums
    <2>4. h[T] = g[T]
        BY <1>1, <2>1, <2>2, SumsAreUnique
    <2> QED BY <2>3, <2>4
<1>3. \A T \in SUBSET S : g[T] = IF T = {} THEN 0 ELSE LET x == CHOOSE x \in T : TRUE IN f[x] + g[T \ {x}]
    BY <1>1 DEF IsSumOf
<1>4. \A T \in SUBSET S : g[T] \in Int
    <2> SUFFICES ASSUME NEW U \in SUBSET S PROVE g[U] \in Int
        OBVIOUS
    <2> DEFINE I == {T \in SUBSET U : g[T] \in Int}
    <2>1. {} \in I
        <3>1. {} \in SUBSET S /\ g[{}] = 0
            BY <1>3
        <3> QED BY <3>1
    <2>2. ASSUME NEW T \in SUBSET U, T # {}, \A x \in T : T \ {x} \in I PROVE T \in I
        <3> DEFINE c == CHOOSE x \in T : TRUE
        <3>1. c \in T /\ T \in SUBSET S
            BY <2>2
        <3>2. g[T] = f[c] + g[T \ {c}]
            BY <1>3, <2>2, <3>1
        <3> HIDE DEF c
        <3>3. f[c] \in Int /\ g[T \ {c}] \in Int
            BY <3>1, <2>2
        <3>4. g[T] \in Int
            BY <3>2, <3>3
        <3> QED BY <3>4
    <2>3. IsFiniteSet(U)
        BY FS_Subset
    <2>4. U \in I
        <3> HIDE DEF I
        <3> QED BY <2>1, <2>2, <2>3, SubsetInduction
    <2> QED BY <2>4
<1>5. {} \in F
    OBVIOUS
<1>6. ASSUME NEW T \in SUBSET S, T # {}, \A x \in T : T \ {x} \in F PROVE T \in F
    <2> DEFINE c == CHOOSE x \in T : TRUE
    <2>1. c \in T /\ g[T] = f[c] + g[T \ {c}]
        BY <1>3, <1>6
    <2> HIDE DEF c
    <2>2. ASSUME NEW x \in T, x # c PROVE g[T] = f[x] + g[T \ {x}]
        <3>1. g[T \ {c}] = f[x] + g[(T \ {c}) \ {x}]
            BY <2>1, <2>2, <1>6
        <3>2. g[T \ {x}] = f[c] + g[(T \ {x}) \ {c}]
            BY <2>1, <2>2, <1>6
        <3>3. g[(T \ {c}) \ {x}] = g[(T \ {x}) \ {c}]
            <4>1. (T \ {c}) \ {x} = (T \ {x}) \ {c}
                OBVIOUS
            <4> QED BY <4>1
        <3>4. g[(T \ {x}) \ {c}] \in Int /\ f[c] \in Int /\ f[x] \in Int
            BY <1>4, <2>1
        <3>5. \A a, b, d, e, p, q \in Int : a = p + b /\ b = q + d /\ e = p + d => a = q + e
            OBVIOUS
        <3>6. g[T] \in Int /\ g[T \ {c}] \in Int /\ g[T \ {x}] \in Int
            BY <1>4
        <3> QED BY <2>1, <3>1, <3>2, <3>3, <3>4, <3>5, <3>6
    <2>3. \A x \in T : g[T] = f[x] + g[T \ {x}]
        BY <2>1, <2>2
    <2> QED BY <2>3
<1>7. S \in F
    <2> HIDE DEF F
    <2> QED BY <1>5, <1>6, SubsetInduction
<1>8. S \in SUBSET S /\ \A x \in S : S \ {x} \in SUBSET S
    OBVIOUS
<1> QED BY <1>2, <1>3, <1>4, <1>7, <1>8

\* Where no addend is greater, neither is the sum.
LEMMA SumsCompare ==
    ASSUME NEW S, IsFiniteSet(S), NEW f, NEW g,
           \A x \in S : f[x] \in Int /\ g[x] \in Int /\ f[x] <= g[x]
    PROVE  SumFunctionOnSet(f, S) <= SumFunctionOnSet(g, S)
<1> DEFINE F == {T \in SUBSET S : SumFunctionOnSet(f, T) <= SumFunctionOnSet(g, T)}
<1>1. \A T \in SUBSET S : IsFiniteSet(T)
    BY FS_Subset
<1>2. {} \in F
    <2>1. SumFunctionOnSet(f, {}) = 0 /\ SumFunctionOnSet(g, {}) = 0
        BY <1>1, SumStep
    <2> QED BY <2>1
<1>3. ASSUME NEW T \in SUBSET S, T # {}, \A x \in T : T \ {x} \in F PROVE T \in F
    <2>1. PICK x \in T : TRUE
        BY <1>3
    <2>2. IsFiniteSet(T) /\ IsFiniteSet(T \ {x}) /\ \A y \in T : f[y] \in Int /\ g[y] \in Int
        BY <1>1
    <2>3. /\ SumFunctionOnSet(f, T) = f[x] + SumFunctionOnSet(f, T \ {x})
          /\ SumFunctionOnSet(g, T) = g[x] + SumFunctionOnSet(g, T \ {x})
          /\ SumFunctionOnSet(f, T \ {x}) \in Int /\ SumFunctionOnSet(g, T \ {x}) \in Int
        BY <2>2, SumStep
    <2>4. SumFunctionOnSet(f, T \ {x}) <= SumFunctionOnSet(g, T \ {x}) /\ f[x] <= g[x]
        BY <1>3
    <2>5. SumFunctionOnSet(f, T) <= SumFunctionOnSet(g, T)
        BY <2>2, <2>3, <2>4
    <2> QED BY <2>5
<1>4. S \in F
    <2> HIDE DEF F
    <2> QED BY <1>2, <1>3, SubsetInduction
<1> QED BY <1>4

\* Where the addends are the same, so is the sum.
LEMMA SumsAgree ==
    ASSUME NEW S, IsFiniteSet(S), NEW f, NEW g,
           \A x \in S : f[x] \in Int /\ f[x] = g[x]
    PROVE  SumFunctionOnSet(f, S) = SumFunctionOnSet(g, S)
<1>1. /\ SumFunctionOnSet(f, S) <= SumFunctionOnSet(g, S)
      /\ SumFunctionOnSet(g, S) <= SumFunctionOnSet(f, S)
    <2>1. \A x \in S : f[x] \in Int /\ g[x] \in Int /\ f[x] <= g[x] /\ g[x] <= f[x]
        OBVIOUS
    <2> QED BY <2>1, SumsCompare
<1>2. SumFunctionOnSet(f, S) \in Int /\ SumFunctionOnSet(g, S) \in Int
    BY SumStep
<1> QED BY <1>1, <1>2

\* A sum may be taken of one part and then of the other.
LEMMA SumOfParts ==
    ASSUME NEW A, NEW B, IsFiniteSet(A), IsFiniteSet(B), A \cap B = {}, NEW f,
           \A x \in A \cup B : f[x] \in Int
    PROVE  SumFunctionOnSet(f, A \cup B) = SumFunctionOnSet(f, A) + SumFunctionOnSet(f, B)
<1> DEFINE F == {T \in SUBSET B : SumFunctionOnSet(f, A \cup T) = SumFunctionOnSet(f, A) + SumFunctionOnSet(f, T)}
<1>1. \A T \in SUBSET B : IsFiniteSet(T) /\ IsFiniteSet(A \cup T)
    BY FS_Subset, FS_Union
<1>2. {} \in F
    <2>1. SumFunctionOnSet(f, {}) = 0 /\ A \cup {} = A /\ SumFunctionOnSet(f, A) \in Int
        BY <1>1, SumStep
    <2> QED BY <2>1
<1>3. ASSUME NEW T \in SUBSET B, T # {}, \A x \in T : T \ {x} \in F PROVE T \in F
    <2>1. PICK x \in T : TRUE
        BY <1>3
    <2>2. /\ IsFiniteSet(T) /\ IsFiniteSet(T \ {x}) /\ IsFiniteSet(A \cup T) /\ IsFiniteSet(A \cup (T \ {x}))
          /\ \A y \in A \cup T : f[y] \in Int
          /\ x \in A \cup T /\ (A \cup T) \ {x} = A \cup (T \ {x})
        BY <1>1
    <2>3. /\ SumFunctionOnSet(f, T) = f[x] + SumFunctionOnSet(f, T \ {x})
          /\ SumFunctionOnSet(f, T \ {x}) \in Int /\ SumFunctionOnSet(f, A) \in Int
        BY <2>2, SumStep
    <2>4. SumFunctionOnSet(f, A \cup T) = f[x] + SumFunctionOnSet(f, (A \cup T) \ {x})
        BY <2>2, SumStep
    <2>5. SumFunctionOnSet(f, (A \cup T) \ {x}) = SumFunctionOnSet(f, A) + SumFunctionOnSet(f, T \ {x})
        BY <1>3, <2>2
    <2>6. SumFunctionOnSet(f, A \cup T) = SumFunctionOnSet(f, A) + SumFunctionOnSet(f, T)
        BY <2>2, <2>3, <2>4, <2>5
    <2> QED BY <2>6
<1>4. B \in F
    <2> HIDE DEF F
    <2> QED BY <1>2, <1>3, SubsetInduction
<1> QED BY <1>4

\* A sum of the same addends is their number of them.
LEMMA SumOfConstant ==
    ASSUME NEW S, IsFiniteSet(S), NEW f, NEW c \in Int, \A x \in S : f[x] = c
    PROVE  SumFunctionOnSet(f, S) = c * Cardinality(S)
<1> DEFINE F == {T \in SUBSET S : SumFunctionOnSet(f, T) = c * Cardinality(T)}
<1>1. \A T \in SUBSET S : IsFiniteSet(T) /\ Cardinality(T) \in Nat
    BY FS_Subset, FS_CardinalityType
<1>2. {} \in F
    <2>1. SumFunctionOnSet(f, {}) = 0 /\ Cardinality({}) = 0
        BY <1>1, SumStep, FS_EmptySet
    <2> QED BY <2>1
<1>3. ASSUME NEW T \in SUBSET S, T # {}, \A x \in T : T \ {x} \in F PROVE T \in F
    <2>1. PICK x \in T : TRUE
        BY <1>3
    <2>2. IsFiniteSet(T) /\ IsFiniteSet(T \ {x}) /\ f[x] = c /\ \A y \in T : f[y] \in Int
        BY <1>1
    <2>3. SumFunctionOnSet(f, T) = c + SumFunctionOnSet(f, T \ {x})
        BY <2>2, SumStep
    <2>4. PICK n \in Nat : n = Cardinality(T \ {x}) /\ Cardinality(T) = n + 1
        <3>1. Cardinality(T \ {x}) = Cardinality(T) - 1 /\ Cardinality(T \ {x}) \in Nat /\ Cardinality(T) \in Nat
            BY <2>2, <1>1, FS_RemoveElement
        <3> QED BY <3>1
    <2>5. SumFunctionOnSet(f, T \ {x}) = c * n
        BY <1>3, <2>4
    <2>6. c * (n + 1) = c + c * n
        OBVIOUS
    <2>7. SumFunctionOnSet(f, T) = c * Cardinality(T)
        BY <2>3, <2>4, <2>5, <2>6
    <2> QED BY <2>7
<1>4. S \in F
    <2> HIDE DEF F
    <2> QED BY <1>2, <1>3, SubsetInduction
<1> QED BY <1>4

\* A sum is not less than that of a part, where nothing negative is added.
LEMMA SumOfSome ==
    ASSUME NEW S, IsFiniteSet(S), NEW T \in SUBSET S, NEW f, \A x \in S : f[x] \in Int,
           \A x \in S \ T : f[x] >= 0
    PROVE  /\ SumFunctionOnSet(f, T) <= SumFunctionOnSet(f, S)
           /\ (\A x \in S \ T : f[x] = 0) => SumFunctionOnSet(f, T) = SumFunctionOnSet(f, S)
<1> DEFINE U == S \ T
           z == [x \in U |-> 0]
<1>1. IsFiniteSet(T) /\ IsFiniteSet(U) /\ T \cap U = {} /\ S = T \cup U
    BY FS_Subset
<1>2. SumFunctionOnSet(f, S) = SumFunctionOnSet(f, T) + SumFunctionOnSet(f, U)
    BY <1>1, SumOfParts
<1>3. /\ SumFunctionOnSet(f, S) \in Int /\ SumFunctionOnSet(f, T) \in Int
      /\ SumFunctionOnSet(f, U) \in Int
    BY <1>1, SumStep
<1>4. SumFunctionOnSet(z, U) = 0
    <2>1. SumFunctionOnSet(z, U) = 0 * Cardinality(U)
        BY <1>1, SumOfConstant
    <2> QED BY <2>1, <1>1, FS_CardinalityType
<1>5. SumFunctionOnSet(z, U) <= SumFunctionOnSet(f, U)
    <2>1. \A x \in U : z[x] \in Int /\ f[x] \in Int /\ z[x] <= f[x]
        OBVIOUS
    <2> HIDE DEF z, U
    <2> QED BY <1>1, <2>1, SumsCompare
<1>6. ASSUME \A x \in U : f[x] = 0 PROVE SumFunctionOnSet(f, U) = 0
    <2>1. SumFunctionOnSet(f, U) = 0 * Cardinality(U)
        BY <1>1, <1>6, SumOfConstant
    <2> QED BY <2>1, <1>1, FS_CardinalityType
<1> HIDE DEF z
<1> QED BY <1>2, <1>3, <1>4, <1>5, <1>6

\* Counting the elements part by part counts them all.
LEMMA CountByParts ==
    ASSUME NEW S, IsFiniteSet(S), NEW K, IsFiniteSet(K), NEW part,
           \A k \in K : part[k] \subseteq S,
           \A x \in S : \E k \in K : x \in part[k],
           \A j, k \in K : j # k => part[j] \cap part[k] = {},
           NEW f, \A k \in K : f[k] = Cardinality(part[k])
    PROVE  SumFunctionOnSet(f, K) = Cardinality(S)
<1> DEFINE In(L) == UNION {part[k] : k \in L}
           F == {L \in SUBSET K : SumFunctionOnSet(f, L) = Cardinality(In(L))}
<1>1. \A L \in SUBSET K : IsFiniteSet(L) /\ IsFiniteSet(In(L))
    <2> SUFFICES ASSUME NEW L \in SUBSET K PROVE IsFiniteSet(L) /\ IsFiniteSet(In(L))
        OBVIOUS
    <2>1. In(L) \in SUBSET S
        OBVIOUS
    <2> HIDE DEF In
    <2> QED BY <2>1, FS_Subset
<1>2. \A k \in K : IsFiniteSet(part[k]) /\ f[k] \in Int
    <2>1. \A k \in K : IsFiniteSet(part[k])
        BY FS_Subset
    <2>2. \A k \in K : f[k] \in Nat
        BY <2>1, FS_CardinalityType
    <2> QED BY <2>1, <2>2
<1>3. {} \in F
    <2>1. In({}) = {}
        OBVIOUS
    <2>2. SumFunctionOnSet(f, {}) = 0 /\ Cardinality({}) = 0
        BY <1>1, SumStep, FS_EmptySet
    <2> QED BY <2>1, <2>2
<1>4. ASSUME NEW L \in SUBSET K, L # {}, \A k \in L : L \ {k} \in F PROVE L \in F
    <2>1. PICK k \in L : TRUE
        BY <1>4
    <2> DEFINE A == part[k]
               B == In(L \ {k})
    <2>2. IsFiniteSet(A) /\ IsFiniteSet(B)
        BY <1>1, <1>2
    <2>3. In(L) = A \cup B /\ A \cap B = {}
        OBVIOUS
    <2>4. IsFiniteSet(L) /\ \A j \in L : f[j] \in Int
        <3> HIDE DEF A, B, In
        <3> QED BY <1>1, <1>2
    <2>5. SumFunctionOnSet(f, L) = f[k] + SumFunctionOnSet(f, L \ {k})
        BY <2>4, SumStep
    <2>6. f[k] = Cardinality(A) /\ SumFunctionOnSet(f, L \ {k}) = Cardinality(B)
        BY <1>4
    <2> HIDE DEF A, B, In
    <2>7. Cardinality(A \cup B) = Cardinality(A) + Cardinality(B)
        <3>1. Cardinality(A \cup B) = Cardinality(A) + Cardinality(B) - Cardinality(A \cap B)
            BY <2>2, FS_Union
        <3>2. Cardinality(A \cap B) = 0
            BY <2>3, FS_EmptySet
        <3> QED BY <3>1, <3>2, <2>2, FS_CardinalityType
    <2>8. SumFunctionOnSet(f, L) = Cardinality(In(L))
        BY <2>3, <2>5, <2>6, <2>7
    <2> QED BY <2>8 DEF F
<1>5. K \in F
    <2> HIDE DEF F, In
    <2> QED BY <1>3, <1>4, SubsetInduction
<1>6. In(K) = S
    OBVIOUS
<1> QED BY <1>5, <1>6

\* A factor of all addends is one of the sum.
LEMMA SumScaled ==
    ASSUME NEW S, IsFiniteSet(S), NEW f, NEW g, NEW c \in Int,
           \A x \in S : f[x] \in Int /\ g[x] = c * f[x]
    PROVE  SumFunctionOnSet(g, S) = c * SumFunctionOnSet(f, S)
<1> DEFINE F == {T \in SUBSET S : SumFunctionOnSet(g, T) = c * SumFunctionOnSet(f, T)}
<1>1. \A T \in SUBSET S : IsFiniteSet(T)
    BY FS_Subset
<1>2. \A x \in S : g[x] \in Int
    OBVIOUS
<1>3. {} \in F
    <2>1. SumFunctionOnSet(f, {}) = 0 /\ SumFunctionOnSet(g, {}) = 0
        BY <1>1, SumStep
    <2> QED BY <2>1
<1>4. ASSUME NEW T \in SUBSET S, T # {}, \A x \in T : T \ {x} \in F PROVE T \in F
    <2>1. PICK x \in T : TRUE
        BY <1>4
    <2>2. IsFiniteSet(T) /\ IsFiniteSet(T \ {x}) /\ \A y \in T : f[y] \in Int /\ g[y] \in Int
        BY <1>1, <1>2
    <2>3. /\ SumFunctionOnSet(f, T) = f[x] + SumFunctionOnSet(f, T \ {x})
          /\ SumFunctionOnSet(g, T) = g[x] + SumFunctionOnSet(g, T \ {x})
          /\ SumFunctionOnSet(f, T \ {x}) \in Int
        BY <2>2, SumStep
    <2>4. SumFunctionOnSet(g, T \ {x}) = c * SumFunctionOnSet(f, T \ {x})
        BY <1>4
    <2>5. PICK a, b \in Int : a = f[x] /\ b = SumFunctionOnSet(f, T \ {x})
        BY <2>2, <2>3
    <2>6. c * (a + b) = c * a + c * b
        OBVIOUS
    <2>7. SumFunctionOnSet(g, T) = c * SumFunctionOnSet(f, T)
        <3>1. g[x] = c * a
            BY <2>5
        <3>2. SumFunctionOnSet(g, T) = c * a + c * b /\ SumFunctionOnSet(f, T) = a + b
            BY <3>1, <2>3, <2>4, <2>5
        <3> QED BY <3>2, <2>6
    <2> QED BY <2>7
<1>5. S \in F
    <2> HIDE DEF F
    <2> QED BY <1>3, <1>4, SubsetInduction
<1> QED BY <1>5

\* A sum of sums may be taken in the other order: addend by addend.
LEMMA SumOfSums ==
    ASSUME NEW S, IsFiniteSet(S), NEW f, NEW g, NEW h,
           \A x \in S : f[x] \in Int /\ g[x] \in Int /\ h[x] = f[x] + g[x]
    PROVE  SumFunctionOnSet(h, S) = SumFunctionOnSet(f, S) + SumFunctionOnSet(g, S)
<1> DEFINE F == {T \in SUBSET S : SumFunctionOnSet(h, T) = SumFunctionOnSet(f, T) + SumFunctionOnSet(g, T)}
<1>1. \A T \in SUBSET S : IsFiniteSet(T)
    BY FS_Subset
<1>2. \A x \in S : h[x] \in Int
    OBVIOUS
<1>3. {} \in F
    <2>1. SumFunctionOnSet(f, {}) = 0 /\ SumFunctionOnSet(g, {}) = 0 /\ SumFunctionOnSet(h, {}) = 0
        BY <1>1, SumStep
    <2> QED BY <2>1
<1>4. ASSUME NEW T \in SUBSET S, T # {}, \A x \in T : T \ {x} \in F PROVE T \in F
    <2>1. PICK x \in T : TRUE
        BY <1>4
    <2>2. IsFiniteSet(T) /\ IsFiniteSet(T \ {x}) /\ \A y \in T : f[y] \in Int /\ g[y] \in Int /\ h[y] \in Int
        BY <1>1, <1>2
    <2>3. /\ SumFunctionOnSet(f, T) = f[x] + SumFunctionOnSet(f, T \ {x})
          /\ SumFunctionOnSet(g, T) = g[x] + SumFunctionOnSet(g, T \ {x})
          /\ SumFunctionOnSet(h, T) = h[x] + SumFunctionOnSet(h, T \ {x})
          /\ SumFunctionOnSet(f, T \ {x}) \in Int /\ SumFunctionOnSet(g, T \ {x}) \in Int
        BY <2>2, SumStep
    <2>4. SumFunctionOnSet(h, T \ {x}) = SumFunctionOnSet(f, T \ {x}) + SumFunctionOnSet(g, T \ {x})
        BY <1>4
    <2>5. h[x] = f[x] + g[x]
        OBVIOUS
    <2>6. SumFunctionOnSet(h, T) = SumFunctionOnSet(f, T) + SumFunctionOnSet(g, T)
        BY <2>2, <2>3, <2>4, <2>5
    <2> QED BY <2>6
<1>5. S \in F
    <2> HIDE DEF F
    <2> QED BY <1>3, <1>4, SubsetInduction
<1> QED BY <1>5

\* The quotient of a division that rounds down.
LEMMA QuotientIs ==
  ASSUME NEW x \in Int, NEW c \in Nat \ {0}
  PROVE  x \div c \in Int /\ c * (x \div c) <= x /\ x < c * (x \div c) + c
OBVIOUS

\* Of two numbers the greater has the greater one.
LEMMA QuotientsCompare ==
  ASSUME NEW x \in Int, NEW y \in Int, NEW c \in Nat \ {0}, x <= y
  PROVE  x \div c <= y \div c
OBVIOUS

\* What grows from each place to the next grows from any to any later one.
LEMMA GrowsFromPlaceToPlace ==
  ASSUME NEW n \in Nat, NEW f, \A i \in 1..n : f[i] \in Int,
         \A i \in 1..n : i < n => f[i] < f[i + 1]
  PROVE  \A i, j \in 1..n : i < j => f[i] < f[j]
<1> SUFFICES ASSUME NEW i \in 1..n PROVE \A j \in 1..n : i < j => f[i] < f[j]
  OBVIOUS
<1> DEFINE bad == {j \in 1..n : i < j /\ ~(f[i] < f[j])}
<1>1. SUFFICES ASSUME bad # {} PROVE FALSE
  OBVIOUS
<1>2. PICK j \in bad : \A k \in bad : j <= k
  <2>1. bad \in SUBSET Nat
    OBVIOUS
  <2> HIDE DEF bad
  <2> QED BY <1>1, <2>1, NaturalsHaveLeast
<1>3. j \in 1..n /\ i < j /\ ~(f[i] < f[j]) /\ j - 1 \in 1..n /\ j - 1 < n /\ j - 1 + 1 = j
  BY <1>2
<1>4. f[j - 1] < f[j]
  BY <1>3
<1>5. j - 1 \notin bad
  BY <1>2, <1>3
<1>6. i = j - 1 \/ f[i] < f[j - 1]
  BY <1>3, <1>5
<1> QED BY <1>3, <1>4, <1>6

\* What holds of the first place, and of each place if of the one before it, holds of all.
LEMMA PlaceInduction ==
    ASSUME NEW n \in Nat, NEW P, 0 \in P, \A k \in 1..n : k - 1 \in P => k \in P
    PROVE  \A k \in 0..n : k \in P
<1> SUFFICES ASSUME {k \in 0..n : k \notin P} # {} PROVE FALSE
    OBVIOUS
<1> DEFINE bad == {k \in 0..n : k \notin P}
<1>1. PICK k \in bad : \A j \in bad : k <= j
    <2>1. bad \in SUBSET Nat
        OBVIOUS
    <2> HIDE DEF bad
    <2> QED BY <2>1, NaturalsHaveLeast DEF bad
<1>2. k \in 1..n /\ k \notin P /\ k - 1 \in 0..n
    <2>1. k # 0
        BY <1>1
    <2> QED BY <1>1, <2>1
<1>3. k - 1 \in P
    <2>1. k - 1 \notin bad
        BY <1>1, <1>2
    <2> QED BY <1>2, <2>1
<1> QED BY <1>2, <1>3

\* A step that can be taken from place to place, and where it leads.
CanStep(step, V, n) == \A v \in V, k \in 1..n : step[<<v, k>>] \in V
StepsThrough(f, first, step, V, n) ==
    /\ f \in [0..n -> V] /\ f[0] = first
    /\ \A k \in 1..n : f[k] = step[<<f[k - 1], k>>]

\* It leads somewhere at each of them.
LEMMA Iterates ==
    ASSUME NEW n \in Nat, NEW V, NEW first \in V, NEW step, CanStep(step, V, n)
    PROVE  \E f : StepsThrough(f, first, step, V, n)
<1> DEFINE Leads(f, m) == f[0] = first /\ \A k \in 1..m : f[k] = step[<<f[k - 1], k>>]
           P == {m \in 0..n : \E f \in [0..m -> V] : Leads(f, m)}
<1>0. \A v \in V, k \in 1..n : step[<<v, k>>] \in V
    BY DEF CanStep
<1>1. 0 \in P
    <2> DEFINE f == [k \in 0..0 |-> first]
    <2>1. f \in [0..0 -> V] /\ Leads(f, 0)
        OBVIOUS
    <2>2. 0 \in 0..n
        OBVIOUS
    <2> HIDE DEF f, Leads
    <2> QED BY <2>1, <2>2
<1>2. ASSUME NEW m \in 1..n, m - 1 \in P PROVE m \in P
    <2>1. PICK f \in [0..(m - 1) -> V] : Leads(f, m - 1)
        BY <1>2
    <2> DEFINE g == [k \in 0..m |-> IF k = m THEN step[<<f[m - 1], m>>] ELSE f[k]]
    <2>2. f[m - 1] \in V /\ m \in Int /\ step[<<f[m - 1], m>>] \in V
        BY <1>0
    <2>3. g \in [0..m -> V]
        <3>1. \A k \in 0..m : k = m \/ k \in 0..(m - 1)
            OBVIOUS
        <3> QED BY <2>2, <3>1
    <2>4. g[0] = first
        BY <2>1
    <2>5. ASSUME NEW k \in 1..m PROVE g[k] = step[<<g[k - 1], k>>]
        <3>1. k - 1 \in 0..m /\ k - 1 # m /\ k \in 0..m /\ g[k - 1] = f[k - 1]
            OBVIOUS
        <3>2. CASE k = m
            BY <3>1, <3>2
        <3>3. CASE k # m
            <4>1. k \in 1..(m - 1) /\ g[k] = f[k]
                BY <3>3
            <4> QED BY <2>1, <3>1, <4>1
        <3> QED BY <3>2, <3>3
    <2> HIDE DEF g
    <2> QED BY <2>3, <2>4, <2>5
<1>3. n \in P
    <2> HIDE DEF P
    <2>1. \A k \in 0..n : k \in P
        BY <1>1, <1>2, PlaceInduction
    <2> QED BY <2>1
<1> QED BY <1>3 DEF StepsThrough

\* The numbers of some places are the numbers of what stands there.
LEMMA SumReindexed ==
    ASSUME NEW A, IsFiniteSet(A), NEW g, \A x, y \in A : g[x] = g[y] => x = y,
           NEW f, \A x \in A : f[g[x]] \in Int, NEW h, \A x \in A : h[x] = f[g[x]]
    PROVE  SumFunctionOnSet(h, A) = SumFunctionOnSet(f, {g[x] : x \in A})
<1> DEFINE At(T) == {g[x] : x \in T}
           F == {T \in SUBSET A : SumFunctionOnSet(h, T) = SumFunctionOnSet(f, At(T))}
<1>1. \A T \in SUBSET A : IsFiniteSet(T) /\ IsFiniteSet(At(T))
    <2> SUFFICES ASSUME NEW T \in SUBSET A PROVE IsFiniteSet(T) /\ IsFiniteSet(At(T))
        OBVIOUS
    <2>1. IsFiniteSet(T)
        BY FS_Subset
    <2> DEFINE s == [x \in T |-> g[x]]
    <2>2. s \in Surjection(T, At(T))
        BY DEF Surjection
    <2> HIDE DEF s, At
    <2> QED BY <2>1, <2>2, FS_Surjection
<1>2. {} \in F
    <2>1. At({}) = {}
        OBVIOUS
    <2>2. SumFunctionOnSet(h, {}) = 0 /\ SumFunctionOnSet(f, {}) = 0
        BY SumStep, FS_EmptySet
    <2> QED BY <2>1, <2>2
<1>3. ASSUME NEW T \in SUBSET A, T # {}, \A x \in T : T \ {x} \in F PROVE T \in F
    <2>1. PICK x \in T : TRUE
        BY <1>3
    <2>2. IsFiniteSet(T) /\ IsFiniteSet(At(T)) /\ \A y \in T : h[y] \in Int
        BY <1>1
    <2>3. \A v \in At(T) : f[v] \in Int
        OBVIOUS
    <2>4. At(T) \ {g[x]} = At(T \ {x}) /\ g[x] \in At(T)
        OBVIOUS
    <2> HIDE DEF At
    <2>5. SumFunctionOnSet(h, T) = h[x] + SumFunctionOnSet(h, T \ {x})
        BY <2>2, SumStep
    <2>6. SumFunctionOnSet(f, At(T)) = f[g[x]] + SumFunctionOnSet(f, At(T) \ {g[x]})
        BY <2>2, <2>3, <2>4, SumStep
    <2>7. SumFunctionOnSet(h, T \ {x}) = SumFunctionOnSet(f, At(T \ {x}))
        BY <1>3
    <2>8. SumFunctionOnSet(h, T) = SumFunctionOnSet(f, At(T))
        BY <2>4, <2>5, <2>6, <2>7
    <2> QED BY <2>8
<1>4. A \in F
    <2> HIDE DEF F
    <2> QED BY <1>2, <1>3, SubsetInduction
<1> QED BY <1>4
=============================================================================
