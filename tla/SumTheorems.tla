------------------------------ MODULE SumTheorems ------------------------------
(***************************************************************************)
(* Induction without operator parameters, and what SumFunctionOnSet adds   *)
(* up to: the facts on which the theorems about units and memory rest.     *)
(***************************************************************************)
EXTENDS Integers, FiniteSetsExt, FiniteSetTheorems, TLAPS

-------------------------------------------------------------------------------
(***************************************************************************)
(* Induction.                                                              *)
(***************************************************************************)

\* A non-empty set of natural numbers has a smallest element.
LEMMA LeastElement ==
    ASSUME NEW I \in SUBSET Nat, I # {}
    PROVE  \E m \in I : \A k \in I : m <= k
  <1>1. PICK x \in I : \A y \in I : ~(<<y, x>> \in OpToRel(<, Nat))
    BY NatLessThanWellFounded, WFMin
  <1>2. PICK R : R = OpToRel(<, Nat)
    OBVIOUS
  <1>3. R = {p \in Nat \X Nat : p[1] < p[2]}
    BY <1>2, Zenon DEF OpToRel
  <1>4. \A y \in I : ~(<<y, x>> \in R)
    BY <1>1, <1>2, Zenon
  <1>5. ASSUME NEW y \in I PROVE x <= y
    <2>1. x \in Nat /\ y \in Nat
      OBVIOUS
    <2>2. y < x => <<y, x>> \in {p \in Nat \X Nat : p[1] < p[2]}
      BY <2>1
    <2>3. ~(y < x)
      BY <1>3, <1>4, <2>2, Zenon
    <2> QED BY <2>1, <2>3
  <1> QED BY <1>5

\* Induction, the statement to be proved given as the set of its instances.
LEMMA SetInduction ==
    ASSUME NEW P \in SUBSET Nat, 0 \in P, \A n \in Nat : n \in P => n + 1 \in P
    PROVE  \A n \in Nat : n \in P
  <1> SUFFICES ASSUME NEW k \in Nat, k \notin P PROVE FALSE
    OBVIOUS
  <1>1. Nat \ P \in SUBSET Nat /\ Nat \ P # {}
    OBVIOUS
  <1>2. PICK x \in Nat \ P : \A y \in Nat \ P : x <= y
    BY <1>1, LeastElement
  <1>3. x # 0 /\ x - 1 \in Nat
    BY <1>2
  <1>4. x - 1 \in P
    BY <1>2, <1>3
  <1> QED BY <1>2, <1>3, <1>4

\* Of the places 1..n in a set, one is the first of those with the largest value:
\* what the loops that look for the best server or cell find.
LEMMA FirstBest ==
    ASSUME NEW n \in Nat, NEW f, NEW S \in SUBSET (1..n), S # {}, \A x \in S : f[x] \in Int
    PROVE  \E c \in S : \A d \in S : f[d] < f[c] \/ (f[d] = f[c] /\ c <= d)
  <1> DEFINE Best(m, c) == \A d \in S : d <= m => f[d] < f[c] \/ (f[d] = f[c] /\ c <= d)
             P == {m \in Nat : (\E d \in S : d <= m) => \E c \in S : c <= m /\ Best(m, c)}
  <1>1. 0 \in P
    OBVIOUS
  <1>2. ASSUME NEW m \in Nat, m \in P PROVE m + 1 \in P
    <2>1. CASE m + 1 \notin S
      <3>1. \A d \in S : d <= m + 1 <=> d <= m
        BY <2>1
      <3> QED BY <1>2, <3>1
    <2>2. CASE m + 1 \in S /\ ~\E d \in S : d <= m
      <3>1. \A d \in S : d <= m + 1 => d = m + 1
        BY <2>2
      <3>2. Best(m + 1, m + 1)
        BY <2>2, <3>1
      <3> HIDE DEF Best
      <3>3. \E c \in S : c <= m + 1 /\ Best(m + 1, c)
        BY <2>2, <3>2
      <3> QED BY <3>3
    <2>3. CASE m + 1 \in S /\ \E d \in S : d <= m
      <3>1. PICK c \in S : c <= m /\ Best(m, c)
        BY <1>2, <2>3
      <3>2. \A d \in S : d <= m + 1 => d <= m \/ d = m + 1
        OBVIOUS
      <3>3. CASE f[c] < f[m + 1]
        <4>1. ASSUME NEW d \in S, d <= m PROVE f[d] < f[m + 1]
          <5>1. f[d] <= f[c] /\ f[d] \in Int /\ f[c] \in Int /\ f[m + 1] \in Int
            BY <2>3, <3>1, <4>1
          <5> QED BY <3>3, <5>1
        <4>2. Best(m + 1, m + 1)
          BY <2>3, <3>2, <4>1
        <4> HIDE DEF Best
        <4> QED BY <2>3, <4>2
      <3>4. CASE ~(f[c] < f[m + 1])
        <4>1. Best(m + 1, c) /\ c <= m + 1
          BY <2>3, <3>1, <3>2, <3>4
        <4> HIDE DEF Best
        <4> QED BY <4>1
      <3> QED BY <3>3, <3>4
    <2> QED BY <2>1, <2>2, <2>3
  <1>3. n \in P
    <2> HIDE DEF P
    <2>1. P \in SUBSET Nat
      BY DEF P
    <2> QED BY <1>1, <1>2, <2>1, SetInduction
  <1>4. PICK c \in S : Best(n, c)
    BY <1>3
  <1> QED BY <1>4

-------------------------------------------------------------------------------
(***************************************************************************)
(* The function behind a fold: g gives the sum of f over every subset of   *)
(* S, an element at a time.                                                *)
(***************************************************************************)
Pick(s) == CHOOSE x \in s : TRUE

SumsOver(g, f, S) ==
    g = [s \in SUBSET S |-> IF s = {} THEN 0 ELSE f[Pick(s)] + g[s \ {Pick(s)}]]

\* The element picked from a set is one of its elements.
LEMMA PickIn == ASSUME NEW s, s # {} PROVE Pick(s) \in s
  BY DEF Pick

\* SumFunctionOnSet is the value of such a function.
LEMMA SumUnfolded ==
    ASSUME NEW f, NEW S
    PROVE  SumFunctionOnSet(f, S) = (CHOOSE g : SumsOver(g, f, S))[S]
  BY Zenon DEF SumFunctionOnSet, FoldFunctionOnSet, MapThenFoldSet, SumsOver, Pick

\* Over a finite set there is such a function: it exists on the subsets of at
\* most n elements, for every n.
LEMMA SumsExist ==
    ASSUME NEW f, NEW S, IsFiniteSet(S)
    PROVE  \E g : SumsOver(g, f, S)
  <1> DEFINE D(n) == {s \in SUBSET S : Cardinality(s) <= n}
             Sums(g, n) == g = [s \in D(n) |->
                 IF s = {} THEN 0 ELSE f[Pick(s)] + g[s \ {Pick(s)}]]
             P == {n \in Nat : \E g : Sums(g, n)}
  <1>1. \A s \in SUBSET S : IsFiniteSet(s) /\ Cardinality(s) \in Nat
                            /\ (Cardinality(s) = 0 <=> s = {})
                            /\ Cardinality(s) <= Cardinality(S)
    BY FS_Subset, FS_CardinalityType, FS_EmptySet
  <1>2. \A s \in SUBSET S : s # {} => /\ Pick(s) \in s
                                      /\ s \ {Pick(s)} \in SUBSET S
                                      /\ Cardinality(s \ {Pick(s)}) = Cardinality(s) - 1
    BY <1>1, PickIn, FS_RemoveElement
  <1>3. 0 \in P
    <2> DEFINE g == [s \in D(0) |-> 0]
    <2>1. \A s \in D(0) : s = {}
      BY <1>1
    <2>2. Sums(g, 0)
      BY <2>1
    <2> QED BY <2>2
  <1>4. ASSUME NEW n \in Nat, n \in P PROVE n + 1 \in P
    <2>1. PICK g : Sums(g, n)
      BY <1>4
    <2> DEFINE h == [s \in D(n + 1) |->
                        IF s = {} THEN 0 ELSE f[Pick(s)] + g[s \ {Pick(s)}]]
    <2>2. \A s \in D(n) : s \in D(n + 1)
      BY <1>1
    <2>3. \A s \in D(n) : h[s] = g[s]
      <3> SUFFICES ASSUME NEW s \in D(n) PROVE h[s] = g[s]
        OBVIOUS
      <3>1. h[s] = IF s = {} THEN 0 ELSE f[Pick(s)] + g[s \ {Pick(s)}]
        BY <2>2
      <3>2. g[s] = IF s = {} THEN 0 ELSE f[Pick(s)] + g[s \ {Pick(s)}]
        <4> HIDE DEF h, D
        <4> QED BY <2>1
      <3> QED BY <3>1, <3>2, Zenon
    <2>4. \A s \in D(n + 1) : s # {} => s \ {Pick(s)} \in D(n)
      BY <1>1, <1>2
    <2>5. \A s \in D(n + 1) : s # {} => h[s \ {Pick(s)}] = g[s \ {Pick(s)}]
      <3> HIDE DEF h, D
      <3> QED BY <2>3, <2>4
    <2>6. h = [s \in D(n + 1) |->
                  IF s = {} THEN 0 ELSE f[Pick(s)] + h[s \ {Pick(s)}]]
      <3> HIDE DEF h, D
      <3>1. \A s \in D(n + 1) :
                (IF s = {} THEN 0 ELSE f[Pick(s)] + g[s \ {Pick(s)}])
                = (IF s = {} THEN 0 ELSE f[Pick(s)] + h[s \ {Pick(s)}])
        BY <2>5, Zenon
      <3>2. [s \in D(n + 1) |-> IF s = {} THEN 0 ELSE f[Pick(s)] + g[s \ {Pick(s)}]]
            = [s \in D(n + 1) |-> IF s = {} THEN 0 ELSE f[Pick(s)] + h[s \ {Pick(s)}]]
        BY <3>1, Zenon
      <3>3. h = [s \in D(n + 1) |-> IF s = {} THEN 0 ELSE f[Pick(s)] + g[s \ {Pick(s)}]]
        BY Zenon DEF h
      <3> QED BY <3>2, <3>3, Zenon
    <2>7. Sums(h, n + 1)
      BY <2>6, Zenon
    <2> HIDE DEF h, Sums
    <2>8. \E e : Sums(e, n + 1)
      BY <2>7, Zenon
    <2> QED BY <2>8
  <1>5. \A n \in Nat : n \in P
    <2> HIDE DEF P
    <2>1. P \in SUBSET Nat
      BY DEF P
    <2> QED BY <1>3, <1>4, <2>1, SetInduction
  <1>6. D(Cardinality(S)) = SUBSET S
    BY <1>1
  <1>7. \E g : Sums(g, Cardinality(S))
    BY <1>1, <1>5
  <1>8. PICK g : Sums(g, Cardinality(S))
    BY <1>7
  <1>9. SumsOver(g, f, S)
    BY <1>6, <1>8, Zenon DEF SumsOver
  <1> QED BY <1>9

\* The value on a subset.
LEMMA SumsStep ==
    ASSUME NEW f, NEW S, NEW g, SumsOver(g, f, S), NEW s \in SUBSET S
    PROVE  /\ s = {} => g[s] = 0
           /\ s # {} => g[s] = f[Pick(s)] + g[s \ {Pick(s)}]
  BY DEF SumsOver

\* Nothing adds up to 0.
LEMMA SumsEmpty ==
    ASSUME NEW f, NEW S, NEW g, SumsOver(g, f, S)
    PROVE  g[{}] = 0
  <1>1. {} \in SUBSET S
    OBVIOUS
  <1> QED BY <1>1, SumsStep

\* Integers add up to an integer.
LEMMA SumsInteger ==
    ASSUME NEW f, NEW S, IsFiniteSet(S), NEW g, SumsOver(g, f, S), \A x \in S : f[x] \in Int
    PROVE  \A s \in SUBSET S : g[s] \in Int
  <1> DEFINE P == {n \in Nat : \A s \in SUBSET S : Cardinality(s) = n => g[s] \in Int}
  <1>1. \A s \in SUBSET S : /\ IsFiniteSet(s) /\ Cardinality(s) \in Nat
                            /\ Cardinality(s) = 0 <=> s = {}
    BY FS_Subset, FS_CardinalityType, FS_EmptySet
  <1>2. 0 \in P
    <2>1. g[{}] = 0
      BY SumsEmpty
    <2> QED BY <1>1, <2>1
  <1>3. ASSUME NEW n \in Nat, n \in P PROVE n + 1 \in P
    <2> SUFFICES ASSUME NEW s \in SUBSET S, Cardinality(s) = n + 1 PROVE g[s] \in Int
      OBVIOUS
    <2>1. s # {} /\ Pick(s) \in s /\ Cardinality(s \ {Pick(s)}) = n
      BY <1>1, PickIn, FS_RemoveElement
    <2>2. g[s \ {Pick(s)}] \in Int /\ f[Pick(s)] \in Int
      BY <1>3, <2>1
    <2>3. g[s] = f[Pick(s)] + g[s \ {Pick(s)}]
      BY <2>1, SumsStep
    <2> QED BY <2>2, <2>3
  <1>4. \A n \in Nat : n \in P
    <2> HIDE DEF P
    <2>1. P \in SUBSET Nat
      BY DEF P
    <2> QED BY <1>2, <1>3, <2>1, SetInduction
  <1> QED BY <1>1, <1>4

\* What a sum is depends only on the values that are added.
LEMMA SumsAgree ==
    ASSUME NEW f, NEW S, NEW g, SumsOver(g, f, S),
           NEW e, NEW T, NEW h, SumsOver(h, e, T),
           NEW U \in SUBSET S, U \in SUBSET T, IsFiniteSet(U), \A x \in U : f[x] = e[x]
    PROVE  g[U] = h[U]
  <1> DEFINE P == {n \in Nat : \A s \in SUBSET U : Cardinality(s) = n => g[s] = h[s]}
  <1>1. \A s \in SUBSET U : /\ IsFiniteSet(s) /\ Cardinality(s) \in Nat
                            /\ Cardinality(s) = 0 <=> s = {}
                            /\ s \in SUBSET S /\ s \in SUBSET T
    BY FS_Subset, FS_CardinalityType, FS_EmptySet
  <1>2. 0 \in P
    <2>1. g[{}] = 0
      BY SumsEmpty
    <2>2. h[{}] = 0
      BY SumsEmpty
    <2> QED BY <1>1, <2>1, <2>2
  <1>3. ASSUME NEW n \in Nat, n \in P PROVE n + 1 \in P
    <2> SUFFICES ASSUME NEW s \in SUBSET U, Cardinality(s) = n + 1 PROVE g[s] = h[s]
      OBVIOUS
    <2>1. s # {} /\ Pick(s) \in s /\ Cardinality(s \ {Pick(s)}) = n
      BY <1>1, PickIn, FS_RemoveElement
    <2>2. g[s \ {Pick(s)}] = h[s \ {Pick(s)}] /\ f[Pick(s)] = e[Pick(s)]
      BY <1>3, <2>1
    <2>3. g[s] = f[Pick(s)] + g[s \ {Pick(s)}]
      BY <1>1, <2>1, SumsStep
    <2>4. h[s] = e[Pick(s)] + h[s \ {Pick(s)}]
      BY <1>1, <2>1, SumsStep
    <2> QED BY <2>2, <2>3, <2>4
  <1>4. \A n \in Nat : n \in P
    <2> HIDE DEF P
    <2>1. P \in SUBSET Nat
      BY DEF P
    <2> QED BY <1>2, <1>3, <2>1, SetInduction
  <1> QED BY <1>1, <1>4

\* Any element may be the last one to be added.
LEMMA SumsAdd ==
    ASSUME NEW f, NEW S, IsFiniteSet(S), NEW g, SumsOver(g, f, S), \A x \in S : f[x] \in Int
    PROVE  \A s \in SUBSET S : \A x \in S \ s : g[s \cup {x}] = g[s] + f[x]
  <1> DEFINE P == {n \in Nat : \A s \in SUBSET S : Cardinality(s) = n =>
                                   \A x \in S \ s : g[s \cup {x}] = g[s] + f[x]}
  <1>1. \A s \in SUBSET S : /\ IsFiniteSet(s) /\ Cardinality(s) \in Nat
                            /\ Cardinality(s) = 0 <=> s = {}
    BY FS_Subset, FS_CardinalityType, FS_EmptySet
  <1>2. \A s \in SUBSET S : g[s] \in Int
    BY SumsInteger
  <1>3. ASSUME NEW s \in SUBSET S, NEW x \in S \ s,
               Pick(s \cup {x}) = x
        PROVE  g[s \cup {x}] = g[s] + f[x]
    <2>1. s \cup {x} \in SUBSET S /\ s \cup {x} # {} /\ (s \cup {x}) \ {x} = s
      OBVIOUS
    <2>2. g[s \cup {x}] = f[x] + g[(s \cup {x}) \ {x}]
      <3>1. PICK t : t = s \cup {x}
        OBVIOUS
      <3>2. t \in SUBSET S /\ t # {} /\ Pick(t) = x
        BY <1>3, <2>1, <3>1
      <3>3. g[t] = f[x] + g[t \ {x}]
        BY <3>2, SumsStep
      <3> QED BY <3>1, <3>3
    <2>3. g[s \cup {x}] = f[x] + g[s]
      BY <2>1, <2>2
    <2>4. g[s] \in Int /\ f[x] \in Int
      BY <1>2
    <2> QED BY <2>3, <2>4
  <1>4. 0 \in P
    <2> SUFFICES ASSUME NEW s \in SUBSET S, Cardinality(s) = 0, NEW x \in S \ s
                 PROVE  g[s \cup {x}] = g[s] + f[x]
      OBVIOUS
    <2>1. Pick(s \cup {x}) = x
      BY <1>1, PickIn
    <2> QED BY <1>3, <2>1
  <1>5. ASSUME NEW n \in Nat, n \in P PROVE n + 1 \in P
    <2> SUFFICES ASSUME NEW s \in SUBSET S, Cardinality(s) = n + 1, NEW x \in S \ s,
                        Pick(s \cup {x}) # x
                 PROVE  g[s \cup {x}] = g[s] + f[x]
      BY <1>3
    <2> DEFINE y == Pick(s \cup {x})
    <2>1. y \in s \cup {x}
      BY PickIn
    <2>2. y \in s /\ y \in S
      BY <2>1
    <2>3. g[s \cup {x}] = f[y] + g[(s \cup {x}) \ {y}]
      <3>1. PICK t : t = s \cup {x}
        OBVIOUS
      <3>2. t \in SUBSET S /\ t # {} /\ Pick(t) = y
        BY <3>1
      <3> HIDE DEF y
      <3>3. g[t] = f[y] + g[t \ {y}]
        BY <3>2, SumsStep
      <3> QED BY <3>1, <3>3
    <2> HIDE DEF y
    <2>4. Cardinality(s \ {y}) = n /\ s \ {y} \in SUBSET S
      BY <1>1, <2>2, FS_RemoveElement
    <2>5. (s \cup {x}) \ {y} = (s \ {y}) \cup {x} /\ (s \ {y}) \cup {y} = s
      BY <2>2 DEF y
    <2>6. /\ g[(s \ {y}) \cup {x}] = g[s \ {y}] + f[x]
          /\ g[(s \ {y}) \cup {y}] = g[s \ {y}] + f[y]
      BY <1>5, <2>2, <2>4
    <2>7. f[x] \in Int /\ f[y] \in Int /\ g[s \ {y}] \in Int
      BY <1>2, <2>2, <2>4
    <2>8. g[s \cup {x}] = f[y] + (g[s \ {y}] + f[x]) /\ g[s] = g[s \ {y}] + f[y]
      BY <2>3, <2>5, <2>6
    <2> QED BY <2>7, <2>8
  <1>6. \A n \in Nat : n \in P
    <2> HIDE DEF P
    <2>1. P \in SUBSET Nat
      BY DEF P
    <2> QED BY <1>4, <1>5, <2>1, SetInduction
  <1> QED BY <1>1, <1>6

-------------------------------------------------------------------------------
(***************************************************************************)
(* Sums.                                                                   *)
(***************************************************************************)

\* The sum is the value of one, and so of every, function that adds up.
LEMMA SumIs ==
    ASSUME NEW f, NEW S, IsFiniteSet(S), NEW g, SumsOver(g, f, S), NEW s \in SUBSET S
    PROVE  SumFunctionOnSet(f, s) = g[s]
  <1>1. IsFiniteSet(s)
    BY FS_Subset
  <1>2. SumsOver((CHOOSE h : SumsOver(h, f, s)), f, s)
    <2>1. \E h : SumsOver(h, f, s)
      BY <1>1, SumsExist
    <2> QED BY <2>1, Zenon
  <1>3. PICK h : h = CHOOSE e : SumsOver(e, f, s)
    OBVIOUS
  <1>4. SumFunctionOnSet(f, s) = h[s]
    BY <1>3, SumUnfolded, Zenon
  <1>5. SumsOver(h, f, s)
    BY <1>2, <1>3, Zenon
  <1>6. h[s] = g[s]
    <2>1. s \in SUBSET s
      OBVIOUS
    <2> QED BY <1>1, <1>5, <2>1, SumsAgree
  <1> QED BY <1>4, <1>6

\* The empty sum, a sum with one more element, and the type of a sum.
LEMMA SumFacts ==
    ASSUME NEW f, NEW S, IsFiniteSet(S), \A x \in S : f[x] \in Int
    PROVE  /\ SumFunctionOnSet(f, {}) = 0
           /\ SumFunctionOnSet(f, S) \in Int
           /\ \A x \in S : SumFunctionOnSet(f, S) = SumFunctionOnSet(f, S \ {x}) + f[x]
  <1>1. PICK g : SumsOver(g, f, S)
    BY SumsExist
  <1>2. \A s \in SUBSET S : SumFunctionOnSet(f, s) = g[s]
    BY <1>1, SumIs
  <1>3. g[{}] = 0 /\ {} \in SUBSET S
    BY <1>1, SumsEmpty
  <1>4. g[S] \in Int /\ S \in SUBSET S
    BY <1>1, SumsInteger
  <1>5. ASSUME NEW x \in S PROVE g[S] = g[S \ {x}] + f[x]
    <2>1. S \ {x} \in SUBSET S /\ x \in S \ (S \ {x}) /\ (S \ {x}) \cup {x} = S
      OBVIOUS
    <2> QED BY <1>1, <2>1, SumsAdd
  <1>6. \A x \in S : S \ {x} \in SUBSET S
    OBVIOUS
  <1> QED BY <1>2, <1>3, <1>4, <1>5, <1>6

\* Sums of functions that agree on the set are the same.
LEMMA SumEqual ==
    ASSUME NEW f, NEW e, NEW S, IsFiniteSet(S), \A x \in S : f[x] = e[x]
    PROVE  SumFunctionOnSet(f, S) = SumFunctionOnSet(e, S)
  <1>1. PICK g : SumsOver(g, f, S)
    BY SumsExist
  <1>2. PICK h : SumsOver(h, e, S)
    BY SumsExist
  <1>3. S \in SUBSET S
    OBVIOUS
  <1>4. g[S] = h[S]
    BY <1>1, <1>2, <1>3, SumsAgree
  <1>5. SumFunctionOnSet(f, S) = g[S] /\ SumFunctionOnSet(e, S) = h[S]
    BY <1>1, <1>2, <1>3, SumIs
  <1> QED BY <1>4, <1>5

\* A change of one value changes the sum by as much.
LEMMA SumChange ==
    ASSUME NEW f, NEW e, NEW S, IsFiniteSet(S), NEW y \in S,
           \A x \in S : f[x] \in Int /\ e[x] \in Int,
           \A x \in S \ {y} : f[x] = e[x]
    PROVE  SumFunctionOnSet(e, S) = SumFunctionOnSet(f, S) - f[y] + e[y]
  <1>1. IsFiniteSet(S \ {y})
    BY FS_RemoveElement
  <1>2. SumFunctionOnSet(f, S \ {y}) = SumFunctionOnSet(e, S \ {y})
    BY <1>1, SumEqual
  <1>3. SumFunctionOnSet(f, S \ {y}) \in Int
    BY <1>1, SumFacts
  <1>4. /\ SumFunctionOnSet(f, S) = SumFunctionOnSet(f, S \ {y}) + f[y]
        /\ SumFunctionOnSet(e, S) = SumFunctionOnSet(e, S \ {y}) + e[y]
    BY SumFacts
  <1> QED BY <1>2, <1>3, <1>4

\* A sum of n equal values.
LEMMA SumConstant ==
    ASSUME NEW f, NEW k \in Int, NEW n \in Nat, \A x \in 1..n : f[x] = k
    PROVE  SumFunctionOnSet(f, 1..n) = n * k
  <1> DEFINE P == {m \in Nat : m <= n => SumFunctionOnSet(f, 1..m) = m * k}
  <1>1. \A m \in Nat : IsFiniteSet(1..m)
    BY FS_Interval
  <1>2. 0 \in P
    <2>1. 1..0 = {} /\ IsFiniteSet({})
      BY FS_EmptySet
    <2>2. SumFunctionOnSet(f, {}) = 0
      BY <2>1, SumFacts
    <2> QED BY <2>1, <2>2
  <1>3. ASSUME NEW m \in Nat, m \in P PROVE m + 1 \in P
    <2> SUFFICES ASSUME m + 1 <= n PROVE SumFunctionOnSet(f, 1..(m + 1)) = (m + 1) * k
      OBVIOUS
    <2>1. (1..(m + 1)) \ {m + 1} = 1..m /\ m + 1 \in 1..(m + 1)
      OBVIOUS
    <2>2. \A x \in 1..(m + 1) : f[x] = k /\ f[x] \in Int
      OBVIOUS
    <2>3. SumFunctionOnSet(f, 1..(m + 1)) = SumFunctionOnSet(f, 1..m) + k
      <3>1. PICK M : M = 1..(m + 1)
        OBVIOUS
      <3>2. IsFiniteSet(M) /\ m + 1 \in M /\ M \ {m + 1} = 1..m /\ \A x \in M : f[x] \in Int
        BY <1>1, <2>1, <2>2, <3>1
      <3>3. SumFunctionOnSet(f, M) = SumFunctionOnSet(f, M \ {m + 1}) + f[m + 1]
        BY <3>2, SumFacts
      <3>4. f[m + 1] = k
        BY <2>1, <2>2
      <3> QED BY <3>1, <3>2, <3>3, <3>4
    <2>4. SumFunctionOnSet(f, 1..m) = m * k
      BY <1>3
    <2>5. m * k + k = (m + 1) * k
      OBVIOUS
    <2> QED BY <2>3, <2>4, <2>5
  <1>4. \A m \in Nat : m \in P
    <2> HIDE DEF P
    <2>1. P \in SUBSET Nat
      BY DEF P
    <2> QED BY <1>2, <1>3, <2>1, SetInduction
  <1> QED BY <1>4

\* No term of a sum of natural numbers is more than the sum.
LEMMA SumBound ==
    ASSUME NEW f, NEW S, IsFiniteSet(S), \A x \in S : f[x] \in Nat
    PROVE  SumFunctionOnSet(f, S) \in Nat /\ \A x \in S : f[x] <= SumFunctionOnSet(f, S)
  <1> DEFINE P == {n \in Nat : \A s \in SUBSET S : Cardinality(s) = n =>
                                   SumFunctionOnSet(f, s) \in Nat}
  <1>1. \A s \in SUBSET S : /\ IsFiniteSet(s) /\ Cardinality(s) \in Nat
                            /\ Cardinality(s) = 0 <=> s = {}
    BY FS_Subset, FS_CardinalityType, FS_EmptySet
  <1>2. ASSUME NEW s \in SUBSET S, NEW x \in s
        PROVE  /\ SumFunctionOnSet(f, s) = SumFunctionOnSet(f, s \ {x}) + f[x]
               /\ s \ {x} \in SUBSET S /\ Cardinality(s \ {x}) = Cardinality(s) - 1
    <2>1. IsFiniteSet(s) /\ \A y \in s : f[y] \in Int
      BY <1>1
    <2> QED BY <2>1, SumFacts, FS_RemoveElement
  <1>3. 0 \in P
    <2>1. \A x \in S : f[x] \in Int
      OBVIOUS
    <2>2. SumFunctionOnSet(f, {}) = 0
      BY <2>1, SumFacts
    <2> QED BY <1>1, <2>2
  <1>4. ASSUME NEW n \in Nat, n \in P PROVE n + 1 \in P
    <2> SUFFICES ASSUME NEW s \in SUBSET S, Cardinality(s) = n + 1
                 PROVE  SumFunctionOnSet(f, s) \in Nat
      OBVIOUS
    <2>1. PICK x \in s : TRUE
      BY <1>1
    <2>2. SumFunctionOnSet(f, s) = SumFunctionOnSet(f, s \ {x}) + f[x]
      BY <1>2
    <2>3. SumFunctionOnSet(f, s \ {x}) \in Nat
      BY <1>2, <1>4
    <2> QED BY <2>2, <2>3
  <1>5. \A n \in Nat : n \in P
    <2> HIDE DEF P
    <2>1. P \in SUBSET Nat
      BY DEF P
    <2> QED BY <1>3, <1>4, <2>1, SetInduction
  <1>6. \A s \in SUBSET S : SumFunctionOnSet(f, s) \in Nat
    BY <1>1, <1>5
  <1>7. ASSUME NEW x \in S PROVE f[x] <= SumFunctionOnSet(f, S)
    <2>1. SumFunctionOnSet(f, S) = SumFunctionOnSet(f, S \ {x}) + f[x] /\ S \ {x} \in SUBSET S
      BY <1>2
    <2>2. SumFunctionOnSet(f, S \ {x}) \in Nat
      BY <1>6, <2>1
    <2> QED BY <2>1, <2>2
  <1> QED BY <1>6, <1>7
===============================================================================
