----------------------------- MODULE FiniteSums -----------------------------
(***************************************************************************)
(* Induction on natural numbers and on finite sets, and what it gives on   *)
(* the sums of the community modules: MapThenSumSet is a recursive         *)
(* function on the subsets of its argument.                                *)
(*                                                                         *)
(* The induction principles speak of a set of good arguments rather than   *)
(* of a predicate, so that the provers can instantiate them.               *)
(***************************************************************************)
EXTENDS Ordering, FiniteSetsExt, FiniteSetTheorems, WellFoundedInduction, TLAPS

\* A nonempty set of natural numbers has a least element.
LEMMA LeastNat ==
  ASSUME NEW S \in SUBSET Nat, S # {}
  PROVE  \E k \in S : \A h \in S : k <= h
  <1> DEFINE less == OpToRel(<, Nat)
  <1>1. PICK k \in S : \A h \in S : <<h, k>> \notin less
      <2> HIDE DEF less
      <2>1. IsWellFoundedOn(less, Nat)
          BY NatLessThanWellFounded DEF less
      <2>. QED  BY <2>1, WFMin
  <1>2. ASSUME NEW h \in S PROVE k <= h
      <2>1. <<h, k>> \in Nat \X Nat /\ <<h, k>>[1] = h /\ <<h, k>>[2] = k
          OBVIOUS
      <2>2. ~(h < k)
          BY <1>1, <2>1 DEF OpToRel
      <2>. QED  BY <2>2
  <1>. QED  BY <1>2

\* Induction on the numbers up to n.
LEMMA CountingUp ==
  ASSUME NEW n \in Nat, NEW G, 0 \in G, \A k \in 0 .. n - 1 : k \in G => k + 1 \in G
  PROVE  0 .. n \subseteq G
  <1> DEFINE Bad == (0 .. n) \ G
  <1>1. SUFFICES ASSUME Bad # {} PROVE FALSE
      OBVIOUS
  <1>2. PICK k \in Bad : \A h \in Bad : k <= h
      <2>1. Bad \in SUBSET Nat
          OBVIOUS
      <2> HIDE DEF Bad
      <2>. QED  BY <1>1, <2>1, LeastNat
  <1>3. k \in 1 .. n /\ k - 1 \in 0 .. n - 1 /\ k - 1 \notin Bad
      <2>1. k \in 1 .. n
          OBVIOUS
      <2>2. k - 1 \in 0 .. n - 1 /\ ~(k <= k - 1)
          BY <2>1
      <2> HIDE DEF Bad
      <2>. QED  BY <1>2, <2>1, <2>2
  <1>4. k - 1 \in G
      BY <1>3
  <1>5. (k - 1) + 1 \in G
      BY <1>3, <1>4
  <1>. QED  BY <1>3, <1>5

\* Induction on the subsets of a finite set, an element at a time.
LEMMA AddingElements ==
  ASSUME NEW U, IsFiniteSet(U), NEW G, {} \in G,
         \A S \in SUBSET U : \A x \in U \ S : S \in G => S \cup {x} \in G
  PROVE  \A S \in SUBSET U : S \in G
  <1> DEFINE Good == {k \in Nat : \A S \in SUBSET U : Cardinality(S) = k => S \in G}
  <1>1. \A S \in SUBSET U : IsFiniteSet(S) /\ Cardinality(S) \in Nat /\ Cardinality(S) <= Cardinality(U)
      BY FS_Subset, FS_CardinalityType
  <1>2. 0 \in Good
      BY <1>1, FS_EmptySet
  <1>3. ASSUME NEW k \in Nat, k \in Good PROVE k + 1 \in Good
      <2>1. ASSUME NEW S \in SUBSET U, Cardinality(S) = k + 1 PROVE S \in G
          <3>1. S # {}
              BY <2>1, FS_EmptySet
          <3>2. PICK x \in S : TRUE
              BY <3>1
          <3>3. Cardinality(S \ {x}) = k
              <4>1. Cardinality(S \ {x}) = Cardinality(S) - 1
                  BY <1>1, FS_RemoveElement
              <4>. QED  BY <2>1, <4>1
          <3>4. S \ {x} \in G
              BY <1>3, <3>3
          <3>5. S = (S \ {x}) \cup {x}
              OBVIOUS
          <3>. QED  BY <3>2, <3>4, <3>5
      <2>. QED  BY <2>1
  <1> HIDE DEF Good
  <1>4. Cardinality(U) \in Nat
      BY <1>1
  <1>5. 0 .. Cardinality(U) \subseteq Good
      BY <1>2, <1>3, <1>4, CountingUp
  <1>. QED  BY <1>1, <1>4, <1>5 DEF Good

-----------------------------------------------------------------------------
(* Sums.                                                                    *)

\* The sum of the values of f on S.
Total(f, S) == MapThenSumSet(LAMBDA x : f[x], S)

SomeOf(s) == CHOOSE x \in s : TRUE

\* g maps the subsets of U to their sums, as MapThenFoldSet defines them.
Sums(g, f, U) ==
    g = [s \in SUBSET U |-> IF s = {} THEN 0 ELSE f[SomeOf(s)] + g[s \ {SomeOf(s)}]]

\* What is picked from a set is in it, and fewer are left.
LEMMA PickOne ==
  ASSUME NEW s, IsFiniteSet(s)
  PROVE  /\ Cardinality(s) \in Nat /\ (Cardinality(s) = 0 <=> s = {})
         /\ s # {} => /\ SomeOf(s) \in s /\ IsFiniteSet(s \ {SomeOf(s)})
                      /\ Cardinality(s \ {SomeOf(s)}) = Cardinality(s) - 1
  <1>1. Cardinality(s) \in Nat /\ (Cardinality(s) = 0 <=> s = {})
      BY FS_CardinalityType, FS_EmptySet
  <1>2. s # {} => SomeOf(s) \in s
      BY DEF SomeOf
  <1>3. s # {} => IsFiniteSet(s \ {SomeOf(s)}) /\ Cardinality(s \ {SomeOf(s)}) = Cardinality(s) - 1
      BY <1>2, FS_RemoveElement
  <1>. QED  BY <1>1, <1>2, <1>3

\* There is such a function: by induction on the size of the sets it is to sum.
LEMMA SumsExist ==
  ASSUME NEW U, IsFiniteSet(U), NEW f, \A x \in U : f[x] \in Nat
  PROVE  \E g \in [SUBSET U -> Nat] : Sums(g, f, U)
  <1> DEFINE Upto(n) == {s \in SUBSET U : Cardinality(s) <= n}
             Step(g, s) == IF s = {} THEN 0 ELSE f[SomeOf(s)] + g[s \ {SomeOf(s)}]
             Good == {n \in Nat : \E g \in [Upto(n) -> Nat] : \A s \in Upto(n) : g[s] = Step(g, s)}
  <1>1. \A s \in SUBSET U : /\ IsFiniteSet(s) /\ Cardinality(s) \in Nat /\ Cardinality(s) <= Cardinality(U)
                            /\ Cardinality(s) = 0 <=> s = {}
                            /\ s # {} => /\ SomeOf(s) \in s /\ s \ {SomeOf(s)} \in SUBSET U
                                         /\ Cardinality(s \ {SomeOf(s)}) = Cardinality(s) - 1
      <2>1. \A s \in SUBSET U : IsFiniteSet(s) /\ Cardinality(s) <= Cardinality(U)
          BY FS_Subset
      <2>. QED  BY <2>1, PickOne
  <1>2. 0 \in Good
      <2> DEFINE zero == [s \in Upto(0) |-> 0]
      <2>1. zero \in [Upto(0) -> Nat]
          OBVIOUS
      <2>2. ASSUME NEW s \in Upto(0) PROVE Cardinality(s) = 0
          <3>1. Cardinality(s) \in Nat /\ Cardinality(s) <= 0
              BY <1>1
          <3>. QED  BY <3>1
      <2>3. \A s \in Upto(0) : zero[s] = Step(zero, s)
          BY <1>1, <2>2
      <2>. QED  BY <2>1, <2>3
  <1>3. ASSUME NEW n \in Nat, n \in Good PROVE n + 1 \in Good
      <2>1. PICK g \in [Upto(n) -> Nat] : \A s \in Upto(n) : g[s] = Step(g, s)
          BY <1>3
      <2> DEFINE h == [s \in Upto(n + 1) |-> Step(g, s)]
      <2>2. \A s \in Upto(n + 1) : s # {} =>
                s \ {SomeOf(s)} \in Upto(n) /\ s \ {SomeOf(s)} \in Upto(n + 1) /\ f[SomeOf(s)] \in Nat
          BY <1>1
      <2>3. h \in [Upto(n + 1) -> Nat]
          <3>1. ASSUME NEW s \in Upto(n + 1) PROVE Step(g, s) \in Nat
              BY <2>2
          <3>. QED  BY <3>1
      <2>4. \A s \in Upto(n) : s \in Upto(n + 1) /\ h[s] = g[s]
          <3>1. ASSUME NEW s \in Upto(n) PROVE s \in Upto(n + 1)
              <4>1. Cardinality(s) \in Nat /\ Cardinality(s) <= n
                  BY <1>1
              <4>2. Cardinality(s) <= n + 1
                  BY <4>1
              <4>. QED  BY <4>2
          <3> HIDE DEF Upto, Step
          <3>. QED  BY <2>1, <3>1
      <2>5. \A s \in Upto(n + 1) : h[s] = Step(h, s)
          BY <2>2, <2>4
      <2>6. \E k \in [Upto(n + 1) -> Nat] : \A s \in Upto(n + 1) : k[s] = Step(k, s)
          <3> HIDE DEF h, Step
          <3>. QED  BY <2>3, <2>5
      <2> HIDE DEF Upto, Step
      <2>. QED  BY <2>6
  <1>4. Cardinality(U) \in Good
      <2> HIDE DEF Good
      <2>1. Cardinality(U) \in Nat
          BY <1>1
      <2>2. 0 .. Cardinality(U) \subseteq Good
          BY <1>2, <1>3, <2>1, CountingUp
      <2>. QED  BY <2>1, <2>2
  <1>5. Upto(Cardinality(U)) = SUBSET U
      BY <1>1
  <1>6. PICK g \in [SUBSET U -> Nat] : \A s \in SUBSET U : g[s] = Step(g, s)
      BY <1>4, <1>5
  <1>. QED  BY <1>6 DEF Sums

\* The order in which the elements are taken does not matter.
AnyOrder(g, f, U) == \A S \in SUBSET U : \A x \in S : g[S] = f[x] + g[S \ {x}]

\* It does not for such a function.
LEMMA SumsAnyOrder ==
  ASSUME NEW U, IsFiniteSet(U), NEW f, \A x \in U : f[x] \in Nat,
         NEW g \in [SUBSET U -> Nat], Sums(g, f, U)
  PROVE  AnyOrder(g, f, U)
  <1> DEFINE Good == {n \in Nat : \A S \in SUBSET U : Cardinality(S) = n + 1 =>
                                      \A x \in S : g[S] = f[x] + g[S \ {x}]}
  <1>1. \A S \in SUBSET U : IsFiniteSet(S) /\ Cardinality(S) <= Cardinality(U) /\ g[S] \in Nat
      BY FS_Subset
  <1>2. \A S \in SUBSET U : S # {} => g[S] = f[SomeOf(S)] + g[S \ {SomeOf(S)}]
      BY DEF Sums
  <1>3. ASSUME NEW S \in SUBSET U, S # {}
        PROVE  /\ SomeOf(S) \in S /\ Cardinality(S) \in Nat \ {0}
               /\ \A x \in S : S \ {x} \in SUBSET U /\ Cardinality(S \ {x}) = Cardinality(S) - 1
      BY <1>1, <1>3, PickOne, FS_RemoveElement
  <1>4. 0 \in Good
      <2>1. ASSUME NEW S \in SUBSET U, Cardinality(S) = 1, NEW x \in S PROVE SomeOf(S) = x
          <3>1. Cardinality(S \ {x}) = 0 /\ IsFiniteSet(S \ {x})
              BY <1>1, <1>3, <2>1, FS_RemoveElement
          <3>2. S \ {x} = {}
              BY <3>1, FS_EmptySet
          <3>. QED  BY <1>3, <3>2
      <2>. QED  BY <1>2, <2>1
  <1>5. ASSUME NEW n \in Nat, n \in Good PROVE n + 1 \in Good
      <2>1. ASSUME NEW S \in SUBSET U, Cardinality(S) = (n + 1) + 1, NEW x \in S, SomeOf(S) # x
            PROVE  g[S] = f[x] + g[S \ {x}]
          <3> DEFINE y == SomeOf(S)
          <3>1. y \in S /\ S \ {x} \in SUBSET U /\ S \ {y} \in SUBSET U
              BY <1>3, <2>1
          <3>2. Cardinality(S \ {x}) = n + 1 /\ Cardinality(S \ {y}) = n + 1
              BY <1>3, <2>1, <3>1
          <3> HIDE DEF y
          <3>3. g[S \ {y}] = f[x] + g[(S \ {y}) \ {x}]
              BY <1>5, <2>1, <3>1, <3>2 DEF y
          <3>4. g[S \ {x}] = f[y] + g[(S \ {x}) \ {y}]
              BY <1>5, <2>1, <3>1, <3>2 DEF y
          <3>5. PICK T \in SUBSET U : T = (S \ {y}) \ {x} /\ T = (S \ {x}) \ {y}
              OBVIOUS
          <3>6. g[S] = f[y] + g[S \ {y}]
              BY <1>2, <1>3, <2>1 DEF y
          <3>7. f[x] \in Nat /\ f[y] \in Nat /\ g[T] \in Nat
              BY <1>1, <3>1
          <3>8. g[S \ {y}] = f[x] + g[T] /\ g[S \ {x}] = f[y] + g[T]
              BY <3>3, <3>4, <3>5
          <3>. QED  BY <3>6, <3>7, <3>8
      <2>. QED  BY <1>2, <2>1, <1>3
  <1>6. ASSUME NEW S \in SUBSET U, NEW x \in S PROVE g[S] = f[x] + g[S \ {x}]
      <2> HIDE DEF Good
      <2>1. Cardinality(S) - 1 \in Nat /\ (Cardinality(S) - 1) + 1 = Cardinality(S)
          BY <1>3
      <2>2. 0 .. Cardinality(S) - 1 \subseteq Good
          BY <1>4, <1>5, <2>1, CountingUp
      <2>. QED  BY <2>1, <2>2 DEF Good
  <1>. QED  BY <1>6 DEF AnyOrder

\* ... nor which set they are subsets of.
LEMMA SumsAgree ==
  ASSUME NEW U, IsFiniteSet(U), NEW f, NEW g, Sums(g, f, U), NEW V \in SUBSET U, NEW h, Sums(h, f, V)
  PROVE  g[V] = h[V]
  <1> DEFINE Good == {n \in Nat : \A S \in SUBSET V : Cardinality(S) = n => g[S] = h[S]}
  <1>1. \A S \in SUBSET V : IsFiniteSet(S) /\ S \in SUBSET U
      BY FS_Subset
  <1>2. \A S \in SUBSET V : /\ g[S] = IF S = {} THEN 0 ELSE f[SomeOf(S)] + g[S \ {SomeOf(S)}]
                            /\ h[S] = IF S = {} THEN 0 ELSE f[SomeOf(S)] + h[S \ {SomeOf(S)}]
      BY <1>1 DEF Sums
  <1>3. 0 \in Good
      BY <1>1, <1>2, PickOne
  <1>4. ASSUME NEW n \in Nat, n \in Good PROVE n + 1 \in Good
      <2>1. ASSUME NEW S \in SUBSET V, Cardinality(S) = n + 1 PROVE g[S] = h[S]
          <3>0. IsFiniteSet(S) /\ n + 1 # 0 /\ (n + 1) - 1 = n
              BY <1>1
          <3>1. S # {} /\ S \ {SomeOf(S)} \in SUBSET V /\ Cardinality(S \ {SomeOf(S)}) = n
              <4>1. S # {}
                  BY <2>1, <3>0, PickOne
              <4>. QED  BY <2>1, <3>0, <4>1, PickOne
          <3>2. g[S \ {SomeOf(S)}] = h[S \ {SomeOf(S)}]
              BY <1>4, <3>1
          <3>. QED  BY <1>2, <3>1, <3>2
      <2>. QED  BY <2>1
  <1> HIDE DEF Good
  <1>5. Cardinality(V) \in Nat
      BY <1>1, PickOne
  <1>6. 0 .. Cardinality(V) \subseteq Good
      BY <1>3, <1>4, <1>5, CountingUp
  <1>. QED  BY <1>5, <1>6 DEF Good

\* Total is what any such function gives.
LEMMA TotalIs ==
  ASSUME NEW U, IsFiniteSet(U), NEW f, \A x \in U : f[x] \in Nat, NEW g, Sums(g, f, U)
  PROVE  \A S \in SUBSET U : Total(f, S) = g[S]
  <1>1. ASSUME NEW S \in SUBSET U PROVE Total(f, S) = g[S]
      <2> DEFINE iter == CHOOSE h : h = [s \in SUBSET S |->
                            IF s = {} THEN 0 ELSE f[CHOOSE x \in s : TRUE] + h[s \ {CHOOSE x \in s : TRUE}]]
      <2>1. Total(f, S) = iter[S]
          BY DEF Total, MapThenSumSet, MapThenFoldSet
      <2>2. \E h : Sums(h, f, S)
          BY SumsExist, FS_Subset
      <2>3. Sums(iter, f, S)
          BY <2>2 DEF Sums, SomeOf
      <2> HIDE DEF iter
      <2>. QED  BY <2>1, <2>3, SumsAgree
  <1>. QED  BY <1>1

\* The sum of nothing, and the sum with one element more.
LEMMA TotalRec ==
  ASSUME NEW U, IsFiniteSet(U), NEW f, \A x \in U : f[x] \in Nat
  PROVE  /\ Total(f, {}) = 0
         /\ \A S \in SUBSET U : Total(f, S) \in Nat
         /\ \A S \in SUBSET U : \A x \in U \ S : Total(f, S \cup {x}) = f[x] + Total(f, S)
         /\ \A S \in SUBSET U : \A x \in S : Total(f, S) = f[x] + Total(f, S \ {x})
  <1>0. \A x \in U : f[x] \in Nat
      OBVIOUS
  <1>1. PICK g \in [SUBSET U -> Nat] : Sums(g, f, U)
      BY SumsExist
  <1>2. \A S \in SUBSET U : Total(f, S) = g[S]
      BY <1>1, TotalIs
  <1>3. \A S \in SUBSET U : \A x \in S : g[S] = f[x] + g[S \ {x}]
      <2>1. AnyOrder(g, f, U)
          BY <1>0, <1>1, SumsAnyOrder
      <2>. QED  BY <2>1 DEF AnyOrder
  <1>4. g[{}] = 0
      BY <1>1 DEF Sums
  <1>5. ASSUME NEW S \in SUBSET U, NEW x \in U \ S PROVE Total(f, S \cup {x}) = f[x] + Total(f, S)
      <2>1. (S \cup {x}) \ {x} = S /\ S \cup {x} \in SUBSET U /\ x \in S \cup {x}
          OBVIOUS
      <2>2. g[S \cup {x}] = f[x] + g[(S \cup {x}) \ {x}]
          BY <1>3, <2>1
      <2>. QED  BY <1>2, <2>1, <2>2
  <1>6. ASSUME NEW S \in SUBSET U, NEW x \in S PROVE Total(f, S) = f[x] + Total(f, S \ {x})
      <2>1. S \ {x} \in SUBSET U
          OBVIOUS
      <2>. QED  BY <1>2, <1>3, <2>1
  <1>. QED  BY <1>1, <1>2, <1>4, <1>5, <1>6

\* A sum grows with its terms.
LEMMA TotalGrows ==
  ASSUME NEW T, IsFiniteSet(T), NEW f, NEW g,
         \A x \in T : f[x] \in Nat /\ g[x] \in Nat /\ f[x] <= g[x]
  PROVE  Total(f, T) <= Total(g, T)
  <1> DEFINE G == {S \in SUBSET T : Total(f, S) <= Total(g, S)}
  <1>1. {} \in G
      BY TotalRec
  <1>2. ASSUME NEW S \in SUBSET T, NEW x \in T \ S, S \in G PROVE S \cup {x} \in G
      <2>1. Total(f, S) \in Nat /\ Total(g, S) \in Nat
          BY TotalRec
      <2>2. Total(f, S \cup {x}) = f[x] + Total(f, S) /\ Total(g, S \cup {x}) = g[x] + Total(g, S)
          BY TotalRec
      <2>. QED  BY <1>2, <2>1, <2>2
  <1> HIDE DEF G
  <1>3. T \in G
      BY <1>1, <1>2, AddingElements
  <1>. QED  BY <1>3 DEF G

\* ... and with their number; in particular it is not below any of them.
LEMMA TotalSubset ==
  ASSUME NEW T, IsFiniteSet(T), NEW f, \A x \in T : f[x] \in Nat, NEW S \in SUBSET T
  PROVE  Total(f, S) <= Total(f, T)
  <1> DEFINE G == {R \in SUBSET T : Total(f, S \cap R) <= Total(f, R)}
  <1>1. {} \in G
      <2>1. Total(f, {}) \in Nat /\ S \cap {} = {}
          BY TotalRec
      <2>. QED  BY <2>1
  <1>2. ASSUME NEW R \in SUBSET T, NEW x \in T \ R, R \in G PROVE R \cup {x} \in G
      <2>1. S \cap R \in SUBSET T /\ x \in T \ (S \cap R)
          OBVIOUS
      <2>2. Total(f, S \cap R) \in Nat /\ Total(f, R) \in Nat /\ f[x] \in Nat
          BY <2>1, TotalRec
      <2>3. Total(f, R \cup {x}) = f[x] + Total(f, R)
          BY TotalRec
      <2>4. Total(f, S \cap (R \cup {x})) <= f[x] + Total(f, S \cap R)
          <3>1. CASE x \in S
              <4>1. S \cap (R \cup {x}) = (S \cap R) \cup {x}
                  BY <3>1
              <4>2. Total(f, (S \cap R) \cup {x}) = f[x] + Total(f, S \cap R)
                  BY <2>1, TotalRec
              <4>3. Total(f, S \cap (R \cup {x})) = Total(f, (S \cap R) \cup {x})
                  BY <4>1, Zenon
              <4>. QED  BY <2>2, <4>2, <4>3
          <3>2. CASE x \notin S
              <4>1. S \cap (R \cup {x}) = S \cap R
                  BY <3>2
              <4>2. Total(f, S \cap (R \cup {x})) = Total(f, S \cap R)
                  BY <4>1, Zenon
              <4>. QED  BY <2>2, <4>2
          <3>. QED  BY <3>1, <3>2
      <2>5. Total(f, S \cap R) <= Total(f, R)
          BY <1>2
      <2>6. S \cap (R \cup {x}) \in SUBSET T
          OBVIOUS
      <2>7. Total(f, S \cap (R \cup {x})) \in Nat
          BY <2>6, TotalRec
      <2>8. Total(f, S \cap (R \cup {x})) <= Total(f, R \cup {x})
          BY <2>2, <2>3, <2>4, <2>5, <2>7
      <2>. QED  BY <2>8
  <1>3. T \in G
      <2> HIDE DEF G
      <2>. QED  BY <1>1, <1>2, AddingElements
  <1>4. S \cap T = S
      OBVIOUS
  <1>. QED  BY <1>3, <1>4

\* The sum of two functions, and of a constant.
LEMMA TotalPlus ==
  ASSUME NEW T, IsFiniteSet(T), NEW f, NEW g, NEW h,
         \A x \in T : f[x] \in Nat /\ g[x] \in Nat /\ h[x] = f[x] + g[x]
  PROVE  Total(h, T) = Total(f, T) + Total(g, T)
  <1> DEFINE G == {S \in SUBSET T : Total(h, S) = Total(f, S) + Total(g, S)}
  <1>0. \A x \in T : h[x] \in Nat
      OBVIOUS
  <1>1. {} \in G
      BY <1>0, TotalRec
  <1>2. ASSUME NEW S \in SUBSET T, NEW x \in T \ S, S \in G PROVE S \cup {x} \in G
      <2>1. Total(f, S) \in Nat /\ Total(g, S) \in Nat /\ Total(h, S) \in Nat
          BY <1>0, TotalRec
      <2>2. /\ Total(f, S \cup {x}) = f[x] + Total(f, S) /\ Total(g, S \cup {x}) = g[x] + Total(g, S)
            /\ Total(h, S \cup {x}) = h[x] + Total(h, S)
          BY <1>0, TotalRec
      <2>. QED  BY <1>2, <2>1, <2>2
  <1> HIDE DEF G
  <1>3. T \in G
      BY <1>1, <1>2, AddingElements
  <1>. QED  BY <1>3 DEF G

\* The sum of a constant.
LEMMA TotalConstant ==
  ASSUME NEW T, IsFiniteSet(T), NEW c \in Nat, NEW f, \A x \in T : f[x] = c
  PROVE  Total(f, T) = Cardinality(T) * c
  <1> DEFINE G == {S \in SUBSET T : Total(f, S) = Cardinality(S) * c}
  <1>0. \A x \in T : f[x] \in Nat
      OBVIOUS
  <1>1. {} \in G
      <2>1. Cardinality({}) = 0 /\ Total(f, {}) = 0
          BY <1>0, TotalRec, FS_EmptySet
      <2>. QED  BY <2>1
  <1>2. ASSUME NEW S \in SUBSET T, NEW x \in T \ S, S \in G PROVE S \cup {x} \in G
      <2>1. IsFiniteSet(S) /\ Cardinality(S) \in Nat
          BY FS_Subset, FS_CardinalityType
      <2>2. Cardinality(S \cup {x}) = Cardinality(S) + 1
          BY <2>1, FS_AddElement
      <2>3. Total(f, S \cup {x}) = c + Total(f, S)
          BY <1>0, TotalRec
      <2>. QED  BY <1>2, <2>1, <2>2, <2>3
  <1> HIDE DEF G
  <1>3. T \in G
      BY <1>1, <1>2, AddingElements
  <1>. QED  BY <1>3 DEF G

\* The sum over the images of different elements.
LEMMA TotalMap ==
  ASSUME NEW T, IsFiniteSet(T), NEW h, \A x, y \in T : h[x] = h[y] => x = y,
         NEW f, NEW g, \A x \in T : f[x] \in Nat /\ g[h[x]] = f[x]
  PROVE  Total(g, {h[x] : x \in T}) = Total(f, T)
  <1> DEFINE Im(S) == {h[x] : x \in S}
             G == {S \in SUBSET T : IsFiniteSet(Im(S)) /\ Total(g, Im(S)) = Total(f, S)}
  <1>1. {} \in G
      <2>1. Im({}) = {} /\ IsFiniteSet({})
          BY FS_EmptySet
      <2>2. Total(g, {}) = 0 /\ Total(f, {}) = 0
          BY <2>1, TotalRec
      <2>. QED  BY <2>1, <2>2
  <1>2. ASSUME NEW S \in SUBSET T, NEW x \in T \ S, S \in G PROVE S \cup {x} \in G
      <2>1. Im(S \cup {x}) = Im(S) \cup {h[x]} /\ h[x] \notin Im(S)
          OBVIOUS
      <2>2. IsFiniteSet(Im(S) \cup {h[x]})
          BY <1>2, FS_AddElement
      <2>3. \A y \in Im(S) \cup {h[x]} : g[y] \in Nat
          OBVIOUS
      <2>4. Im(S) \in SUBSET (Im(S) \cup {h[x]}) /\ h[x] \in (Im(S) \cup {h[x]}) \ Im(S)
          BY <2>1
      <2>5. Total(g, Im(S) \cup {h[x]}) = g[h[x]] + Total(g, Im(S))
          <3> HIDE DEF Im
          <3>. QED  BY <2>2, <2>3, <2>4, TotalRec
      <2>6. Total(f, S \cup {x}) = f[x] + Total(f, S)
          BY TotalRec
      <2>. QED  BY <1>2, <2>1, <2>2, <2>5, <2>6
  <1> HIDE DEF G
  <1>3. T \in G
      BY <1>1, <1>2, AddingElements
  <1>. QED  BY <1>3 DEF G

\* A finite set of numbers that is not empty has a largest one.
LEMMA MaxIs ==
  ASSUME NEW S \in SUBSET Nat, IsFiniteSet(S), S # {}
  PROVE  Max(S) \in S /\ \A x \in S : x <= Max(S)
  <1> DEFINE G == {R \in SUBSET S : R = {} \/ \E m \in R : \A x \in R : m >= x}
  <1>1. {} \in G
      OBVIOUS
  <1>2. ASSUME NEW R \in SUBSET S, NEW x \in S \ R, R \in G PROVE R \cup {x} \in G
      <2>1. CASE R = {}
          BY <2>1
      <2>2. CASE R # {}
          <3>1. PICK m \in R : \A y \in R : m >= y
              BY <1>2, <2>2
          <3>2. m \in Nat /\ x \in Nat /\ \A y \in R : y \in Nat
              OBVIOUS
          <3>3. CASE x >= m
              <4>1. \A y \in R \cup {x} : x >= y
                  BY <3>1, <3>2, <3>3
              <4>. QED  BY <4>1
          <3>4. CASE ~(x >= m)
              <4>1. \A y \in R \cup {x} : m >= y
                  BY <3>1, <3>2, <3>4
              <4>. QED  BY <4>1
          <3>. QED  BY <3>3, <3>4
      <2>. QED  BY <2>1, <2>2
  <1> HIDE DEF G
  <1>3. S \in G
      BY <1>1, <1>2, AddingElements
  <1>4. \E m \in S : \A x \in S : m >= x
      BY <1>3 DEF G
  <1>5. Max(S) \in S /\ \A x \in S : Max(S) >= x
      BY <1>4 DEF Max
  <1>. QED  BY <1>5

\* The image of a finite set is finite.
LEMMA ImageFinite ==
  ASSUME NEW T, IsFiniteSet(T), NEW f
  PROVE  IsFiniteSet({f[x] : x \in T})
  <1> DEFINE G == {S \in SUBSET T : IsFiniteSet({f[x] : x \in S})}
  <1>1. {} \in G
      <2>1. {f[x] : x \in {}} = {}
          OBVIOUS
      <2>. QED  BY <2>1, FS_EmptySet
  <1>2. ASSUME NEW S \in SUBSET T, NEW x \in T \ S, S \in G PROVE S \cup {x} \in G
      <2>1. {f[y] : y \in S \cup {x}} = {f[y] : y \in S} \cup {f[x]}
          OBVIOUS
      <2>2. IsFiniteSet({f[y] : y \in S} \cup {f[x]})
          BY <1>2, FS_AddElement
      <2>3. IsFiniteSet({f[y] : y \in S \cup {x}})
          BY <2>1, <2>2, Zenon
      <2>. QED  BY <2>3
  <1> HIDE DEF G
  <1>3. T \in G
      BY <1>1, <1>2, AddingElements
  <1>. QED  BY <1>3 DEF G

\* Different elements have as many images.
LEMMA CardinalityMap ==
  ASSUME NEW T, IsFiniteSet(T), NEW h, \A x, y \in T : h[x] = h[y] => x = y
  PROVE  IsFiniteSet({h[x] : x \in T}) /\ Cardinality({h[x] : x \in T}) = Cardinality(T)
  <1> DEFINE Im(S) == {h[x] : x \in S}
             G == {S \in SUBSET T : IsFiniteSet(Im(S)) /\ Cardinality(Im(S)) = Cardinality(S)}
  <1>1. {} \in G
      <2>1. Im({}) = {} /\ IsFiniteSet({})
          BY FS_EmptySet
      <2>. QED  BY <2>1
  <1>2. ASSUME NEW S \in SUBSET T, NEW x \in T \ S, S \in G PROVE S \cup {x} \in G
      <2>1. Im(S \cup {x}) = Im(S) \cup {h[x]} /\ h[x] \notin Im(S)
          OBVIOUS
      <2>2. IsFiniteSet(S) /\ IsFiniteSet(Im(S)) /\ Cardinality(Im(S)) = Cardinality(S)
          BY <1>2, FS_Subset
      <2> HIDE DEF Im
      <2>3. IsFiniteSet(Im(S) \cup {h[x]}) /\ Cardinality(Im(S) \cup {h[x]}) = Cardinality(Im(S)) + 1
          BY <2>1, <2>2, FS_AddElement
      <2>4. Cardinality(S \cup {x}) = Cardinality(S) + 1
          BY <2>2, FS_AddElement
      <2>5. IsFiniteSet(Im(S \cup {x})) /\ Cardinality(Im(S \cup {x})) = Cardinality(S \cup {x})
          BY <2>1, <2>2, <2>3, <2>4, Zenon
      <2>. QED  BY <2>5
  <1> HIDE DEF G
  <1>3. T \in G
      BY <1>1, <1>2, AddingElements
  <1>. QED  BY <1>3 DEF G
-----------------------------------------------------------------------------
(* The orders of Ordering.                                                  *)

\* B[x] is the set of those before x in a total order of S.
TotalOrder(B, S) ==
    /\ \A x \in S : B[x] \in SUBSET S /\ x \notin B[x]
    /\ \A x, y \in S : x \in B[y] => B[x] \subseteq B[y]
    /\ \A x, y \in S : x # y => x \in B[y] \/ y \in B[x]

\* Those earlier in the order have fewer before them ...
LEMMA RankGrows ==
  ASSUME NEW S, IsFiniteSet(S), NEW B, TotalOrder(B, S)
  PROVE  /\ \A x \in S : Cardinality(B[x]) \in 0 .. Cardinality(S) - 1
         /\ \A x, y \in S : x \in B[y] => Cardinality(B[x]) < Cardinality(B[y])
  <1>1. \A x \in S : IsFiniteSet(B[x]) /\ Cardinality(B[x]) \in Nat
      BY FS_Subset, FS_CardinalityType DEF TotalOrder
  <1>2. ASSUME NEW x \in S, NEW T, IsFiniteSet(T), x \in T, B[x] \subseteq T
        PROVE  Cardinality(B[x]) < Cardinality(T)
      <2>1. B[x] \subseteq T \ {x}
          BY <1>2 DEF TotalOrder
      <2>2. IsFiniteSet(T \ {x}) /\ Cardinality(T \ {x}) = Cardinality(T) - 1
          BY <1>2, FS_RemoveElement
      <2>3. Cardinality(B[x]) <= Cardinality(T) - 1
          BY <2>1, <2>2, FS_Subset
      <2>4. Cardinality(T) \in Nat /\ Cardinality(B[x]) \in Nat
          BY <1>1, <1>2, FS_CardinalityType
      <2>. QED  BY <2>3, <2>4
  <1>3. ASSUME NEW x \in S PROVE Cardinality(B[x]) \in 0 .. Cardinality(S) - 1
      <2>1. B[x] \subseteq S /\ Cardinality(S) \in Nat
          BY FS_CardinalityType DEF TotalOrder
      <2>2. Cardinality(B[x]) < Cardinality(S)
          BY <1>2, <2>1
      <2>. QED  BY <1>1, <2>1, <2>2
  <1>4. ASSUME NEW x \in S, NEW y \in S, x \in B[y] PROVE Cardinality(B[x]) < Cardinality(B[y])
      BY <1>1, <1>2, <1>4 DEF TotalOrder
  <1>. QED  BY <1>3, <1>4

\* ... so that each rank belongs to one of them, and to one only.
LEMMA RankHits ==
  ASSUME NEW S, IsFiniteSet(S), NEW B, TotalOrder(B, S)
  PROVE  /\ \A x, y \in S : Cardinality(B[x]) = Cardinality(B[y]) => x = y
         /\ \A k \in 1 .. Cardinality(S) : \E x \in S : Cardinality(B[x]) = k - 1
  <1> DEFINE r == [x \in S |-> Cardinality(B[x])]
             n == Cardinality(S)
             R == {r[x] : x \in S}
  <1>1. /\ \A x \in S : r[x] \in 0 .. n - 1
        /\ \A x, y \in S : x \in B[y] => r[x] < r[y]
      BY RankGrows
  <1>2. n \in Nat
      BY FS_CardinalityType
  <1>3. \A x, y \in S : r[x] = r[y] => x = y
      BY <1>1 DEF TotalOrder
  <1>4. Cardinality(R) = n
      <2> HIDE DEF r
      <2>. QED  BY <1>3, CardinalityMap
  <1>5. IsFiniteSet(0 .. n - 1) /\ Cardinality(0 .. n - 1) = n
      <2>1. 0 \in Int /\ n - 1 \in Int /\ (IF 0 > n - 1 THEN 0 ELSE n - 1 - 0 + 1) = n
          BY <1>2
      <2> HIDE DEF n
      <2>. QED  BY <2>1, FS_Interval
  <1>6. R \in SUBSET (0 .. n - 1)
      BY <1>1
  <1>7. R = 0 .. n - 1
      <2> HIDE DEF R, n
      <2>. QED  BY <1>4, <1>5, <1>6, FS_Subset
  <1>8. ASSUME NEW k \in 1 .. n PROVE \E x \in S : r[x] = k - 1
      <2>1. k - 1 \in R
          <3> HIDE DEF R, n
          <3>. QED  BY <1>2, <1>7
      <2>. QED  BY <2>1
  <1>. QED  BY <1>3, <1>8

\* InOrder lists the numbers of a set, each once, in ascending order.
LEMMA InOrderIs ==
  ASSUME NEW S \in SUBSET Nat, IsFiniteSet(S)
  PROVE  LET n == Cardinality(S)
             o == InOrder[S]
         IN  /\ n \in Nat /\ o \in [1 .. n -> S]
             /\ \A j, k \in 1 .. n : j < k => o[j] < o[k]
             /\ \A x \in S : \E k \in 1 .. n : o[k] = x
             /\ \A k \in 1 .. n, x \in S : Cardinality({y \in S : y < x}) = k - 1 => o[k] = x
  <1> DEFINE n == Cardinality(S)
             B == [x \in S |-> {y \in S : y < x}]
             r == [x \in S |-> Cardinality(B[x])]
             o == [k \in 1 .. n |-> CHOOSE x \in S : r[x] = k - 1]
  <1>1. InOrder[S] = o
      <2>1. InOrder[S] = [k \in 1 .. Cardinality(S) |->
                             CHOOSE x \in S : Cardinality({y \in S : y < x}) = k - 1]
          BY DEF InOrder
      <2>2. \A x \in S : r[x] = Cardinality({y \in S : y < x})
          OBVIOUS
      <2> HIDE DEF r
      <2>3. ASSUME NEW k \in 1 .. n
            PROVE  (CHOOSE x \in S : Cardinality({y \in S : y < x}) = k - 1) = (CHOOSE x \in S : r[x] = k - 1)
          <3>1. \A x : (x \in S /\ Cardinality({y \in S : y < x}) = k - 1) <=> (x \in S /\ r[x] = k - 1)
              BY <2>2
          <3>. QED  BY <3>1
      <2>. QED  BY <2>1, <2>3
  <1>2. TotalOrder(B, S)
      <2>1. \A x \in S : x \in Int
          OBVIOUS
      <2>2. \A x \in S : B[x] = {y \in S : y < x}
          OBVIOUS
      <2> HIDE DEF B
      <2>3. \A x \in S : B[x] \in SUBSET S /\ x \notin B[x]
          BY <2>1, <2>2
      <2>4. ASSUME NEW x \in S, NEW y \in S, x \in B[y] PROVE B[x] \subseteq B[y]
          <3>1. x < y
              BY <2>2, <2>4
          <3>2. \A z \in S : z < x => z < y
              BY <2>1, <3>1
          <3>. QED  BY <2>2, <3>2
      <2>5. ASSUME NEW x \in S, NEW y \in S, x # y PROVE x \in B[y] \/ y \in B[x]
          <3>1. x < y \/ y < x
              BY <2>1, <2>5
          <3>. QED  BY <2>2, <3>1
      <2>. QED  BY <2>3, <2>4, <2>5 DEF TotalOrder
  <1>3. n \in Nat
      BY FS_CardinalityType
  <1> HIDE DEF B, n
  <1>4. /\ \A x, y \in S : r[x] = r[y] => x = y
        /\ \A k \in 1 .. n : \E x \in S : r[x] = k - 1
        /\ \A x \in S : r[x] \in 0 .. n - 1
        /\ \A x, y \in S : x \in B[y] => r[x] < r[y]
      <2>1. /\ \A x, y \in S : Cardinality(B[x]) = Cardinality(B[y]) => x = y
            /\ \A k \in 1 .. n : \E x \in S : Cardinality(B[x]) = k - 1
          BY <1>2, RankHits DEF n
      <2>2. /\ \A x \in S : Cardinality(B[x]) \in 0 .. n - 1
            /\ \A x, y \in S : x \in B[y] => Cardinality(B[x]) < Cardinality(B[y])
          BY <1>2, RankGrows DEF n
      <2>. QED  BY <2>1, <2>2
  <1>5. \A x, y \in S : x < y => r[x] < r[y]
      BY <1>4 DEF B
  <1>6. \A x \in S : r[x] = Cardinality({y \in S : y < x})
      BY DEF B
  <1> HIDE DEF r
  <1>7. \A k \in 1 .. n : o[k] \in S /\ r[o[k]] = k - 1
      BY <1>4
  <1> HIDE DEF o
  <1>8. o \in [1 .. n -> S]
      BY <1>7 DEF o
  <1>9. ASSUME NEW j \in 1 .. n, NEW k \in 1 .. n, j < k PROVE o[j] < o[k]
      <2>1. r[o[j]] < r[o[k]] /\ o[j] \in Nat /\ o[k] \in Nat
          <3>1. j - 1 < k - 1 /\ o[j] \in S /\ o[k] \in S
              BY <1>3, <1>7, <1>9
          <3>. QED  BY <1>7, <3>1
      <2>2. o[k] < o[j] => r[o[k]] < r[o[j]]
          BY <1>5, <1>7
      <2>3. r[o[j]] \in Int /\ r[o[k]] \in Int
          BY <1>3, <1>7
      <2>. QED  BY <2>1, <2>2, <2>3
  <1>10. ASSUME NEW x \in S PROVE \E k \in 1 .. n : o[k] = x
      <2>1. r[x] + 1 \in 1 .. n /\ (r[x] + 1) - 1 = r[x]
          BY <1>3, <1>4
      <2>2. r[o[r[x] + 1]] = r[x]
          BY <1>7, <2>1
      <2>. QED  BY <1>4, <1>7, <2>1, <2>2
  <1>11. ASSUME NEW k \in 1 .. n, NEW x \in S, Cardinality({y \in S : y < x}) = k - 1 PROVE o[k] = x
      BY <1>4, <1>6, <1>7, <1>11, ZenonT(60)
  <1>. QED  BY <1>1, <1>3, <1>8, <1>9, <1>10, <1>11 DEF n

\* The numbers of an interval in order.
LEMMA IntervalInOrder ==
  ASSUME NEW m \in Nat, NEW n \in Nat, m <= n
  PROVE  InOrder[m + 1 .. n] = [k \in 1 .. n - m |-> m + k]
  <1> DEFINE S == m + 1 .. n
             o == InOrder[S]
  <1>1. IsFiniteSet(S) /\ Cardinality(S) = n - m
      <2>1. (IF m + 1 > n THEN 0 ELSE n - (m + 1) + 1) = n - m /\ m + 1 \in Int /\ n \in Int
          OBVIOUS
      <2>2. IsFiniteSet(S) /\ Cardinality(S) = IF m + 1 > n THEN 0 ELSE n - (m + 1) + 1
          BY <2>1, FS_Interval
      <2>. QED  BY <2>1, <2>2
  <1>2. S \in SUBSET Nat
      OBVIOUS
  <1>3. /\ o \in [1 .. n - m -> S]
        /\ \A k \in 1 .. n - m, x \in S : Cardinality({y \in S : y < x}) = k - 1 => o[k] = x
      <2> HIDE DEF S
      <2>. QED  BY <1>1, <1>2, InOrderIs
  <1>4. ASSUME NEW k \in 1 .. n - m PROVE o[k] = m + k
      <2>1. m + k \in S /\ {y \in S : y < m + k} = m + 1 .. m + k - 1
          OBVIOUS
      <2>2. m + 1 \in Int /\ m + k - 1 \in Int
            /\ (IF m + 1 > m + k - 1 THEN 0 ELSE m + k - 1 - (m + 1) + 1) = k - 1
          OBVIOUS
      <2>3. Cardinality(m + 1 .. m + k - 1) = k - 1
          BY <2>2, FS_Interval
      <2> HIDE DEF S, o
      <2>. QED  BY <1>3, <2>1, <2>3
  <1> HIDE DEF o
  <1>5. o = [k \in 1 .. n - m |-> m + k]
      BY <1>3, <1>4
  <1>. QED  BY <1>5 DEF o

\* argsort is a permutation of the positions, and the numbers are ascending along it.
LEMMA ArgsortIs ==
  ASSUME NEW s \in Seq(Nat)
  PROVE  LET n == Len(s)
             a == argsort[s]
         IN  /\ a \in [1 .. n -> 1 .. n]
             /\ \A j, k \in 1 .. n : a[j] = a[k] => j = k
             /\ \A i \in 1 .. n : \E k \in 1 .. n : a[k] = i
             /\ \A j, k \in 1 .. n : j <= k => s[a[j]] <= s[a[k]]
  <1> DEFINE n == Len(s)
             S == 1 .. n
             Before(i) == {j \in DOMAIN s : s[j] < s[i] \/ (s[j] = s[i] /\ j < i)}
             B == [i \in S |-> {j \in S : s[j] < s[i] \/ (s[j] = s[i] /\ j < i)}]
             r == [i \in S |-> Cardinality(B[i])]
             a == [k \in S |-> CHOOSE i \in S : r[i] = k - 1]
  <1>0. n \in Nat /\ DOMAIN s = S /\ \A i \in S : s[i] \in Nat
      OBVIOUS
  <1>1. argsort[s] = a
      <2>1. argsort[s] = [k \in DOMAIN s |-> CHOOSE i \in DOMAIN s : Cardinality(Before(i)) = k - 1]
          BY DEF argsort
      <2>2. \A i \in S : r[i] = Cardinality(Before(i))
          BY <1>0
      <2> HIDE DEF r, Before, n, S
      <2>3. ASSUME NEW k \in S
            PROVE  (CHOOSE i \in DOMAIN s : Cardinality(Before(i)) = k - 1) = (CHOOSE i \in S : r[i] = k - 1)
          <3>1. \A i : (i \in DOMAIN s /\ Cardinality(Before(i)) = k - 1) <=> (i \in S /\ r[i] = k - 1)
              BY <1>0, <2>2
          <3>. QED  BY <3>1
      <2>. QED  BY <1>0, <2>1, <2>3
  <1> HIDE DEF n
  <1>2. TotalOrder(B, S)
      <2> HIDE DEF S
      <2>1. \A i \in S : i \in Int
          BY <1>0 DEF S
      <2>. QED  BY <1>0, <2>1 DEF TotalOrder
  <1>3. IsFiniteSet(S) /\ Cardinality(S) = n
      <2>1. (IF 1 > n THEN 0 ELSE n - 1 + 1) = n
          BY <1>0
      <2>. QED  BY <1>0, <2>1, FS_Interval
  <1>4. \A i, j \in S : s[j] < s[i] => j \in B[i]
      OBVIOUS
  <1> HIDE DEF B, S
  <1>5. /\ \A i, j \in S : r[i] = r[j] => i = j
        /\ \A k \in 1 .. n : \E i \in S : r[i] = k - 1
        /\ \A i \in S : r[i] \in 0 .. n - 1
        /\ \A i, j \in S : i \in B[j] => r[i] < r[j]
      BY <1>2, <1>3, RankHits, RankGrows
  <1> HIDE DEF r
  <1>6. \A k \in S : a[k] \in S /\ r[a[k]] = k - 1
      BY <1>5 DEF S
  <1>7. a \in [S -> S]
      BY <1>6
  <1> HIDE DEF a
  <1>8. ASSUME NEW j \in S, NEW k \in S, a[j] = a[k] PROVE j = k
      <2>1. j - 1 = k - 1 /\ j \in Int /\ k \in Int
          BY <1>6, <1>8 DEF S
      <2>. QED  BY <2>1
  <1>9. ASSUME NEW i \in S PROVE \E k \in S : a[k] = i
      <2>1. r[i] + 1 \in S /\ (r[i] + 1) - 1 = r[i]
          BY <1>0, <1>5 DEF S
      <2>2. r[a[r[i] + 1]] = r[i]
          BY <1>6, <2>1
      <2>. QED  BY <1>5, <1>6, <2>1, <2>2
  <1>10. ASSUME NEW j \in S, NEW k \in S, j <= k PROVE s[a[j]] <= s[a[k]]
      <2>1. s[a[j]] \in Nat /\ s[a[k]] \in Nat /\ j \in Int /\ k \in Int
          BY <1>0, <1>6 DEF S
      <2>2. s[a[k]] < s[a[j]] => r[a[k]] < r[a[j]]
          BY <1>4, <1>5, <1>6
      <2>3. ~(k - 1 < j - 1)
          BY <1>10, <2>1
      <2>. QED  BY <1>6, <2>1, <2>2, <2>3
  <1>. QED  BY <1>1, <1>7, <1>8, <1>9, <1>10 DEF S, n

=============================================================================
