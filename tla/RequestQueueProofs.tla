------------------------- MODULE RequestQueueProofs -------------------------
(***************************************************************************)
(* The batches that the queue chooses fit, for every value of the          *)
(* constants: WithinWeightLimit, PrefillFits, NextBatchProgress and        *)
(* CutoffRespected of RequestQueue.                                        *)
(*                                                                         *)
(* exceeds_weight checks the segments up to the new request's length only, *)
(* and with lengths as they are before the prefill.  What makes that       *)
(* enough is an invariant about all the steps to come: Projected.          *)
(***************************************************************************)
EXTENDS RequestQueue, FiniteSums

-----------------------------------------------------------------------------
(* Space and weight.                                                        *)

\* Both parts of compute_stats, as functions and over any set of requests.
Ins  == [r \in Requests |-> InLen(r)]
Outs == [r \in Requests |-> OutLen(r)]

Longest(f, S) == Max({0} \cup {f[x] : x \in S})

\* The tokens for which a batch of the requests S with lengths f takes space.
Space(kind, f, S) == IF kind = "flash" THEN Total(f, S) ELSE Longest(f, S) * Cardinality(S)

\* What is left after d more steps of the requests in old, and of those in new, whose
\* prefill is still to come and gives them one token more.
LeftAfter(outs, old, new, d) == {r \in old : outs[r] > d} \cup {r \in new : outs[r] > d + 1}
LengthAfter(ins, new, d) == [r \in Requests |-> ins[r] + d + (IF r \in new THEN 1 ELSE 0)]

\* At no step to come does the batch exceed the weight limit.
Projected(kind, ins, outs, old, new) ==
    \A d \in Nat :
        NextTokenWeight(Space(kind, LengthAfter(ins, new, d), LeftAfter(outs, old, new, d))) <= WeightLimit

\* The longest length is an upper bound and, unless it is 0, is reached.
LEMMA LongestIs ==
  ASSUME NEW S, IsFiniteSet(S), NEW f, \A x \in S : f[x] \in Nat
  PROVE  /\ Longest(f, S) \in Nat /\ \A x \in S : f[x] <= Longest(f, S)
         /\ Longest(f, S) = 0 \/ \E x \in S : Longest(f, S) = f[x]
  <1> DEFINE V == {0} \cup {f[x] : x \in S}
  <1>1. IsFiniteSet({f[x] : x \in S})
      BY ImageFinite
  <1>2. IsFiniteSet(V) /\ V \in SUBSET Nat /\ V # {}
      BY <1>1, FS_AddElement
  <1>3. Max(V) \in V /\ \A v \in V : v <= Max(V)
      <2> HIDE DEF V
      <2>. QED  BY <1>2, MaxIs
  <1>4. Longest(f, S) = Max(V)
      BY DEF Longest
  <1>5. (\A x \in S : f[x] \in V) /\ \A v \in V : v \in Nat /\ (v = 0 \/ \E x \in S : v = f[x])
      OBVIOUS
  <1> HIDE DEF V
  <1>. QED  BY <1>3, <1>4, <1>5

\* More and longer requests take more space.
LEMMA SpaceGrows ==
  ASSUME NEW kind, NEW T, IsFiniteSet(T), NEW S \in SUBSET T, NEW f, NEW g,
         \A x \in T : g[x] \in Nat, \A x \in S : f[x] \in Nat /\ f[x] <= g[x]
  PROVE  Space(kind, f, S) \in Nat /\ Space(kind, g, T) \in Nat /\ Space(kind, f, S) <= Space(kind, g, T)
  <1>1. IsFiniteSet(S) /\ Cardinality(S) \in Nat /\ Cardinality(T) \in Nat /\ Cardinality(S) <= Cardinality(T)
      BY FS_Subset, FS_CardinalityType
  <1>2. Total(f, S) \in Nat /\ Total(g, S) \in Nat /\ Total(g, T) \in Nat
      BY <1>1, TotalRec
  <1>3. Total(f, S) <= Total(g, S) /\ Total(g, S) <= Total(g, T)
      BY <1>1, TotalGrows, TotalSubset
  <1>4. Longest(f, S) \in Nat /\ Longest(g, T) \in Nat /\ Longest(f, S) <= Longest(g, T)
      <2>1. Longest(f, S) \in Nat /\ (Longest(f, S) = 0 \/ \E x \in S : Longest(f, S) = f[x])
          BY <1>1, LongestIs
      <2>2. Longest(g, T) \in Nat /\ \A x \in T : g[x] <= Longest(g, T)
          BY LongestIs
      <2>. QED  BY <2>1, <2>2
  <1>5. Longest(f, S) * Cardinality(S) <= Longest(g, T) * Cardinality(T)
      BY <1>1, <1>4
  <1>6. Longest(f, S) * Cardinality(S) \in Nat /\ Longest(g, T) * Cardinality(T) \in Nat
      BY <1>1, <1>4
  <1>. QED  BY <1>2, <1>3, <1>5, <1>6 DEF Space

\* Fewer tokens weigh less.
LEMMA WeightGrows ==
  ASSUME NEW x \in Nat, NEW y \in Nat, x <= y
  PROVE  NextTokenWeight(x) \in Nat /\ NextTokenWeight(x) <= NextTokenWeight(y)
  <1>1. Scale \in Nat \ {0} /\ NextTokenGradient \in Nat
      BY QueueAssumption
  <1>2. x * NextTokenGradient \in Nat /\ y * NextTokenGradient \in Nat
        /\ x * NextTokenGradient <= y * NextTokenGradient
      BY <1>1
  <1>. QED  BY <1>1, <1>2 DEF NextTokenWeight

\* The comparison of exceeds_weight is exact; the weight itself is truncated.
LEMMA WeightTruncated ==
  ASSUME NEW x \in Nat, x * NextTokenGradient <= WeightLimit * Scale
  PROVE  NextTokenWeight(x) <= WeightLimit
  <1>1. Scale \in Nat \ {0} /\ NextTokenGradient \in Nat /\ WeightLimit \in Nat
      BY QueueAssumption
  <1>2. x * NextTokenGradient \in Nat
      BY <1>1
  <1>. QED  BY <1>1, <1>2 DEF NextTokenWeight

-----------------------------------------------------------------------------
(* The tree.                                                                *)

\* The tree holds the lengths of the requests rs, told apart by an index.
IsTree(tree, ins, outs, rs) ==
    \E x \in [rs -> Nat] :
        /\ \A q, r \in rs : x[q] = x[r] => q = r
        /\ \A r \in rs : x[r] < Cardinality(rs)
        /\ tree = {<<outs[r], ins[r], x[r]>> : r \in rs}

\* The tuples of the tree are as many as the requests.
LEMMA TreeSize ==
  ASSUME NEW rs, IsFiniteSet(rs), NEW ins, NEW outs, NEW tree, IsTree(tree, ins, outs, rs)
  PROVE  IsFiniteSet(tree) /\ Cardinality(tree) = Cardinality(rs)
  <1>1. PICK x \in [rs -> Nat] : /\ \A q, r \in rs : x[q] = x[r] => q = r
                                 /\ tree = {<<outs[r], ins[r], x[r]>> : r \in rs}
      BY DEF IsTree
  <1> DEFINE h == [r \in rs |-> <<outs[r], ins[r], x[r]>>]
  <1>2. \A q, r \in rs : h[q] = h[r] => q = r
      BY <1>1
  <1>3. tree = {h[r] : r \in rs}
      BY <1>1
  <1> HIDE DEF h
  <1>. QED  BY <1>2, <1>3, CardinalityMap

\* get_or_insert_with: the tree of the entries and the requests chosen before.
LEMMA TreeStarts ==
  ASSUME NEW rs \in SUBSET Requests, IsFiniteSet(rs)
  PROVE  IsTree({<<OutLen(r), InLen(r), Cardinality({q \in rs : q < r})>> : r \in rs}, Ins, Outs, rs)
  <1> DEFINE Below(r) == {q \in rs : q < r}
             x == [r \in rs |-> Cardinality(Below(r))]
  <1>0. \A r \in rs : r \in Nat
      BY QueueAssumption
  <1>1. \A r \in rs : Below(r) \in SUBSET rs /\ Below(r) \in SUBSET (rs \ {r})
      BY <1>0
  <1>2. \A r \in rs : IsFiniteSet(Below(r)) /\ Cardinality(Below(r)) \in Nat
      BY <1>1, FS_Subset, FS_CardinalityType
  <1>3. ASSUME NEW r \in rs PROVE Cardinality(Below(r)) < Cardinality(rs)
      <2>1. IsFiniteSet(rs \ {r}) /\ Cardinality(rs \ {r}) = Cardinality(rs) - 1 /\ Cardinality(rs) \in Nat
          BY FS_RemoveElement, FS_CardinalityType
      <2> HIDE DEF Below
      <2>2. Cardinality(Below(r)) <= Cardinality(rs \ {r})
          BY <1>1, <2>1, FS_Subset
      <2>. QED  BY <1>2, <2>1, <2>2
  <1>4. ASSUME NEW q \in rs, NEW r \in rs, q < r PROVE Cardinality(Below(q)) < Cardinality(Below(r))
      <2>1. q \in Below(r) /\ Below(q) \in SUBSET (Below(r) \ {q})
          BY <1>0, <1>4
      <2> HIDE DEF Below
      <2>2. IsFiniteSet(Below(r) \ {q}) /\ Cardinality(Below(r) \ {q}) = Cardinality(Below(r)) - 1
          BY <1>2, <2>1, FS_RemoveElement
      <2>3. Cardinality(Below(q)) <= Cardinality(Below(r) \ {q})
          BY <2>1, <2>2, FS_Subset
      <2>. QED  BY <1>2, <2>2, <2>3
  <1>5. \A q, r \in rs : x[q] = x[r] => q = r
      <2> HIDE DEF Below
      <2>1. ASSUME NEW q \in rs, NEW r \in rs, x[q] = x[r] PROVE q = r
          <3>1. q < r \/ r < q \/ q = r
              BY <1>0
          <3>2. Cardinality(Below(q)) \in Nat /\ Cardinality(Below(q)) = Cardinality(Below(r))
              BY <1>2, <2>1
          <3>. QED  BY <1>4, <3>1, <3>2
      <2>. QED  BY <2>1
  <1>6. x \in [rs -> Nat] /\ \A r \in rs : x[r] < Cardinality(rs)
      <2> HIDE DEF Below
      <2>. QED  BY <1>2, <1>3
  <1>7. {<<OutLen(r), InLen(r), Cardinality({q \in rs : q < r})>> : r \in rs}
        = {<<Outs[r], Ins[r], x[r]>> : r \in rs}
      BY DEF Outs, Ins
  <1> HIDE DEF x
  <1>. QED  BY <1>5, <1>6, <1>7 DEF IsTree

\* tree.insert: one request more.
LEMMA TreeGrows ==
  ASSUME NEW rs \in SUBSET Requests, IsFiniteSet(rs), NEW tree, IsTree(tree, Ins, Outs, rs),
         NEW r \in Requests \ rs
  PROVE  IsTree(Grow(tree, r), Ins, Outs, rs \cup {r})
  <1>1. PICK x \in [rs -> Nat] : /\ \A p, q \in rs : x[p] = x[q] => p = q
                                 /\ \A p \in rs : x[p] < Cardinality(rs)
                                 /\ tree = {<<Outs[p], Ins[p], x[p]>> : p \in rs}
      BY DEF IsTree
  <1>2. Cardinality(tree) = Cardinality(rs) /\ Cardinality(rs) \in Nat
        /\ Cardinality(rs \cup {r}) = Cardinality(rs) + 1
      BY TreeSize, FS_CardinalityType, FS_AddElement
  <1> DEFINE y == [p \in rs \cup {r} |-> IF p = r THEN Cardinality(rs) ELSE x[p]]
  <1>3. y \in [rs \cup {r} -> Nat] /\ \A p \in rs \cup {r} : y[p] < Cardinality(rs \cup {r})
      BY <1>1, <1>2
  <1>4. \A p, q \in rs \cup {r} : y[p] = y[q] => p = q
      BY <1>1, <1>2
  <1>5. Grow(tree, r) = {<<Outs[p], Ins[p], y[p]>> : p \in rs \cup {r}}
      <2>1. Grow(tree, r) = tree \cup {<<Outs[r], Ins[r], Cardinality(rs)>>}
          BY <1>2 DEF Grow, Ins, Outs
      <2>2. \A p \in rs : y[p] = x[p]
          OBVIOUS
      <2>3. y[r] = Cardinality(rs)
          OBVIOUS
      <2> HIDE DEF y
      <2>. QED  BY <1>1, <2>1, <2>2, <2>3
  <1> HIDE DEF y
  <1>. QED  BY <1>3, <1>4, <1>5 DEF IsTree

\* The tree has a first tuple from any length on.
LEMMA FirstTuple ==
  ASSUME NEW A \in SUBSET (Nat \X Nat \X Nat), A # {}
  PROVE  \E e \in A : \A f \in A : AtLeast(f, e)
  <1>1. PICK o \in {f[1] : f \in A} : \A p \in {f[1] : f \in A} : o <= p
      <2>1. {f[1] : f \in A} \in SUBSET Nat /\ {f[1] : f \in A} # {}
          OBVIOUS
      <2>. QED  BY <2>1, LeastNat
  <1> DEFINE B == {f \in A : f[1] = o}
  <1>2. PICK i \in {f[2] : f \in B} : \A p \in {f[2] : f \in B} : i <= p
      <2>1. {f[2] : f \in B} \in SUBSET Nat /\ {f[2] : f \in B} # {}
          OBVIOUS
      <2>. QED  BY <2>1, LeastNat
  <1> DEFINE C == {f \in B : f[2] = i}
  <1>3. PICK k \in {f[3] : f \in C} : \A p \in {f[3] : f \in C} : k <= p
      <2>1. {f[3] : f \in C} \in SUBSET Nat /\ {f[3] : f \in C} # {}
          OBVIOUS
      <2>. QED  BY <2>1, LeastNat
  <1>4. PICK e \in A : e[1] = o /\ e[2] = i /\ e[3] = k
      OBVIOUS
  <1>5. ASSUME NEW f \in A PROVE AtLeast(f, e)
      <2>1. /\ f[1] \in Nat /\ f[2] \in Nat /\ f[3] \in Nat /\ o \in Nat /\ i \in Nat /\ k \in Nat
            /\ o <= f[1] /\ (f[1] = o => i <= f[2]) /\ (f[1] = o /\ f[2] = i => k <= f[3])
          BY <1>1, <1>2, <1>3
      <2>. QED  BY <1>4, <2>1 DEF AtLeast
  <1>. QED  BY <1>5

\* The sum over the tuples is the one over the requests.
LEMMA TupleSum ==
  ASSUME NEW A, IsFiniteSet(A), \A f \in A : f[2] \in Nat
  PROVE  MapThenSumSet(LAMBDA f : f[2], A) = Total([f \in A |-> f[2]], A)
  <1> DEFINE w == [f \in A |-> f[2]]
             iter == CHOOSE g : g = [s \in SUBSET A |->
                        IF s = {} THEN 0 ELSE (CHOOSE x \in s : TRUE)[2] + g[s \ {CHOOSE x \in s : TRUE}]]
  <1>1. MapThenSumSet(LAMBDA f : f[2], A) = iter[A]
      BY DEF MapThenSumSet, MapThenFoldSet
  <1>2. \A s \in SUBSET A : s # {} => (CHOOSE x \in s : TRUE)[2] = w[SomeOf(s)]
      BY DEF SomeOf
  <1>3. \A x \in A : w[x] \in Nat
      OBVIOUS
  <1> HIDE DEF w
  <1>4. PICK g : Sums(g, w, A)
      BY <1>3, SumsExist
  <1>5. g = [s \in SUBSET A |->
                IF s = {} THEN 0 ELSE (CHOOSE x \in s : TRUE)[2] + g[s \ {CHOOSE x \in s : TRUE}]]
      BY <1>2, <1>4 DEF Sums, SomeOf
  <1>6. iter = [s \in SUBSET A |->
                IF s = {} THEN 0 ELSE (CHOOSE x \in s : TRUE)[2] + iter[s \ {CHOOSE x \in s : TRUE}]]
      BY <1>5
  <1> HIDE DEF iter
  <1>7. Sums(iter, w, A)
      BY <1>2, <1>6 DEF Sums, SomeOf
  <1>8. iter[A] = Total(w, A)
      BY <1>3, <1>7, TotalIs
  <1>. QED  BY <1>1, <1>8 DEF w

\* The sums of compute_stats.
LEMMA InputSum ==
  ASSUME NEW rs \in SUBSET Requests, IsFiniteSet(rs), \A r \in rs : Ins[r] \in Nat
  PROVE  MapThenSumSet(InLen, rs) = Total(Ins, rs)
  <1> DEFINE iter == CHOOSE g : g = [s \in SUBSET rs |->
                        IF s = {} THEN 0
                        ELSE InLen(CHOOSE x \in s : TRUE) + g[s \ {CHOOSE x \in s : TRUE}]]
  <1>1. MapThenSumSet(InLen, rs) = iter[rs]
      BY DEF MapThenSumSet, MapThenFoldSet
  <1>2. \A s \in SUBSET rs : s # {} => InLen(CHOOSE x \in s : TRUE) = Ins[SomeOf(s)]
      BY DEF SomeOf, Ins
  <1>3. PICK g : Sums(g, Ins, rs)
      BY SumsExist
  <1>4. g = [s \in SUBSET rs |->
                IF s = {} THEN 0
                ELSE InLen(CHOOSE x \in s : TRUE) + g[s \ {CHOOSE x \in s : TRUE}]]
      BY <1>2, <1>3 DEF Sums, SomeOf
  <1>5. iter = [s \in SUBSET rs |->
                IF s = {} THEN 0
                ELSE InLen(CHOOSE x \in s : TRUE) + iter[s \ {CHOOSE x \in s : TRUE}]]
      BY <1>4
  <1> HIDE DEF iter
  <1>6. Sums(iter, Ins, rs)
      BY <1>2, <1>5 DEF Sums, SomeOf
  <1>7. iter[rs] = Total(Ins, rs)
      BY <1>6, TotalIs
  <1>. QED  BY <1>1, <1>7

\* The same for the outputs.
LEMMA OutputSum ==
  ASSUME NEW rs \in SUBSET Requests, IsFiniteSet(rs), \A r \in rs : Outs[r] \in Nat
  PROVE  MapThenSumSet(OutLen, rs) = Total(Outs, rs)
  <1> DEFINE iter == CHOOSE g : g = [s \in SUBSET rs |->
                        IF s = {} THEN 0
                        ELSE OutLen(CHOOSE x \in s : TRUE) + g[s \ {CHOOSE x \in s : TRUE}]]
  <1>1. MapThenSumSet(OutLen, rs) = iter[rs]
      BY DEF MapThenSumSet, MapThenFoldSet
  <1>2. \A s \in SUBSET rs : s # {} => OutLen(CHOOSE x \in s : TRUE) = Outs[SomeOf(s)]
      BY DEF SomeOf, Outs
  <1>3. PICK g : Sums(g, Outs, rs)
      BY SumsExist
  <1>4. g = [s \in SUBSET rs |->
                IF s = {} THEN 0
                ELSE OutLen(CHOOSE x \in s : TRUE) + g[s \ {CHOOSE x \in s : TRUE}]]
      BY <1>2, <1>3 DEF Sums, SomeOf
  <1>5. iter = [s \in SUBSET rs |->
                IF s = {} THEN 0
                ELSE OutLen(CHOOSE x \in s : TRUE) + iter[s \ {CHOOSE x \in s : TRUE}]]
      BY <1>4
  <1> HIDE DEF iter
  <1>6. Sums(iter, Outs, rs)
      BY <1>2, <1>5 DEF Sums, SomeOf
  <1>7. iter[rs] = Total(Outs, rs)
      BY <1>6, TotalIs
  <1>. QED  BY <1>1, <1>7

-----------------------------------------------------------------------------
(* What the checks of try_next_batch establish.                             *)

\* The lengths of requests: they have something left to generate.
Lengths(ins, outs, rs) ==
    /\ IsFiniteSet(rs) /\ rs \in SUBSET Requests
    /\ \A r \in rs : ins[r] \in Nat /\ outs[r] \in Nat \ {0}

\* exceeds_weight accepts: with d further tokens for each, the requests that are to
\* generate as many fit, for any d up to the length of the new request.
LEMMA SegmentFits ==
  ASSUME NEW rs, NEW ins, NEW outs, Lengths(ins, outs, rs), NEW tree, IsTree(tree, ins, outs, rs),
         NEW r \in rs, ~exceeds_weight(tree, outs[r]), NEW d \in Nat, d <= outs[r],
         NEW len, \A q \in rs : len[q] = ins[q] + d
  PROVE  NextTokenWeight(Space(Kind, len, {q \in rs : outs[q] >= d})) <= WeightLimit
  <1> DEFINE T == {q \in rs : outs[q] >= d}
  <1> SUFFICES NextTokenWeight(Space(Kind, len, T)) <= WeightLimit
      OBVIOUS
  <1>1. PICK x \in [rs -> Nat] : /\ \A p, q \in rs : x[p] = x[q] => p = q
                                 /\ tree = {<<outs[q], ins[q], x[q]>> : q \in rs}
      BY DEF IsTree
  <1> DEFINE h == [q \in rs |-> <<outs[q], ins[q], x[q]>>]
             A == {f \in tree : f[1] >= d}
  <1>2. tree = {h[q] : q \in rs} /\ tree \in SUBSET (Nat \X Nat \X Nat)
      BY <1>1 DEF Lengths
  <1>3. A = {h[q] : q \in T} /\ h[r] \in A /\ A \in SUBSET (Nat \X Nat \X Nat)
      BY <1>1, <1>2 DEF Lengths
  <1>4. PICK e \in A : \A f \in A : AtLeast(f, e)
      <2> HIDE DEF A
      <2>. QED  BY <1>3, FirstTuple
  <1>5. e[1] \in Nat /\ e[1] >= d /\ e[1] <= outs[r] /\ e \in tree
      <2>1. AtLeast(h[r], e) /\ h[r][1] = outs[r] /\ e[1] \in Nat /\ outs[r] \in Nat
          BY <1>3, <1>4 DEF Lengths
      <2>. QED  BY <2>1, <1>4 DEF AtLeast
  <1>6. {f \in tree : AtLeast(f, e)} = A
      <2>1. ASSUME NEW f \in tree, AtLeast(f, e) PROVE f[1] >= d
          <3>1. f[1] \in Nat
              BY <1>2
          <3>. QED  BY <1>5, <2>1, <3>1 DEF AtLeast
      <2>. QED  BY <1>4, <2>1
  <1>7. IsFiniteSet(T) /\ \A p, q \in T : h[p] = h[q] => p = q
      BY <1>1, FS_Subset DEF Lengths
  <1>8. IsFiniteSet(A) /\ Cardinality(A) = Cardinality(T) /\ Cardinality(T) \in Nat
      <2> HIDE DEF A, T, h
      <2>. QED  BY <1>3, <1>7, CardinalityMap, FS_CardinalityType
  <1> DEFINE n == Cardinality(A)
             o == e[1]
             seg == IF Kind = "flash" THEN MapThenSumSet(LAMBDA f : f[2], A) + n * o
                    ELSE (Max({f[2] : f \in A}) + o) * n
  <1>9. ~(seg * NextTokenGradient > WeightLimit * Scale)
      BY <1>5, <1>6 DEF exceeds_weight
  <1>10. \A q \in T : ins[q] \in Nat /\ h[q][2] = ins[q] /\ len[q] \in Nat /\ len[q] = ins[q] + d
      BY DEF Lengths
  <1>11. CASE Kind = "flash"
      <2> DEFINE w == [f \in A |-> f[2]]
                 c == [q \in T |-> o]
                 l == [q \in T |-> ins[q] + o]
      <2>1. MapThenSumSet(LAMBDA f : f[2], A) = Total(w, A)
          <3>1. \A f \in A : f[2] \in Nat
              BY <1>3
          <3> HIDE DEF A
          <3>. QED  BY <1>8, <3>1, TupleSum
      <2>2. Total(w, A) = Total(ins, T)
          <3>1. \A q \in T : w[h[q]] = ins[q]
              BY <1>3, <1>10
          <3> HIDE DEF A, T, h, w
          <3>. QED  BY <1>3, <1>7, <1>10, <3>1, TotalMap
      <2>3. Total(c, T) = Cardinality(T) * o
          <3>1. \A q \in T : c[q] = o
              OBVIOUS
          <3> HIDE DEF T, c, o
          <3>2. o \in Nat
              BY <1>5 DEF o
          <3>. QED  BY <1>7, <3>1, <3>2, TotalConstant
      <2>4. Total(l, T) = Total(ins, T) + Total(c, T)
          <3>1. \A q \in T : ins[q] \in Nat /\ c[q] \in Nat /\ l[q] = ins[q] + c[q]
              BY <1>5, <1>10
          <3> HIDE DEF T, l, c
          <3>. QED  BY <1>7, <3>1, TotalPlus
      <2>5. \A q \in T : len[q] \in Nat /\ l[q] \in Nat /\ len[q] <= l[q]
          BY <1>5, <1>10
      <2>6. Total(len, T) \in Nat /\ Total(l, T) \in Nat /\ Total(len, T) <= Total(l, T)
          <3> HIDE DEF T, l
          <3>. QED  BY <1>7, <2>5, TotalRec, TotalGrows
      <2>7. seg = Total(l, T)
          <3> HIDE DEF A, T, l, c, w
          <3>. QED  BY <1>8, <1>11, <2>1, <2>2, <2>3, <2>4
      <2>8. Space(Kind, len, T) = Total(len, T)
          BY <1>11 DEF Space
      <2> HIDE DEF T, l, seg
      <2>9. Total(l, T) * NextTokenGradient <= WeightLimit * Scale
          BY <1>9, <2>6, <2>7, QueueAssumption
      <2>10. NextTokenWeight(Total(l, T)) <= WeightLimit
          BY <2>6, <2>9, WeightTruncated
      <2>11. /\ NextTokenWeight(Total(len, T)) \in Nat /\ NextTokenWeight(Total(l, T)) \in Nat
             /\ NextTokenWeight(Total(len, T)) <= NextTokenWeight(Total(l, T))
          BY <2>6, WeightGrows
      <2>. QED  BY <2>8, <2>10, <2>11, QueueAssumption
  <1>12. CASE Kind # "flash"
      <2> DEFINE V == {f[2] : f \in A}
      <2>1. IsFiniteSet(V) /\ V \in SUBSET Nat /\ V # {}
          <3> DEFINE w == [f \in A |-> f[2]]
          <3>1. V = {w[f] : f \in A}
              OBVIOUS
          <3>2. IsFiniteSet({w[f] : f \in A})
              <4> HIDE DEF A, w
              <4>. QED  BY <1>8, ImageFinite
          <3>3. IsFiniteSet(V)
              <4> HIDE DEF A, w, V
              <4>. QED  BY <3>1, <3>2
          <3>. QED  BY <1>3, <3>3
      <2>2. Max(V) \in Nat /\ \A v \in V : v <= Max(V)
          <3> HIDE DEF V
          <3>. QED  BY <2>1, MaxIs
      <2>3. \A q \in T : ins[q] \in V
          BY <1>3, <1>10
      <2>4. Longest(len, T) \in Nat /\ (Longest(len, T) = 0 \/ \E q \in T : Longest(len, T) = len[q])
          <3> HIDE DEF T, A, V, h
          <3>1. \A q \in T : len[q] \in Nat
              BY <1>10
          <3>. QED  BY <1>7, <3>1, LongestIs
      <2>5. Longest(len, T) <= Max(V) + o
          <3> HIDE DEF T, V, A, h
          <3>1. \A q \in T : len[q] \in Nat /\ len[q] <= Max(V) + o
              BY <1>5, <1>10, <2>2, <2>3
          <3>. QED  BY <1>5, <2>2, <2>4, <3>1
      <2>6. Space(Kind, len, T) = Longest(len, T) * Cardinality(T)
          BY <1>12 DEF Space
      <2>7. seg = (Max(V) + o) * n
          BY <1>12
      <2> HIDE DEF T, V, seg, A
      <2>8. Space(Kind, len, T) <= seg /\ seg \in Nat /\ Space(Kind, len, T) \in Nat
          BY <1>5, <1>8, <2>2, <2>4, <2>5, <2>6, <2>7
      <2>9. seg * NextTokenGradient <= WeightLimit * Scale
          BY <1>9, <2>8, QueueAssumption
      <2>10. NextTokenWeight(seg) <= WeightLimit
          BY <2>8, <2>9, WeightTruncated
      <2>11. /\ NextTokenWeight(Space(Kind, len, T)) \in Nat /\ NextTokenWeight(seg) \in Nat
             /\ NextTokenWeight(Space(Kind, len, T)) <= NextTokenWeight(seg)
          BY <2>8, WeightGrows
      <2>. QED  BY <2>10, <2>11, QueueAssumption
  <1>. QED  BY <1>11, <1>12

\* Statistics of the requests rs.
InStats(s, ins, rs) == s.in_sum = Total(ins, rs) /\ s.max_in = Longest(ins, rs)
OutStats(s, outs, rs) == s.out_sum = Total(outs, rs) /\ s.max_out = Longest(outs, rs)

\* The larger of two numbers.
LEMMA MaxOfTwo ==
  ASSUME NEW a \in Int, NEW b \in Int
  PROVE  Max({a, b}) = IF a >= b THEN a ELSE b
  <1>1. \E x \in {a, b} : \A y \in {a, b} : x >= y
      OBVIOUS
  <1>2. Max({a, b}) \in {a, b} /\ \A y \in {a, b} : Max({a, b}) >= y
      BY <1>1, Zenon DEF Max
  <1>. QED  BY <1>2

\* The longest length when there is one request more.
LEMMA LongestInsert ==
  ASSUME NEW S, IsFiniteSet(S), NEW x, NEW f, \A y \in S \cup {x} : f[y] \in Nat
  PROVE  Longest(f, S \cup {x}) = Max({Longest(f, S), f[x]})
  <1>1. IsFiniteSet(S \cup {x})
      BY FS_AddElement
  <1>2. /\ Longest(f, S) \in Nat /\ \A y \in S : f[y] <= Longest(f, S)
        /\ Longest(f, S) = 0 \/ \E y \in S : Longest(f, S) = f[y]
      BY LongestIs
  <1>3. /\ Longest(f, S \cup {x}) \in Nat /\ \A y \in S \cup {x} : f[y] <= Longest(f, S \cup {x})
        /\ Longest(f, S \cup {x}) = 0 \/ \E y \in S \cup {x} : Longest(f, S \cup {x}) = f[y]
      BY <1>1, LongestIs
  <1>4. Max({Longest(f, S), f[x]}) = IF Longest(f, S) >= f[x] THEN Longest(f, S) ELSE f[x]
      BY <1>2, MaxOfTwo
  <1>. QED  BY <1>2, <1>3, <1>4

\* update_stats takes one request more into account.
LEMMA StatsGrow ==
  ASSUME NEW S, IsFiniteSet(S), NEW x, x \notin S, NEW f, \A y \in S \cup {x} : f[y] \in Nat,
         NEW s, NEW out
  PROVE  /\ InStats(s, f, S) => InStats(update_stats(s, f[x], out), f, S \cup {x})
         /\ OutStats(s, f, S) => OutStats(update_stats(s, out, f[x]), f, S \cup {x})
  <1>1. IsFiniteSet(S \cup {x}) /\ S \in SUBSET (S \cup {x}) /\ x \in (S \cup {x}) \ S
      BY FS_AddElement
  <1>2. Total(f, S) \in Nat /\ Total(f, S \cup {x}) = f[x] + Total(f, S)
      BY <1>1, TotalRec
  <1>3. Longest(f, S \cup {x}) = Max({Longest(f, S), f[x]})
      BY LongestInsert
  <1>4. f[x] + Total(f, S) = Total(f, S) + f[x]
      BY <1>2
  <1>5. /\ update_stats(s, f[x], out).in_sum = s.in_sum + f[x]
        /\ update_stats(s, f[x], out).max_in = Max({s.max_in, f[x]})
        /\ update_stats(s, out, f[x]).out_sum = s.out_sum + f[x]
        /\ update_stats(s, out, f[x]).max_out = Max({s.max_out, f[x]})
      BY DEF update_stats
  <1>. QED  BY <1>2, <1>3, <1>4, <1>5, Zenon DEF InStats, OutStats

\* compute_stats, of the requests in progress or of none.
LEMMA StatsStart ==
  ASSUME NEW rs \in SUBSET Requests, IsFiniteSet(rs), \A r \in rs : Ins[r] \in Nat /\ Outs[r] \in Nat
  PROVE  /\ InStats(compute_stats(rs), Ins, rs) /\ OutStats(compute_stats(rs), Outs, rs)
         /\ InStats(NoStats, Ins, {})
  <1>1. MapThenSumSet(InLen, rs) = Total(Ins, rs) /\ MapThenSumSet(OutLen, rs) = Total(Outs, rs)
      BY InputSum, OutputSum
  <1>2. {InLen(r) : r \in rs} = {Ins[r] : r \in rs} /\ {OutLen(r) : r \in rs} = {Outs[r] : r \in rs}
      BY DEF Ins, Outs
  <1>3. compute_stats(rs).max_in = Longest(Ins, rs) /\ compute_stats(rs).max_out = Longest(Outs, rs)
      BY <1>2 DEF compute_stats, Longest
  <1>4. Total(Ins, {}) = 0
      BY TotalRec
  <1>5. Longest(Ins, {}) = 0
      <2>1. IsFiniteSet({})
          BY FS_EmptySet
      <2>. QED  BY <2>1, LongestIs
  <1>. QED  BY <1>1, <1>3, <1>4, <1>5 DEF compute_stats, InStats, OutStats, NoStats

\* batch_max_weight is within the limit: the batch never exceeds it.
LEMMA SureFits ==
  ASSUME NEW rs, NEW ins, NEW outs, Lengths(ins, outs, rs), NEW new \in SUBSET rs,
         NEW s, InStats(s, ins, rs), OutStats(s, outs, rs),
         batch_max_weight(s, Cardinality(rs)) <= WeightLimit
  PROVE  Projected(Kind, ins, outs, rs \ new, new)
  <1> DEFINE sum == [q \in rs |-> ins[q] + outs[q]]
             most == IF Kind = "flash" THEN s.in_sum + s.out_sum
                     ELSE (s.max_in + s.max_out) * Cardinality(rs)
  <1>1. /\ IsFiniteSet(rs) /\ Cardinality(rs) \in Nat
        /\ \A q \in rs : ins[q] \in Nat /\ outs[q] \in Nat /\ outs[q] > 0 /\ sum[q] \in Nat
                         /\ sum[q] = ins[q] + outs[q]
      BY FS_CardinalityType DEF Lengths
  <1> HIDE DEF sum
  <1>2. Space(Kind, sum, rs) <= most /\ Space(Kind, sum, rs) \in Nat /\ most \in Nat
      <2>1. Total(sum, rs) = Total(ins, rs) + Total(outs, rs)
          BY <1>1, TotalPlus
      <2>2. Total(ins, rs) \in Nat /\ Total(outs, rs) \in Nat
          BY <1>1, TotalRec
      <2>3. /\ Longest(ins, rs) \in Nat /\ \A q \in rs : ins[q] <= Longest(ins, rs)
            /\ Longest(outs, rs) \in Nat /\ \A q \in rs : outs[q] <= Longest(outs, rs)
          BY <1>1, LongestIs
      <2>4. Longest(sum, rs) \in Nat /\ (Longest(sum, rs) = 0 \/ \E q \in rs : Longest(sum, rs) = sum[q])
          BY <1>1, LongestIs
      <2>5. Longest(sum, rs) <= Longest(ins, rs) + Longest(outs, rs)
          BY <1>1, <2>3, <2>4
      <2>6. Longest(sum, rs) * Cardinality(rs) <= (Longest(ins, rs) + Longest(outs, rs)) * Cardinality(rs)
          BY <1>1, <2>3, <2>4, <2>5
      <2>. QED  BY <1>1, <2>1, <2>2, <2>3, <2>4, <2>6 DEF Space, InStats, OutStats
  <1>3. NextTokenWeight(most) <= WeightLimit
      BY DEF batch_max_weight
  <1> HIDE DEF most
  <1>4. ASSUME NEW d \in Nat
        PROVE  NextTokenWeight(Space(Kind, LengthAfter(ins, new, d), LeftAfter(outs, rs \ new, new, d)))
                  <= WeightLimit
      <2> DEFINE len == LengthAfter(ins, new, d)
                 left == LeftAfter(outs, rs \ new, new, d)
      <2>1. left \in SUBSET rs
          BY DEF LeftAfter
      <2>2. \A q \in left : len[q] \in Nat /\ len[q] <= sum[q]
          BY <1>1 DEF LeftAfter, LengthAfter, Lengths
      <2> HIDE DEF len, left
      <2>3. Space(Kind, len, left) \in Nat /\ Space(Kind, len, left) <= Space(Kind, sum, rs)
          BY <1>1, <2>1, <2>2, SpaceGrows
      <2>4. Space(Kind, len, left) <= most
          BY <1>2, <2>3
      <2>5. /\ NextTokenWeight(Space(Kind, len, left)) \in Nat /\ NextTokenWeight(most) \in Nat
            /\ NextTokenWeight(Space(Kind, len, left)) <= NextTokenWeight(most)
          BY <1>2, <2>3, <2>4, WeightGrows
      <2>. QED  BY <1>3, <2>5, QueueAssumption DEF len, left
  <1>. QED  BY <1>4 DEF Projected

\* exceeds_weight accepts the request r: no step exceeds the limit, the later ones
\* because r has ended by then and they were within it before.
LEMMA TreeFits ==
  ASSUME NEW rs, NEW ins, NEW outs, Lengths(ins, outs, rs), NEW new \in SUBSET rs, NEW r \in rs \ new,
         NEW tree, IsTree(tree, ins, outs, rs), ~exceeds_weight(tree, outs[r]),
         Projected(Kind, ins, outs, (rs \ {r}) \ new, new)
  PROVE  Projected(Kind, ins, outs, rs \ (new \cup {r}), new \cup {r})
  <1> DEFINE old == (rs \ {r}) \ new
  <1>0. rs \ (new \cup {r}) = old
      OBVIOUS
  <1>1. /\ IsFiniteSet(rs) /\ rs \in SUBSET Requests
        /\ \A q \in rs : ins[q] \in Nat /\ outs[q] \in Nat
      BY DEF Lengths
  <1>2. ASSUME NEW d \in Nat
        PROVE  NextTokenWeight(Space(Kind, LengthAfter(ins, new \cup {r}, d),
                                     LeftAfter(outs, old, new \cup {r}, d))) <= WeightLimit
      <2> DEFINE len == LengthAfter(ins, new \cup {r}, d)
                 left == LeftAfter(outs, old, new \cup {r}, d)
      <2>0. left \in SUBSET rs /\ \A q \in left : len[q] \in Nat
          BY <1>1 DEF LeftAfter, LengthAfter
      <2>1. CASE outs[r] > d + 1
          <3> DEFINE T == {q \in rs : outs[q] >= d + 1}
                     more == [q \in rs |-> ins[q] + (d + 1)]
          <3>1. NextTokenWeight(Space(Kind, more, T)) <= WeightLimit
              <4>1. d + 1 \in Nat /\ d + 1 <= outs[r] /\ \A q \in rs : more[q] = ins[q] + (d + 1)
                  BY <1>1, <2>1
              <4> HIDE DEF more
              <4>. QED  BY <4>1, SegmentFits
          <3>2. /\ IsFiniteSet(T) /\ left \in SUBSET T /\ \A q \in T : more[q] \in Nat
                /\ \A q \in left : len[q] \in Nat /\ len[q] <= more[q]
              <4>1. IsFiniteSet(T)
                  BY <1>1, FS_Subset
              <4>2. \A q \in left : q \in rs /\ outs[q] >= d + 1 /\ len[q] <= more[q]
                  BY <1>1 DEF LeftAfter, LengthAfter
              <4>3. \A q \in T : more[q] \in Nat
                  BY <1>1
              <4> HIDE DEF len, left, more
              <4>. QED  BY <2>0, <4>1, <4>2, <4>3
          <3> HIDE DEF T, more, len, left
          <3>3. /\ Space(Kind, len, left) \in Nat /\ Space(Kind, more, T) \in Nat
                /\ Space(Kind, len, left) <= Space(Kind, more, T)
              BY <3>2, SpaceGrows
          <3>4. /\ NextTokenWeight(Space(Kind, len, left)) \in Nat /\ NextTokenWeight(Space(Kind, more, T)) \in Nat
                /\ NextTokenWeight(Space(Kind, len, left)) <= NextTokenWeight(Space(Kind, more, T))
              BY <3>3, WeightGrows
          <3>. QED  BY <3>1, <3>4, QueueAssumption DEF len, left
      <2>2. CASE ~(outs[r] > d + 1)
          <3> DEFINE was == LengthAfter(ins, new, d)
                     had == LeftAfter(outs, old, new, d)
          <3>1. left = had
              BY <1>1, <2>2 DEF LeftAfter
          <3>2. \A q \in had : len[q] \in Nat /\ was[q] \in Nat /\ len[q] <= was[q]
              <4>1. \A q \in had : q # r /\ q \in rs
                  BY DEF LeftAfter
              <4>. QED  BY <1>1, <4>1 DEF LengthAfter
          <3>3. IsFiniteSet(had)
              <4>1. had \in SUBSET rs
                  BY DEF LeftAfter
              <4>. QED  BY <1>1, <4>1, FS_Subset
          <3>4. NextTokenWeight(Space(Kind, was, had)) <= WeightLimit
              BY DEF Projected
          <3> HIDE DEF was, had, len, left
          <3>5. /\ Space(Kind, len, had) \in Nat /\ Space(Kind, was, had) \in Nat
                /\ Space(Kind, len, had) <= Space(Kind, was, had)
              BY <3>2, <3>3, SpaceGrows
          <3>6. /\ NextTokenWeight(Space(Kind, len, had)) \in Nat /\ NextTokenWeight(Space(Kind, was, had)) \in Nat
                /\ NextTokenWeight(Space(Kind, len, had)) <= NextTokenWeight(Space(Kind, was, had))
              BY <3>5, WeightGrows
          <3>7. NextTokenWeight(Space(Kind, len, left)) = NextTokenWeight(Space(Kind, len, had))
              BY <3>1, Zenon
          <3>. QED  BY <3>4, <3>6, <3>7, QueueAssumption DEF len, left
      <2>. QED  BY <2>1, <2>2
  <1>3. Projected(Kind, ins, outs, old, new \cup {r})
      <2> HIDE DEF old
      <2>. QED  BY <1>2 DEF Projected
  <1>. QED  BY <1>0, <1>3, Zenon

-----------------------------------------------------------------------------
(* The loop of try_next_batch.                                              *)

\* The turns of the loop are what they are defined to be.
LEMMA TurnsDefined ==
  ASSUME NEW min_size, NEW limit, Len(buffer) \in Nat
  PROVE  /\ Turns(min_size, limit)[0] = Start
         /\ \A k \in 1 .. Len(buffer) :
               Turns(min_size, limit)[k] = Consider(Turns(min_size, limit)[k - 1], k, min_size, limit)
  <1> DEFINE n == Len(buffer)
             Step(g, k) == IF k = 0 THEN Start ELSE Consider(g[k - 1], k, min_size, limit)
             Good == {m \in Nat : \E g : g = [k \in 0 .. m |-> Step(g, k)]}
  <1>1. 0 \in Good
      <2> DEFINE g == [k \in 0 .. 0 |-> Start]
      <2>1. g = [k \in 0 .. 0 |-> Step(g, k)]
          OBVIOUS
      <2> HIDE DEF g, Step
      <2>. QED  BY <2>1
  <1>2. ASSUME NEW m \in Nat, m \in Good PROVE m + 1 \in Good
      <2>1. PICK g : g = [k \in 0 .. m |-> Step(g, k)]
          BY <1>2
      <2> DEFINE h == [k \in 0 .. m + 1 |-> IF k = m + 1 THEN Consider(g[m], k, min_size, limit) ELSE g[k]]
      <2>2. ASSUME NEW k \in 0 .. m + 1 PROVE h[k] = Step(h, k)
          <3>1. CASE k = m + 1
              BY <3>1
          <3>2. CASE k \in 1 .. m
              <4>1. k - 1 \in 0 .. m /\ k - 1 # m + 1 /\ k # m + 1
                  BY <3>2
              <4>2. g[k] = Step(g, k)
                  BY <2>1, <3>2
              <4>. QED  BY <3>2, <4>1, <4>2
          <3>3. CASE k = 0
              BY <2>1, <3>3
          <3>. QED  BY <3>1, <3>2, <3>3
      <2>3. h = [k \in 0 .. m + 1 |-> Step(h, k)]
          <3>1. h = [k \in 0 .. m + 1 |-> h[k]]
              OBVIOUS
          <3> HIDE DEF h, Step
          <3>. QED  BY <2>2, <3>1
      <2> HIDE DEF h, Step
      <2>. QED  BY <2>3
  <1>3. n \in Good
      <2> HIDE DEF Good, n
      <2>1. n \in Nat
          BY DEF n
      <2>2. 0 .. n \subseteq Good
          BY <1>1, <1>2, <2>1, CountingUp
      <2>. QED  BY <2>1, <2>2
  <1> DEFINE turn == CHOOSE g : g = [k \in 0 .. n |-> Step(g, k)]
  <1>4. Turns(min_size, limit) = turn
      BY DEF Turns
  <1>5. turn = [k \in 0 .. n |-> Step(turn, k)]
      BY <1>3
  <1> HIDE DEF turn
  <1>. QED  BY <1>4, <1>5

\* Induction along the loop.
LEMMA TurnByTurn ==
  ASSUME NEW n \in Nat, NEW G, 0 \in G, \A k \in 1 .. n : k - 1 \in G => k \in G
  PROVE  \A k \in 0 .. n : k \in G
  <1>1. ASSUME NEW k \in 0 .. n - 1, k \in G PROVE k + 1 \in G
      <2>1. k + 1 \in 1 .. n /\ (k + 1) - 1 = k
          OBVIOUS
      <2>. QED  BY <1>1, <2>1
  <1>. QED  BY <1>1, CountingUp

\* The parts of a turn.
NewStats(s, r) == update_stats(s.stats, In[r], Out[r])
NewPrefill(s, r) == update_stats(s.prefill, In[r], 0)
Unsure(s, r) == batch_max_weight(NewStats(s, r), (Cardinality(entries) + Len(s.chosen)) + 1) > WeightLimit
BaseTree(s, r) == IF s.tree = NoTree /\ Unsure(s, r) THEN InitialTree(s.chosen) ELSE s.tree
WithRequest(s, r) == IF BaseTree(s, r) = NoTree THEN NoTree ELSE Grow(BaseTree(s, r), r)
Late(s, r) == s.cutoff # NoCutoff /\ queue_time[r] > s.cutoff
Heavy(s, r) == Unsure(s, r) /\ exceeds_weight(WithRequest(s, r), Out[r])

Refused(s, r, limit) ==
    \/ PrefillWeight(Kind, NewPrefill(s, r).in_sum, NewPrefill(s, r).max_in, Len(s.chosen) + 1) > limit
    \/ TooMuchPadding(NewPrefill(s, r), Len(s.chosen) + 1)

Loop(s) ==
    s = [chosen |-> s.chosen, stats |-> s.stats, prefill |-> s.prefill, tree |-> s.tree,
         cutoff |-> s.cutoff, stop |-> s.stop, none |-> s.none]

\* What a turn does with the request r: nothing (any more), or pass it over, ...
Unchanged(s, c) ==
    c.chosen = s.chosen /\ c.stats = s.stats /\ c.prefill = s.prefill
Ended(s, c, r) ==
    Unchanged(s, c) /\ c.tree = s.tree /\ c.cutoff = s.cutoff /\ c.stop /\ c.none = s.none
    /\ (s.stop \/ Late(s, r))
GivenUp(s, c, r, k, min_size) ==
    /\ Unchanged(s, c) /\ c.tree = s.tree /\ c.cutoff = s.cutoff /\ c.stop /\ c.none
    /\ Heavy(s, r) /\ Len(s.chosen) + Len(buffer) < min_size + k
PassedOver(s, c, r, limit) ==
    /\ ~s.stop /\ (Heavy(s, r) \/ Refused(s, r, limit))
    /\ Unchanged(s, c) /\ c.tree = BaseTree(s, r) /\ c.stop = s.stop /\ c.none = s.none
    /\ c.cutoff = IF s.cutoff = NoCutoff THEN queue_time[r] + Cutoff ELSE s.cutoff

\* ... or accept it, after all the checks.
Accepted(s, c, r, limit) ==
    /\ ~s.stop /\ ~Late(s, r) /\ ~Heavy(s, r) /\ ~Refused(s, r, limit)
    /\ c.chosen = Append(s.chosen, r) /\ c.stats = NewStats(s, r) /\ c.prefill = NewPrefill(s, r)
    /\ c.tree = WithRequest(s, r) /\ c.cutoff = s.cutoff /\ c.none = s.none

\* The four outcomes of a turn.
LEMMA Outcomes ==
  ASSUME NEW s, Loop(s), NEW k, NEW min_size, NEW limit, NEW c, c = Consider(s, k, min_size, limit)
  PROVE  /\ Loop(c)
         /\ \/ Ended(s, c, buffer[k]) \/ GivenUp(s, c, buffer[k], k, min_size)
            \/ PassedOver(s, c, buffer[k], limit) \/ Accepted(s, c, buffer[k], limit)
  <1> DEFINE r == buffer[k]
  <1>1. PICK a, b, d, e, f, g, h :
            s = [chosen |-> a, stats |-> b, prefill |-> d, tree |-> e, cutoff |-> f, stop |-> g, none |-> h]
      BY DEF Loop
  <1>2. c = IF s.stop \/ Late(s, r) THEN [s EXCEPT !.stop = TRUE]
            ELSE IF Heavy(s, r)
            THEN IF Len(s.chosen) + Len(buffer) < min_size + k
                 THEN [s EXCEPT !.stop = TRUE, !.none = TRUE]
                 ELSE PassOver(s, BaseTree(s, r), r)
            ELSE IF Refused(s, r, limit)
            THEN PassOver(s, BaseTree(s, r), r)
            ELSE Accept(s, WithRequest(s, r), r, NewStats(s, r), NewPrefill(s, r))
      BY DEF Consider, Late, Heavy, Refused, Unsure, BaseTree, WithRequest, NewStats, NewPrefill
  <1> HIDE DEF r
  <1>3. CASE s.stop \/ Late(s, r)
      BY <1>1, <1>2, <1>3 DEF Loop, Ended, Unchanged, r
  <1>4. CASE ~(s.stop \/ Late(s, r)) /\ Heavy(s, r) /\ Len(s.chosen) + Len(buffer) < min_size + k
      BY <1>1, <1>2, <1>4 DEF Loop, GivenUp, Unchanged, r
  <1>5. CASE ~s.stop /\ (Heavy(s, r) \/ Refused(s, r, limit)) /\ c = PassOver(s, BaseTree(s, r), r)
      BY <1>1, <1>2, <1>5 DEF Loop, PassedOver, PassOver, Unchanged, r
  <1>6. CASE /\ ~s.stop /\ ~Late(s, r) /\ ~Heavy(s, r) /\ ~Refused(s, r, limit)
             /\ c = Accept(s, WithRequest(s, r), r, NewStats(s, r), NewPrefill(s, r))
      BY <1>1, <1>2, <1>6 DEF Loop, Accepted, Accept, r
  <1>. QED  BY <1>2, <1>3, <1>4, <1>5, <1>6

-----------------------------------------------------------------------------
(* What the loop maintains.                                                 *)

\* A state in which try_next_batch may be called.
Ready ==
    /\ buffer \in Seq(Requests) /\ \A i, j \in 1 .. Len(buffer) : buffer[i] = buffer[j] => i = j
    /\ \A k \in 1 .. Len(buffer) : buffer[k] \notin entries /\ generated[buffer[k]] = 0
    /\ In \in [Requests -> Nat] /\ Out \in [Requests -> Nat \ {0}]
    /\ Lengths(Ins, Outs, entries)
    /\ Projected(Kind, Ins, Outs, entries, {})

\* After k turns: the statistics and the tree, if there is one, are those of the batch
\* in progress with the requests chosen; with them no step to come exceeds the weight
\* limit, nor does their prefill exceed its own.
TurnInv(s, k, limit) ==
    LET new == Range(s.chosen) IN
    /\ Loop(s)
    /\ s.chosen \in Seq(Requests)
    /\ IsFiniteSet(new) /\ Cardinality(new) = Len(s.chosen)
    /\ \A r \in new : \E j \in 1 .. k : r = buffer[j]
    /\ InStats(s.stats, Ins, entries \cup new) /\ OutStats(s.stats, Outs, entries \cup new)
    /\ InStats(s.prefill, Ins, new)
    /\ s.tree # NoTree => IsTree(s.tree, Ins, Outs, entries \cup new)
    /\ Projected(Kind, Ins, Outs, entries, new)
    /\ s.chosen # <<>> => PrefillWeight(Kind, s.prefill.in_sum, s.prefill.max_in, Len(s.chosen)) <= limit

\* The lengths of a request in the buffer.
LEMMA BufferLengths ==
  ASSUME Ready, NEW k \in 1 .. Len(buffer)
  PROVE  /\ Len(buffer) \in Nat /\ buffer[k] \in Requests \ entries
         /\ Ins[buffer[k]] = In[buffer[k]] /\ Outs[buffer[k]] = Out[buffer[k]]
         /\ Ins[buffer[k]] \in Nat /\ Outs[buffer[k]] \in Nat \ {0}
  <1>1. Len(buffer) \in Nat /\ buffer[k] \in Requests \ entries /\ generated[buffer[k]] = 0
      BY DEF Ready
  <1>2. In[buffer[k]] \in Nat /\ Out[buffer[k]] \in Nat \ {0}
      BY <1>1 DEF Ready
  <1>. QED  BY <1>1, <1>2 DEF Ins, Outs, InLen, OutLen

\* A tree of requests is a tree.
LEMMA TreeIsSome ==
  ASSUME NEW tree, NEW ins, NEW outs, NEW rs, IsTree(tree, ins, outs, rs)
  PROVE  tree # NoTree
  <1>1. PICK x \in [rs -> Nat] : tree = {<<outs[r], ins[r], x[r]>> : r \in rs}
      BY DEF IsTree
  <1>2. \A e \in tree : e[3] \in Nat
      BY <1>1
  <1>3. <<-1, -1, -1>> \in NoTree /\ <<-1, -1, -1>>[3] = -1
      BY DEF NoTree
  <1>. QED  BY <1>2, <1>3

\* The loop starts with nothing chosen.
LEMMA TurnStarts ==
  ASSUME Ready, NEW limit
  PROVE  TurnInv(Start, 0, limit)
  <1> DEFINE s == Start
  <1>1. s.chosen = <<>> /\ Range(s.chosen) = {} /\ s.stats = compute_stats(entries)
        /\ s.prefill = NoStats /\ s.tree = NoTree /\ Loop(s)
      BY DEF Start, Loop, Range
  <1>2. IsFiniteSet({}) /\ Cardinality({}) = 0
      BY FS_EmptySet
  <1>3. /\ InStats(s.stats, Ins, entries) /\ OutStats(s.stats, Outs, entries)
        /\ InStats(s.prefill, Ins, {})
      BY <1>1, StatsStart DEF Ready, Lengths
  <1>4. entries \cup {} = entries
      OBVIOUS
  <1>5. <<>> \in Seq(Requests) /\ Len(<<>>) = 0 /\ Projected(Kind, Ins, Outs, entries, {})
      BY DEF Ready
  <1> HIDE DEF s
  <1>6. TurnInv(s, 0, limit)
      BY <1>1, <1>2, <1>3, <1>4, <1>5, Zenon DEF TurnInv
  <1>. QED  BY <1>6 DEF s

\* The requests considered so far do not include the next one.
LEMMA NextIsNew ==
  ASSUME Ready, NEW k \in 1 .. Len(buffer), NEW new, \A r \in new : \E j \in 1 .. k - 1 : r = buffer[j],
         IsFiniteSet(new)
  PROVE  /\ buffer[k] \notin new /\ buffer[k] \notin entries
         /\ \A r \in new \cup {buffer[k]} : \E j \in 1 .. k : r = buffer[j]
         /\ Lengths(Ins, Outs, entries \cup new) /\ Lengths(Ins, Outs, (entries \cup new) \cup {buffer[k]})
         /\ \A r \in new \cup {buffer[k]} : Ins[r] \in Nat /\ Outs[r] \in Nat
         /\ (entries \cup new) \ new = entries
         /\ ((entries \cup new) \cup {buffer[k]}) \ (new \cup {buffer[k]}) = entries
  <1>0. Len(buffer) \in Nat
      BY BufferLengths
  <1>1. \A j \in 1 .. k - 1 : j \in 1 .. Len(buffer) /\ j # k /\ j \in 1 .. k
      BY <1>0
  <1>2. \A r \in new \cup {buffer[k]} : \E j \in 1 .. k : r = buffer[j]
      BY <1>1
  <1>3. \A j \in 1 .. k : j \in 1 .. Len(buffer)
      BY <1>0
  <1>4. \A r \in new \cup {buffer[k]} : r \in Requests \ entries /\ Ins[r] \in Nat /\ Outs[r] \in Nat \ {0}
      BY <1>2, <1>3, BufferLengths
  <1>5. buffer[k] \notin new
      BY <1>1 DEF Ready
  <1>6. IsFiniteSet(entries \cup new) /\ IsFiniteSet((entries \cup new) \cup {buffer[k]})
      BY FS_Union, FS_AddElement DEF Ready, Lengths
  <1>. QED  BY <1>2, <1>4, <1>5, <1>6 DEF Ready, Lengths

\* The tree when the request r is considered.
LEMMA BaseIsTree ==
  ASSUME NEW s, NEW r, NEW rs, rs = entries \cup Range(s.chosen), Lengths(Ins, Outs, rs),
         s.tree # NoTree => IsTree(s.tree, Ins, Outs, rs)
  PROVE  /\ BaseTree(s, r) # NoTree => IsTree(BaseTree(s, r), Ins, Outs, rs)
         /\ Unsure(s, r) => BaseTree(s, r) # NoTree
  <1>1. IsTree(InitialTree(s.chosen), Ins, Outs, rs)
      BY TreeStarts DEF InitialTree, Lengths
  <1>2. InitialTree(s.chosen) # NoTree
      BY <1>1, TreeIsSome
  <1>. QED  BY <1>1, <1>2 DEF BaseTree

\* One request more is chosen.
LEMMA RangeAppend ==
  ASSUME NEW q \in Seq(Requests), NEW r \in Requests
  PROVE  /\ Range(Append(q, r)) = Range(q) \cup {r} /\ Append(q, r) \in Seq(Requests)
         /\ Len(q) \in Nat /\ Len(Append(q, r)) = Len(q) + 1 /\ Append(q, r) # <<>>
  <1>1. /\ Append(q, r) \in Seq(Requests) /\ Len(q) \in Nat /\ Len(Append(q, r)) = Len(q) + 1
        /\ DOMAIN q = 1 .. Len(q) /\ DOMAIN Append(q, r) = 1 .. Len(q) + 1
        /\ \A i \in 1 .. Len(q) : Append(q, r)[i] = q[i]
        /\ Append(q, r)[Len(q) + 1] = r
      OBVIOUS
  <1>2. Range(Append(q, r)) = Range(q) \cup {r}
      <2>1. \A i \in 1 .. Len(q) + 1 : i \in 1 .. Len(q) \/ i = Len(q) + 1
          BY <1>1
      <2>2. \A i \in 1 .. Len(q) : i \in 1 .. Len(q) + 1
          BY <1>1
      <2>3. Len(q) + 1 \in 1 .. Len(q) + 1
          BY <1>1
      <2>. QED  BY <1>1, <2>1, <2>2, <2>3, Zenon DEF Range
  <1>. QED  BY <1>1, <1>2

\* Sums and padded sizes are numbers of tokens.
LEMMA SumTimes ==
  ASSUME NEW a \in Nat, NEW b \in Nat, NEW n \in Nat
  PROVE  (a + b) * n \in Nat /\ a + b \in Nat
  OBVIOUS

\* Accepting a request keeps what the loop maintains.
LEMMA AcceptedFits ==
  ASSUME Ready, NEW k \in 1 .. Len(buffer), NEW limit \in Int, NEW s, TurnInv(s, k - 1, limit),
         NEW c, Loop(c), Accepted(s, c, buffer[k], limit),
         PrefillWeight(Kind, NewPrefill(s, buffer[k]).in_sum, NewPrefill(s, buffer[k]).max_in,
                       Len(s.chosen) + 1) \in Int
  PROVE  TurnInv(c, k, limit)
  <1> DEFINE r == buffer[k]
             new == Range(s.chosen)
             rs == entries \cup new
             new2 == new \cup {r}
             rs2 == rs \cup {r}
  <1>1. /\ s.chosen \in Seq(Requests) /\ IsFiniteSet(new) /\ Cardinality(new) = Len(s.chosen)
        /\ \A q \in new : \E j \in 1 .. k - 1 : q = buffer[j]
        /\ InStats(s.stats, Ins, rs) /\ OutStats(s.stats, Outs, rs) /\ InStats(s.prefill, Ins, new)
        /\ s.tree # NoTree => IsTree(s.tree, Ins, Outs, rs)
        /\ Projected(Kind, Ins, Outs, entries, new)
      BY DEF TurnInv
  <1>2. /\ r \notin new /\ r \notin entries /\ Lengths(Ins, Outs, rs) /\ Lengths(Ins, Outs, rs2)
        /\ \A q \in new2 : \E j \in 1 .. k : q = buffer[j]
        /\ \A q \in new2 : Ins[q] \in Nat
        /\ rs2 \ new2 = entries
      BY <1>1, NextIsNew, ZenonT(60)
  <1>3. r \in Requests /\ Ins[r] = In[r] /\ Outs[r] = Out[r]
      BY BufferLengths
  <1>4. /\ c.chosen = Append(s.chosen, r) /\ c.stats = NewStats(s, r) /\ c.prefill = NewPrefill(s, r)
        /\ c.tree = WithRequest(s, r) /\ ~Heavy(s, r)
        /\ ~(PrefillWeight(Kind, c.prefill.in_sum, c.prefill.max_in, Len(s.chosen) + 1) > limit)
      BY DEF Accepted, Refused
  <1>5. /\ Range(c.chosen) = new2 /\ c.chosen \in Seq(Requests) /\ Len(s.chosen) \in Nat
        /\ Len(c.chosen) = Len(s.chosen) + 1 /\ c.chosen # <<>>
      <2> HIDE DEF r
      <2>. QED  BY <1>1, <1>3, <1>4, RangeAppend
  <1>6. IsFiniteSet(new2) /\ Cardinality(new2) = Len(c.chosen)
      <2> HIDE DEF r, new
      <2>. QED  BY <1>1, <1>2, <1>5, FS_AddElement
  <1>7. InStats(c.stats, Ins, rs2) /\ OutStats(c.stats, Outs, rs2) /\ InStats(c.prefill, Ins, new2)
      <2>1. IsFiniteSet(rs) /\ r \notin rs /\ \A q \in rs \cup {r} : Ins[q] \in Nat /\ Outs[q] \in Nat
          BY <1>2 DEF Lengths
      <2> HIDE DEF r, new, rs
      <2>2. /\ InStats(update_stats(s.stats, Ins[r], Outs[r]), Ins, rs \cup {r})
            /\ OutStats(update_stats(s.stats, Ins[r], Outs[r]), Outs, rs \cup {r})
          BY <1>1, <2>1, StatsGrow
      <2>3. InStats(update_stats(s.prefill, Ins[r], 0), Ins, new \cup {r})
          BY <1>1, <1>2, StatsGrow
      <2>. QED  BY <1>3, <1>4, <2>2, <2>3 DEF NewStats, NewPrefill
  <1> DEFINE base == BaseTree(s, r)
             tree == WithRequest(s, r)
  <1>8. (base # NoTree => IsTree(base, Ins, Outs, rs)) /\ (Unsure(s, r) => base # NoTree)
      <2> HIDE DEF r
      <2>. QED  BY <1>1, <1>2, BaseIsTree
  <1>9. (tree # NoTree => IsTree(tree, Ins, Outs, rs2)) /\ (Unsure(s, r) => IsTree(tree, Ins, Outs, rs2))
      <2>1. ASSUME base # NoTree PROVE IsTree(Grow(base, r), Ins, Outs, rs \cup {r})
          <3> HIDE DEF r, base, new, rs
          <3>1. rs \in SUBSET Requests /\ IsFiniteSet(rs) /\ r \in Requests \ rs
              BY <1>2, <1>3 DEF Lengths, rs
          <3>. QED  BY <1>8, <2>1, <3>1, TreeGrows
      <2>. QED  BY <1>8, <2>1 DEF WithRequest
  <1>10. Projected(Kind, Ins, Outs, entries, new2)
      <2>1. CASE Unsure(s, r)
          <3>1. ~exceeds_weight(tree, Outs[r]) /\ IsTree(tree, Ins, Outs, rs2)
              BY <1>3, <1>4, <1>9, <2>1 DEF Heavy
          <3>2. new \in SUBSET rs2 /\ r \in rs2 \ new /\ (rs2 \ {r}) \ new = entries
              BY <1>2
          <3> HIDE DEF r, new, rs, rs2, tree, new2
          <3>3. Projected(Kind, Ins, Outs, (rs2 \ {r}) \ new, new)
              BY <1>1, <3>2, Zenon
          <3>4. Projected(Kind, Ins, Outs, rs2 \ (new \cup {r}), new \cup {r})
              BY <1>2, <3>1, <3>2, <3>3, TreeFits
          <3>. QED  BY <1>2, <3>4, Zenon DEF new2
      <2>2. CASE ~Unsure(s, r)
          <3>1. Cardinality(rs2) = (Cardinality(entries) + Len(s.chosen)) + 1 /\ Cardinality(rs2) \in Nat
              <4>1. IsFiniteSet(entries) /\ Cardinality(entries) \in Nat /\ entries \cap new = {}
                  <5>1. entries \cap new = {}
                      BY <1>2
                  <5>. QED  BY <5>1, FS_CardinalityType DEF Ready, Lengths
              <4> HIDE DEF new
              <4>2. Cardinality(rs) = Cardinality(entries) + Len(s.chosen)
                  <5>1. Cardinality(entries \cup new)
                        = Cardinality(entries) + Cardinality(new) - Cardinality(entries \cap new)
                      BY <1>1, <4>1, FS_Union
                  <5>2. Cardinality(entries \cap new) = 0
                      BY <4>1, FS_EmptySet
                  <5>. QED  BY <1>1, <1>5, <4>1, <5>1, <5>2
              <4>3. IsFiniteSet(rs) /\ r \notin rs
                  BY <1>2 DEF Lengths
              <4> HIDE DEF r, rs
              <4>4. Cardinality(rs \cup {r}) = Cardinality(rs) + 1
                  BY <4>3, FS_AddElement
              <4>. QED  BY <1>5, <4>1, <4>2, <4>4
          <3>2. batch_max_weight(c.stats, Cardinality(rs2)) <= WeightLimit
              <4>1. ~(batch_max_weight(c.stats, Cardinality(rs2)) > WeightLimit)
                  BY <1>4, <2>2, <3>1 DEF Unsure
              <4>2. /\ Total(Ins, rs2) \in Nat /\ Total(Outs, rs2) \in Nat
                    /\ Longest(Ins, rs2) \in Nat /\ Longest(Outs, rs2) \in Nat
                  <5>1. IsFiniteSet(rs2) /\ \A q \in rs2 : Ins[q] \in Nat /\ Outs[q] \in Nat
                      BY <1>2 DEF Lengths
                  <5> HIDE DEF rs2
                  <5>. QED  BY <5>1, TotalRec, LongestIs
              <4> HIDE DEF rs2, rs, r
              <4> DEFINE most == IF Kind = "flash" THEN c.stats.in_sum + c.stats.out_sum
                                 ELSE (c.stats.max_in + c.stats.max_out) * Cardinality(rs2)
              <4>3. most \in Nat
                  <5>1. /\ c.stats.in_sum \in Nat /\ c.stats.out_sum \in Nat
                        /\ c.stats.max_in \in Nat /\ c.stats.max_out \in Nat
                      BY <1>7, <4>2 DEF InStats, OutStats
                  <5>2. (c.stats.max_in + c.stats.max_out) * Cardinality(rs2) \in Nat
                      BY <3>1, <5>1, SumTimes
                  <5>3. c.stats.in_sum + c.stats.out_sum \in Nat
                      BY <3>1, <5>1, SumTimes
                  <5>. QED  BY <5>2, <5>3
              <4>4. batch_max_weight(c.stats, Cardinality(rs2)) = NextTokenWeight(most)
                  BY DEF batch_max_weight
              <4> HIDE DEF most
              <4>5. NextTokenWeight(most) \in Nat
                  <5>1. most <= most
                      BY <4>3
                  <5>. QED  BY <4>3, <5>1, WeightGrows
              <4>. QED  BY <4>1, <4>4, <4>5, QueueAssumption
          <3>3. new2 \in SUBSET rs2
              OBVIOUS
          <3> HIDE DEF new2, rs2, r
          <3>4. Projected(Kind, Ins, Outs, rs2 \ new2, new2)
              BY <1>2, <1>7, <3>2, <3>3, SureFits
          <3>. QED  BY <1>2, <3>4, Zenon
      <2>. QED  BY <2>1, <2>2
  <1>11. PrefillWeight(Kind, c.prefill.in_sum, c.prefill.max_in, Len(c.chosen)) <= limit
      BY <1>4, <1>5
  <1>12. entries \cup Range(c.chosen) = rs2
      BY <1>5
  <1>13. c.tree # NoTree => IsTree(c.tree, Ins, Outs, rs2)
      BY <1>4, <1>9
  <1> HIDE DEF r, new, rs, new2, rs2, base, tree
  <1>. QED  BY <1>2, <1>5, <1>6, <1>7, <1>10, <1>11, <1>12, <1>13, Zenon DEF TurnInv

\* The weight of a prefill is a number.
LEMMA PrefillTyped ==
  ASSUME NEW kind, NEW in_sum \in Nat, NEW max_in \in Nat, NEW n \in Nat
  PROVE  PrefillWeight(kind, in_sum, max_in, n) \in Int
  <1> DEFINE a == n * max_in * PrefillGradient
             b == n * max_in * QuadraticCoef1 + n * max_in * max_in * QuadraticCoef2
             e == in_sum * PrefillGradient
  <1>1. PrefillGradient \in Int /\ QuadraticCoef1 \in Int /\ QuadraticCoef2 \in Int /\ Scale \in Nat \ {0}
      BY QueueAssumption
  <1>2. n * max_in \in Int /\ n * max_in * max_in \in Int
      OBVIOUS
  <1>3. a \in Int /\ e \in Int
      BY <1>1, <1>2
  <1>4. b \in Int
      BY <1>1, <1>2
  <1>5. PrefillWeight(kind, in_sum, max_in, n) = IF kind = "flash" THEN e \div Scale ELSE Max({a, b}) \div Scale
      BY DEF PrefillWeight
  <1> HIDE DEF a, b, e
  <1>6. Max({a, b}) \in Int
      BY <1>3, <1>4, MaxOfTwo
  <1>. QED  BY <1>1, <1>3, <1>5, <1>6

\* Every turn keeps what the loop maintains.
LEMMA TurnKept ==
  ASSUME Ready, NEW k \in 1 .. Len(buffer), NEW limit \in Int, NEW min_size, NEW s, TurnInv(s, k - 1, limit),
         NEW c, c = Consider(s, k, min_size, limit)
  PROVE  TurnInv(c, k, limit)
  <1> DEFINE r == buffer[k]
             new == Range(s.chosen)
             rs == entries \cup new
  <1>1. /\ Loop(s) /\ s.chosen \in Seq(Requests) /\ IsFiniteSet(new) /\ Cardinality(new) = Len(s.chosen)
        /\ \A q \in new : \E j \in 1 .. k - 1 : q = buffer[j]
        /\ InStats(s.stats, Ins, rs) /\ OutStats(s.stats, Outs, rs) /\ InStats(s.prefill, Ins, new)
        /\ s.tree # NoTree => IsTree(s.tree, Ins, Outs, rs)
        /\ Projected(Kind, Ins, Outs, entries, new)
        /\ s.chosen # <<>> => PrefillWeight(Kind, s.prefill.in_sum, s.prefill.max_in, Len(s.chosen)) <= limit
      BY DEF TurnInv
  <1>2. /\ r \notin new /\ Lengths(Ins, Outs, rs) /\ \A q \in new \cup {r} : Ins[q] \in Nat
        /\ \A q \in new \cup {r} : \E j \in 1 .. k : q = buffer[j]
      BY <1>1, NextIsNew
  <1>3. /\ Loop(c)
        /\ \/ Ended(s, c, r) \/ GivenUp(s, c, r, k, min_size) \/ PassedOver(s, c, r, limit) \/ Accepted(s, c, r, limit)
      BY <1>1, Outcomes
  <1>4. ASSUME Unchanged(s, c), c.tree = s.tree \/ c.tree = BaseTree(s, r) PROVE TurnInv(c, k, limit)
      <2>1. c.tree # NoTree => IsTree(c.tree, Ins, Outs, rs)
          <3> HIDE DEF r
          <3>. QED  BY <1>1, <1>2, <1>4, BaseIsTree
      <2>2. c.chosen = s.chosen /\ c.stats = s.stats /\ c.prefill = s.prefill
          BY <1>4 DEF Unchanged
      <2>3. \A q \in new : \E j \in 1 .. k : q = buffer[j]
          BY <1>2
      <2> HIDE DEF r
      <2>. QED  BY <1>1, <1>3, <2>1, <2>2, <2>3, Zenon DEF TurnInv
  <1>5. CASE Accepted(s, c, r, limit)
      <2>1. Len(s.chosen) + 1 \in Nat
          BY <1>1
      <2>2. In[r] = Ins[r]
          BY BufferLengths
      <2>3. InStats(NewPrefill(s, r), Ins, new \cup {r})
          <3> HIDE DEF r, new
          <3>1. InStats(update_stats(s.prefill, Ins[r], 0), Ins, new \cup {r})
              BY <1>1, <1>2, StatsGrow
          <3>. QED  BY <2>2, <3>1 DEF NewPrefill
      <2>4. Total(Ins, new \cup {r}) \in Nat /\ Longest(Ins, new \cup {r}) \in Nat
          <3> HIDE DEF r, new
          <3>1. IsFiniteSet(new \cup {r})
              BY <1>1, FS_AddElement
          <3>. QED  BY <1>2, <3>1, TotalRec, LongestIs
      <2>5. PrefillWeight(Kind, NewPrefill(s, r).in_sum, NewPrefill(s, r).max_in, Len(s.chosen) + 1) \in Int
          BY <2>1, <2>3, <2>4, PrefillTyped DEF InStats
      <2>. QED  BY <1>3, <1>5, <2>5, AcceptedFits
  <1>6. CASE Ended(s, c, r)
      BY <1>4, <1>6 DEF Ended
  <1>7. CASE GivenUp(s, c, r, k, min_size)
      BY <1>4, <1>7 DEF GivenUp
  <1>8. CASE PassedOver(s, c, r, limit)
      BY <1>4, <1>8 DEF PassedOver
  <1>. QED  BY <1>3, <1>5, <1>6, <1>7, <1>8

\* The loop maintains it from its start to its end.
LEMMA LoopFits ==
  ASSUME Ready, NEW limit \in Int, NEW min_size
  PROVE  \A k \in 0 .. Len(buffer) : TurnInv(Turns(min_size, limit)[k], k, limit)
  <1> DEFINE turn == Turns(min_size, limit)
             G == {k \in 0 .. Len(buffer) : TurnInv(turn[k], k, limit)}
  <1>0. Len(buffer) \in Nat
      BY DEF Ready
  <1>1. 0 \in G
      BY <1>0, TurnStarts, TurnsDefined
  <1>2. ASSUME NEW k \in 1 .. Len(buffer), k - 1 \in G PROVE k \in G
      <2>1. turn[k] = Consider(turn[k - 1], k, min_size, limit)
          BY <1>0, TurnsDefined
      <2>2. TurnInv(turn[k - 1], k - 1, limit)
          BY <1>2
      <2> HIDE DEF turn
      <2>3. TurnInv(turn[k], k, limit)
          BY <2>1, <2>2, TurnKept
      <2>. QED  BY <1>0, <2>3
  <1>3. \A k \in 0 .. Len(buffer) : k \in G
      <2> HIDE DEF G
      <2>. QED  BY <1>0, <1>1, <1>2, TurnByTurn
  <1>. QED  BY <1>3

\* The first request of the buffer that is not among the chosen.
FirstLeft(j, new) == buffer[j] \notin new /\ \A h \in 1 .. j - 1 : buffer[h] \in new

\* After k turns: those chosen behind the first request passed over are within the
\* cutoff that it has set, which is in force until the loop stops.
CutoffInv(s, k) ==
    LET new == Range(s.chosen) IN
    /\ \A j \in 1 .. k, m \in 1 .. k :
          j < m /\ FirstLeft(j, new) /\ buffer[m] \in new
          => queue_time[buffer[m]] <= queue_time[buffer[j]] + Cutoff
    /\ \/ s.stop
       \/ s.cutoff = NoCutoff /\ \A j \in 1 .. k : buffer[j] \in new
       \/ \E j \in 1 .. k : FirstLeft(j, new) /\ s.cutoff = queue_time[buffer[j]] + Cutoff

\* Every turn keeps it.
LEMMA CutoffKept ==
  ASSUME Ready, NEW k \in 1 .. Len(buffer), NEW limit, NEW min_size, NEW s, TurnInv(s, k - 1, limit),
         NEW c, c = Consider(s, k, min_size, limit), CutoffInv(s, k - 1),
         \A j \in 1 .. Len(buffer) : queue_time[buffer[j]] \in Nat
  PROVE  CutoffInv(c, k)
  <1> DEFINE r == buffer[k]
             new == Range(s.chosen)
             Within(m, j) == queue_time[buffer[m]] <= queue_time[buffer[j]] + Cutoff
  <1>0. k \in Nat /\ Len(buffer) \in Nat /\ (1 .. k - 1) \subseteq 1 .. k /\ (1 .. k) \subseteq 1 .. Len(buffer)
        /\ k - 1 \in Nat /\ k - 1 < k /\ \A j \in 1 .. k : j \in 1 .. k - 1 \/ j = k
      BY DEF Ready
  <1>1. /\ Loop(s) /\ s.chosen \in Seq(Requests) /\ IsFiniteSet(new)
        /\ \A q \in new : \E j \in 1 .. k - 1 : q = buffer[j]
      BY DEF TurnInv
  <1>2. r \notin new /\ r \in Requests
      BY <1>1, NextIsNew, BufferLengths
  <1>3. /\ Loop(c)
        /\ \/ Ended(s, c, r) \/ GivenUp(s, c, r, k, min_size) \/ PassedOver(s, c, r, limit) \/ Accepted(s, c, r, limit)
      BY <1>1, Outcomes
  <1>4. \A j, m \in 1 .. k - 1 : j < m /\ FirstLeft(j, new) /\ buffer[m] \in new => Within(m, j)
      BY DEF CutoffInv
  <1>5. \/ s.stop
        \/ s.cutoff = NoCutoff /\ \A j \in 1 .. k - 1 : buffer[j] \in new
        \/ \E j \in 1 .. k - 1 : FirstLeft(j, new) /\ s.cutoff = queue_time[buffer[j]] + Cutoff
      BY DEF CutoffInv
  <1>6. ASSUME c.chosen = s.chosen
        PROVE  \A j, m \in 1 .. k : j < m /\ FirstLeft(j, Range(c.chosen)) /\ buffer[m] \in Range(c.chosen)
                                    => Within(m, j)
      <2>1. ASSUME NEW j \in 1 .. k, NEW m \in 1 .. k, j < m, buffer[m] \in new PROVE m \in 1 .. k - 1 /\ j \in 1 .. k - 1
          BY <1>0, <1>2, <2>1
      <2> HIDE DEF r, new
      <2>. QED  BY <1>4, <1>6, <2>1 DEF new
  <1>7. CASE Ended(s, c, r) \/ GivenUp(s, c, r, k, min_size)
      BY <1>6, <1>7 DEF Ended, GivenUp, Unchanged, CutoffInv
  <1>8. CASE PassedOver(s, c, r, limit)
      <2>1. c.chosen = s.chosen /\ ~s.stop
            /\ c.cutoff = IF s.cutoff = NoCutoff THEN queue_time[r] + Cutoff ELSE s.cutoff
          BY <1>8 DEF PassedOver, Unchanged
      <2>2. CASE s.cutoff = NoCutoff /\ \A j \in 1 .. k - 1 : buffer[j] \in new
          <3>1. FirstLeft(k, new) /\ c.cutoff = queue_time[buffer[k]] + Cutoff
              BY <1>2, <2>1, <2>2 DEF FirstLeft
          <3>2. k \in 1 .. k
              BY <1>0
          <3> HIDE DEF r
          <3>. QED  BY <1>6, <2>1, <3>1, <3>2 DEF CutoffInv
      <2>3. CASE \E j \in 1 .. k - 1 : FirstLeft(j, new) /\ s.cutoff = queue_time[buffer[j]] + Cutoff
          <3>1. PICK j \in 1 .. k - 1 : FirstLeft(j, new) /\ s.cutoff = queue_time[buffer[j]] + Cutoff
              BY <2>3
          <3>2. queue_time[buffer[j]] \in Nat /\ Cutoff \in Nat
              BY <1>0, QueueAssumption
          <3>3. s.cutoff # NoCutoff
              BY <3>1, <3>2 DEF NoCutoff
          <3>4. c.cutoff = queue_time[buffer[j]] + Cutoff /\ j \in 1 .. k
              BY <1>0, <2>1, <3>1, <3>3
          <3> HIDE DEF r
          <3>. QED  BY <1>6, <2>1, <3>1, <3>4 DEF CutoffInv
      <2>. QED  BY <1>5, <2>1, <2>2, <2>3
  <1>9. CASE Accepted(s, c, r, limit)
      <2>1. c.chosen = Append(s.chosen, r) /\ ~s.stop /\ ~Late(s, r) /\ c.cutoff = s.cutoff
          BY <1>9 DEF Accepted
      <2>2. Range(c.chosen) = new \cup {r}
          <3> HIDE DEF r
          <3>. QED  BY <1>1, <1>2, <2>1, RangeAppend
      <2>3. ASSUME NEW j \in 1 .. k PROVE FirstLeft(j, Range(c.chosen)) <=> FirstLeft(j, new) /\ j # k
          <3>1. \A h \in 1 .. j - 1 : h \in 1 .. Len(buffer) /\ h # k
              BY <1>0
          <3>2. \A h \in 1 .. j - 1 : buffer[h] # r
              BY <3>1, <1>0 DEF Ready
          <3>3. j # k => buffer[j] # r
              BY <1>0 DEF Ready
          <3> HIDE DEF new
          <3>. QED  BY <2>2, <3>2, <3>3 DEF FirstLeft
      <2>4. ASSUME NEW j \in 1 .. k, NEW m \in 1 .. k, j < m, FirstLeft(j, Range(c.chosen)),
                   buffer[m] \in Range(c.chosen)
            PROVE  Within(m, j)
          <3>1. FirstLeft(j, new) /\ j \in 1 .. k - 1
              BY <1>0, <2>3, <2>4
          <3>2. CASE m = k
              <4>1. PICK i \in 1 .. k - 1 : FirstLeft(i, new) /\ s.cutoff = queue_time[buffer[i]] + Cutoff
                  BY <1>5, <2>1, <3>1 DEF FirstLeft
              <4>2. i = j
                  <5>1. i < j \/ j < i \/ i = j
                      BY <3>1
                  <5>2. i < j => i \in 1 .. j - 1
                      BY <3>1
                  <5>3. j < i => j \in 1 .. i - 1
                      BY <3>1
                  <5>. QED  BY <3>1, <4>1, <5>1, <5>2, <5>3 DEF FirstLeft
              <4>3. queue_time[buffer[i]] \in Nat /\ queue_time[r] \in Nat /\ Cutoff \in Nat
                  BY <1>0, QueueAssumption
              <4>4. s.cutoff # NoCutoff
                  BY <4>1, <4>3 DEF NoCutoff
              <4>5. ~(queue_time[r] > queue_time[buffer[i]] + Cutoff)
                  BY <2>1, <4>1, <4>4 DEF Late
              <4>6. queue_time[r] <= queue_time[buffer[i]] + Cutoff
                  <5> DEFINE a == queue_time[r]
                             b == queue_time[buffer[i]]
                  <5>1. a \in Nat /\ b \in Nat /\ Cutoff \in Nat /\ ~(a > b + Cutoff)
                      BY <4>3, <4>5
                  <5> HIDE DEF a, b
                  <5>2. a <= b + Cutoff
                      BY <5>1
                  <5>. QED  BY <5>2 DEF a, b
              <4>. QED  BY <3>2, <4>2, <4>6
          <3>3. CASE m \in 1 .. k - 1
              <4>1. buffer[m] # r
                  BY <1>0, <3>3, SMTT(30) DEF Ready
              <4>2. buffer[m] \in new
                  BY <2>2, <2>4, <4>1
              <4>. QED  BY <1>4, <2>4, <3>1, <3>3, <4>2
          <3>. QED  BY <1>0, <3>2, <3>3
      <2>5. \/ c.cutoff = NoCutoff /\ \A j \in 1 .. k : buffer[j] \in Range(c.chosen)
            \/ \E j \in 1 .. k : FirstLeft(j, Range(c.chosen)) /\ c.cutoff = queue_time[buffer[j]] + Cutoff
          <3>1. CASE s.cutoff = NoCutoff /\ \A j \in 1 .. k - 1 : buffer[j] \in new
              BY <1>0, <2>1, <2>2, <3>1
          <3>2. CASE \E j \in 1 .. k - 1 : FirstLeft(j, new) /\ s.cutoff = queue_time[buffer[j]] + Cutoff
              <4>1. PICK j \in 1 .. k - 1 : FirstLeft(j, new) /\ s.cutoff = queue_time[buffer[j]] + Cutoff
                  BY <3>2
              <4>2. j \in 1 .. k /\ j # k
                  BY <1>0
              <4>. QED  BY <2>1, <2>3, <4>1, <4>2
          <3>. QED  BY <1>5, <2>1, <3>1, <3>2
      <2> HIDE DEF r, new
      <2>. QED  BY <2>4, <2>5 DEF CutoffInv
  <1>. QED  BY <1>3, <1>7, <1>8, <1>9

\* The cutoff holds along the loop.
LEMMA LoopCutoff ==
  ASSUME Ready, NEW limit \in Int, NEW min_size, \A j \in 1 .. Len(buffer) : queue_time[buffer[j]] \in Nat
  PROVE  \A k \in 0 .. Len(buffer) : CutoffInv(Turns(min_size, limit)[k], k)
  <1> DEFINE turn == Turns(min_size, limit)
             G == {k \in 0 .. Len(buffer) : CutoffInv(turn[k], k)}
  <1>0. Len(buffer) \in Nat
      BY DEF Ready
  <1>1. 0 \in G
      <2>1. turn[0] = Start
          BY <1>0, TurnsDefined
      <2>2. CutoffInv(Start, 0)
          BY DEF CutoffInv, Start
      <2> HIDE DEF turn
      <2>. QED  BY <1>0, <2>1, <2>2
  <1>2. ASSUME NEW k \in 1 .. Len(buffer), k - 1 \in G PROVE k \in G
      <2>1. turn[k] = Consider(turn[k - 1], k, min_size, limit)
          BY <1>0, TurnsDefined
      <2>2. k - 1 \in 0 .. Len(buffer) /\ k \in 0 .. Len(buffer)
          BY <1>0
      <2>3. TurnInv(turn[k - 1], k - 1, limit) /\ CutoffInv(turn[k - 1], k - 1)
          BY <1>2, <2>2, LoopFits
      <2> HIDE DEF turn
      <2>4. CutoffInv(turn[k], k)
          BY <2>1, <2>3, CutoffKept
      <2>. QED  BY <2>2, <2>4
  <1>3. \A k \in 0 .. Len(buffer) : k \in G
      <2> HIDE DEF G
      <2>. QED  BY <1>0, <1>1, <1>2, TurnByTurn
  <1>. QED  BY <1>3

\* One request fits, whatever its length.
LEMMA OneFits ==
  ASSUME Kind \in Kinds, NEW in \in Nat, NEW out \in Nat, in + out <= MaxSequenceLength
  PROVE  NextTokenWeight(in + out) <= WeightLimit /\ PrefillWeight(Kind, in, in, 1) <= WeightLimit
  <1> DEFINE M == MaxSequenceLength
             P == PrefillGradient
             c1 == QuadraticCoef1
             c2 == QuadraticCoef2
  <1>1. /\ M \in Nat /\ P \in Nat /\ c1 \in Int /\ c2 \in Nat /\ WeightLimit \in Nat /\ Scale \in Nat \ {0}
        /\ WeightLimit >= NextTokenWeight(M) /\ WeightLimit >= PrefillWeight(Kind, M, M, 1)
      BY QueueAssumption DEF validate_batch_config
  <1>2. in + out \in Nat /\ in <= M
      BY <1>1
  <1>3. NextTokenWeight(in + out) <= WeightLimit
      <2>1. /\ NextTokenWeight(in + out) \in Nat /\ NextTokenWeight(in + out) <= NextTokenWeight(M)
            /\ NextTokenWeight(M) \in Nat
          <3>1. M <= M
              BY <1>1
          <3>. QED  BY <1>1, <1>2, <3>1, WeightGrows
      <2>. QED  BY <1>1, <2>1
  <1>4. in * P \in Nat /\ M * P \in Nat /\ in * P <= M * P
      <2> HIDE DEF M, P
      <2>. QED  BY <1>1, <1>2
  <1>5. CASE Kind = "flash"
      <2>1. PrefillWeight(Kind, in, in, 1) = (in * P) \div Scale /\ PrefillWeight(Kind, M, M, 1) = (M * P) \div Scale
          BY <1>5 DEF PrefillWeight
      <2> HIDE DEF M, P
      <2>. QED  BY <1>1, <1>3, <1>4, <2>1
  <1>6. CASE Kind # "flash"
      <2> DEFINE Quad(m) == 1 * m * c1 + 1 * m * m * c2
      <2>1. Quad(in) \in Int /\ Quad(M) \in Int /\ (Quad(in) <= 0 \/ Quad(in) <= Quad(M))
          <3>1. \A m \in Nat : m * c1 \in Int /\ m * m \in Nat /\ (m * m) * c2 \in Nat
              <4> HIDE DEF c1, c2
              <4>. QED  BY <1>1
          <3>2. \A m \in Nat : Quad(m) = m * (c1 + m * c2) /\ m * c2 \in Nat /\ Quad(m) \in Int
              <4> HIDE DEF c1, c2
              <4>. QED  BY <1>1
          <3>3. in * c2 <= M * c2
              <4> HIDE DEF M, c2
              <4>. QED  BY <1>1, <1>2
          <3> DEFINE x == c1 + in * c2
                     y == c1 + M * c2
          <3>4. x \in Int /\ y \in Int /\ x <= y
              <4> HIDE DEF M, c1, c2
              <4>. QED  BY <1>1, <3>2, <3>3
          <3>5. Quad(in) = in * x /\ Quad(M) = M * y
              BY <1>1, <3>2
          <3> HIDE DEF x, y, M, Quad
          <3>6. x <= 0 => in * x <= 0
              BY <3>4
          <3>7. x > 0 => in * x <= M * x /\ M * x <= M * y
              BY <1>1, <1>2, <3>4
          <3>8. in * x \in Int /\ M * x \in Int /\ M * y \in Int
              BY <1>1, <3>4
          <3>. QED  BY <3>4, <3>5, <3>6, <3>7, <3>8
      <2> DEFINE a == 1 * in * P
                 b == 1 * M * P
                 top == Max({a, Quad(in)})
                 max == Max({b, Quad(M)})
      <2>2. a \in Nat /\ b \in Nat /\ a <= b
          <3> HIDE DEF M, P
          <3>1. 1 * in = in /\ 1 * M = M
              BY <1>1
          <3>. QED  BY <1>4, <3>1
      <2>3. PrefillWeight(Kind, in, in, 1) = top \div Scale /\ PrefillWeight(Kind, M, M, 1) = max \div Scale
          BY <1>6 DEF PrefillWeight
      <2> HIDE DEF a, b, M, Quad
      <2>4. /\ top = (IF a >= Quad(in) THEN a ELSE Quad(in))
            /\ max = (IF b >= Quad(M) THEN b ELSE Quad(M))
          BY <2>1, <2>2, MaxOfTwo
      <2>5. top \in Int /\ max \in Int /\ top <= max
          BY <2>1, <2>2, <2>4
      <2> HIDE DEF top, max
      <2>6. top \div Scale <= max \div Scale /\ top \div Scale \in Int /\ max \div Scale \in Int
          BY <1>1, <2>5
      <2>. QED  BY <1>1, <1>3, <2>3, <2>6
  <1>. QED  BY <1>3, <1>5, <1>6

\* With nothing in progress the first request is accepted.
LEMMA FirstAccepted ==
  ASSUME Ready, Kind \in Kinds, entries = {}, 1 \in 1 .. Len(buffer), NEW min_size,
         In[buffer[1]] + Out[buffer[1]] <= MaxSequenceLength, NEW c, c = Consider(Start, 1, min_size, WeightLimit)
  PROVE  c.chosen \in Seq(Requests) /\ Len(c.chosen) = 1 /\ c.none = FALSE
  <1> DEFINE r == buffer[1]
             s == Start
  <1>1. r \in Requests /\ In[r] \in Nat /\ Out[r] \in Nat
      BY BufferLengths
  <1>2. /\ s.chosen = <<>> /\ s.prefill = NoStats /\ s.cutoff = NoCutoff /\ s.stop = FALSE /\ s.none = FALSE
        /\ Loop(s) /\ s.stats = compute_stats({})
      BY DEF Start, Loop
  <1>3. NewPrefill(s, r).in_sum = In[r] /\ NewPrefill(s, r).max_in = In[r]
      <2>1. Max({0, In[r]}) = In[r]
          BY <1>1, MaxOfTwo
      <2> HIDE DEF r, s
      <2>. QED  BY <1>1, <1>2, <2>1 DEF NewPrefill, update_stats, NoStats
  <1>4. /\ NewStats(s, r).in_sum = In[r] /\ NewStats(s, r).out_sum = Out[r]
        /\ NewStats(s, r).max_in = In[r] /\ NewStats(s, r).max_out = Out[r]
      <2>1. IsFiniteSet({}) /\ {} \in SUBSET Requests
          BY FS_EmptySet
      <2>2. InStats(compute_stats({}), Ins, {}) /\ OutStats(compute_stats({}), Outs, {})
          BY <2>1, StatsStart
      <2>3. Total(Ins, {}) = 0 /\ Total(Outs, {}) = 0
          BY <2>1, TotalRec
      <2>4. Longest(Ins, {}) = 0 /\ Longest(Outs, {}) = 0
          BY <2>1, LongestIs
      <2>5. Max({0, In[r]}) = In[r] /\ Max({0, Out[r]}) = Out[r]
          BY <1>1, MaxOfTwo
      <2> HIDE DEF r, s
      <2>6. s.stats.in_sum = 0 /\ s.stats.out_sum = 0 /\ s.stats.max_in = 0 /\ s.stats.max_out = 0
          BY <1>2, <2>2, <2>3, <2>4 DEF InStats, OutStats
      <2>7. 0 + In[r] = In[r] /\ 0 + Out[r] = Out[r]
          BY <1>1
      <2>. QED  BY <2>5, <2>6, <2>7 DEF NewStats, update_stats
  <1>5. NextTokenWeight(In[r] + Out[r]) <= WeightLimit /\ PrefillWeight(Kind, In[r], In[r], 1) <= WeightLimit
      <2> HIDE DEF r
      <2>. QED  BY <1>1, OneFits DEF r
  <1>6. Cardinality(entries) + Len(s.chosen) + 1 = 1 /\ Len(s.chosen) + 1 = 1
      BY <1>2, FS_EmptySet
  <1>7. ~Unsure(s, r)
      <2> HIDE DEF r, s
      <2>1. batch_max_weight(NewStats(s, r), 1) = NextTokenWeight(In[r] + Out[r])
          <3>1. (In[r] + Out[r]) * 1 = In[r] + Out[r]
              BY <1>1
          <3>. QED  BY <1>4, <3>1 DEF batch_max_weight
      <2>2. NextTokenWeight(In[r] + Out[r]) \in Nat /\ WeightLimit \in Nat
          <3>1. In[r] + Out[r] \in Nat /\ In[r] + Out[r] <= In[r] + Out[r]
              BY <1>1
          <3>. QED  BY <3>1, WeightGrows, QueueAssumption
      <2>. QED  BY <1>5, <1>6, <2>1, <2>2 DEF Unsure
  <1>8. ~Refused(s, r, WeightLimit)
      <2> HIDE DEF r, s
      <2>1. ~(PrefillWeight(Kind, In[r], In[r], 1) > WeightLimit)
          <3>1. PrefillWeight(Kind, In[r], In[r], 1) \in Int /\ WeightLimit \in Nat
              BY <1>1, PrefillTyped, QueueAssumption
          <3>. QED  BY <1>5, <3>1
      <2>2. ~((In[r] * 1 - In[r]) * 100 > PaddingLimit * In[r] * 1)
          <3>1. (In[r] * 1 - In[r]) * 100 = 0 /\ PaddingLimit \in Nat
              BY <1>1, QueueAssumption
          <3> DEFINE i == In[r]
          <3>2. i \in Nat
              BY <1>1
          <3> HIDE DEF i
          <3>3. PaddingLimit * i * 1 \in Nat
              BY <3>1, <3>2
          <3>. QED  BY <3>1, <3>3 DEF i
      <2>. QED  BY <1>3, <1>6, <2>1, <2>2 DEF Refused, TooMuchPadding
  <1>9. \/ Ended(s, c, r) \/ GivenUp(s, c, r, 1, min_size) \/ PassedOver(s, c, r, WeightLimit)
        \/ Accepted(s, c, r, WeightLimit)
      BY <1>2, Outcomes
  <1>10. Accepted(s, c, r, WeightLimit)
      <2> HIDE DEF r, s
      <2>. QED  BY <1>2, <1>7, <1>8, <1>9 DEF Ended, GivenUp, PassedOver, Late, Heavy
  <1>11. c.chosen = Append(s.chosen, r) /\ c.none = s.none
      BY <1>10 DEF Accepted
  <1> HIDE DEF r, s
  <1>12. <<>> \in Seq(Requests) /\ Len(<<>>) = 0
      OBVIOUS
  <1>13. Append(<<>>, r) \in Seq(Requests) /\ Len(Append(<<>>, r)) = 1
      BY <1>1, <1>12, RangeAppend
  <1>. QED  BY <1>2, <1>11, <1>13

\* It stays chosen, and the loop is not given up.
LEMMA LoopProgress ==
  ASSUME Ready, Kind \in Kinds, entries = {}, buffer # <<>>,
         \A k \in 1 .. Len(buffer) : In[buffer[k]] + Out[buffer[k]] <= MaxSequenceLength
  PROVE  LET s == Turns(1, WeightLimit)[Len(buffer)] IN s.chosen # <<>> /\ s.none = FALSE
  <1> DEFINE turn == Turns(1, WeightLimit)
             Good(s) == s.chosen \in Seq(Requests) /\ Len(s.chosen) >= 1 /\ s.none = FALSE
             G == {k \in 0 .. Len(buffer) : k = 0 \/ Good(turn[k])}
  <1>0. Len(buffer) \in Nat /\ 1 \in 1 .. Len(buffer) /\ WeightLimit \in Int
      BY QueueAssumption DEF Ready
  <1>1. 0 \in G
      BY <1>0
  <1>2. ASSUME NEW k \in 1 .. Len(buffer), k - 1 \in G PROVE k \in G
      <2>1. turn[k] = Consider(turn[k - 1], k, 1, WeightLimit)
          BY <1>0, TurnsDefined
      <2>2. k - 1 \in 0 .. Len(buffer) /\ k \in 0 .. Len(buffer)
          BY <1>0
      <2>3. CASE k = 1
          <3>1. turn[1] = Consider(Start, 1, 1, WeightLimit)
              BY <1>0, <2>1, <2>3, TurnsDefined
          <3> HIDE DEF turn
          <3>2. turn[1].chosen \in Seq(Requests) /\ Len(turn[1].chosen) = 1 /\ turn[1].none = FALSE
              BY <1>0, <3>1, FirstAccepted
          <3>3. Good(turn[k])
              BY <2>3, <3>2
          <3> HIDE DEF Good
          <3>. QED  BY <2>2, <3>3
      <2>4. CASE k # 1
          <3> DEFINE s == turn[k - 1]
                     c == turn[k]
                     r == buffer[k]
          <3>1. Good(s) /\ TurnInv(s, k - 1, WeightLimit)
              BY <1>0, <1>2, <2>2, <2>4, LoopFits
          <3>2. r \in Requests /\ Loop(s)
              BY <3>1, BufferLengths DEF TurnInv
          <3> HIDE DEF turn, s, c
          <3>3. \/ Ended(s, c, r) \/ GivenUp(s, c, r, k, 1) \/ PassedOver(s, c, r, WeightLimit)
                \/ Accepted(s, c, r, WeightLimit)
              BY <2>1, <3>2, Outcomes DEF s, c
          <3> HIDE DEF r
          <3>4. ~GivenUp(s, c, r, k, 1)
              BY <1>0, <3>1 DEF GivenUp
          <3>5. (c.chosen = s.chosen \/ c.chosen = Append(s.chosen, r)) /\ c.none = s.none
              BY <3>3, <3>4 DEF Ended, PassedOver, Accepted, Unchanged
          <3>6. /\ Append(s.chosen, r) \in Seq(Requests) /\ Len(Append(s.chosen, r)) >= 1
                /\ s.chosen \in Seq(Requests) /\ Len(s.chosen) >= 1 /\ s.none = FALSE
              BY <3>1, <3>2
          <3>7. Good(c)
              BY <3>5, <3>6, Zenon
          <3>. QED  BY <2>2, <3>7 DEF c
      <2>. QED  BY <2>3, <2>4
  <1>3. \A k \in 0 .. Len(buffer) : k \in G
      <2> HIDE DEF G
      <2>. QED  BY <1>0, <1>1, <1>2, TurnByTurn
  <1>4. Good(turn[Len(buffer)])
      <2>1. Len(buffer) \in 0 .. Len(buffer) /\ Len(buffer) # 0
          BY <1>0
      <2>. QED  BY <1>3, <2>1
  <1>. QED  BY <1>4

-----------------------------------------------------------------------------
(* The invariant.                                                           *)

\* The requests in the buffer wait: none of them has been sent to the shard.
Waiting ==
    /\ \A i, j \in 1 .. Len(buffer) : buffer[i] = buffer[j] => i = j
    /\ \A k \in 1 .. Len(buffer) :
          buffer[k] \notin entries /\ generated[buffer[k]] = 0 /\ queue_time[buffer[k]] \in Nat

\* Those in progress have tokens left to generate, all of them before the prefill.
Running ==
    /\ IsFiniteSet(entries)
    /\ \A r \in entries : generated[r] < Out[r]
    /\ \A r \in prefilling : generated[r] = 0

Admitted == \A r \in Requests : In[r] + Out[r] <= MaxSequenceLength

PrefillWithin ==
    prefilling # {} =>
        PrefillWeight(Kind, Total(Ins, prefilling), Longest(Ins, prefilling), Cardinality(prefilling))
            + NextTokenWeight(Space(Kind, Ins, entries \ prefilling)) <= WeightLimit

QueueInv ==
    /\ TypeOK /\ Waiting /\ Running /\ Admitted /\ PrefillWithin
    /\ Projected(Kind, Ins, Outs, entries \ prefilling, prefilling)

\* The requests that remain in the buffer were there, once each, and are not chosen.
LEMMA RemainingIs ==
  ASSUME Ready, NEW chosen, NEW rest, rest = Remaining(chosen)
  PROVE  /\ rest \in Seq(Requests)
         /\ \A i \in 1 .. Len(rest) : \E j \in 1 .. Len(buffer) : rest[i] = buffer[j] /\ buffer[j] \notin Range(chosen)
         /\ \A i, j \in 1 .. Len(rest) : rest[i] = rest[j] => i = j
  <1> DEFINE n == Len(buffer)
             new == Range(chosen)
             Step(g, k) == IF k = 0 THEN <<>>
                           ELSE IF buffer[k] \in new THEN g[k - 1] ELSE Append(g[k - 1], buffer[k])
             Rest(q, k) == /\ q \in Seq(Requests)
                           /\ \A i \in 1 .. Len(q) : \E j \in 1 .. k : q[i] = buffer[j] /\ buffer[j] \notin new
                           /\ \A i, j \in 1 .. Len(q) : q[i] = q[j] => i = j
             Good == {m \in Nat : m <= n =>
                        \E g : g = [k \in 0 .. m |-> Step(g, k)]}
  <1>0. n \in Nat
      BY DEF Ready
  <1>1. 0 \in Good
      <2> DEFINE g == [k \in 0 .. 0 |-> <<>>]
      <2>1. g = [k \in 0 .. 0 |-> Step(g, k)]
          OBVIOUS
      <2> HIDE DEF g, Step
      <2>. QED  BY <2>1
  <1>2. ASSUME NEW m \in Nat, m \in Good PROVE m + 1 \in Good
      <2>0. SUFFICES ASSUME m + 1 <= n PROVE \E g : g = [k \in 0 .. m + 1 |-> Step(g, k)]
          <3> HIDE DEF Step, n
          <3>. QED  OBVIOUS
      <2>1. PICK g : g = [k \in 0 .. m |-> Step(g, k)]
          <3>1. m <= n
              BY <1>0, <2>0
          <3> HIDE DEF Step, n
          <3>. QED  BY <1>2, <3>1
      <2> DEFINE h == [k \in 0 .. m + 1 |->
                         IF k = m + 1 THEN IF buffer[k] \in new THEN g[m] ELSE Append(g[m], buffer[k])
                         ELSE g[k]]
      <2>2. ASSUME NEW k \in 0 .. m + 1 PROVE h[k] = Step(h, k)
          <3>1. CASE k = m + 1
              BY <3>1
          <3>2. CASE k \in 1 .. m
              <4>1. k - 1 \in 0 .. m /\ k - 1 # m + 1 /\ k # m + 1
                  BY <3>2
              <4>2. g[k] = Step(g, k)
                  <5>1. k \in 0 .. m
                      BY <3>2
                  <5> HIDE DEF Step
                  <5>. QED  BY <2>1, <5>1
              <4>3. h[k] = g[k] /\ h[k - 1] = g[k - 1] /\ k # 0
                  BY <3>2, <4>1
              <4> HIDE DEF h, new
              <4>. QED  BY <4>2, <4>3
          <3>3. CASE k = 0
              BY <2>1, <3>3
          <3>. QED  BY <3>1, <3>2, <3>3
      <2>3. h = [k \in 0 .. m + 1 |-> Step(h, k)]
          <3>1. h = [k \in 0 .. m + 1 |-> h[k]]
              OBVIOUS
          <3> HIDE DEF h, Step
          <3>. QED  BY <2>2, <3>1
      <2> HIDE DEF h, Step
      <2>. QED  BY <2>3
  <1>3. \E g : g = [k \in 0 .. n |-> Step(g, k)]
      <2>1. n \in Good
          <3> HIDE DEF Good, n
          <3>1. 0 .. n \subseteq Good
              BY <1>0, <1>1, <1>2, CountingUp
          <3>. QED  BY <1>0, <3>1
      <2> HIDE DEF Step, n
      <2>. QED  BY <1>0, <2>1
  <1> DEFINE left == CHOOSE g : g = [k \in 0 .. n |-> Step(g, k)]
  <1>4. rest = left[n]
      BY DEF Remaining
  <1>5. left = [k \in 0 .. n |-> Step(left, k)]
      <2> HIDE DEF Step, n
      <2>. QED  BY <1>3
  <1> HIDE DEF left
  <1> DEFINE G == {k \in 0 .. n : Rest(left[k], k)}
  <1>6. 0 \in G
      <2>1. left[0] = <<>> /\ 0 \in 0 .. n
          BY <1>0, <1>5
      <2>2. Rest(<<>>, 0)
          OBVIOUS
      <2> HIDE DEF Rest
      <2>. QED  BY <2>1, <2>2
  <1>7. ASSUME NEW k \in 1 .. n, k - 1 \in G PROVE k \in G
      <2>0. k \in 0 .. n /\ k # 0 /\ k - 1 \in 0 .. n /\ \A j \in 1 .. k - 1 : j \in 1 .. k /\ j # k /\ j \in 1 .. n
          BY <1>0
      <2>1. left[k] = IF buffer[k] \in new THEN left[k - 1] ELSE Append(left[k - 1], buffer[k])
          BY <1>5, <2>0
      <2> DEFINE q == left[k - 1]
      <2>2. Rest(q, k - 1)
          BY <1>7
      <2> HIDE DEF q
      <2>3. Rest(q, k)
          BY <2>0, <2>2
      <2>4. CASE buffer[k] \in new
          <3> HIDE DEF Rest
          <3>. QED  BY <2>0, <2>1, <2>3, <2>4 DEF q
      <2>5. CASE buffer[k] \notin new
          <3> DEFINE p == Append(q, buffer[k])
          <3>1. /\ p \in Seq(Requests) /\ Len(q) \in Nat /\ Len(p) = Len(q) + 1 /\ p[Len(q) + 1] = buffer[k]
                /\ \A i \in 1 .. Len(q) : p[i] = q[i]
              BY <2>2, BufferLengths
          <3>2. \A i \in 1 .. Len(p) : i \in 1 .. Len(q) \/ i = Len(q) + 1
              BY <3>1
          <3>3. \A i \in 1 .. Len(q) : q[i] # buffer[k]
              <4>1. \A j \in 1 .. k - 1 : buffer[j] # buffer[k]
                  BY <2>0 DEF Ready
              <4>. QED  BY <2>2, <4>1
          <3>4. k \in 1 .. k
              OBVIOUS
          <3> HIDE DEF p
          <3>5. \A i \in 1 .. Len(p) : \E j \in 1 .. k : p[i] = buffer[j] /\ buffer[j] \notin new
              BY <2>3, <2>5, <3>1, <3>2, <3>4
          <3>6. \A i, j \in 1 .. Len(p) : p[i] = p[j] => i = j
              BY <2>3, <3>1, <3>2, <3>3
          <3>7. Rest(p, k)
              BY <3>1, <3>5, <3>6
          <3> HIDE DEF Rest
          <3>. QED  BY <2>0, <2>1, <2>5, <3>7 DEF p, q
      <2>. QED  BY <2>4, <2>5
  <1>8. n \in G
      <2>1. \A k \in 0 .. n : k \in G
          <3> HIDE DEF G, n
          <3>. QED  BY <1>0, <1>6, <1>7, TurnByTurn
      <2> HIDE DEF G
      <2>. QED  BY <1>0, <2>1
  <1>. QED  BY <1>4, <1>8

\* The lengths of all requests are numbers.
LEMMA LengthTypes ==
  ASSUME TypeOK
  PROVE  /\ In \in [Requests -> Nat] /\ Out \in [Requests -> Nat \ {0}] /\ generated \in [Requests -> Nat]
         /\ \A r \in Requests : Ins[r] = In[r] + generated[r] /\ Outs[r] = Out[r] - generated[r] /\ Ins[r] \in Nat
  <1>1. InLengths \subseteq Nat /\ OutLengths \subseteq Nat \ {0}
      BY QueueAssumption
  <1>2. In \in [Requests -> Nat] /\ Out \in [Requests -> Nat \ {0}] /\ generated \in [Requests -> Nat]
      BY <1>1 DEF TypeOK
  <1>3. \A r \in Requests : Ins[r] = In[r] + generated[r] /\ Outs[r] = Out[r] - generated[r]
      BY DEF Ins, Outs, InLen, OutLen
  <1>4. \A r \in Requests : Ins[r] \in Nat
      BY <1>2, <1>3
  <1>. QED  BY <1>2, <1>3, <1>4

\* The requests in progress have a length, and something to generate.
LEMMA EntryLengths ==
  ASSUME QueueInv
  PROVE  Lengths(Ins, Outs, entries)
  <1>1. TypeOK /\ Running
      BY DEF QueueInv
  <1>2. entries \in SUBSET Requests /\ IsFiniteSet(entries) /\ \A r \in entries : generated[r] < Out[r]
      BY <1>1 DEF TypeOK, Running
  <1>3. ASSUME NEW r \in entries PROVE Ins[r] \in Nat /\ Outs[r] \in Nat \ {0}
      <2>1. r \in Requests /\ generated[r] < Out[r] /\ generated[r] \in Nat /\ Out[r] \in Nat
            /\ Outs[r] = Out[r] - generated[r] /\ Ins[r] \in Nat
          BY <1>1, <1>2, LengthTypes
      <2>. QED  BY <2>1
  <1>. QED  BY <1>2, <1>3 DEF Lengths

\* try_next_batch is called with no prefill under way.
LEMMA InvReady ==
  ASSUME QueueInv, prefilling = {}
  PROVE  Ready /\ \A j \in 1 .. Len(buffer) : queue_time[buffer[j]] \in Nat
  <1>1. TypeOK /\ Waiting /\ Projected(Kind, Ins, Outs, entries \ prefilling, prefilling)
      BY DEF QueueInv
  <1>2. entries \ prefilling = entries
      OBVIOUS
  <1>3. Projected(Kind, Ins, Outs, entries, {})
      BY <1>1, <1>2, Zenon
  <1>4. Lengths(Ins, Outs, entries)
      BY EntryLengths
  <1>5. In \in [Requests -> Nat] /\ Out \in [Requests -> Nat \ {0}] /\ buffer \in Seq(Requests)
      BY <1>1, LengthTypes DEF TypeOK
  <1>. QED  BY <1>1, <1>3, <1>4, <1>5 DEF Ready, Waiting

\* What the shard keeps, in terms of Space.
LEMMA CacheWeightIs ==
  ASSUME TypeOK, NEW rs \in SUBSET entries, IsFiniteSet(entries)
  PROVE  /\ CacheWeight(rs) = NextTokenWeight(Space(Kind, Ins, rs)) /\ NextTokenWeight(Space(Kind, Ins, rs)) \in Nat
         /\ batch_initial_weight(compute_stats(rs), Cardinality(rs)) = NextTokenWeight(Space(Kind, Ins, rs))
  <1>1. rs \in SUBSET Requests /\ IsFiniteSet(rs) /\ \A r \in rs : Ins[r] \in Nat
      BY FS_Subset, LengthTypes DEF TypeOK
  <1>2. MapThenSumSet(InLen, rs) = Total(Ins, rs)
      BY <1>1, InputSum
  <1>3. {InLen(r) : r \in rs} = {Ins[r] : r \in rs}
      BY <1>1 DEF Ins
  <1>4. Max({0} \cup {InLen(r) : r \in rs}) = Longest(Ins, rs)
      BY <1>3 DEF Longest
  <1>5. Space(Kind, Ins, rs) \in Nat
      BY <1>1, SpaceGrows
  <1>6. NextTokenWeight(Space(Kind, Ins, rs)) \in Nat
      <2>1. Space(Kind, Ins, rs) <= Space(Kind, Ins, rs)
          BY <1>5
      <2>. QED  BY <1>5, <2>1, WeightGrows
  <1>7. CacheWeight(rs) = NextTokenWeight(Space(Kind, Ins, rs))
      BY <1>2, <1>4 DEF CacheWeight, Space
  <1>8. compute_stats(rs).in_sum = Total(Ins, rs) /\ compute_stats(rs).max_in = Longest(Ins, rs)
      BY <1>2, <1>4 DEF compute_stats
  <1>9. batch_initial_weight(compute_stats(rs), Cardinality(rs)) = NextTokenWeight(Space(Kind, Ins, rs))
      BY <1>8 DEF batch_initial_weight, Space
  <1>. QED  BY <1>6, <1>7, <1>9

\* Nothing takes no space.
LEMMA EmptyFits ==
  ASSUME NEW kind, NEW f
  PROVE  NextTokenWeight(Space(kind, f, {})) = 0
  <1>1. IsFiniteSet({}) /\ Cardinality({}) = 0
      BY FS_EmptySet
  <1>2. Total(f, {}) = 0 /\ Longest(f, {}) = 0
      <2>1. Total(f, {}) = 0
          BY <1>1, TotalRec
      <2>2. Longest(f, {}) = 0
          BY <1>1, LongestIs
      <2>. QED  BY <2>1, <2>2
  <1>3. Space(kind, f, {}) = 0
      BY <1>1, <1>2 DEF Space
  <1>4. NextTokenGradient \in Nat /\ Scale \in Nat \ {0}
      BY QueueAssumption
  <1>5. 0 * NextTokenGradient = 0
      BY <1>4
  <1>. QED  BY <1>3, <1>4, <1>5 DEF NextTokenWeight

\* The first of the steps to come is the next one.
LEMMA NowFits ==
  ASSUME NEW rs, Lengths(Ins, Outs, rs), Projected(Kind, Ins, Outs, rs, {})
  PROVE  NextTokenWeight(Space(Kind, Ins, rs)) <= WeightLimit
  <1> DEFINE len == LengthAfter(Ins, {}, 0)
             left == LeftAfter(Outs, rs, {}, 0)
  <1>1. IsFiniteSet(rs) /\ rs \in SUBSET Requests /\ \A r \in rs : Ins[r] \in Nat /\ Outs[r] \in Nat /\ Outs[r] > 0
      BY DEF Lengths
  <1>2. left = rs
      BY <1>1 DEF LeftAfter
  <1>3. \A r \in rs : len[r] \in Nat /\ Ins[r] <= len[r]
      BY <1>1 DEF LengthAfter
  <1>4. NextTokenWeight(Space(Kind, len, left)) <= WeightLimit
      BY DEF Projected
  <1> HIDE DEF len, left
  <1>5. Space(Kind, Ins, rs) \in Nat /\ Space(Kind, len, rs) \in Nat /\ Space(Kind, Ins, rs) <= Space(Kind, len, rs)
      BY <1>1, <1>3, SpaceGrows
  <1>6. /\ NextTokenWeight(Space(Kind, Ins, rs)) \in Nat /\ NextTokenWeight(Space(Kind, len, rs)) \in Nat
        /\ NextTokenWeight(Space(Kind, Ins, rs)) <= NextTokenWeight(Space(Kind, len, rs))
      BY <1>5, WeightGrows
  <1>7. NextTokenWeight(Space(Kind, len, rs)) <= WeightLimit
      BY <1>2, <1>4, Zenon
  <1>. QED  BY <1>6, <1>7, QueueAssumption

\* A call has returned: the requests in old have n tokens more, those in new one more
\* than that, and some of them are completed.
LEMMA TokensArrive ==
  ASSUME NEW kind, NEW ins, NEW outs, NEW ins2, NEW outs2, NEW old, NEW new, NEW n \in Nat,
         Projected(kind, ins, outs, old, new), old \cap new = {},
         NEW rs \in SUBSET (old \cup new), IsFiniteSet(old \cup new), old \cup new \in SUBSET Requests,
         \A r \in old \cup new : ins[r] \in Nat /\ outs[r] \in Nat,
         \A r \in rs \cap old : ins2[r] = ins[r] + n /\ outs2[r] = outs[r] - n,
         \A r \in rs \cap new : ins2[r] = ins[r] + (n + 1) /\ outs2[r] = outs[r] - (n + 1)
  PROVE  Projected(kind, ins2, outs2, rs, {})
  <1> SUFFICES ASSUME NEW d \in Nat
               PROVE  NextTokenWeight(Space(kind, LengthAfter(ins2, {}, d), LeftAfter(outs2, rs, {}, d))) <= WeightLimit
      BY DEF Projected
  <1> DEFINE len == LengthAfter(ins2, {}, d)
             left == LeftAfter(outs2, rs, {}, d)
             was == LengthAfter(ins, new, d + n)
             had == LeftAfter(outs, old, new, d + n)
  <1>1. d + n \in Nat
      OBVIOUS
  <1>2. NextTokenWeight(Space(kind, was, had)) <= WeightLimit
      BY <1>1 DEF Projected
  <1>3. ASSUME NEW r \in left PROVE r \in had /\ len[r] \in Nat /\ len[r] <= was[r]
      <2>1. r \in rs /\ outs2[r] > d
          BY <1>3 DEF LeftAfter
      <2>2. r \in Requests /\ ins[r] \in Nat /\ outs[r] \in Nat /\ (r \in old \/ r \in new)
          BY <2>1
      <2>3. len[r] = ins2[r] + d + 0 /\ was[r] = ins[r] + (d + n) + (IF r \in new THEN 1 ELSE 0)
          BY <2>2 DEF LengthAfter
      <2>4. CASE r \in old
          <3>1. ins2[r] = ins[r] + n /\ outs2[r] = outs[r] - n /\ r \notin new
              BY <2>1, <2>4
          <3>2. r \in had
              BY <2>1, <2>2, <2>4, <3>1 DEF LeftAfter
          <3> HIDE DEF len, was, had
          <3>. QED  BY <2>2, <2>3, <3>1, <3>2
      <2>5. CASE r \in new
          <3>1. ins2[r] = ins[r] + (n + 1) /\ outs2[r] = outs[r] - (n + 1)
              BY <2>1, <2>5
          <3>2. r \in had
              BY <2>1, <2>2, <2>5, <3>1 DEF LeftAfter
          <3> HIDE DEF len, was, had
          <3>. QED  BY <2>2, <2>3, <2>5, <3>1, <3>2
      <2>. QED  BY <2>2, <2>4, <2>5
  <1>4. had \in SUBSET (old \cup new) /\ \A r \in had : was[r] \in Nat
      BY <1>1 DEF LeftAfter, LengthAfter
  <1>5. IsFiniteSet(had)
      BY <1>4, FS_Subset
  <1> HIDE DEF len, left, was, had
  <1>6. left \in SUBSET had /\ \A r \in left : len[r] \in Nat /\ len[r] <= was[r]
      BY <1>3
  <1>7. Space(kind, len, left) \in Nat /\ Space(kind, was, had) \in Nat /\ Space(kind, len, left) <= Space(kind, was, had)
      BY <1>4, <1>5, <1>6, SpaceGrows
  <1>8. /\ NextTokenWeight(Space(kind, len, left)) \in Nat /\ NextTokenWeight(Space(kind, was, had)) \in Nat
        /\ NextTokenWeight(Space(kind, len, left)) <= NextTokenWeight(Space(kind, was, had))
      BY <1>7, WeightGrows
  <1>9. NextTokenWeight(Space(kind, len, left)) <= WeightLimit
      BY <1>2, <1>8, QueueAssumption
  <1>. QED  BY <1>9 DEF len, left

\* The router starts with nothing queued and nothing in progress.
LEMMA InvInit ==
  ASSUME Init
  PROVE  QueueInv
  <1>1. entries = {} /\ prefilling = {} /\ buffer = <<>>
      BY DEF Init
  <1>2. TypeOK
      <2>1. 0 \in 0 .. MaxTime
          BY QueueAssumption
      <2>. QED  BY <2>1 DEF Init, TypeOK, NotCreated
  <1>3. Waiting /\ Admitted /\ PrefillWithin
      BY <1>1 DEF Init, Waiting, Admitted, PrefillWithin
  <1>4. Running
      BY <1>1, FS_EmptySet DEF Running
  <1>5. Projected(Kind, Ins, Outs, {}, {})
      <2>1. ASSUME NEW d \in Nat
            PROVE  NextTokenWeight(Space(Kind, LengthAfter(Ins, {}, d), LeftAfter(Outs, {}, {}, d))) <= WeightLimit
          <3>1. LeftAfter(Outs, {}, {}, d) = {}
              BY DEF LeftAfter
          <3>2. NextTokenWeight(Space(Kind, LengthAfter(Ins, {}, d), {})) = 0
              BY EmptyFits
          <3>. QED  BY <3>1, <3>2, QueueAssumption
      <2>. QED  BY <2>1 DEF Projected
  <1>6. entries \ prefilling = {}
      BY <1>1
  <1>. QED  BY <1>1, <1>2, <1>3, <1>4, <1>5, <1>6, Zenon DEF QueueInv

\* What does not concern the batch in progress.
LEMMA BatchSame ==
  ASSUME QueueInv, UNCHANGED <<Kind, In, Out, entries, generated, prefilling>>
  PROVE  /\ Running' /\ Admitted' /\ PrefillWithin'
         /\ Projected(Kind, Ins, Outs, entries \ prefilling, prefilling)'
  <1>1. Ins' = Ins /\ Outs' = Outs
      BY DEF Ins, Outs, InLen, OutLen
  <1>2. Running' /\ Admitted'
      BY DEF QueueInv, Running, Admitted
  <1>3. PrefillWithin'
      BY <1>1, Zenon DEF QueueInv, PrefillWithin
  <1>4. Projected(Kind', Ins', Outs', entries' \ prefilling', prefilling')
      BY <1>1, Zenon DEF QueueInv
  <1>. QED  BY <1>2, <1>3, <1>4

\* The steps that leave the batch alone: the clock, and requests on their way to the buffer.
LEMMA InvTick ==
  ASSUME QueueInv, Tick
  PROVE  QueueInv'
  <1>1. Running' /\ Admitted' /\ PrefillWithin' /\ Projected(Kind, Ins, Outs, entries \ prefilling, prefilling)'
      BY BatchSame DEF Tick
  <1>2. TypeOK'
      <2>1. clock + 1 \in 0 .. MaxTime
          BY QueueAssumption DEF QueueInv, TypeOK, Tick
      <2>. QED  BY <2>1 DEF QueueInv, TypeOK, Tick
  <1>3. Waiting'
      BY DEF QueueInv, Waiting, Tick
  <1>. QED  BY <1>1, <1>2, <1>3 DEF QueueInv

\* Entry::new.
LEMMA InvCreate ==
  ASSUME QueueInv, NEW r \in Requests, Create(r)
  PROVE  QueueInv'
  <1>1. Running' /\ Admitted' /\ PrefillWithin' /\ Projected(Kind, Ins, Outs, entries \ prefilling, prefilling)'
      BY BatchSame DEF Create
  <1>2. TypeOK'
      BY DEF QueueInv, TypeOK, Create
  <1>3. Waiting'
      <2>1. clock \in Nat /\ queue_time \in [Requests -> Int] /\ buffer \in Seq(Requests)
          BY QueueAssumption DEF QueueInv, TypeOK, NotCreated
      <2>2. queue_time' = [queue_time EXCEPT ![r] = clock] /\ buffer' = buffer /\ entries' = entries
            /\ generated' = generated
          BY DEF Create
      <2>3. \A k \in 1 .. Len(buffer) : buffer[k] \in Requests
          BY <2>1
      <2>. QED  BY <2>1, <2>2, <2>3 DEF QueueInv, Waiting
  <1>. QED  BY <1>1, <1>2, <1>3 DEF QueueInv

\* The request reaches the buffer.
LEMMA InvAddToBuffer ==
  ASSUME QueueInv, NEW r \in Requests, AddToBuffer(r)
  PROVE  QueueInv'
  <1>1. Running' /\ Admitted' /\ PrefillWithin' /\ Projected(Kind, Ins, Outs, entries \ prefilling, prefilling)'
      BY BatchSame DEF AddToBuffer
  <1>2. /\ buffer \in Seq(Requests) /\ buffer' = Append(buffer, r) /\ entries' = entries /\ generated' = generated
        /\ queue_time' = queue_time /\ queue_time[r] # NotCreated /\ r \notin Queued
      BY DEF QueueInv, TypeOK, AddToBuffer
  <1>3. TypeOK'
      <2>1. Append(buffer, r) \in Seq(Requests)
          BY <1>2
      <2>. QED  BY <1>2, <2>1 DEF QueueInv, TypeOK, AddToBuffer
  <1>4. Waiting'
      <2>1. r \notin entries /\ generated[r] = 0 /\ \A k \in 1 .. Len(buffer) : buffer[k] # r
          <3>1. r \notin Range(buffer) /\ r \notin entries /\ ~(generated[r] > 0)
              BY <1>2 DEF Queued
          <3>2. generated[r] \in Nat
              BY DEF QueueInv, TypeOK
          <3>3. \A k \in 1 .. Len(buffer) : buffer[k] \in Range(buffer)
              BY <1>2 DEF Range
          <3>. QED  BY <3>1, <3>2, <3>3
      <2>2. queue_time[r] \in Nat
          BY <1>2, QueueAssumption DEF QueueInv, TypeOK, NotCreated
      <2> DEFINE b == Append(buffer, r)
      <2>3. /\ Len(buffer) \in Nat /\ Len(b) = Len(buffer) + 1 /\ b[Len(buffer) + 1] = r
            /\ \A i \in 1 .. Len(buffer) : b[i] = buffer[i]
            /\ \A i \in 1 .. Len(b) : i \in 1 .. Len(buffer) \/ i = Len(buffer) + 1
          BY <1>2
      <2> HIDE DEF b
      <2>4. \A i, j \in 1 .. Len(b) : b[i] = b[j] => i = j
          BY <2>1, <2>3 DEF QueueInv, Waiting
      <2>5. \A i \in 1 .. Len(b) : b[i] \notin entries /\ generated[b[i]] = 0 /\ queue_time[b[i]] \in Nat
          BY <2>1, <2>2, <2>3 DEF QueueInv, Waiting
      <2>6. buffer' = b
          BY <1>2 DEF b
      <2>. QED  BY <1>2, <2>4, <2>5, <2>6, Zenon DEF Waiting
  <1>. QED  BY <1>1, <1>3, <1>4 DEF QueueInv

\* What try_next_batch returns is what the loop has chosen at its end.
LEMMA ChosenIs ==
  ASSUME NEW min_size, NEW limit, Chosen(min_size, limit) # <<>>
  PROVE  Chosen(min_size, limit) = Turns(min_size, limit)[Len(buffer)].chosen /\ limit # 0
  BY DEF Chosen

\* The limit for the prefill is a number, and leaves the batch in progress its space.
LEMMA LimitIs ==
  ASSUME QueueInv, NEW slack \in {0, 1}
  PROVE  /\ EffectivePrefillLimit(slack) \in Int
         /\ EffectivePrefillLimit(slack) # 0
            => EffectivePrefillLimit(slack) + NextTokenWeight(Space(Kind, Ins, entries)) <= WeightLimit
  <1> DEFINE L == EffectivePrefillLimit(slack)
             w == NextTokenWeight(Space(Kind, Ins, entries))
  <1>1. /\ batch_initial_weight(compute_stats(entries), Cardinality(entries)) = w
        /\ w \in Nat
      BY CacheWeightIs DEF QueueInv, Running
  <1>2. WeightLimit \in Nat
      BY QueueAssumption
  <1>3. L = IF entries = {} THEN WeightLimit ELSE IF WeightLimit - w > slack THEN (WeightLimit - w) - slack ELSE 0
      BY <1>1 DEF EffectivePrefillLimit
  <1>4. entries = {} => w = 0
      BY EmptyFits
  <1> HIDE DEF L, w
  <1>5. L \in Int /\ (L # 0 => L + w <= WeightLimit)
      BY <1>1, <1>2, <1>3, <1>4
  <1>. QED  BY <1>5 DEF L, w

\* A batch is sent to the shard.
LEMMA InvNextBatch ==
  ASSUME QueueInv, NEW min_size, NEW slack \in {0, 1}, TryNextBatch(min_size, slack)
  PROVE  QueueInv'
  <1> DEFINE L == EffectivePrefillLimit(slack)
             s == Turns(min_size, L)[Len(buffer)]
             new == Range(s.chosen)
  <1>1. TypeOK /\ Waiting /\ Running /\ Admitted
      BY DEF QueueInv
  <1>2. prefilling = {} /\ Chosen(min_size, L) # <<>> /\ UNCHANGED <<Kind, In, Out, clock, queue_time, generated>>
      BY DEF TryNextBatch
  <1>3. Chosen(min_size, L) = s.chosen /\ L # 0
      BY <1>2, ChosenIs
  <1>4. buffer' = Remaining(s.chosen) /\ entries' = entries \cup new /\ prefilling' = new /\ s.chosen # <<>>
      BY <1>2, <1>3 DEF TryNextBatch
  <1>5. L \in Int /\ L + NextTokenWeight(Space(Kind, Ins, entries)) <= WeightLimit
      BY <1>3, LimitIs
  <1>6. Ready
      BY <1>2, InvReady
  <1>7. TurnInv(s, Len(buffer), L)
      <2>1. Len(buffer) \in 0 .. Len(buffer)
          BY <1>6 DEF Ready
      <2> HIDE DEF L
      <2>. QED  BY <1>5, <1>6, <2>1, LoopFits
  <1>8. /\ IsFiniteSet(new) /\ Cardinality(new) = Len(s.chosen) /\ s.chosen \in Seq(Requests)
        /\ \A r \in new : \E j \in 1 .. Len(buffer) : r = buffer[j]
        /\ InStats(s.prefill, Ins, new) /\ Projected(Kind, Ins, Outs, entries, new)
        /\ PrefillWeight(Kind, s.prefill.in_sum, s.prefill.max_in, Len(s.chosen)) <= L
      <2> HIDE DEF s, L
      <2>. QED  BY <1>4, <1>7 DEF TurnInv
  <1>9. \A r \in new : r \in Requests /\ r \notin entries /\ generated[r] = 0 /\ Ins[r] \in Nat
      <2>1. \A j \in 1 .. Len(buffer) :
                buffer[j] \in Requests /\ buffer[j] \notin entries /\ generated[buffer[j]] = 0
          BY <1>6 DEF Ready
      <2>2. \A r \in Requests : Ins[r] \in Nat
          BY <1>1, LengthTypes
      <2> HIDE DEF new
      <2>. QED  BY <1>8, <2>1, <2>2
  <1> HIDE DEF s, L, new
  <1>10. (entries \cup new) \ new = entries
      BY <1>9
  <1>11. Ins' = Ins /\ Outs' = Outs
      BY <1>2 DEF Ins, Outs, InLen, OutLen
  <1>12. Projected(Kind', Ins', Outs', entries' \ prefilling', prefilling')
      BY <1>2, <1>4, <1>8, <1>10, <1>11, Zenon
  <1> DEFINE rest == Remaining(s.chosen)
  <1>13. /\ rest \in Seq(Requests)
         /\ \A i \in 1 .. Len(rest) : \E j \in 1 .. Len(buffer) : rest[i] = buffer[j] /\ buffer[j] \notin new
         /\ \A i, j \in 1 .. Len(rest) : rest[i] = rest[j] => i = j
      BY <1>6, RemainingIs DEF new
  <1> HIDE DEF rest
  <1>14. Waiting'
      <2>1. buffer' = rest /\ generated' = generated /\ queue_time' = queue_time
          BY <1>2, <1>4 DEF rest
      <2>2. \A i \in 1 .. Len(rest) :
                rest[i] \notin entries \cup new /\ generated[rest[i]] = 0 /\ queue_time[rest[i]] \in Nat
          BY <1>1, <1>13 DEF Waiting
      <2>. QED  BY <1>4, <1>13, <2>1, <2>2, Zenon DEF Waiting
  <1>15. TypeOK'
      <2>1. buffer' \in Seq(Requests) /\ entries' \in SUBSET Requests /\ prefilling' \in SUBSET entries'
          <3>1. entries \in SUBSET Requests
              BY <1>1 DEF TypeOK
          <3>. QED  BY <1>4, <1>9, <1>13, <3>1 DEF rest
      <2>. QED  BY <1>1, <1>2, <2>1 DEF TypeOK
  <1>16. Running'
      <2>1. IsFiniteSet(entries \cup new)
          BY <1>1, <1>8, FS_Union DEF Running
      <2>2. \A r \in new : 0 < Out[r]
          BY <1>9, LengthTypes, <1>1
      <2>. QED  BY <1>1, <1>2, <1>4, <1>9, <2>1, <2>2 DEF Running
  <1>17. Admitted'
      BY <1>1, <1>2 DEF Admitted
  <1>18. PrefillWithin'
      <2> DEFINE p == PrefillWeight(Kind, Total(Ins, new), Longest(Ins, new), Cardinality(new))
                 w == NextTokenWeight(Space(Kind, Ins, entries))
      <2>1. p <= L
          BY <1>8, Zenon DEF InStats
      <2>2. p \in Int /\ w \in Nat
          <3>1. Total(Ins, new) \in Nat /\ Longest(Ins, new) \in Nat /\ Cardinality(new) \in Nat
              BY <1>8, <1>9, TotalRec, LongestIs, FS_CardinalityType
          <3>2. p \in Int
              BY <3>1, PrefillTyped
          <3>. QED  BY <1>1, <3>2, CacheWeightIs DEF Running
      <2> HIDE DEF p, w
      <2>3. p + w <= WeightLimit
          <3>1. L + w <= WeightLimit /\ WeightLimit \in Nat
              BY <1>5, QueueAssumption DEF w
          <3>. QED  BY <1>5, <2>1, <2>2, <3>1
      <2>4. PrefillWeight(Kind', Total(Ins', prefilling'), Longest(Ins', prefilling'), Cardinality(prefilling'))
            + NextTokenWeight(Space(Kind', Ins', entries' \ prefilling')) = p + w
          BY <1>2, <1>4, <1>10, <1>11, Zenon DEF p, w
      <2>. QED  BY <2>3, <2>4, Zenon DEF PrefillWithin
  <1>. QED  BY <1>12, <1>14, <1>15, <1>16, <1>17, <1>18, Zenon DEF QueueInv

\* What a call that returned leaves true of the requests themselves.
LEMMA GeneratedKeeps ==
  ASSUME QueueInv, NEW rs \in SUBSET entries, NEW done, Generated(rs, done),
         prefilling' = {}, prefilling \in SUBSET rs
  PROVE  TypeOK' /\ Waiting' /\ Running' /\ Admitted' /\ PrefillWithin'
  <1>1. TypeOK /\ Waiting /\ Running /\ Admitted
      BY DEF QueueInv
  <1>2. /\ generated' = [r \in Requests |-> IF r \in rs THEN generated[r] + 1 ELSE generated[r]]
        /\ entries' = entries \ done /\ UNCHANGED <<Kind, In, Out, clock, queue_time, buffer>>
        /\ \A r \in rs : OutLen(r) = 1 => r \in done
      BY DEF Generated
  <1>3. generated \in [Requests -> Nat] /\ entries \in SUBSET Requests /\ Out \in [Requests -> Nat \ {0}]
      BY <1>1, LengthTypes DEF TypeOK
  <1>4. TypeOK'
      <2>1. generated' \in [Requests -> Nat]
          BY <1>2, <1>3
      <2>2. entries' \in SUBSET Requests
          BY <1>2, <1>3
      <2>. QED  BY <1>1, <1>2, <2>1, <2>2 DEF TypeOK
  <1>5. Waiting'
      <2>1. \A k \in 1 .. Len(buffer) : buffer[k] \in Requests
          BY <1>1 DEF TypeOK
      <2>2. \A k \in 1 .. Len(buffer) : buffer[k] \notin entries' /\ generated'[buffer[k]] = generated[buffer[k]]
          BY <1>1, <1>2, <2>1 DEF Waiting
      <2>. QED  BY <1>1, <1>2, <2>2 DEF Waiting
  <1>6. Running'
      <2>1. IsFiniteSet(entries')
          BY <1>1, <1>2, FS_Subset DEF Running
      <2>2. ASSUME NEW r \in entries' PROVE generated'[r] < Out'[r]
          <3>1. r \in entries /\ r \notin done /\ r \in Requests /\ Out'[r] = Out[r]
              BY <1>2, <1>3
          <3>2. generated[r] < Out[r] /\ generated[r] \in Nat /\ Out[r] \in Nat
              BY <1>1, <1>3, <3>1 DEF Running
          <3>3. r \in rs => Out[r] - generated[r] # 1
              BY <1>2, <3>1 DEF OutLen
          <3>4. generated'[r] = IF r \in rs THEN generated[r] + 1 ELSE generated[r]
              BY <1>2, <3>1
          <3>. QED  BY <3>1, <3>2, <3>3, <3>4
      <2>. QED  BY <2>1, <2>2 DEF Running
  <1>7. Admitted' /\ PrefillWithin'
      BY <1>1, <1>2 DEF Admitted, PrefillWithin
  <1>. QED  BY <1>4, <1>5, <1>6, <1>7

\* The lengths of the requests that got a token, and of the others.
LEMMA GeneratedLengths ==
  ASSUME QueueInv, NEW rs \in SUBSET entries, NEW done, Generated(rs, done)
  PROVE  \A r \in entries :
            /\ r \in rs => Ins'[r] = Ins[r] + 1 /\ Outs'[r] = Outs[r] - 1
            /\ r \notin rs => Ins'[r] = Ins[r] /\ Outs'[r] = Outs[r]
            /\ Ins[r] \in Nat /\ Outs[r] \in Nat
  <1> TAKE r \in entries
  <1>1. /\ generated' = [q \in Requests |-> IF q \in rs THEN generated[q] + 1 ELSE generated[q]]
        /\ In' = In /\ Out' = Out
      BY DEF Generated
  <1>2. r \in Requests /\ In[r] \in Nat /\ Out[r] \in Nat /\ generated[r] \in Nat
        /\ Ins[r] = In[r] + generated[r] /\ Outs[r] = Out[r] - generated[r]
      BY LengthTypes DEF QueueInv, TypeOK
  <1>3. Ins'[r] = In[r] + generated'[r] /\ Outs'[r] = Out[r] - generated'[r]
      BY <1>1, <1>2 DEF Ins, Outs, InLen, OutLen
  <1>4. generated'[r] = IF r \in rs THEN generated[r] + 1 ELSE generated[r]
      BY <1>1, <1>2
  <1>5. Ins[r] \in Nat /\ Outs[r] \in Nat
      BY EntryLengths DEF Lengths
  <1>. QED  BY <1>2, <1>3, <1>4, <1>5

\* The prefill has returned: its requests join the others.
LEMMA InvPrefillDone ==
  ASSUME QueueInv, PrefillDone
  PROVE  QueueInv'
  <1>1. PICK done \in SUBSET prefilling : Generated(prefilling, done)
      BY DEF PrefillDone
  <1>2. prefilling' = {} /\ prefilling \in SUBSET entries /\ entries \in SUBSET Requests /\ IsFiniteSet(entries)
      BY DEF PrefillDone, QueueInv, TypeOK, Running
  <1>3. TypeOK' /\ Waiting' /\ Running' /\ Admitted' /\ PrefillWithin'
      BY <1>1, <1>2, GeneratedKeeps
  <1> DEFINE old == entries \ prefilling
  <1>4. entries' = entries \ done /\ Kind' = Kind
      BY <1>1 DEF Generated
  <1>5. /\ old \cup prefilling = entries /\ old \cap prefilling = {} /\ entries' \in SUBSET (old \cup prefilling)
        /\ entries' \ {} = entries'
      BY <1>2, <1>4
  <1>6. \A r \in entries : /\ r \in prefilling => Ins'[r] = Ins[r] + 1 /\ Outs'[r] = Outs[r] - 1
                           /\ r \notin prefilling => Ins'[r] = Ins[r] /\ Outs'[r] = Outs[r]
                           /\ Ins[r] \in Nat /\ Outs[r] \in Nat
      BY <1>1, <1>2, GeneratedLengths
  <1>7. /\ \A r \in entries' \cap old : Ins'[r] = Ins[r] + 0 /\ Outs'[r] = Outs[r] - 0
        /\ \A r \in entries' \cap prefilling : Ins'[r] = Ins[r] + (0 + 1) /\ Outs'[r] = Outs[r] - (0 + 1)
        /\ \A r \in old \cup prefilling : Ins[r] \in Nat /\ Outs[r] \in Nat
      BY <1>4, <1>5, <1>6
  <1>8. Projected(Kind, Ins, Outs, old, prefilling)
      BY DEF QueueInv
  <1>9. IsFiniteSet(old \cup prefilling) /\ old \cup prefilling \in SUBSET Requests /\ 0 \in Nat
      BY <1>2, <1>5
  <1> HIDE DEF old
  <1>10. Projected(Kind, Ins', Outs', entries', {})
      BY <1>5, <1>7, <1>8, <1>9, TokensArrive
  <1>11. Projected(Kind', Ins', Outs', entries' \ prefilling', prefilling')
      BY <1>2, <1>4, <1>5, <1>10, Zenon
  <1>. QED  BY <1>3, <1>11, Zenon DEF QueueInv

\* The next tokens have returned.
LEMMA InvNextTokenDone ==
  ASSUME QueueInv, NextTokenDone
  PROVE  QueueInv'
  <1>1. PICK done \in SUBSET entries : Generated(entries, done)
      BY DEF NextTokenDone
  <1>2. /\ prefilling = {} /\ prefilling' = {} /\ entries \in SUBSET entries /\ prefilling \in SUBSET entries
        /\ entries \in SUBSET Requests /\ IsFiniteSet(entries)
      BY DEF NextTokenDone, QueueInv, TypeOK, Running
  <1>3. TypeOK' /\ Waiting' /\ Running' /\ Admitted' /\ PrefillWithin'
      BY <1>1, <1>2, GeneratedKeeps
  <1>4. entries' = entries \ done /\ Kind' = Kind
      BY <1>1 DEF Generated
  <1> DEFINE no == {}
  <1>5. /\ entries \cup no = entries /\ entries \cap no = {} /\ entries' \in SUBSET (entries \cup no)
        /\ entries' \ {} = entries' /\ entries \ {} = entries
      BY <1>4
  <1>6. \A r \in entries : Ins'[r] = Ins[r] + 1 /\ Outs'[r] = Outs[r] - 1 /\ Ins[r] \in Nat /\ Outs[r] \in Nat
      BY <1>1, <1>2, GeneratedLengths
  <1>7. /\ \A r \in entries' \cap entries : Ins'[r] = Ins[r] + 1 /\ Outs'[r] = Outs[r] - 1
        /\ \A r \in entries' \cap no : Ins'[r] = Ins[r] + (1 + 1) /\ Outs'[r] = Outs[r] - (1 + 1)
        /\ \A r \in entries \cup no : Ins[r] \in Nat /\ Outs[r] \in Nat
      BY <1>6
  <1>8. Projected(Kind, Ins, Outs, entries, no)
      BY <1>2, <1>5, Zenon DEF QueueInv
  <1>9. IsFiniteSet(entries \cup no) /\ entries \cup no \in SUBSET Requests /\ 1 \in Nat
      BY <1>2, <1>5
  <1> HIDE DEF no
  <1>10. Projected(Kind, Ins', Outs', entries', {})
      BY <1>5, <1>7, <1>8, <1>9, TokensArrive
  <1>11. Projected(Kind', Ins', Outs', entries' \ prefilling', prefilling')
      BY <1>2, <1>4, <1>5, <1>10, Zenon
  <1>. QED  BY <1>3, <1>11, Zenon DEF QueueInv

\* QueueInv is an invariant of the queue: what has been promised to the requests in
\* progress still holds after any number of add-on batches.
THEOREM QueueInvariant == Spec => []QueueInv
  <1>1. Init => QueueInv
      BY InvInit
  <1>2. QueueInv /\ [Next]_vars => QueueInv'
      <2> SUFFICES ASSUME QueueInv, [Next]_vars PROVE QueueInv'
          OBVIOUS
      <2>1. CASE Tick
          BY <2>1, InvTick
      <2>2. CASE \E r \in Requests : Create(r) \/ AddToBuffer(r)
          BY <2>2, InvCreate, InvAddToBuffer
      <2>3. CASE NextBatch
          BY <2>3, InvNextBatch DEF NextBatch
      <2>4. CASE PrefillDone
          BY <2>4, InvPrefillDone
      <2>5. CASE NextTokenDone
          BY <2>5, InvNextTokenDone
      <2>6. CASE UNCHANGED vars
          <3>1. Running' /\ Admitted' /\ PrefillWithin' /\ Projected(Kind, Ins, Outs, entries \ prefilling, prefilling)'
              BY <2>6, BatchSame DEF vars
          <3>2. TypeOK' /\ Waiting'
              BY <2>6 DEF vars, QueueInv, TypeOK, Waiting
          <3>. QED  BY <3>1, <3>2 DEF QueueInv
      <2>7. CASE AllServed
          BY <2>6, <2>7 DEF AllServed
      <2>. QED  BY <2>1, <2>2, <2>3, <2>4, <2>5, <2>6, <2>7 DEF Next
  <1>. QED  BY <1>1, <1>2, PTL DEF Spec

\* WithinWeightLimit: at no step does what the shard keeps weigh more than the limit.
THEOREM WeightsStayWithin == Spec => []WithinWeightLimit
  <1>1. QueueInv => WithinWeightLimit
      <2> SUFFICES ASSUME QueueInv, prefilling = {} PROVE CacheWeight(entries) <= WeightLimit
          BY DEF WithinWeightLimit
      <2>1. NextTokenWeight(Space(Kind, Ins, entries)) <= WeightLimit
          BY InvReady, EntryLengths, NowFits DEF Ready
      <2>2. CacheWeight(entries) = NextTokenWeight(Space(Kind, Ins, entries))
          BY CacheWeightIs DEF QueueInv, Running
      <2>. QED  BY <2>1, <2>2
  <1>. QED  BY <1>1, QueueInvariant, PTL

\* PrefillFits: the prefill of every batch chosen fits beside the batch in progress.
THEOREM PrefillsFit == Spec => []PrefillFits
  <1>1. QueueInv => PrefillFits
      <2> SUFFICES ASSUME QueueInv, prefilling # {}
                   PROVE  PrefillWeight(Kind, compute_stats(prefilling).in_sum, compute_stats(prefilling).max_in,
                                        Cardinality(prefilling)) + CacheWeight(entries \ prefilling) <= WeightLimit
          BY DEF PrefillFits
      <2>1. TypeOK /\ IsFiniteSet(entries) /\ PrefillWithin
          BY DEF QueueInv, Running
      <2>2. prefilling \in SUBSET entries /\ entries \in SUBSET Requests
          BY <2>1 DEF TypeOK
      <2>3. CacheWeight(entries \ prefilling) = NextTokenWeight(Space(Kind, Ins, entries \ prefilling))
          <3>1. entries \ prefilling \in SUBSET entries
              OBVIOUS
          <3>. QED  BY <2>1, <3>1, CacheWeightIs
      <2>4. /\ compute_stats(prefilling).in_sum = Total(Ins, prefilling)
            /\ compute_stats(prefilling).max_in = Longest(Ins, prefilling)
          <3>1. IsFiniteSet(prefilling) /\ prefilling \in SUBSET Requests
              BY <2>1, <2>2, FS_Subset
          <3>2. \A r \in prefilling : Ins[r] \in Nat /\ Outs[r] \in Nat
              BY <2>2, EntryLengths DEF Lengths
          <3>. QED  BY <3>1, <3>2, StatsStart DEF InStats
      <2>. QED  BY <2>1, <2>3, <2>4, Zenon DEF PrefillWithin
  <1>. QED  BY <1>1, QueueInvariant, PTL

\* NextBatchProgress: with nothing in progress the queue always gives a batch.
THEOREM AlwaysABatch == Spec => []NextBatchProgress
  <1>1. QueueInv => NextBatchProgress
      <2> SUFFICES ASSUME QueueInv, entries = {}, buffer # <<>> PROVE Chosen(1, EffectivePrefillLimit(0)) # <<>>
          BY DEF NextBatchProgress
      <2>1. TypeOK /\ Admitted
          BY DEF QueueInv
      <2>2. prefilling = {} /\ Kind \in Kinds
          BY <2>1 DEF TypeOK
      <2>3. Ready
          BY <2>2, InvReady
      <2>4. EffectivePrefillLimit(0) = WeightLimit
          BY DEF EffectivePrefillLimit
      <2>5. \A k \in 1 .. Len(buffer) : In[buffer[k]] + Out[buffer[k]] <= MaxSequenceLength
          BY <2>1, <2>3 DEF Admitted, Ready
      <2>6. Turns(1, WeightLimit)[Len(buffer)].chosen # <<>> /\ Turns(1, WeightLimit)[Len(buffer)].none = FALSE
          BY <2>2, <2>3, <2>5, LoopProgress
      <2>7. ~(Len(buffer) < 1) /\ ~(Cardinality(entries) + 1 > SizeLimit) /\ WeightLimit # 0
          BY <2>3, FS_EmptySet, QueueAssumption DEF Ready
      <2>. QED  BY <2>4, <2>6, <2>7 DEF Chosen
  <1>. QED  BY <1>1, QueueInvariant, PTL

\* CutoffRespected: who overtakes the first request passed over was created at most
\* CUTOFF_DURATION after it.
THEOREM NoLateOvertaking == Spec => CutoffRespected
  <1> DEFINE Overtake(j, k) ==
                /\ j < k /\ buffer[j] \notin entries' /\ buffer[k] \in entries'
                /\ \A h \in 1 .. j - 1 : buffer[h] \in entries'
             Respected == \A j \in DOMAIN buffer, k \in DOMAIN buffer :
                             Overtake(j, k) => queue_time[buffer[k]] <= queue_time[buffer[j]] + Cutoff
  <1>1. QueueInv /\ [Next]_vars => [Respected]_vars
      <2> SUFFICES ASSUME QueueInv, Next, NEW j \in DOMAIN buffer, NEW k \in DOMAIN buffer, Overtake(j, k)
                   PROVE  queue_time[buffer[k]] <= queue_time[buffer[j]] + Cutoff
          OBVIOUS
      <2>1. j \in 1 .. Len(buffer) /\ k \in 1 .. Len(buffer) /\ \A i \in 1 .. Len(buffer) : buffer[i] \notin entries
          BY DEF QueueInv, TypeOK, Waiting
      <2>2. CASE entries' \subseteq entries
          BY <2>1, <2>2
      <2>3. CASE NextBatch
          <3>1. PICK min_size \in 1 .. Max({1, Cardinality(entries)}), slack \in {0, 1} : TryNextBatch(min_size, slack)
              BY <2>3 DEF NextBatch
          <3> DEFINE L == EffectivePrefillLimit(slack)
                     s == Turns(min_size, L)[Len(buffer)]
                     new == Range(s.chosen)
          <3>2. prefilling = {} /\ Chosen(min_size, L) # <<>> /\ entries' = entries \cup Range(Chosen(min_size, L))
              BY <3>1 DEF TryNextBatch
          <3>3. entries' = entries \cup new
              BY <3>2, ChosenIs
          <3>4. Ready /\ \A i \in 1 .. Len(buffer) : queue_time[buffer[i]] \in Nat
              BY <3>2, InvReady
          <3>5. L \in Int
              BY LimitIs
          <3>6. CutoffInv(s, Len(buffer))
              <4>1. Len(buffer) \in 0 .. Len(buffer)
                  BY <3>4 DEF Ready
              <4> HIDE DEF L
              <4>. QED  BY <3>4, <3>5, <4>1, LoopCutoff
          <3> HIDE DEF s, new
          <3>7. buffer[j] \notin new /\ buffer[k] \in new /\ \A h \in 1 .. j - 1 : buffer[h] \in new
              <4>1. \A h \in 1 .. j - 1 : h \in 1 .. Len(buffer)
                  BY <2>1, <3>4 DEF Ready
              <4>. QED  BY <2>1, <3>3, <4>1
          <3>. QED  BY <2>1, <3>6, <3>7 DEF CutoffInv, FirstLeft, new
      <2>4. entries' \subseteq entries \/ NextBatch
          BY DEF Next, Tick, Create, AddToBuffer, PrefillDone, NextTokenDone, Generated, AllServed, vars
      <2>. QED  BY <2>2, <2>3, <2>4
  <1>2. QueueInv /\ [Next]_vars => [\A j \in DOMAIN buffer, k \in DOMAIN buffer :
                                       /\ j < k
                                       /\ buffer[j] \notin entries' /\ buffer[k] \in entries'
                                       /\ \A h \in 1 .. j - 1 : buffer[h] \in entries'
                                       => queue_time[buffer[k]] <= queue_time[buffer[j]] + Cutoff]_vars
      BY <1>1
  <1>. QED  BY <1>2, QueueInvariant, PTL DEF Spec, CutoffRespected
=============================================================================
