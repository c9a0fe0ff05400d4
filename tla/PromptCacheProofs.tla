------------------------- MODULE PromptCacheProofs -------------------------
(***************************************************************************)
(* The prefix cache for any number of threads, prefixes and sizes: map,    *)
(* list and size agree, no entry is replaced, and the cache is an LRU      *)
(* cache.                                                                  *)
(***************************************************************************)
EXTENDS PromptCache, FiniteSums, Sequences, SequenceTheorems

-----------------------------------------------------------------------------
(* Linked lists.                                                            *)

\* The list d leads through the nodes s, n of them, in both directions.
IsList(s, n, d) ==
    /\ s \in [1 .. n -> Nodes] /\ \A i, j \in 1 .. n : s[i] = s[j] => i = j
    /\ n = 0 => d.head = None /\ d.tail = None
    /\ n # 0 => d.head = s[1] /\ d.tail = s[n] /\ d.next[s[n]] = None /\ d.prev[s[1]] = None
    /\ \A k \in 1 .. n - 1 : d.next[s[k]] = s[k + 1]
    /\ \A k \in 2 .. n : d.prev[s[k]] = s[k - 1]

Dll == [head : Nodes \cup {None}, tail : Nodes \cup {None},
        next : [Nodes -> Nodes \cup {None}], prev : [Nodes -> Nodes \cup {None}]]

\* The nodes as Order finds them.
At(n, d) == CHOOSE g : g = [k \in 1 .. n |-> IF k = 1 THEN d.head ELSE d.next[g[k - 1]]]

\* Following next from the head on finds the nodes of the list.
LEMMA FollowNext ==
  ASSUME NEW n \in Nat, NEW d, NEW s, IsList(s, n, d)
  PROVE  At(n, d) = s
  <1> DEFINE Step(g, k) == IF k = 1 THEN d.head ELSE d.next[g[k - 1]]
             a == At(n, d)
  <1>1. ASSUME NEW k \in 1 .. n PROVE s[k] = Step(s, k)
      <2>1. CASE k = 1
          BY <2>1 DEF IsList
      <2>2. CASE k # 1
          <3>1. k - 1 \in 1 .. n - 1 /\ (k - 1) + 1 = k
              BY <2>2
          <3>. QED  BY <2>2, <3>1 DEF IsList
      <2>. QED  BY <2>1, <2>2
  <1>2. s = [k \in 1 .. n |-> Step(s, k)]
      <2>1. s = [k \in 1 .. n |-> s[k]]
          BY DEF IsList
      <2> HIDE DEF Step
      <2>. QED  BY <1>1, <2>1
  <1>3. a = [k \in 1 .. n |-> Step(a, k)]
      <2> HIDE DEF Step
      <2>1. \E g : g = [k \in 1 .. n |-> Step(g, k)]
          BY <1>2
      <2>2. a = CHOOSE g : g = [k \in 1 .. n |-> Step(g, k)]
          BY DEF At, Step
      <2> HIDE DEF a
      <2>. QED  BY <2>1, <2>2
  <1> HIDE DEF a
  <1> DEFINE G == {k \in 0 .. n : k = 0 \/ a[k] = s[k]}
  <1>4. 0 \in G
      OBVIOUS
  <1>5. ASSUME NEW k \in 0 .. n - 1, k \in G PROVE k + 1 \in G
      <2>1. k + 1 \in 1 .. n /\ k + 1 \in 0 .. n /\ (k + 1) - 1 = k
          OBVIOUS
      <2>2. a[k + 1] = Step(a, k + 1)
          BY <1>3, <2>1
      <2>3. s[k + 1] = Step(s, k + 1)
          BY <1>1, <2>1
      <2>4. Step(a, k + 1) = Step(s, k + 1)
          BY <1>5, <2>1
      <2> HIDE DEF Step
      <2>. QED  BY <2>1, <2>2, <2>3, <2>4
  <1>6. 0 .. n \subseteq G
      <2> HIDE DEF G
      <2>. QED  BY <1>4, <1>5, CountingUp
  <1>7. \A k \in 1 .. n : a[k] = s[k]
      BY <1>6
  <1>8. a = [k \in 1 .. n |-> a[k]] /\ s = [k \in 1 .. n |-> s[k]]
      BY <1>2, <1>3
  <1>9. a = s
      BY <1>7, <1>8
  <1>. QED  BY <1>9 DEF a

\* move_node_to_head.
ToFront(s, n, k) == [j \in 1 .. n |-> IF j = 1 THEN s[k] ELSE IF j <= k THEN s[j - 1] ELSE s[j]]

\* The same nodes, the used one first.
LEMMA ToFrontIs ==
  ASSUME NEW n \in Nat, NEW s \in [1 .. n -> Nodes], \A i, j \in 1 .. n : s[i] = s[j] => i = j, NEW k \in 1 .. n
  PROVE  LET f == ToFront(s, n, k) IN
         /\ f \in [1 .. n -> Nodes] /\ \A i, j \in 1 .. n : f[i] = f[j] => i = j
         /\ Range(f) = Range(s)
         /\ f[1] = s[k] /\ (\A j \in 2 .. k : f[j] = s[j - 1]) /\ (\A j \in k + 1 .. n : f[j] = s[j])
  <1> DEFINE f == ToFront(s, n, k)
             p == [j \in 1 .. n |-> IF j = 1 THEN k ELSE IF j <= k THEN j - 1 ELSE j]
  <1>1. \A j \in 1 .. n : p[j] \in 1 .. n /\ f[j] = s[p[j]]
      BY DEF ToFront
  <1>2. \A i, j \in 1 .. n : p[i] = p[j] => i = j
      OBVIOUS
  <1>3. \A i \in 1 .. n : \E j \in 1 .. n : p[j] = i
      <2> TAKE i \in 1 .. n
      <2>1. CASE i = k
          <3>1. 1 \in 1 .. n /\ p[1] = k
              OBVIOUS
          <3>. QED  BY <2>1, <3>1
      <2>2. CASE i < k
          <3>1. i + 1 \in 1 .. n /\ p[i + 1] = i
              BY <2>2
          <3>. QED  BY <3>1
      <2>3. CASE i > k
          <3>1. p[i] = i
              BY <2>3
          <3>. QED  BY <3>1
      <2>. QED  BY <2>1, <2>2, <2>3
  <1>4. f[1] = s[k] /\ (\A j \in 2 .. k : f[j] = s[j - 1]) /\ (\A j \in k + 1 .. n : f[j] = s[j])
      BY DEF ToFront
  <1>5. f = [j \in 1 .. n |-> f[j]]
      BY DEF ToFront
  <1> HIDE DEF p, f
  <1>6. f \in [1 .. n -> Nodes]
      BY <1>1, <1>5
  <1>7. \A i, j \in 1 .. n : f[i] = f[j] => i = j
      BY <1>1, <1>2
  <1>8. Range(f) = Range(s)
      <2>1. DOMAIN f = 1 .. n /\ DOMAIN s = 1 .. n
          BY <1>6
      <2>2. \A j \in DOMAIN f : \E i \in DOMAIN s : f[j] = s[i]
          BY <1>1, <2>1
      <2>3. \A i \in DOMAIN s : \E j \in DOMAIN f : f[j] = s[i]
          <3> TAKE i \in DOMAIN s
          <3>1. PICK j \in 1 .. n : p[j] = i
              BY <1>3, <2>1
          <3>. QED  BY <1>1, <2>1, <3>1
      <2>. QED  BY <2>2, <2>3 DEF Range
  <1>. QED  BY <1>4, <1>6, <1>7, <1>8 DEF f

\* What a node's pointers are after move_node_to_head: those of a list with the node in
\* front, and no other nodes are touched.
LEMMA MoveToHead ==
  ASSUME NEW n \in Nat, NEW d \in Dll, NEW s, IsList(s, n, d), NEW k \in 1 .. n
  PROVE  LET e == move_node_to_head(d, s[k]) IN
         /\ e \in Dll /\ IsList(ToFront(s, n, k), n, e)
         /\ \A m \in Nodes \ Range(s) : e.next[m] = d.next[m] /\ e.prev[m] = d.prev[m]
  <1> DEFINE m == s[k]
             e == move_node_to_head(d, m)
             f == ToFront(s, n, k)
  <1>0. n # 0 /\ 1 \in 1 .. n /\ n \in 1 .. n
      OBVIOUS
  <1>1. /\ s \in [1 .. n -> Nodes] /\ \A i, j \in 1 .. n : s[i] = s[j] => i = j
        /\ d.head = s[1] /\ d.tail = s[n] /\ d.next[s[n]] = None /\ d.prev[s[1]] = None
        /\ \A j \in 1 .. n - 1 : d.next[s[j]] = s[j + 1]
        /\ \A j \in 2 .. n : d.prev[s[j]] = s[j - 1]
      BY <1>0 DEF IsList
  <1>2. /\ f \in [1 .. n -> Nodes] /\ \A i, j \in 1 .. n : f[i] = f[j] => i = j
        /\ f[1] = s[k] /\ (\A j \in 2 .. k : f[j] = s[j - 1]) /\ (\A j \in k + 1 .. n : f[j] = s[j])
      BY <1>1, ToFrontIs
  <1>3. \A x \in Range(s) : \E j \in 1 .. n : x = s[j]
      BY <1>1 DEF Range
  <1>4. \A j \in 1 .. n : s[j] \in Range(s)
      BY <1>1 DEF Range
  <1> HIDE DEF f
  <1>5. CASE k = 1
      <2>1. e = d
          BY <1>1, <1>5 DEF move_node_to_head
      <2>2. f = s
          <3>1. \A j \in 1 .. n : f[j] = s[j]
              BY <1>2, <1>5
          <3>. QED  BY <1>1, <1>2, <3>1
      <2>. QED  BY <2>1, <2>2 DEF f
  <1>6. CASE k # 1
      <2>1. k \in 2 .. n /\ k - 1 \in 1 .. n /\ m # s[1] /\ s[k - 1] # m /\ m \in Nodes /\ s[k - 1] \in Nodes
          BY <1>0, <1>1, <1>6
      <2>2. /\ e \in Dll /\ e.head = m /\ e.tail = (IF k = n THEN s[n - 1] ELSE s[n])
            /\ \A x \in Nodes : e.next[x] = IF x = m THEN s[1] ELSE IF x # s[k - 1] THEN d.next[x]
                                           ELSE IF k = n THEN None ELSE s[k + 1]
            /\ \A x \in Nodes : e.prev[x] = IF x = m THEN None ELSE IF x = s[1] THEN m
                                           ELSE IF k # n /\ x = s[k + 1] THEN s[k - 1] ELSE d.prev[x]
          <3>1. CASE k = n
              <4>1. /\ e.head = m /\ e.tail = s[k - 1]
                    /\ e.next = [[d.next EXCEPT ![s[k - 1]] = None] EXCEPT ![m] = s[1]]
                    /\ e.prev = [[d.prev EXCEPT ![s[1]] = m] EXCEPT ![m] = None]
                    /\ e \in Dll
                  BY <1>0, <1>1, <2>1, <3>1, ZenonT(60) DEF move_node_to_head, Unlink, Dll
              <4> HIDE DEF e, m
              <4>. QED  BY <2>1, <3>1, <4>1 DEF Dll
          <3>2. CASE k # n
              <4>1. k + 1 \in 1 .. n /\ k + 1 \in 2 .. n /\ s[k + 1] \in Nodes /\ s[k + 1] # m /\ m # d.tail
                  BY <1>0, <1>1, <2>1, <3>2
              <4>2. /\ d.next[m] = s[k + 1] /\ d.prev[m] = s[k - 1] /\ m # d.head
                  BY <1>1, <2>1, <4>1
              <4> HIDE DEF m
              <4>3. Unlink(d, m) = [d EXCEPT !.next[s[k - 1]] = s[k + 1], !.prev[s[k + 1]] = s[k - 1]]
                  BY <4>1, <4>2 DEF Unlink
              <4>4. e = [Unlink(d, m) EXCEPT !.head = m, !.prev[s[1]] = m, !.next[m] = s[1], !.prev[m] = None]
                  BY <1>1, <4>2 DEF move_node_to_head
              <4> DEFINE u == Unlink(d, m)
              <4>6. /\ u \in Dll /\ u.head = d.head /\ u.tail = d.tail
                    /\ u.next = [d.next EXCEPT ![s[k - 1]] = s[k + 1]]
                    /\ u.prev = [d.prev EXCEPT ![s[k + 1]] = s[k - 1]]
                  <5>1. PICK a \in Nodes, b \in Nodes : a = s[k - 1] /\ b = s[k + 1]
                      BY <2>1, <4>1
                  <5>2. u = [d EXCEPT !.next[a] = b, !.prev[b] = a]
                      BY <4>3, <5>1
                  <5> HIDE DEF u
                  <5>3. /\ u \in Dll /\ u.head = d.head /\ u.tail = d.tail
                        /\ u.next = [d.next EXCEPT ![a] = b] /\ u.prev = [d.prev EXCEPT ![b] = a]
                      BY <5>2 DEF Dll
                  <5>. QED  BY <5>1, <5>3
              <4> HIDE DEF u
              <4>5. /\ e.head = m /\ e.tail = s[n]
                    /\ e.next = [[d.next EXCEPT ![s[k - 1]] = s[k + 1]] EXCEPT ![m] = s[1]]
                    /\ e.prev = [[[d.prev EXCEPT ![s[k + 1]] = s[k - 1]] EXCEPT ![s[1]] = m] EXCEPT ![m] = None]
                    /\ e \in Dll
                  <5>1. s[1] \in Nodes
                      BY <1>0, <1>1
                  <5>2. e = [u EXCEPT !.head = m, !.prev[s[1]] = m, !.next[m] = s[1], !.prev[m] = None]
                      BY <4>4 DEF u
                  <5> HIDE DEF e
                  <5>3. /\ e.head = m /\ e.tail = u.tail /\ e \in Dll
                        /\ e.next = [u.next EXCEPT ![m] = s[1]]
                        /\ e.prev = [[u.prev EXCEPT ![s[1]] = m] EXCEPT ![m] = None]
                      BY <2>1, <4>6, <5>1, <5>2 DEF Dll
                  <5>. QED  BY <1>1, <4>6, <5>3
              <4> HIDE DEF e
              <4>. QED  BY <2>1, <3>2, <4>1, <4>5 DEF Dll
          <3>. QED  BY <3>1, <3>2
      <2> HIDE DEF e, m
      <2>3. ASSUME NEW x \in Nodes \ Range(s) PROVE e.next[x] = d.next[x] /\ e.prev[x] = d.prev[x]
          <3>1. \A j \in 1 .. n : x # s[j]
              BY <1>4
          <3>2. x # m /\ x # s[1] /\ x # s[k - 1] /\ (k # n => x # s[k + 1])
              BY <1>0, <2>1, <3>1 DEF m
          <3>. QED  BY <2>2, <3>2
      <2>4. \A j \in 1 .. n :
              /\ e.next[s[j]] = IF j = k THEN s[1] ELSE IF j # k - 1 THEN d.next[s[j]]
                                ELSE IF k = n THEN None ELSE s[k + 1]
              /\ e.prev[s[j]] = IF j = k THEN None ELSE IF j = 1 THEN s[k]
                                ELSE IF j = k + 1 THEN s[k - 1] ELSE d.prev[s[j]]
          <3> TAKE j \in 1 .. n
          <3>1. s[j] \in Nodes /\ (s[j] = m <=> j = k) /\ (s[j] = s[1] <=> j = 1) /\ (s[j] = s[k - 1] <=> j = k - 1)
              BY <1>0, <1>1, <2>1 DEF m
          <3>2. k # n => (s[j] = s[k + 1] <=> j = k + 1)
              <4>1. k # n => k + 1 \in 1 .. n
                  OBVIOUS
              <4>. QED  BY <1>1, <4>1
          <3>. QED  BY <2>2, <3>1, <3>2 DEF m
      <2>5. e.next[f[n]] = None /\ e.prev[f[1]] = None /\ e.head = f[1] /\ e.tail = f[n]
          <3>1. CASE k = n
              BY <1>0, <1>2, <2>1, <2>2, <2>4, <3>1 DEF m
          <3>2. CASE k # n
              <4>1. n \in k + 1 .. n /\ n # k - 1
                  BY <3>2
              <4>. QED  BY <1>0, <1>1, <1>2, <2>1, <2>2, <2>4, <3>2, <4>1 DEF m
          <3>. QED  BY <3>1, <3>2
      <2>6. ASSUME NEW j \in 1 .. n - 1 PROVE e.next[f[j]] = f[j + 1]
          <3>1. CASE j = 1
              BY <1>0, <1>2, <2>1, <2>4, <3>1
          <3>2. CASE j \in 2 .. k - 1
              <4>1. j - 1 \in 1 .. n - 1 /\ j - 1 # k /\ j - 1 # k - 1 /\ j \in 2 .. k /\ j + 1 \in 2 .. k
                  BY <3>2
              <4>2. f[j] = s[j - 1] /\ f[j + 1] = s[j] /\ d.next[s[j - 1]] = s[j]
                  BY <1>1, <1>2, <4>1, SMTT(30)
              <4>. QED  BY <2>4, <4>1, <4>2
          <3>3. CASE j = k /\ j # 1
              <4>1. j - 1 \in 1 .. n /\ j - 1 # k /\ j - 1 = k - 1 /\ j \in 2 .. k /\ j + 1 \in k + 1 .. n /\ k # n
                  BY <3>3
              <4>2. f[j] = s[j - 1] /\ f[j + 1] = s[k + 1]
                  BY <1>2, <3>3, <4>1
              <4>. QED  BY <2>4, <4>1, <4>2
          <3>4. CASE j \in k + 1 .. n - 1
              <4>1. j \in 1 .. n /\ j # k /\ j # k - 1 /\ j \in k + 1 .. n /\ j + 1 \in k + 1 .. n
                  BY <3>4
              <4>2. f[j] = s[j] /\ f[j + 1] = s[j + 1] /\ d.next[s[j]] = s[j + 1]
                  BY <1>1, <1>2, <4>1
              <4>. QED  BY <2>4, <4>1, <4>2
          <3>. QED  BY <3>1, <3>2, <3>3, <3>4
      <2>7. ASSUME NEW j \in 2 .. n PROVE e.prev[f[j]] = f[j - 1]
          <3>1. CASE j = 2
              <4>1. 2 \in 2 .. k /\ 1 \in 1 .. n /\ 1 # k
                  BY <2>1
              <4>2. f[2] = s[1] /\ f[1] = s[k]
                  BY <1>2, <4>1
              <4>. QED  BY <2>4, <3>1, <4>1, <4>2
          <3>2. CASE j \in 3 .. k
              <4>1. j - 1 \in 2 .. n /\ j - 1 \in 1 .. n /\ j - 1 # k /\ j - 1 # 1 /\ j - 1 # k + 1 /\ j \in 2 .. k
                    /\ j - 1 \in 2 .. k /\ (j - 1) - 1 = j - 2
                  BY <3>2
              <4>2. f[j] = s[j - 1] /\ f[j - 1] = s[j - 2] /\ d.prev[s[j - 1]] = s[j - 2]
                  BY <1>1, <1>2, <4>1
              <4>. QED  BY <2>4, <4>1, <4>2
          <3>3. CASE j = k + 1
              <4>1. j # k /\ j # 1 /\ j \in k + 1 .. n /\ j - 1 = k /\ k \in 2 .. k
                  BY <2>1, <3>3
              <4>2. f[j] = s[j] /\ f[j - 1] = s[k - 1]
                  BY <1>2, <4>1
              <4>. QED  BY <2>4, <3>3, <4>1, <4>2
          <3>4. CASE j \in k + 2 .. n
              <4>1. j # k /\ j # 1 /\ j # k + 1 /\ j \in k + 1 .. n /\ j - 1 \in k + 1 .. n /\ j \in 1 .. n
                  BY <2>1, <3>4
              <4>2. f[j] = s[j] /\ f[j - 1] = s[j - 1] /\ d.prev[s[j]] = s[j - 1]
                  BY <1>1, <1>2, <4>1
              <4>. QED  BY <2>4, <4>1, <4>2
          <3>. QED  BY <3>1, <3>2, <3>3, <3>4
      <2>8. IsList(f, n, e)
          BY <1>0, <1>2, <2>5, <2>6, <2>7 DEF IsList
      <2>. QED  BY <2>2, <2>3, <2>8 DEF e, f, m
  <1>. QED  BY <1>5, <1>6

\* add_node_as_head.
InFront(m, s, n) == [j \in 1 .. n + 1 |-> IF j = 1 THEN m ELSE s[j - 1]]

\* A node that no pointer leads to becomes the first of the list.
LEMMA AddAsHead ==
  ASSUME NEW n \in Nat, NEW d \in Dll, NEW s, IsList(s, n, d), None \notin Nodes,
         NEW m \in Nodes \ Range(s), d.next[m] = None, d.prev[m] = None
  PROVE  LET e == add_node_as_head(d, m) IN
         /\ e \in Dll /\ IsList(InFront(m, s, n), n + 1, e) /\ Range(InFront(m, s, n)) = Range(s) \cup {m}
         /\ \A x \in Nodes \ (Range(s) \cup {m}) : e.next[x] = d.next[x] /\ e.prev[x] = d.prev[x]
  <1> DEFINE e == add_node_as_head(d, m)
             f == InFront(m, s, n)
  <1>1. s \in [1 .. n -> Nodes] /\ \A i, j \in 1 .. n : s[i] = s[j] => i = j
      BY DEF IsList
  <1>2. \A j \in 1 .. n : s[j] \in Range(s) /\ s[j] # m
      BY <1>1 DEF Range
  <1>3. f = [j \in 1 .. n + 1 |-> f[j]] /\ f[1] = m /\ \A j \in 2 .. n + 1 : j - 1 \in 1 .. n /\ f[j] = s[j - 1]
      BY DEF InFront
  <1> HIDE DEF f
  <1>4. \A j \in 1 .. n + 1 : j = 1 \/ j \in 2 .. n + 1
      OBVIOUS
  <1>5. ASSUME NEW j \in 1 .. n + 1 PROVE f[j] \in Nodes
      <2>1. CASE j = 1
          BY <1>3, <2>1
      <2>2. CASE j \in 2 .. n + 1
          <3>1. f[j] = s[j - 1] /\ j - 1 \in 1 .. n
              BY <1>3, <2>2
          <3>. QED  BY <1>1, <3>1
      <2>. QED  BY <1>4, <2>1, <2>2
  <1>6. f \in [1 .. n + 1 -> Nodes]
      BY <1>3, <1>5
  <1>7. ASSUME NEW i \in 1 .. n + 1, NEW j \in 1 .. n + 1, f[i] = f[j] PROVE i = j
      <2>1. CASE i = 1 \/ j = 1
          BY <1>2, <1>3, <1>4, <1>7, <2>1, ZenonT(60)
      <2>2. CASE i \in 2 .. n + 1 /\ j \in 2 .. n + 1
          <3>1. s[i - 1] = s[j - 1] /\ i - 1 \in 1 .. n /\ j - 1 \in 1 .. n
              BY <1>3, <1>7, <2>2
          <3>2. i - 1 = j - 1
              BY <1>1, <3>1
          <3>. QED  BY <3>2
      <2>. QED  BY <1>4, <2>1, <2>2
  <1>8. Range(f) = Range(s) \cup {m}
      <2>1. DOMAIN f = 1 .. n + 1 /\ DOMAIN s = 1 .. n
          BY <1>1, <1>6
      <2>2. ASSUME NEW j \in 1 .. n + 1 PROVE f[j] \in Range(s) \cup {m}
          BY <1>2, <1>3, <1>4
      <2>3. ASSUME NEW i \in 1 .. n PROVE \E j \in 1 .. n + 1 : f[j] = s[i]
          <3>1. i + 1 \in 2 .. n + 1 /\ i + 1 \in 1 .. n + 1 /\ (i + 1) - 1 = i
              OBVIOUS
          <3>. QED  BY <1>3, <3>1
      <2>4. 1 \in 1 .. n + 1
          OBVIOUS
      <2>5. Range(f) = {f[j] : j \in 1 .. n + 1} /\ Range(s) = {s[j] : j \in 1 .. n}
          BY <2>1 DEF Range
      <2>6. m \in Range(f) /\ Range(s) \subseteq Range(f)
          BY <1>3, <2>3, <2>4, <2>5
      <2>7. Range(f) \subseteq Range(s) \cup {m}
          BY <2>2, <2>5
      <2>. QED  BY <2>6, <2>7
  <1>9. CASE n = 0
      <2>1. d.head = None /\ d.tail = None
          BY <1>9 DEF IsList
      <2>2. e.head = m /\ e.tail = m /\ e.next = d.next /\ e.prev = d.prev /\ e \in Dll
          BY <2>1 DEF add_node_as_head, Dll
      <2>3. IsList(f, n + 1, e)
          <3>1. n + 1 = 1
              BY <1>9
          <3> HIDE DEF e
          <3>. QED  BY <1>3, <1>6, <1>7, <2>2, <3>1 DEF IsList
      <2>. QED  BY <1>8, <2>2, <2>3 DEF e, f
  <1>10. CASE n # 0
      <2>0. 1 \in 1 .. n /\ n \in 1 .. n /\ n + 1 \in 2 .. n + 1 /\ (n + 1) - 1 = n
          BY <1>10
      <2>1. d.head = s[1] /\ d.tail = s[n] /\ s[1] \in Nodes /\ s[1] # None /\ s[1] # m
          BY <1>1, <1>2, <1>10, <2>0 DEF IsList
      <2>11. f[2] = s[1] /\ f[n + 1] = s[n]
          <3>1. 2 \in 2 .. n + 1 /\ 2 - 1 = 1
              BY <1>10
          <3>. QED  BY <1>3, <2>0, <3>1
      <2>2. /\ e.head = m /\ e.tail = s[n] /\ e \in Dll
            /\ e.next = [d.next EXCEPT ![m] = s[1]] /\ e.prev = [d.prev EXCEPT ![s[1]] = m]
          BY <2>1 DEF add_node_as_head, Dll
      <2> HIDE DEF e
      <2>3. \A x \in Nodes : /\ e.next[x] = IF x = m THEN s[1] ELSE d.next[x]
                             /\ e.prev[x] = IF x = s[1] THEN m ELSE d.prev[x]
          BY <2>2 DEF Dll
      <2>4. ASSUME NEW x \in Nodes \ (Range(s) \cup {m}) PROVE e.next[x] = d.next[x] /\ e.prev[x] = d.prev[x]
          BY <1>2, <2>0, <2>3
      <2>5. \A j \in 1 .. n : s[j] \in Nodes /\ (s[j] = s[1] <=> j = 1)
          BY <1>1, <2>0
      <2>6. e.next[f[n + 1]] = None /\ e.prev[f[1]] = None /\ e.tail = f[n + 1]
          <3>1. f[n + 1] = s[n] /\ d.next[s[n]] = None
              BY <1>3, <1>10, <2>0 DEF IsList
          <3>. QED  BY <1>2, <1>3, <2>0, <2>2, <2>3, <2>5, <3>1
      <2>7. ASSUME NEW j \in 1 .. (n + 1) - 1 PROVE e.next[f[j]] = f[j + 1]
          <3>1. CASE j = 1
              BY <1>3, <2>3, <2>11, <3>1
          <3>2. CASE j # 1
              <4>1. j - 1 \in 1 .. n - 1 /\ j \in 2 .. n + 1 /\ j + 1 \in 2 .. n + 1 /\ (j + 1) - 1 = j /\ (j - 1) + 1 = j
                    /\ j - 1 \in 1 .. n
                  BY <3>2
              <4>2. f[j] = s[j - 1] /\ f[j + 1] = s[j]
                  BY <1>3, <4>1
              <4>3. d.next[s[j - 1]] = s[j]
                  BY <4>1 DEF IsList
              <4>. QED  BY <1>2, <2>3, <2>5, <4>1, <4>2, <4>3
          <3>. QED  BY <3>1, <3>2
      <2>8. ASSUME NEW j \in 2 .. n + 1 PROVE e.prev[f[j]] = f[j - 1]
          <3>1. CASE j = 2
              BY <1>3, <2>1, <2>3, <2>11, <3>1
          <3>2. CASE j # 2
              <4>1. j - 1 \in 2 .. n /\ j - 1 \in 2 .. n + 1 /\ (j - 1) - 1 = j - 2 /\ j - 1 \in 1 .. n /\ j - 1 # 1
                  BY <3>2
              <4>2. f[j] = s[j - 1] /\ f[j - 1] = s[j - 2] /\ d.prev[s[j - 1]] = s[j - 2]
                  BY <1>3, <4>1, ZenonT(60) DEF IsList
              <4>. QED  BY <2>3, <2>5, <4>1, <4>2
          <3>. QED  BY <3>1, <3>2
      <2>9. IsList(f, n + 1, e)
          <3>1. n + 1 # 0
              OBVIOUS
          <3>2. e.head = f[1]
              BY <1>3, <2>2
          <3>3. \A i, j \in 1 .. n + 1 : f[i] = f[j] => i = j
              BY <1>7
          <3>. QED  BY <1>6, <2>6, <2>7, <2>8, <3>1, <3>2, <3>3 DEF IsList
      <2>. QED  BY <1>8, <2>2, <2>4, <2>9 DEF e, f
  <1>. QED  BY <1>9, <1>10

\* pop_tail_node.
WithoutLast(s, n) == [j \in 1 .. n - 1 |-> s[j]]

\* The list after an eviction.
Popped(d) == FreeNodes(pop_tail_node(d), {d.tail})

\* The node at the tail leaves the list and is freed.
LEMMA PopTail ==
  ASSUME NEW n \in Nat, n # 0, NEW d \in Dll, NEW s, IsList(s, n, d), None \notin Nodes
  PROVE  LET e == Popped(d) IN
         /\ e \in Dll /\ IsList(WithoutLast(s, n), n - 1, e) /\ Range(WithoutLast(s, n)) = Range(s) \ {d.tail}
         /\ d.tail = s[n] /\ d.tail \in Range(s)
         /\ e.next[d.tail] = None /\ e.prev[d.tail] = None
         /\ \A x \in Nodes \ Range(s) : e.next[x] = d.next[x] /\ e.prev[x] = d.prev[x]
  <1> DEFINE c == pop_tail_node(d)
             e == Popped(d)
             f == WithoutLast(s, n)
  <1>0. n \in 1 .. n /\ 1 \in 1 .. n /\ n - 1 \in Nat
      OBVIOUS
  <1>1. /\ s \in [1 .. n -> Nodes] /\ \A i, j \in 1 .. n : s[i] = s[j] => i = j
        /\ d.head = s[1] /\ d.tail = s[n] /\ d.next[s[n]] = None /\ d.prev[s[1]] = None
        /\ \A j \in 1 .. n - 1 : d.next[s[j]] = s[j + 1]
        /\ \A j \in 2 .. n : d.prev[s[j]] = s[j - 1]
      BY DEF IsList
  <1>2. \A j \in 1 .. n : s[j] \in Range(s) /\ s[j] \in Nodes
      BY <1>1 DEF Range
  <1>3. \A j \in 1 .. n - 1 : j \in 1 .. n /\ f[j] = s[j] /\ s[j] # s[n]
      BY <1>0, <1>1 DEF WithoutLast
  <1>4. f = [j \in 1 .. n - 1 |-> f[j]]
      BY DEF WithoutLast
  <1> HIDE DEF f
  <1>5. f \in [1 .. n - 1 -> Nodes] /\ \A i, j \in 1 .. n - 1 : f[i] = f[j] => i = j
      <2>1. \A j \in 1 .. n - 1 : f[j] \in Nodes
          BY <1>2, <1>3
      <2>. QED  BY <1>1, <1>3, <1>4, <2>1
  <1>6. Range(f) = Range(s) \ {s[n]}
      <2>1. Range(f) = {f[j] : j \in 1 .. n - 1} /\ Range(s) = {s[j] : j \in 1 .. n}
          BY <1>1, <1>5 DEF Range
      <2>2. \A j \in 1 .. n : j = n \/ j \in 1 .. n - 1
          OBVIOUS
      <2>. QED  BY <1>3, <2>1, <2>2
  <1>7. /\ c \in Dll
        /\ c.head = (IF n = 1 THEN None ELSE s[1]) /\ c.tail = (IF n = 1 THEN None ELSE s[n - 1])
        /\ c.prev = d.prev
        /\ \A x \in Nodes : c.next[x] = IF n # 1 /\ x = s[n - 1] THEN None ELSE d.next[x]
      <2>1. CASE n = 1
          BY <1>1, <2>1 DEF pop_tail_node, Dll
      <2>2. CASE n # 1
          <3>1. n \in 2 .. n /\ n - 1 \in 1 .. n /\ s[n - 1] \in Nodes /\ s[1] # s[n] /\ s[n] \in Nodes /\ s[1] \in Nodes
              BY <1>0, <1>1, <2>2
          <3>2. d.prev[d.tail] = s[n - 1] /\ d.head # d.tail
              BY <1>1, <3>1
          <3>3. c = [d EXCEPT !.tail = s[n - 1], !.next[s[n - 1]] = None]
              BY <3>2 DEF pop_tail_node
          <3> HIDE DEF c
          <3>. QED  BY <1>1, <2>2, <3>1, <3>3 DEF Dll
      <2>. QED  BY <2>1, <2>2
  <1> HIDE DEF c
  <1>8. /\ e \in Dll /\ e.head = c.head /\ e.tail = c.tail
        /\ \A x \in Nodes : /\ e.next[x] = IF x = s[n] THEN None ELSE c.next[x]
                            /\ e.prev[x] = IF x = s[n] THEN None ELSE c.prev[x]
      <2>1. e = FreeNodes(c, {s[n]})
          BY <1>1 DEF c, Popped
      <2> HIDE DEF e
      <2>. QED  BY <1>7, <2>1 DEF FreeNodes, Dll
  <1> HIDE DEF e
  <1>9. e.next[s[n]] = None /\ e.prev[s[n]] = None /\ s[n] \in Range(s)
      BY <1>0, <1>2, <1>8
  <1>10. ASSUME NEW x \in Nodes \ Range(s) PROVE e.next[x] = d.next[x] /\ e.prev[x] = d.prev[x]
      <2>1. x # s[n] /\ (n # 1 => x # s[n - 1])
          BY <1>0, <1>2
      <2>. QED  BY <1>7, <1>8, <2>1
  <1>11. n - 1 # 0 => /\ e.head = f[1] /\ e.tail = f[n - 1] /\ e.next[f[n - 1]] = None /\ e.prev[f[1]] = None
      <2>1. SUFFICES ASSUME n # 1 PROVE /\ e.head = f[1] /\ e.tail = f[n - 1]
                                        /\ e.next[f[n - 1]] = None /\ e.prev[f[1]] = None
          OBVIOUS
      <2>2. 1 \in 1 .. n - 1 /\ n - 1 \in 1 .. n - 1
          BY <2>1
      <2>. QED  BY <1>1, <1>2, <1>3, <1>7, <1>8, <2>1, <2>2
  <1>12. ASSUME NEW j \in 1 .. (n - 1) - 1 PROVE e.next[f[j]] = f[j + 1]
      <2>1. j \in 1 .. n - 1 /\ j + 1 \in 1 .. n - 1 /\ n - 1 \in 1 .. n /\ j # n - 1 /\ j \in 1 .. n
          OBVIOUS
      <2>2. f[j] = s[j] /\ f[j + 1] = s[j + 1] /\ s[j] # s[n] /\ s[j] # s[n - 1] /\ d.next[s[j]] = s[j + 1]
          BY <1>1, <1>3, <2>1
      <2>. QED  BY <1>2, <1>7, <1>8, <2>1, <2>2
  <1>13. ASSUME NEW j \in 2 .. n - 1 PROVE e.prev[f[j]] = f[j - 1]
      <2>1. j \in 1 .. n - 1 /\ j - 1 \in 1 .. n - 1 /\ j \in 2 .. n /\ j \in 1 .. n
          OBVIOUS
      <2>2. f[j] = s[j] /\ f[j - 1] = s[j - 1] /\ s[j] # s[n] /\ d.prev[s[j]] = s[j - 1]
          BY <1>1, <1>3, <2>1
      <2>. QED  BY <1>2, <1>7, <1>8, <2>1, <2>2
  <1>14. n - 1 = 0 => e.head = None /\ e.tail = None
      BY <1>7, <1>8
  <1>15. IsList(f, n - 1, e)
      BY <1>5, <1>11, <1>12, <1>13, <1>14 DEF IsList
  <1>. QED  BY <1>1, <1>6, <1>8, <1>9, <1>10, <1>15 DEF e, f

-----------------------------------------------------------------------------
(* The invariant.                                                           *)

\* The list leads through the nodes of the map.
ListOK == IsList(Order, Count, dll) /\ Range(Order) = Range(cache_map)

\* Nodes that are not in the list point nowhere.
FreeOK == \A n \in Nodes \ Range(cache_map) : dll.next[n] = None /\ dll.prev[n] = None

NamesOK == \A p \in DOMAIN cache_map : prefix_id[cache_map[p]] = p

SizeOK == cache_size_mb = Total(Size, DOMAIN cache_map) /\ cache_size_mb <= Limit

\* What a thread has loaded is in nobody else's hands; it makes room for a prefix
\* that is not in the cache and fits, and only with the lock.
ThreadOK(t) ==
    /\ pc[t] \in {"idle", "load"} => loaded[t] = None
    /\ pc[t] # "idle" => want[t] \in PrefixIds
    /\ pc[t] \in {"add", "evict"} =>
          loaded[t] \in Nodes \ Range(cache_map) /\ prefix_id[loaded[t]] = want[t]
    /\ pc[t] = "evict" => lock = t /\ want[t] \notin DOMAIN cache_map /\ Size[want[t]] <= Limit
    /\ \A u \in Threads : loaded[t] = loaded[u] => t = u \/ loaded[t] = None

CacheInv ==
    /\ TypeOK /\ IsFiniteSet(DOMAIN cache_map)
    /\ ListOK /\ FreeOK /\ NamesOK /\ SizeOK
    /\ \A t \in Threads : ThreadOK(t)

\* Order is what FollowNext is about.
LEMMA OrderIs == Order = At(Count, dll) /\ Order' = At(Count', dll')
  <1>1. Order = At(Count, dll)
      BY DEF Order, At
  <1>2. Order' = At(Count', dll')
      BY DEF Order, At
  <1>. QED  BY <1>1, <1>2

\* The list of the next state is the one that it leads through.
LEMMA ListNext ==
  ASSUME NEW s, Count' \in Nat, IsList(s, Count', dll'), Range(s) = Range(cache_map')
  PROVE  ListOK' /\ Order' = s
  <1>1. Order' = s
      BY OrderIs, FollowNext
  <1>2. ListOK' <=> IsList(Order', Count', dll') /\ Range(Order') = Range(cache_map')
      BY DEF ListOK, IsList, Range
  <1>. QED  BY <1>1, <1>2

\* What the invariant says of single prefixes and nodes.
LEMMA Basics ==
  ASSUME CacheInv
  PROVE  /\ Count \in Nat /\ None \notin Nodes /\ None \notin PrefixIds /\ None \notin Threads
         /\ dll \in Dll /\ prefix_id \in [Nodes -> PrefixIds \cup {None}]
         /\ DOMAIN cache_map \subseteq PrefixIds
         /\ \A p \in DOMAIN cache_map : cache_map[p] \in Nodes /\ cache_map[p] \in Range(cache_map)
         /\ \A n \in Range(cache_map) : n \in Nodes /\ \E p \in DOMAIN cache_map : cache_map[p] = n
         /\ \A p, q \in DOMAIN cache_map : cache_map[p] = cache_map[q] => p = q
         /\ \A p \in PrefixIds : Size[p] \in Nat \ {0}
         /\ cache_size_mb \in Nat /\ Limit \in Nat
  <1>1. Count \in Nat
      BY FS_CardinalityType DEF CacheInv, Count
  <1>2. None \notin Nodes /\ None \notin PrefixIds /\ None \notin Threads
        /\ (\A p \in PrefixIds : Size[p] \in Nat \ {0}) /\ Limit \in Nat
      BY PromptCacheAssumption
  <1>3. /\ dll \in Dll /\ prefix_id \in [Nodes -> PrefixIds \cup {None}]
        /\ DOMAIN cache_map \subseteq PrefixIds /\ cache_size_mb \in Nat
      BY DEF CacheInv, TypeOK, Dll
  <1>4. \A n \in Range(cache_map) : n \in Nodes
      BY DEF CacheInv, TypeOK
  <1>5. /\ \A p \in DOMAIN cache_map : cache_map[p] \in Range(cache_map)
        /\ \A n \in Range(cache_map) : \E p \in DOMAIN cache_map : cache_map[p] = n
      BY DEF Range
  <1>6. \A p, q \in DOMAIN cache_map : cache_map[p] = cache_map[q] => p = q
      BY DEF CacheInv, NamesOK
  <1>. QED  BY <1>1, <1>2, <1>3, <1>4, <1>5, <1>6

MapInv == IsFiniteSet(DOMAIN cache_map) /\ ListOK /\ FreeOK /\ NamesOK /\ SizeOK

\* A step that leaves map, list and cached nodes alone.
LEMMA MapStays ==
  ASSUME CacheInv, UNCHANGED <<cache_map, dll, cache_size_mb>>,
         \A n \in Range(cache_map) : prefix_id'[n] = prefix_id[n]
  PROVE  MapInv' /\ Count' = Count /\ Order' = Order
  <1>1. Count' = Count
      BY DEF Count
  <1>2. ListOK' /\ Order' = Order
      <2>1. IsList(Order, Count', dll') /\ Range(Order) = Range(cache_map') /\ Count' \in Nat
          BY <1>1, Basics DEF CacheInv, ListOK
      <2>. QED  BY <2>1, ListNext
  <1>3. FreeOK' /\ SizeOK' /\ IsFiniteSet(DOMAIN cache_map')
      BY DEF CacheInv, FreeOK, SizeOK
  <1>4. NamesOK'
      BY Basics DEF CacheInv, NamesOK
  <1>. QED  BY <1>1, <1>2, <1>3, <1>4 DEF MapInv

\* The invariant of the next state from its parts.
LEMMA Parts ==
  ASSUME TypeOK', MapInv', \A t \in Threads : ThreadOK(t)'
  PROVE  CacheInv'
  BY DEF CacheInv, MapInv

-----------------------------------------------------------------------------
(* Steps that leave the cache alone.                                        *)

\* A miss only notes what the thread is to load.
LEMMA GetMissKeeps ==
  ASSUME CacheInv, NEW t \in Threads, NEW p \in PrefixIds, GetMiss(t, p)
  PROVE  CacheInv' /\ Count' = Count /\ Order' = Order
  <1>1. TypeOK'
      BY DEF CacheInv, TypeOK, GetMiss
  <1>2. MapInv' /\ Count' = Count /\ Order' = Order
      BY MapStays DEF GetMiss
  <1>3. ASSUME NEW u \in Threads PROVE ThreadOK(u)'
      BY DEF CacheInv, ThreadOK, TypeOK, GetMiss
  <1>. QED  BY <1>1, <1>2, <1>3, Parts

\* A thread that raises drops the node it holds.
LEMMA RaiseKeeps ==
  ASSUME CacheInv, NEW t \in Threads, pc[t] \in {"load", "add"}, Raise(t)
  PROVE  CacheInv' /\ Count' = Count /\ Order' = Order /\ \A n \in Range(cache_map) : prefix_id'[n] = prefix_id[n]
  <1>1. TypeOK'
      BY DEF CacheInv, TypeOK, Raise
  <1>2. \A n \in Nodes : n # loaded[t] => prefix_id'[n] = prefix_id[n]
      BY DEF CacheInv, TypeOK, Raise
  <1>3. loaded[t] \notin Range(cache_map)
      BY Basics DEF CacheInv, ThreadOK
  <1>4. MapInv' /\ Count' = Count /\ Order' = Order
      <2>1. \A n \in Range(cache_map) : prefix_id'[n] = prefix_id[n]
          BY <1>2, <1>3, Basics
      <2>. QED  BY <2>1, MapStays DEF Raise
  <1>5. ASSUME NEW u \in Threads PROVE ThreadOK(u)'
      <2>1. CASE u = t
          BY <2>1 DEF CacheInv, TypeOK, ThreadOK, Raise
      <2>2. CASE u # t
          <3>1. loaded[u] \in Nodes => loaded[u] # loaded[t]
              BY <2>2, Basics DEF CacheInv, ThreadOK
          <3>2. pc'[u] = pc[u] /\ want'[u] = want[u] /\ loaded'[u] = loaded[u]
              BY <2>2 DEF CacheInv, TypeOK, Raise
          <3>3. \A v \in Threads : loaded'[v] = loaded[v] \/ loaded'[v] = None
              BY DEF CacheInv, TypeOK, Raise
          <3>4. ThreadOK(u) /\ lock' = lock /\ cache_map' = cache_map
              BY DEF CacheInv, Raise
          <3>. QED  BY <1>2, <3>1, <3>2, <3>3, <3>4 DEF ThreadOK
      <2>. QED  BY <2>1, <2>2
  <1>. QED  BY <1>1, <1>2, <1>3, <1>4, <1>5, Basics, Parts

\* A load takes a node that nothing refers to.
LEMMA LoadKeeps ==
  ASSUME CacheInv, NEW t \in Threads, Load(t)
  PROVE  CacheInv' /\ Count' = Count /\ Order' = Order /\ \A n \in Range(cache_map) : prefix_id'[n] = prefix_id[n]
  <1>1. PICK n \in Unreferenced : loaded' = [loaded EXCEPT ![t] = n] /\ prefix_id' = [prefix_id EXCEPT ![n] = want[t]]
      BY DEF Load
  <1>2. n \in Nodes \ Range(cache_map) /\ \A u \in Threads : loaded[u] # n
      BY DEF Unreferenced, Range, CacheInv, TypeOK
  <1>3. TypeOK'
      BY <1>1, <1>2 DEF CacheInv, TypeOK, Load
  <1>4. \A m \in Nodes : m # n => prefix_id'[m] = prefix_id[m]
      BY <1>1 DEF CacheInv, TypeOK
  <1>5. \A m \in Range(cache_map) : prefix_id'[m] = prefix_id[m]
      BY <1>2, <1>4, Basics
  <1>6. MapInv' /\ Count' = Count /\ Order' = Order
      BY <1>5, MapStays DEF Load
  <1>7. prefix_id'[n] = want[t] /\ None # n
      BY <1>1, <1>2, Basics DEF CacheInv, TypeOK
  <1>8. /\ pc' = [pc EXCEPT ![t] = "add"] /\ pc[t] = "load" /\ ThreadOK(t)
        /\ want' = want /\ lock' = lock /\ cache_map' = cache_map
      BY DEF Load, CacheInv
  <1>9. \A u \in Threads : /\ loaded'[u] = (IF u = t THEN n ELSE loaded[u])
                           /\ pc'[u] = IF u = t THEN "add" ELSE pc[u]
      BY <1>1, <1>8 DEF CacheInv, TypeOK
  <1>10. ASSUME NEW u \in Threads PROVE ThreadOK(u)'
      <2>1. CASE u = t
          BY <1>2, <1>7, <1>8, <1>9, <2>1 DEF ThreadOK
      <2>2. CASE u # t
          <3>1. ThreadOK(u)
              BY DEF CacheInv
          <3>2. loaded[u] \in Nodes => prefix_id'[loaded[u]] = prefix_id[loaded[u]]
              BY <1>2, <1>4
          <3>. QED  BY <1>2, <1>8, <1>9, <2>2, <3>1, <3>2 DEF ThreadOK
      <2>. QED  BY <2>1, <2>2
  <1>. QED  BY <1>3, <1>5, <1>6, <1>10, Parts

\* Before an eviction starts the prefix is known to be absent and to fit alone.
LEMMA AddStartKeeps ==
  ASSUME CacheInv, NEW t \in Threads, AddStart(t)
  PROVE  CacheInv' /\ Count' = Count /\ Order' = Order
  <1>1. TypeOK'
      BY DEF CacheInv, TypeOK, AddStart
  <1>2. MapInv' /\ Count' = Count /\ Order' = Order
      BY MapStays DEF AddStart
  <1>3. ASSUME NEW u \in Threads PROVE ThreadOK(u)'
      <2>1. ThreadOK(u) /\ (pc[u] = "evict" => lock = u) /\ lock = None /\ None \notin Threads
          BY Basics DEF CacheInv, ThreadOK, AddStart, Free
      <2>. QED  BY <2>1 DEF CacheInv, ThreadOK, TypeOK, AddStart, AddedMeanwhile
  <1>. QED  BY <1>1, <1>2, <1>3, Parts

-----------------------------------------------------------------------------
(* A hit.                                                                   *)

\* The place in the list of a cached prefix.
LEMMA Place ==
  ASSUME CacheInv, NEW p \in DOMAIN cache_map
  PROVE  \E k \in 1 .. Count : Order[k] = cache_map[p]
  <1>1. Range(Order) = {Order[k] : k \in 1 .. Count}
      BY DEF CacheInv, ListOK, IsList, Range
  <1>2. cache_map[p] \in Range(Order)
      BY Basics DEF CacheInv, ListOK
  <1>. QED  BY <1>1, <1>2

\* A hit puts the node of the prefix first, and drops one that was loaded in vain.
LEMMA HitKeeps ==
  ASSUME CacheInv, NEW t \in Threads, NEW p \in PrefixIds, Hit(t, p), pc[t] \in {"idle", "add"}
  PROVE  /\ CacheInv' /\ Count' = Count
         /\ \E k \in 1 .. Count : Order[k] = cache_map[p] /\ Order' = ToFront(Order, Count, k)
         /\ \A n \in Range(cache_map) : prefix_id'[n] = prefix_id[n]
  <1>1. p \in DOMAIN cache_map /\ cache_map' = cache_map /\ dll' = move_node_to_head(dll, cache_map[p])
      BY DEF Hit
  <1>2. PICK k \in 1 .. Count : Order[k] = cache_map[p]
      BY <1>1, Place
  <1>3. Count' = Count
      BY <1>1 DEF Count
  <1>4. /\ dll' \in Dll /\ IsList(ToFront(Order, Count, k), Count, dll')
        /\ \A m \in Nodes \ Range(Order) : dll'.next[m] = dll.next[m] /\ dll'.prev[m] = dll.prev[m]
      <2>1. IsList(Order, Count, dll)
          BY DEF CacheInv, ListOK
      <2>. QED  BY <1>1, <1>2, <2>1, Basics, MoveToHead
  <1>5. Range(ToFront(Order, Count, k)) = Range(Order)
      <2>1. Order \in [1 .. Count -> Nodes] /\ \A i, j \in 1 .. Count : Order[i] = Order[j] => i = j
          BY DEF CacheInv, ListOK, IsList
      <2>2. Count \in Nat
          BY Basics
      <2>. QED  BY <2>1, <2>2, ToFrontIs
  <1>6. ListOK' /\ Order' = ToFront(Order, Count, k)
      <2>1. Range(ToFront(Order, Count, k)) = Range(cache_map')
          BY <1>1, <1>5 DEF CacheInv, ListOK
      <2>. QED  BY <1>3, <1>4, <2>1, Basics, ListNext
  <1>7. TypeOK'
      BY <1>1, <1>4 DEF CacheInv, TypeOK, Dll, Hit
  <1>8. loaded[t] \notin Range(cache_map)
      BY Basics DEF CacheInv, ThreadOK
  <1>9. \A n \in Nodes : n # loaded[t] => prefix_id'[n] = prefix_id[n]
      BY DEF CacheInv, TypeOK, Hit
  <1>10. \A n \in Range(cache_map) : prefix_id'[n] = prefix_id[n]
      BY <1>8, <1>9, Basics
  <1>11. FreeOK' /\ SizeOK' /\ IsFiniteSet(DOMAIN cache_map') /\ NamesOK'
      <2>1. FreeOK'
          BY <1>1, <1>4 DEF CacheInv, FreeOK, ListOK
      <2>2. SizeOK' /\ IsFiniteSet(DOMAIN cache_map')
          BY DEF CacheInv, SizeOK, Hit
      <2>3. NamesOK'
          BY <1>1, <1>10, Basics DEF CacheInv, NamesOK
      <2>. QED  BY <2>1, <2>2, <2>3
  <1>12. ASSUME NEW u \in Threads PROVE ThreadOK(u)'
      <2>1. CASE u = t
          BY <2>1 DEF CacheInv, TypeOK, ThreadOK, Hit
      <2>2. CASE u # t
          <3>1. loaded[u] \in Nodes => loaded[u] # loaded[t]
              BY <2>2, Basics DEF CacheInv, ThreadOK
          <3>2. pc'[u] = pc[u] /\ want'[u] = want[u] /\ loaded'[u] = loaded[u]
              BY <2>2 DEF CacheInv, TypeOK, Hit
          <3>3. \A v \in Threads : loaded'[v] = loaded[v] \/ loaded'[v] = None
              BY DEF CacheInv, TypeOK, Hit
          <3>4. ThreadOK(u) /\ lock' = lock /\ cache_map' = cache_map
              BY DEF CacheInv, Hit
          <3>. QED  BY <1>9, <3>1, <3>2, <3>3, <3>4 DEF ThreadOK
      <2>. QED  BY <2>1, <2>2
  <1>. QED  BY <1>2, <1>3, <1>6, <1>7, <1>10, <1>11, <1>12, Parts DEF MapInv

-----------------------------------------------------------------------------
(* Making room.                                                             *)

\* There is something to evict: what is to be added fits alone.
LEMMA SomethingToEvict ==
  ASSUME CacheInv, NEW t \in Threads, pc[t] = "evict", NoRoom(t)
  PROVE  Count # 0 /\ DOMAIN cache_map # {}
  <1>1. want[t] \in PrefixIds /\ Size[want[t]] <= Limit
      BY DEF CacheInv, ThreadOK
  <1>2. cache_size_mb # 0
      BY <1>1, Basics DEF NoRoom
  <1>3. DOMAIN cache_map # {}
      <2>1. Total(Size, {}) = 0
          BY FS_EmptySet, TotalRec
      <2>. QED  BY <1>2, <2>1 DEF CacheInv, SizeOK
  <1>. QED  BY <1>3, FS_EmptySet DEF CacheInv, Count

\* An eviction takes the last node from the list, from the map and from the size.
LEMMA EvictKeeps ==
  ASSUME CacheInv, NEW t \in Threads, Evict(t)
  PROVE  /\ CacheInv' /\ Count # 0 /\ Count' = Count - 1 /\ Order' = WithoutLast(Order, Count)
         /\ \A n \in Range(cache_map') : prefix_id'[n] = prefix_id[n]
  <1> DEFINE n == dll.tail
             q == prefix_id[n]
  <1>0. Count # 0 /\ Count - 1 \in Nat /\ Count \in Nat
      BY Basics, SomethingToEvict DEF Evict
  <1>1. IsList(Order, Count, dll) /\ Range(Order) = Range(cache_map)
      BY DEF CacheInv, ListOK
  <1>2. /\ dll' \in Dll /\ IsList(WithoutLast(Order, Count), Count - 1, dll')
        /\ Range(WithoutLast(Order, Count)) = Range(cache_map) \ {n}
        /\ n \in Range(cache_map) /\ dll'.next[n] = None /\ dll'.prev[n] = None
        /\ \A x \in Nodes \ Range(cache_map) : dll'.next[x] = dll.next[x] /\ dll'.prev[x] = dll.prev[x]
      <2>1. dll' = Popped(dll)
          BY DEF Evict, Popped
      <2>2. dll \in Dll /\ None \notin Nodes
          BY Basics
      <2>3. /\ IsList(WithoutLast(Order, Count), Count - 1, dll')
            /\ Range(WithoutLast(Order, Count)) = Range(Order) \ {dll.tail} /\ dll.tail \in Range(Order)
            /\ dll' \in Dll /\ dll'.next[dll.tail] = None /\ dll'.prev[dll.tail] = None
            /\ \A x \in Nodes \ Range(Order) : dll'.next[x] = dll.next[x] /\ dll'.prev[x] = dll.prev[x]
          BY <1>0, <1>1, <2>1, <2>2, PopTail
      <2>. QED  BY <1>1, <2>3
  <1>3. n \in Nodes /\ q \in DOMAIN cache_map /\ cache_map[q] = n
      <2>1. PICK p \in DOMAIN cache_map : cache_map[p] = n
          BY <1>2, Basics
      <2>2. prefix_id[cache_map[p]] = p
          BY DEF CacheInv, NamesOK
      <2>. QED  BY <1>2, <2>1, <2>2, Basics
  <1>4. /\ DOMAIN cache_map' = DOMAIN cache_map \ {q}
        /\ \A p \in DOMAIN cache_map' : cache_map'[p] = cache_map[p]
      BY DEF Evict, Restrict
  <1>5. Range(cache_map') = Range(cache_map) \ {n}
      BY <1>3, <1>4, Basics DEF Range
  <1>6. prefix_id' = [prefix_id EXCEPT ![n] = None] /\ cache_size_mb' = cache_size_mb - Size[q]
        /\ UNCHANGED <<pc, want, loaded, lock, used>>
      BY DEF Evict, SizeWithout
  <1> HIDE DEF n, q
  <1>7. \A m \in Nodes : m # n => prefix_id'[m] = prefix_id[m]
      BY <1>6 DEF CacheInv, TypeOK
  <1>8. IsFiniteSet(DOMAIN cache_map') /\ Count' = Count - 1
      BY <1>3, <1>4, FS_RemoveElement DEF CacheInv, Count
  <1>9. ListOK' /\ Order' = WithoutLast(Order, Count)
      BY <1>0, <1>2, <1>5, <1>8, ListNext
  <1>10. FreeOK'
      <2>1. ASSUME NEW m \in Nodes \ Range(cache_map') PROVE dll'.next[m] = None /\ dll'.prev[m] = None
          BY <1>2, <1>5 DEF CacheInv, FreeOK
      <2>. QED  BY <2>1 DEF FreeOK
  <1>11. \A m \in Range(cache_map') : m \in Nodes /\ prefix_id'[m] = prefix_id[m]
      BY <1>5, <1>7, Basics
  <1>12. NamesOK'
      <2>1. ASSUME NEW p \in DOMAIN cache_map' PROVE prefix_id'[cache_map'[p]] = p
          <3>1. p \in DOMAIN cache_map /\ p # q /\ cache_map'[p] = cache_map[p]
              BY <1>4
          <3>2. cache_map[p] # n /\ cache_map[p] \in Nodes /\ prefix_id[cache_map[p]] = p
              BY <1>3, <3>1, Basics DEF CacheInv, NamesOK
          <3>. QED  BY <1>7, <3>1, <3>2
      <2>. QED  BY <2>1 DEF NamesOK
  <1>13. SizeOK' /\ cache_size_mb' \in Nat
      <2>1. \A p \in DOMAIN cache_map : Size[p] \in Nat
          BY Basics
      <2>2. /\ Total(Size, DOMAIN cache_map) = Size[q] + Total(Size, DOMAIN cache_map \ {q})
            /\ Total(Size, DOMAIN cache_map \ {q}) \in Nat
          <3>1. DOMAIN cache_map \in SUBSET DOMAIN cache_map /\ DOMAIN cache_map \ {q} \in SUBSET DOMAIN cache_map
                /\ IsFiniteSet(DOMAIN cache_map)
              BY DEF CacheInv
          <3>. QED  BY <1>3, <2>1, <3>1, TotalRec
      <2>3. cache_size_mb = Total(Size, DOMAIN cache_map) /\ cache_size_mb <= Limit /\ Size[q] \in Nat /\ Limit \in Nat
          BY <1>3, <2>1, Basics DEF CacheInv, SizeOK
      <2>4. cache_size_mb' = Total(Size, DOMAIN cache_map \ {q}) /\ cache_size_mb' <= Limit
          BY <1>6, <2>2, <2>3
      <2>. QED  BY <1>4, <2>2, <2>4 DEF SizeOK
  <1>14. TypeOK'
      <2>1. dll' \in Dll /\ DOMAIN cache_map' \subseteq PrefixIds /\ Range(cache_map') \subseteq Nodes
          BY <1>2, <1>4, <1>11, Basics
      <2>2. prefix_id' \in [Nodes -> PrefixIds \cup {None}]
          BY <1>6 DEF CacheInv, TypeOK
      <2>. QED  BY <1>6, <1>13, <2>1, <2>2 DEF CacheInv, TypeOK, Dll
  <1>15. ASSUME NEW u \in Threads PROVE ThreadOK(u)'
      <2>1. ThreadOK(u)
          BY DEF CacheInv
      <2>2. loaded[u] \in Nodes \ Range(cache_map) =>
                loaded[u] \in Nodes \ Range(cache_map') /\ prefix_id'[loaded[u]] = prefix_id[loaded[u]]
          BY <1>2, <1>5, <1>7
      <2>3. \A p : p \notin DOMAIN cache_map => p \notin DOMAIN cache_map'
          BY <1>4
      <2>. QED  BY <1>6, <2>1, <2>2, <2>3 DEF ThreadOK
  <1>. QED  BY <1>0, <1>8, <1>9, <1>10, <1>11, <1>12, <1>13, <1>14, <1>15, Parts DEF MapInv

\* An insertion puts the loaded node first.
LEMMA InsertKeeps ==
  ASSUME CacheInv, NEW t \in Threads, Insert(t)
  PROVE  /\ CacheInv' /\ Count' = Count + 1 /\ Order' = InFront(loaded[t], Order, Count)
         /\ prefix_id[loaded[t]] = want[t] /\ want[t] \in PrefixIds \ DOMAIN cache_map
  <1> DEFINE n == loaded[t]
             p == want[t]
  <1>1. /\ n \in Nodes \ Range(cache_map) /\ p \in PrefixIds \ DOMAIN cache_map /\ prefix_id[n] = p
        /\ Size[p] <= Limit /\ lock = t /\ pc[t] = "evict"
      BY DEF CacheInv, ThreadOK, Insert
  <1>2. /\ dll' = add_node_as_head(dll, n)
        /\ cache_map' = [q \in DOMAIN cache_map \cup {p} |-> IF q = p THEN n ELSE cache_map[q]]
        /\ cache_size_mb' = cache_size_mb + Size[p] /\ ~(cache_size_mb + Size[p] > Limit)
        /\ prefix_id' = prefix_id /\ used' = p /\ lock' = None
        /\ pc' = [pc EXCEPT ![t] = "idle"] /\ want' = [want EXCEPT ![t] = None]
        /\ loaded' = [loaded EXCEPT ![t] = None]
      BY DEF Insert, NoRoom
  <1> HIDE DEF n, p
  <1>3. IsList(Order, Count, dll) /\ Range(Order) = Range(cache_map) /\ Count \in Nat /\ dll \in Dll /\ None \notin Nodes
      BY Basics DEF CacheInv, ListOK
  <1>4. /\ dll' \in Dll /\ IsList(InFront(n, Order, Count), Count + 1, dll')
        /\ Range(InFront(n, Order, Count)) = Range(Order) \cup {n}
        /\ \A x \in Nodes \ (Range(Order) \cup {n}) : dll'.next[x] = dll.next[x] /\ dll'.prev[x] = dll.prev[x]
      <2>1. n \in Nodes \ Range(Order) /\ dll.next[n] = None /\ dll.prev[n] = None
          BY <1>1, <1>3 DEF CacheInv, FreeOK
      <2>. QED  BY <1>2, <1>3, <2>1, AddAsHead
  <1>5. /\ DOMAIN cache_map' = DOMAIN cache_map \cup {p} /\ cache_map'[p] = n
        /\ \A q \in DOMAIN cache_map : cache_map'[q] = cache_map[q]
      BY <1>1, <1>2
  <1>6. Range(cache_map') = Range(cache_map) \cup {n}
      BY <1>5 DEF Range
  <1>7. IsFiniteSet(DOMAIN cache_map') /\ Count' = Count + 1
      BY <1>1, <1>5, FS_AddElement DEF CacheInv, Count
  <1>8. ListOK' /\ Order' = InFront(n, Order, Count)
      <2>1. Count' \in Nat /\ Range(InFront(n, Order, Count)) = Range(cache_map')
          BY <1>3, <1>4, <1>6, <1>7
      <2>. QED  BY <1>4, <1>7, <2>1, ListNext
  <1>9. FreeOK'
      <2>1. ASSUME NEW m \in Nodes \ Range(cache_map') PROVE dll'.next[m] = None /\ dll'.prev[m] = None
          BY <1>3, <1>4, <1>6 DEF CacheInv, FreeOK
      <2>. QED  BY <2>1 DEF FreeOK
  <1>10. NamesOK'
      BY <1>1, <1>2, <1>5 DEF CacheInv, NamesOK
  <1>11. SizeOK' /\ cache_size_mb' \in Nat
      <2>1. \A q \in DOMAIN cache_map \cup {p} : Size[q] \in Nat
          BY <1>1, Basics
      <2>2. Total(Size, DOMAIN cache_map \cup {p}) = Size[p] + Total(Size, DOMAIN cache_map)
          <3>1. IsFiniteSet(DOMAIN cache_map \cup {p})
              BY <1>5, <1>7
          <3>2. DOMAIN cache_map \in SUBSET (DOMAIN cache_map \cup {p}) /\ p \in (DOMAIN cache_map \cup {p}) \ DOMAIN cache_map
              BY <1>1
          <3>. QED  BY <2>1, <3>1, <3>2, TotalRec
      <2>3. cache_size_mb = Total(Size, DOMAIN cache_map) /\ cache_size_mb \in Nat /\ Size[p] \in Nat /\ Limit \in Nat
          BY <1>1, Basics DEF CacheInv, SizeOK
      <2>4. cache_size_mb' = Total(Size, DOMAIN cache_map \cup {p}) /\ cache_size_mb' <= Limit /\ cache_size_mb' \in Nat
          BY <1>2, <2>2, <2>3
      <2>. QED  BY <1>5, <2>4 DEF SizeOK
  <1>12. TypeOK'
      <2>1. dll' \in Dll /\ DOMAIN cache_map' \subseteq PrefixIds /\ Range(cache_map') \subseteq Nodes
          BY <1>1, <1>4, <1>5, <1>6, Basics
      <2>. QED  BY <1>1, <1>2, <1>11, <2>1 DEF CacheInv, TypeOK, Dll
  <1>13. ASSUME NEW u \in Threads PROVE ThreadOK(u)'
      <2>1. CASE u = t
          BY <1>2, <2>1 DEF CacheInv, TypeOK, ThreadOK
      <2>2. CASE u # t
          <3>1. ThreadOK(u) /\ pc[u] # "evict" /\ (loaded[u] \in Nodes => loaded[u] # n)
              BY <1>1, <2>2, Basics DEF CacheInv, ThreadOK, n
          <3>2. pc'[u] = pc[u] /\ want'[u] = want[u] /\ loaded'[u] = loaded[u]
              BY <1>2, <2>2 DEF CacheInv, TypeOK
          <3>3. \A v \in Threads : loaded'[v] = loaded[v] \/ loaded'[v] = None
              BY <1>2 DEF CacheInv, TypeOK
          <3>. QED  BY <1>2, <1>6, <3>1, <3>2, <3>3 DEF ThreadOK
      <2>. QED  BY <2>1, <2>2
  <1>14. CacheInv'
      BY <1>7, <1>8, <1>9, <1>10, <1>11, <1>12, <1>13, Parts DEF MapInv
  <1>. QED  BY <1>1, <1>7, <1>8, <1>14 DEF n, p

\* Clearing leaves an empty cache; what threads have loaded is not part of it.
LEMMA ClearKeeps ==
  ASSUME CacheInv, Clear
  PROVE  CacheInv' /\ Count' = 0
  <1>1. DOMAIN cache_map' = {} /\ Range(cache_map') = {} /\ IsFiniteSet({})
      BY FS_EmptySet DEF Clear, Range
  <1>2. Count' = 0
      BY <1>1, FS_EmptySet DEF Count
  <1>3. /\ dll' \in Dll /\ dll'.head = None /\ dll'.tail = None
        /\ \A n \in Nodes : /\ dll'.next[n] = IF n \in Range(cache_map) THEN None ELSE dll.next[n]
                            /\ dll'.prev[n] = IF n \in Range(cache_map) THEN None ELSE dll.prev[n]
      BY Basics DEF Clear, FreeNodes, Dll
  <1>4. ListOK'
      <2> DEFINE s == [j \in 1 .. 0 |-> None]
      <2>1. IsList(s, 0, dll')
          BY <1>3 DEF IsList
      <2>2. Range(s) = {}
          BY DEF Range
      <2> HIDE DEF s
      <2>. QED  BY <1>1, <1>2, <2>1, <2>2, ListNext
  <1>5. FreeOK' /\ NamesOK'
      BY <1>1, <1>3 DEF CacheInv, FreeOK, NamesOK
  <1>6. SizeOK'
      <2>1. Total(Size, {}) = 0 /\ cache_size_mb' = 0
          BY <1>1, TotalRec DEF Clear
      <2>. QED  BY <1>1, <2>1, Basics DEF SizeOK
  <1>7. prefix_id' \in [Nodes -> PrefixIds \cup {None}] /\ \A n \in Nodes \ Range(cache_map) : prefix_id'[n] = prefix_id[n]
      BY Basics DEF Clear
  <1>8. TypeOK'
      BY <1>1, <1>3, <1>7 DEF CacheInv, TypeOK, Dll, Clear
  <1>9. ASSUME NEW u \in Threads PROVE ThreadOK(u)'
      BY <1>1, <1>7, Basics DEF CacheInv, ThreadOK, Clear, Free
  <1>. QED  BY <1>1, <1>2, <1>4, <1>5, <1>6, <1>8, <1>9, Parts DEF MapInv

-----------------------------------------------------------------------------
(* The theorems.                                                            *)

\* The cache starts empty.
LEMMA InitInv == Init => CacheInv
  <1> SUFFICES ASSUME Init PROVE CacheInv
      OBVIOUS
  <1>1. DOMAIN cache_map = {} /\ Range(cache_map) = {} /\ IsFiniteSet({}) /\ Count = 0
      BY FS_EmptySet DEF Init, Range, Count
  <1>2. TypeOK
      BY <1>1 DEF Init, TypeOK, NoPointers
  <1>3. ListOK
      <2> DEFINE s == [j \in 1 .. 0 |-> None]
      <2>1. IsList(s, 0, dll)
          BY DEF IsList, Init
      <2>2. Range(s) = {}
          BY DEF Range
      <2> HIDE DEF s
      <2>3. Order = s
          BY <1>1, <2>1, OrderIs, FollowNext
      <2>. QED  BY <1>1, <2>1, <2>2, <2>3 DEF ListOK
  <1>4. FreeOK /\ NamesOK
      BY <1>1 DEF Init, NoPointers, FreeOK, NamesOK
  <1>5. SizeOK
      <2>1. Total(Size, {}) = 0 /\ cache_size_mb = 0 /\ Limit \in Nat
          BY <1>1, TotalRec, PromptCacheAssumption DEF Init
      <2>. QED  BY <1>1, <2>1 DEF SizeOK
  <1>6. \A t \in Threads : ThreadOK(t)
      BY DEF Init, ThreadOK
  <1>. QED  BY <1>1, <1>2, <1>3, <1>4, <1>5, <1>6 DEF CacheInv

\* Every step keeps the invariant.
LEMMA NextInv == CacheInv /\ [Next]_vars => CacheInv'
  <1> SUFFICES ASSUME CacheInv, [Next]_vars PROVE CacheInv'
      OBVIOUS
  <1>1. ASSUME NEW t \in Threads, NEW p \in PrefixIds, GetHit(t, p) \/ GetMiss(t, p) PROVE CacheInv'
      BY <1>1, HitKeeps, GetMissKeeps DEF GetHit
  <1>2. ASSUME NEW t \in Threads, Load(t) PROVE CacheInv'
      BY <1>2, LoadKeeps
  <1>3. ASSUME NEW t \in Threads, LoadFails(t) \/ AddTooLarge(t) PROVE CacheInv'
      BY <1>3, RaiseKeeps DEF LoadFails, AddTooLarge
  <1>4. ASSUME NEW t \in Threads, AddFinds(t) PROVE CacheInv'
      <2>1. want[t] \in PrefixIds
          BY <1>4, Basics DEF AddFinds, AddedMeanwhile
      <2>. QED  BY <1>4, <2>1, HitKeeps DEF AddFinds
  <1>5. ASSUME NEW t \in Threads, AddStart(t) PROVE CacheInv'
      BY <1>5, AddStartKeeps
  <1>6. ASSUME NEW t \in Threads, Evict(t) PROVE CacheInv'
      BY <1>6, EvictKeeps
  <1>7. ASSUME NEW t \in Threads, Insert(t) PROVE CacheInv'
      BY <1>7, InsertKeeps
  <1>8. CASE Clear
      BY <1>8, ClearKeeps
  <1>9. CASE UNCHANGED vars
      <2>1. MapInv'
          BY <1>9, MapStays DEF vars
      <2>2. TypeOK' /\ \A t \in Threads : ThreadOK(t)'
          BY <1>9 DEF vars, CacheInv, TypeOK, ThreadOK
      <2>. QED  BY <2>1, <2>2, Parts
  <1>. QED  BY <1>1, <1>2, <1>3, <1>4, <1>5, <1>6, <1>7, <1>8, <1>9 DEF Next

\* Map, list, names and sizes stay in step, whatever gets, loads and clears do at the
\* same time.
LEMMA CacheInvariant == Spec => []CacheInv
  BY InitInv, NextInv, PTL DEF Spec

\* The list leads through exactly the nodes of the map, in both directions.
THEOREM ListAndMap == Spec => []ListMatchesMap
  <1>1. ASSUME CacheInv PROVE ListMatchesMap
      <2>1. IsList(Order, Count, dll) /\ Range(Order) = Range(cache_map) /\ Count \in Nat
          BY <1>1, Basics DEF CacheInv, ListOK
      <2>2. \A p \in DOMAIN cache_map : prefix_id[cache_map[p]] = p
          BY <1>1 DEF CacheInv, NamesOK
      <2>3. \A k \in 2 .. Count : dll.prev[Order[k]] = Order[k - 1]
          BY <2>1 DEF IsList
      <2>4. IF Count = 0 THEN dll.head = None /\ dll.tail = None
            ELSE dll.tail = Order[Count] /\ dll.next[dll.tail] = None /\ dll.prev[dll.head] = None
          BY <2>1 DEF IsList
      <2>. QED  BY <2>1, <2>2, <2>3, <2>4 DEF ListMatchesMap
  <1>. QED  BY <1>1, CacheInvariant, PTL

\* The running size is the size of what is cached, and within the limit.
THEOREM SizeIsExact == Spec => []SizeAgrees
  <1>1. ASSUME CacheInv PROVE SizeAgrees
      BY <1>1 DEF CacheInv, SizeOK, SizeAgrees, Total
  <1>. QED  BY <1>1, CacheInvariant, PTL

\* No entry of the cache is replaced by another node.
THEOREM EntriesKeepTheirNode == Spec => NodesStay
  <1>1. ASSUME CacheInv, [Next]_vars
        PROVE  [\A p \in DOMAIN cache_map \cap DOMAIN cache_map' : cache_map'[p] = cache_map[p]]_vars
      <2>1. ASSUME NEW t \in Threads, Insert(t), NEW p \in DOMAIN cache_map \cap DOMAIN cache_map'
            PROVE  cache_map'[p] = cache_map[p]
          <3>1. want[t] \notin DOMAIN cache_map
              BY <1>1, <2>1, InsertKeeps
          <3>. QED  BY <2>1, <3>1 DEF Insert
      <2>2. ASSUME NEW t \in Threads, Evict(t), NEW p \in DOMAIN cache_map \cap DOMAIN cache_map'
            PROVE  cache_map'[p] = cache_map[p]
          BY <2>2 DEF Evict, Restrict
      <2>3. ASSUME Clear, NEW p \in DOMAIN cache_map \cap DOMAIN cache_map' PROVE FALSE
          BY <2>3 DEF Clear
      <2>4. ASSUME NEW t \in Threads, Load(t) \/ LoadFails(t) \/ AddFinds(t) \/ AddTooLarge(t) \/ AddStart(t)
            PROVE  cache_map' = cache_map
          BY <2>4 DEF Load, LoadFails, Raise, AddFinds, Hit, AddTooLarge, AddStart
      <2>5. ASSUME NEW t \in Threads, NEW p \in PrefixIds, GetHit(t, p) \/ GetMiss(t, p)
            PROVE  cache_map' = cache_map
          BY <2>5 DEF GetHit, Hit, GetMiss
      <2>. QED  BY <1>1, <2>1, <2>2, <2>3, <2>4, <2>5 DEF Next
  <1>. QED  BY <1>1, CacheInvariant, PTL DEF Spec, NodesStay

-----------------------------------------------------------------------------
(* The cache is an LRU cache.                                               *)

Recent == [k \in 1 .. Count |-> prefix_id[Order[k]]]

\* The prefixes in the order of the list are those of the map.
LEMMA RecentIs ==
  ASSUME CacheInv
  PROVE  /\ Recent \in [1 .. Count -> PrefixIds] /\ Count \in Nat
         /\ \A k \in 1 .. Count : Order[k] \in Range(cache_map) /\ Recent[k] = prefix_id[Order[k]] /\ cache_map[Recent[k]] = Order[k]
         /\ {Recent[k] : k \in 1 .. Count} = DOMAIN cache_map
  <1>1. Count \in Nat /\ Order \in [1 .. Count -> Nodes] /\ Range(Order) = Range(cache_map)
      BY Basics DEF CacheInv, ListOK, IsList
  <1>2. ASSUME NEW k \in 1 .. Count
        PROVE  /\ Order[k] \in Range(cache_map) /\ Recent[k] = prefix_id[Order[k]]
               /\ Recent[k] \in DOMAIN cache_map /\ cache_map[Recent[k]] = Order[k]
      <2>1. Order[k] \in Range(cache_map) /\ Recent[k] = prefix_id[Order[k]]
          BY <1>1 DEF Range, Recent
      <2>2. PICK p \in DOMAIN cache_map : cache_map[p] = Order[k]
          BY <2>1, Basics
      <2>3. prefix_id[cache_map[p]] = p
          BY DEF CacheInv, NamesOK
      <2>. QED  BY <2>1, <2>2, <2>3
  <1>3. ASSUME NEW p \in DOMAIN cache_map PROVE \E k \in 1 .. Count : Recent[k] = p
      <2>1. PICK k \in 1 .. Count : Order[k] = cache_map[p]
          BY Place
      <2>2. prefix_id[cache_map[p]] = p
          BY DEF CacheInv, NamesOK
      <2>. QED  BY <1>2, <2>1, <2>2
  <1>4. Recent \in [1 .. Count -> PrefixIds]
      <2>1. Recent = [k \in 1 .. Count |-> Recent[k]]
          BY DEF Recent
      <2>2. \A k \in 1 .. Count : Recent[k] \in PrefixIds
          BY <1>2, Basics
      <2>. QED  BY <2>1, <2>2
  <1>5. {Recent[k] : k \in 1 .. Count} = DOMAIN cache_map
      BY <1>2, <1>3
  <1>. QED  BY <1>1, <1>2, <1>4, <1>5

\* The abstract cache as seen through the list.
LEMMA LruSees ==
  ASSUME CacheInv
  PROVE  /\ Recent \in Seq(PrefixIds) /\ Len(Recent) = Count
         /\ Lru!ToSet(Recent) = DOMAIN cache_map
         /\ Lru!Total = cache_size_mb
  <1>1. Recent \in Seq(PrefixIds) /\ Len(Recent) = Count /\ DOMAIN Recent = 1 .. Count
      BY RecentIs
  <1>2. Lru!ToSet(Recent) = DOMAIN cache_map
      BY <1>1, RecentIs DEF Lru!ToSet
  <1>3. Lru!Total = Total(Size, DOMAIN cache_map)
      <2>1. Lru!Total = Total(Size, Lru!ToSet(Recent))
          BY DEF Lru!Total, Total, Lru!MapThenSumSet, MapThenSumSet, Lru!MapThenFoldSet, MapThenFoldSet, Recent
      <2>. QED  BY <1>2, <2>1
  <1>. QED  BY <1>1, <1>2, <1>3 DEF CacheInv, SizeOK

\* The three ways in which the list changes, on sequences.
LEMMA OnSequences ==
  ASSUME NEW P, NEW r \in Seq(P), NEW x \in P
  PROVE  /\ InFront(x, r, Len(r)) = <<x>> \o r
         /\ Len(r) # 0 => WithoutLast(r, Len(r)) = SubSeq(r, 1, Len(r) - 1)
         /\ \A k \in 1 .. Len(r) :
              ToFront(r, Len(r), k) = <<r[k]>> \o (SubSeq(r, 1, k - 1) \o SubSeq(r, k + 1, Len(r)))
  <1> DEFINE n == Len(r)
  <1>0. n \in Nat /\ DOMAIN r = 1 .. n /\ \A j \in 1 .. n : r[j] \in P
      OBVIOUS
  <1>1. InFront(x, r, n) = <<x>> \o r
      <2> DEFINE c == <<x>> \o r
      <2>1. c \in Seq(P) /\ Len(c) = n + 1 /\ \A j \in 1 .. n + 1 : c[j] = IF j = 1 THEN x ELSE r[j - 1]
          OBVIOUS
      <2>2. c = [j \in 1 .. n + 1 |-> c[j]]
          BY <2>1
      <2> HIDE DEF c
      <2>. QED  BY <2>1, <2>2 DEF InFront, c
  <1>2. n # 0 => WithoutLast(r, n) = SubSeq(r, 1, n - 1)
      BY <1>0 DEF WithoutLast
  <1>3. ASSUME NEW k \in 1 .. n
        PROVE  ToFront(r, n, k) = <<r[k]>> \o (SubSeq(r, 1, k - 1) \o SubSeq(r, k + 1, n))
      <2> DEFINE a == SubSeq(r, 1, k - 1)
                 b == SubSeq(r, k + 1, n)
                 c == a \o b
                 d == <<r[k]>> \o c
      <2>1. a \in Seq(P) /\ Len(a) = k - 1 /\ \A j \in 1 .. k - 1 : a[j] = r[j]
          BY <1>0
      <2>2. b \in Seq(P) /\ Len(b) = n - k /\ \A j \in 1 .. n - k : b[j] = r[j + k]
          <3>1. k + 1 \in Int /\ n \in Int /\ \A i \in k + 1 .. n : r[i] \in P
              BY <1>0
          <3>2. /\ b \in Seq(P) /\ Len(b) = (IF k + 1 <= n THEN n - (k + 1) + 1 ELSE 0)
                /\ \A i \in 1 .. n - (k + 1) + 1 : b[i] = r[(k + 1) + i - 1]
              BY <3>1, SubSeqProperties
          <3> HIDE DEF b
          <3>3. Len(b) = n - k
              <4>1. CASE k = n
                  <5>1. ~(k + 1 <= n) /\ n - k = 0
                      BY <1>0, <4>1
                  <5>. QED  BY <3>2, <5>1
              <4>2. CASE k # n
                  <5>0. k \in Int /\ n \in Int /\ k <= n
                      BY <1>0
                  <5> HIDE DEF n
                  <5>1. k + 1 <= n /\ n - (k + 1) + 1 = n - k
                      BY <4>2, <5>0
                  <5>. QED  BY <3>2, <5>1
              <4>. QED  BY <4>1, <4>2
          <3>4. ASSUME NEW j \in 1 .. n - k PROVE b[j] = r[j + k]
              <4>1. j \in 1 .. n - (k + 1) + 1 /\ (k + 1) + j - 1 = j + k
                  BY <1>0
              <4>. QED  BY <3>2, <4>1
          <3>. QED  BY <3>2, <3>3, <3>4
      <2> HIDE DEF a, b
      <2>3. c \in Seq(P) /\ Len(c) = n - 1
          <3>1. c \in Seq(P) /\ Len(c) = Len(a) + Len(b)
              BY <2>1, <2>2, ConcatProperties
          <3> HIDE DEF c
          <3>. QED  BY <1>0, <2>1, <2>2, <3>1
      <2>4. \A j \in 1 .. n - 1 : c[j] = IF j <= k - 1 THEN a[j] ELSE b[j - (k - 1)]
          BY <1>0, <2>1, <2>2
      <2>5. \A j \in 1 .. n - 1 : c[j] = IF j <= k - 1 THEN r[j] ELSE r[j + 1]
          <3> TAKE j \in 1 .. n - 1
          <3>1. CASE j <= k - 1
              <4>1. j \in 1 .. k - 1
                  BY <3>1
              <4>. QED  BY <2>1, <2>4, <3>1, <4>1
          <3>2. CASE ~(j <= k - 1)
              <4>1. j - (k - 1) \in 1 .. n - k /\ (j - (k - 1)) + k = j + 1
                  BY <1>0, <3>2
              <4>. QED  BY <2>2, <2>4, <3>2, <4>1
          <3>. QED  BY <3>1, <3>2
      <2> HIDE DEF c
      <2>6. d \in Seq(P) /\ Len(d) = n /\ \A j \in 1 .. n : d[j] = IF j = 1 THEN r[k] ELSE c[j - 1]
          <3>1. r[k] \in P
              BY <1>0
          <3>2. d \in Seq(P) /\ Len(d) = 1 + Len(c)
              BY <2>3, <3>1
          <3>3. \A j \in 1 .. 1 + Len(c) : d[j] = IF j = 1 THEN r[k] ELSE c[j - 1]
              BY <2>3, <3>1
          <3> HIDE DEF d
          <3>4. 1 + Len(c) = n
              BY <1>0, <2>3
          <3>. QED  BY <3>2, <3>3, <3>4
      <2>7. d = [j \in 1 .. n |-> d[j]]
          BY <2>6
      <2> HIDE DEF d
      <2>8. ASSUME NEW j \in 1 .. n PROVE d[j] = IF j = 1 THEN r[k] ELSE IF j <= k THEN r[j - 1] ELSE r[j]
          <3>1. CASE j = 1
              BY <2>6, <3>1
          <3>2. CASE j # 1
              <4>1. j - 1 \in 1 .. n - 1 /\ (j - 1) + 1 = j /\ (j - 1 <= k - 1 <=> j <= k)
                  BY <3>2
              <4>. QED  BY <2>5, <2>6, <3>2, <4>1
          <3>. QED  BY <3>1, <3>2
      <2>9. ToFront(r, n, k) = d
          BY <2>7, <2>8 DEF ToFront
      <2>. QED  BY <2>9 DEF a, b, c, d
  <1>. QED  BY <1>1, <1>2, <1>3

\* A hit uses the prefix.
LEMMA HitIsUse ==
  ASSUME CacheInv, NEW t \in Threads, NEW p \in PrefixIds, Hit(t, p), pc[t] \in {"idle", "add"}
  PROVE  Lru!Use(p)
  <1>1. PICK k \in 1 .. Count : Order[k] = cache_map[p] /\ Order' = ToFront(Order, Count, k)
      BY HitKeeps
  <1>2. Count' = Count /\ \A n \in Range(cache_map) : prefix_id'[n] = prefix_id[n]
      BY HitKeeps
  <1>3. Recent[k] = p
      BY <1>1, RecentIs DEF Hit, CacheInv, NamesOK
  <1>4. Recent' = ToFront(Recent, Count, k)
      <2>1. Recent' = [j \in 1 .. Count |-> prefix_id'[Order'[j]]]
          BY <1>2 DEF Recent
      <2>2. ASSUME NEW j \in 1 .. Count
            PROVE  prefix_id'[Order'[j]] = IF j = 1 THEN Recent[k] ELSE IF j <= k THEN Recent[j - 1] ELSE Recent[j]
          <3>1. Order'[j] = IF j = 1 THEN Order[k] ELSE IF j <= k THEN Order[j - 1] ELSE Order[j]
              BY <1>1 DEF ToFront
          <3>2. \A i \in 1 .. Count : prefix_id'[Order[i]] = Recent[i]
              BY <1>2, RecentIs
          <3>3. j = 1 \/ j - 1 \in 1 .. Count
              BY RecentIs
          <3>. QED  BY <3>1, <3>2, <3>3
      <2>. QED  BY <2>1, <2>2 DEF ToFront
  <1>5. Recent' = <<p>> \o Lru!RemoveAt(Recent, k)
      <2>1. Recent \in Seq(PrefixIds) /\ Len(Recent) = Count
          BY LruSees
      <2>2. ToFront(Recent, Len(Recent), k)
                = <<Recent[k]>> \o (SubSeq(Recent, 1, k - 1) \o SubSeq(Recent, k + 1, Len(Recent)))
          BY <2>1, OnSequences
      <2>. QED  BY <1>3, <1>4, <2>1, <2>2 DEF Lru!RemoveAt
  <1>6. k \in DOMAIN Recent
      BY DEF Recent
  <1>7. used' = p
      BY DEF Hit
  <1>. QED  BY <1>3, <1>5, <1>6, <1>7 DEF Lru!Use, Recent

\* An eviction forgets the least recently used prefix, and only for want of room.
LEMMA EvictIsEvict ==
  ASSUME CacheInv, NEW t \in Threads, Evict(t)
  PROVE  Lru!Evict
  <1>1. Count # 0 /\ Count' = Count - 1 /\ Order' = WithoutLast(Order, Count)
        /\ \A n \in Range(cache_map') : prefix_id'[n] = prefix_id[n]
      BY EvictKeeps
  <1>2. Recent \in Seq(PrefixIds) /\ Len(Recent) = Count /\ Lru!ToSet(Recent) = DOMAIN cache_map
        /\ Lru!Total = cache_size_mb /\ Count \in Nat
      BY LruSees, Basics
  <1>3. Recent' = WithoutLast(Recent, Count)
      <2>1. Recent' = [j \in 1 .. Count - 1 |-> prefix_id'[Order'[j]]]
          BY <1>1 DEF Recent
      <2>2. ASSUME NEW j \in 1 .. Count - 1 PROVE prefix_id'[Order'[j]] = Recent[j]
          <3>1. j \in 1 .. Count /\ j \in 1 .. Count'
              BY <1>1, <1>2
          <3>2. Order'[j] = Order[j]
              BY <1>1 DEF WithoutLast
          <3>3. Order'[j] \in Range(cache_map')
              <4>1. CacheInv'
                  BY EvictKeeps
              <4>2. Order' \in [1 .. Count' -> Nodes] /\ Range(Order') = Range(cache_map')
                  BY <4>1 DEF CacheInv, ListOK, IsList, Range
              <4>. QED  BY <3>1, <4>2 DEF Range
          <3>4. Recent[j] = prefix_id[Order[j]]
              BY <3>1 DEF Recent
          <3>. QED  BY <1>1, <3>2, <3>3, <3>4
      <2>. QED  BY <2>1, <2>2 DEF WithoutLast
  <1>4. Recent' = Lru!Front(Recent)
      <2>1. CASE DOMAIN cache_map = {}
          BY <2>1, SomethingToEvict DEF Evict
      <2>2. CASE DOMAIN cache_map # {}
          <3>1. PICK p \in PrefixIds : p \in DOMAIN cache_map
              BY <2>2, Basics
          <3>2. WithoutLast(Recent, Len(Recent)) = SubSeq(Recent, 1, Len(Recent) - 1)
              BY <1>1, <1>2, <3>1, OnSequences
          <3>. QED  BY <1>2, <1>3, <3>2 DEF Lru!Front
      <2>. QED  BY <2>1, <2>2
  <1>5. Recent # <<>>
      BY <1>1, <1>2
  <1>6. want[t] \in PrefixIds \ Lru!ToSet(Recent) /\ Size[want[t]] <= Limit /\ Lru!Total + Size[want[t]] > Limit
      BY <1>2 DEF Evict, NoRoom, CacheInv, ThreadOK
  <1>7. used' = used
      BY DEF Evict
  <1>. QED  BY <1>4, <1>5, <1>6, <1>7 DEF Lru!Evict, Recent

\* A new prefix comes first.
LEMMA InsertIsInsert ==
  ASSUME CacheInv, NEW t \in Threads, Insert(t), NEW p \in PrefixIds, p = want[t]
  PROVE  Lru!Insert(p)
  <1>1. /\ Count' = Count + 1 /\ Order' = InFront(loaded[t], Order, Count) /\ prefix_id' = prefix_id
        /\ prefix_id[loaded[t]] = p /\ p \in PrefixIds \ DOMAIN cache_map /\ used' = p
      BY InsertKeeps DEF Insert
  <1>2. Recent \in Seq(PrefixIds) /\ Len(Recent) = Count /\ Lru!ToSet(Recent) = DOMAIN cache_map
        /\ Lru!Total = cache_size_mb /\ Count \in Nat
      BY LruSees, Basics
  <1>3. Recent' = InFront(p, Recent, Count)
      <2>1. Recent' = [j \in 1 .. Count + 1 |-> prefix_id[Order'[j]]]
          BY <1>1 DEF Recent
      <2>2. ASSUME NEW j \in 1 .. Count + 1 PROVE prefix_id[Order'[j]] = IF j = 1 THEN p ELSE Recent[j - 1]
          <3>1. Order'[j] = IF j = 1 THEN loaded[t] ELSE Order[j - 1]
              BY <1>1 DEF InFront
          <3>2. j # 1 => j - 1 \in 1 .. Count
              BY <1>2
          <3>. QED  BY <1>1, <3>1, <3>2 DEF Recent
      <2>. QED  BY <2>1, <2>2 DEF InFront
  <1>4. Recent' = <<p>> \o Recent
      <2>1. InFront(p, Recent, Len(Recent)) = <<p>> \o Recent
          BY <1>1, <1>2, OnSequences
      <2>. QED  BY <1>2, <1>3, <2>1
  <1>5. p \notin Lru!ToSet(Recent)
      BY <1>1, <1>2
  <1>6. Lru!Total + Size[p] <= Limit
      <2>1. ~(cache_size_mb + Size[p] > Limit)
          BY DEF Insert, NoRoom
      <2>. QED  BY <1>1, <1>2, <2>1, Basics
  <1>. QED  BY <1>1, <1>4, <1>5, <1>6 DEF Lru!Insert, Recent

\* However gets, loads and clears interleave, the cache behaves as an LRU cache.
THEOREM LruRefinement == Spec => ImplementsLru
  <1>1. Init => Lru!Init
      <2> SUFFICES ASSUME Init PROVE Lru!Init
          OBVIOUS
      <2>1. Count = 0
          BY FS_EmptySet DEF Init, Count
      <2>2. Recent = <<>>
          BY <2>1 DEF Recent
      <2>3. used \notin PrefixIds
          BY PromptCacheAssumption DEF Init
      <2>. QED  BY <2>2, <2>3 DEF Lru!Init, Recent
  <1>2. CacheInv /\ [Next]_vars => [Lru!Next]_<<Recent, used>>
      <2> SUFFICES ASSUME CacheInv, [Next]_vars PROVE Lru!Next \/ (Recent' = Recent /\ used' = used)
          OBVIOUS
      <2>0. ASSUME Count' = Count, Order' = Order, \A n \in Range(cache_map) : prefix_id'[n] = prefix_id[n]
            PROVE  Recent' = Recent
          <3>1. Recent' = [k \in 1 .. Count |-> prefix_id'[Order[k]]]
              BY <2>0 DEF Recent
          <3>2. \A k \in 1 .. Count : prefix_id'[Order[k]] = prefix_id[Order[k]]
              BY <2>0, RecentIs
          <3>. QED  BY <3>1, <3>2 DEF Recent
      <2>1. ASSUME NEW t \in Threads, NEW p \in PrefixIds, GetHit(t, p) PROVE Lru!Next
          BY <2>1, HitIsUse DEF GetHit, Lru!Next
      <2>2. ASSUME NEW t \in Threads, NEW p \in PrefixIds, GetMiss(t, p) PROVE Recent' = Recent /\ used' = used
          BY <2>0, <2>2, GetMissKeeps DEF GetMiss
      <2>3. ASSUME NEW t \in Threads, Load(t) PROVE Recent' = Recent /\ used' = used
          BY <2>0, <2>3, LoadKeeps DEF Load
      <2>4. ASSUME NEW t \in Threads, LoadFails(t) \/ AddTooLarge(t) PROVE Recent' = Recent /\ used' = used
          <3>1. pc[t] \in {"load", "add"} /\ Raise(t)
              BY <2>4 DEF LoadFails, AddTooLarge
          <3>. QED  BY <2>0, <3>1, RaiseKeeps DEF Raise
      <2>5. ASSUME NEW t \in Threads, AddFinds(t) PROVE Lru!Next
          <3>1. want[t] \in PrefixIds
              BY <2>5, Basics DEF AddFinds, AddedMeanwhile
          <3>. QED  BY <2>5, <3>1, HitIsUse DEF AddFinds, Lru!Next
      <2>6. ASSUME NEW t \in Threads, AddStart(t) PROVE Recent' = Recent /\ used' = used
          BY <2>0, <2>6, AddStartKeeps DEF AddStart
      <2>7. ASSUME NEW t \in Threads, Evict(t) PROVE Lru!Next
          BY <2>7, EvictIsEvict DEF Lru!Next
      <2>8. ASSUME NEW t \in Threads, Insert(t) PROVE Lru!Next
          <3>1. PICK p \in PrefixIds : p = want[t]
              BY <2>8, InsertKeeps
          <3>2. Lru!Insert(p)
              BY <2>8, <3>1, InsertIsInsert
          <3>. QED  BY <3>2 DEF Lru!Next
      <2>9. CASE Clear
          <3>1. Count' = 0 /\ used' = used
              BY <2>9, ClearKeeps DEF Clear
          <3>2. Recent' = <<>>
              BY <3>1 DEF Recent
          <3>. QED  BY <3>1, <3>2 DEF Lru!Next, Lru!Clear, Recent
      <2>10. CASE UNCHANGED vars
          BY <2>0, <2>10, MapStays DEF vars
      <2>. QED  BY <2>1, <2>2, <2>3, <2>4, <2>5, <2>6, <2>7, <2>8, <2>9, <2>10 DEF Next
  <1>3. CacheInv /\ [Next]_vars => [Lru!Next]_<<[k \in 1 .. Count |-> prefix_id[Order[k]]], used>>
      BY <1>2 DEF Recent
  <1>. QED  BY <1>1, <1>3, CacheInvariant, PTL DEF Spec, ImplementsLru, Lru!Spec
=============================================================================
