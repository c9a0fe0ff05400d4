---------------------------- MODULE PromptCache ----------------------------
(***************************************************************************)
(* The cache of prompt prefixes of a shard (PrefixCache in                 *)
(* server/.../prompt_cache.py): a map and a doubly linked list over the    *)
(* same nodes, under one lock that is released while tensors are loaded.   *)
(*                                                                         *)
(* Threads are the callers of get.  Tensors are left out; what a load      *)
(* yields is a node of the prefix's size, or an exception.  A node that    *)
(* nothing refers to any more is freed: its fields are reset.              *)
(***************************************************************************)
EXTENDS Integers, FiniteSets, FiniteSetsExt, Functions

CONSTANTS
    Threads, PrefixIds,
    Size,       \* prompt_size_mb of a prefix
    Limit,      \* PROMPT_CACHE_SIZE_MB
    Nodes,      \* bound: PromptCacheNodes referenced at any time
    None

ASSUME PromptCacheAssumption ==
    /\ Size \in [PrefixIds -> Nat \ {0}] /\ Limit \in Nat
    /\ IsFiniteSet(Nodes)
    /\ None \notin Nodes \cup PrefixIds \cup Threads

VARIABLES
    pc,             \* where a thread is in get
    want,           \* its prefix_id
    loaded,         \* new_cache_node
    lock,           \* the thread that is in the critical section across steps
    prefix_id,      \* PromptCacheNode::prefix_id
    cache_map,
    dll,            \* cache_dll, with the next and prev of all nodes
    cache_size_mb,
    used            \* history: the prefix that get returned last

vars == <<pc, want, loaded, lock, prefix_id, cache_map, dll, cache_size_mb, used>>

TypeOK ==
    /\ pc \in [Threads -> {"idle", "load", "add", "evict"}]
    /\ want \in [Threads -> PrefixIds \cup {None}]
    /\ loaded \in [Threads -> Nodes \cup {None}]
    /\ lock \in Threads \cup {None}
    /\ prefix_id \in [Nodes -> PrefixIds \cup {None}]
    /\ DOMAIN cache_map \subseteq PrefixIds /\ Range(cache_map) \subseteq Nodes
    /\ dll \in [head : Nodes \cup {None}, tail : Nodes \cup {None},
                next : [Nodes -> Nodes \cup {None}], prev : [Nodes -> Nodes \cup {None}]]
    /\ cache_size_mb \in Nat
    /\ used \in PrefixIds \cup {None}

NoPointers == [n \in Nodes |-> None]

Init ==
    /\ pc = [t \in Threads |-> "idle"]
    /\ want = [t \in Threads |-> None]
    /\ loaded = [t \in Threads |-> None]
    /\ lock = None
    /\ prefix_id = NoPointers
    /\ cache_map = [p \in {} |-> None]
    /\ dll = [head |-> None, tail |-> None, next |-> NoPointers, prev |-> NoPointers]
    /\ cache_size_mb = 0
    /\ used = None

----------------------------------------------------------------------------
(* DoublyLinkedList.                                                        *)

add_node_as_head(d, n) ==
    IF d.head = None /\ d.tail = None
    THEN [d EXCEPT !.head = n, !.tail = n]
    ELSE [d EXCEPT !.head = n, !.next[n] = d.head, !.prev[d.head] = n]

pop_tail_node(d) ==
    IF d.head = d.tail
    THEN [d EXCEPT !.head = None, !.tail = None]
    ELSE [d EXCEPT !.tail = d.prev[d.tail], !.next[d.prev[d.tail]] = None]

\* The node is taken out of the list ...
KeepsTail(d, n) ==      \* mutant
    [d EXCEPT !.next[d.prev[n]] = d.next[n], !.prev[d.next[n]] = d.prev[n]]
Unlink(d, n) ==
    IF n = d.tail
    THEN [d EXCEPT !.tail = d.prev[n], !.next[d.prev[n]] = None]
    ELSE [d EXCEPT !.next[d.prev[n]] = d.next[n], !.prev[d.next[n]] = d.prev[n]]

\* ... and put before its head.
StaysInPlace(d, n) == d     \* mutant
move_node_to_head(d, n) ==
    IF n = d.head THEN d
    ELSE LET u == Unlink(d, n) IN
         [u EXCEPT !.head = n, !.prev[d.head] = n, !.next[n] = d.head, !.prev[n] = None]

FreeNodes(d, ns) ==
    [d EXCEPT !.next = [n \in Nodes |-> IF n \in ns THEN None ELSE @[n]],
              !.prev = [n \in Nodes |-> IF n \in ns THEN None ELSE @[n]]]

----------------------------------------------------------------------------
(* PrefixCache.                                                             *)

Free == lock = None

\* _get_from_cache finds p, and get returns; a node loaded in vain is freed.
Hit(t, p) ==
    /\ p \in DOMAIN cache_map
    /\ dll' = move_node_to_head(dll, cache_map[p])
    /\ pc' = [pc EXCEPT ![t] = "idle"]
    /\ want' = [want EXCEPT ![t] = None]
    /\ loaded' = [loaded EXCEPT ![t] = None]
    /\ prefix_id' = [prefix_id EXCEPT ![loaded[t]] = None]
    /\ used' = p
    /\ UNCHANGED <<lock, cache_map, cache_size_mb>>

GetHit(t, p) == pc[t] = "idle" /\ Free /\ Hit(t, p)

GetMiss(t, p) ==
    /\ pc[t] = "idle" /\ Free
    /\ p \notin DOMAIN cache_map
    /\ pc' = [pc EXCEPT ![t] = "load"]
    /\ want' = [want EXCEPT ![t] = p]
    /\ UNCHANGED <<loaded, lock, prefix_id, cache_map, dll, cache_size_mb, used>>

Raise(t) ==
    /\ pc' = [pc EXCEPT ![t] = "idle"]
    /\ want' = [want EXCEPT ![t] = None]
    /\ loaded' = [loaded EXCEPT ![t] = None]
    /\ prefix_id' = [prefix_id EXCEPT ![loaded[t]] = None]
    /\ UNCHANGED <<lock, cache_map, dll, cache_size_mb, used>>

\* A bad id, no such prefix, or tensors of the wrong shape or with non-finite elements.
LoadFails(t) == pc[t] = "load" /\ Raise(t)

Unreferenced == Nodes \ (Range(cache_map) \cup Range(loaded))

\* Without the lock: the tensors are loaded and a node is created for them.
Load(t) ==
    /\ pc[t] = "load"
    /\ \E n \in Unreferenced :
          /\ loaded' = [loaded EXCEPT ![t] = n]
          /\ prefix_id' = [prefix_id EXCEPT ![n] = want[t]]
    /\ pc' = [pc EXCEPT ![t] = "add"]
    /\ UNCHANGED <<want, lock, cache_map, dll, cache_size_mb, used>>

\* _add_prefix_id_to_cache: someone else has added the prefix meanwhile, ...
NeverAdded(t) == FALSE      \* mutant
AddedMeanwhile(t) == want[t] \in DOMAIN cache_map

AddFinds(t) == pc[t] = "add" /\ Free /\ AddedMeanwhile(t) /\ Hit(t, want[t])

\* ... or it cannot fit, ...
AddTooLarge(t) ==
    /\ pc[t] = "add" /\ Free /\ ~AddedMeanwhile(t)
    /\ Size[want[t]] > Limit
    /\ Raise(t)

\* ... or room is made for it, under the lock.
AddStart(t) ==
    /\ pc[t] = "add" /\ Free /\ ~AddedMeanwhile(t)
    /\ Size[want[t]] <= Limit
    /\ lock' = t
    /\ pc' = [pc EXCEPT ![t] = "evict"]
    /\ UNCHANGED <<want, loaded, prefix_id, cache_map, dll, cache_size_mb, used>>

NoRoom(t) == cache_size_mb + Size[want[t]] > Limit

ForgetsSize(p) == cache_size_mb     \* mutant
SizeWithout(p) == cache_size_mb - Size[p]

Evict(t) ==
    LET del_node == dll.tail IN
    /\ pc[t] = "evict" /\ NoRoom(t)
    /\ dll' = FreeNodes(pop_tail_node(dll), {del_node})
    /\ prefix_id' = [prefix_id EXCEPT ![del_node] = None]
    /\ cache_map' = Restrict(cache_map, DOMAIN cache_map \ {prefix_id[del_node]})
    /\ cache_size_mb' = SizeWithout(prefix_id[del_node])
    /\ UNCHANGED <<pc, want, loaded, lock, used>>

Insert(t) ==
    LET p == want[t] IN
    /\ pc[t] = "evict" /\ ~NoRoom(t)
    /\ dll' = add_node_as_head(dll, loaded[t])
    /\ cache_map' = [q \in DOMAIN cache_map \cup {p} |->
                        IF q = p THEN loaded[t] ELSE cache_map[q]]
    /\ cache_size_mb' = cache_size_mb + Size[p]
    /\ used' = p
    /\ lock' = None
    /\ pc' = [pc EXCEPT ![t] = "idle"]
    /\ want' = [want EXCEPT ![t] = None]
    /\ loaded' = [loaded EXCEPT ![t] = None]
    /\ UNCHANGED prefix_id

\* clear: the list object is replaced.
Clear ==
    /\ Free
    /\ cache_map' = [p \in {} |-> None]
    /\ dll' = FreeNodes([dll EXCEPT !.head = None, !.tail = None], Range(cache_map))
    /\ prefix_id' = [n \in Nodes |-> IF n \in Range(cache_map) THEN None ELSE prefix_id[n]]
    /\ cache_size_mb' = 0
    /\ UNCHANGED <<pc, want, loaded, lock, used>>

Next ==
    \/ \E t \in Threads :
          \/ \E p \in PrefixIds : GetHit(t, p) \/ GetMiss(t, p)
          \/ Load(t) \/ LoadFails(t)
          \/ AddFinds(t) \/ AddTooLarge(t) \/ AddStart(t)
          \/ Evict(t) \/ Insert(t)
    \/ Clear

Spec == Init /\ [][Next]_vars

----------------------------------------------------------------------------
(* Properties.                                                              *)

\* The nodes from the head on, one after the other.
Count == Cardinality(DOMAIN cache_map)
Order[k \in 1 .. Count] == IF k = 1 THEN dll.head ELSE dll.next[Order[k - 1]]

\* Map and list hold the same nodes, each under its own prefix; the list leads in
\* either direction from one end to the other, after any hits, races and evictions.
ListMatchesMap ==
    /\ Range(Order) = Range(cache_map)
    /\ \A p \in DOMAIN cache_map : prefix_id[cache_map[p]] = p
    /\ IF Count = 0 THEN dll.head = None /\ dll.tail = None
       ELSE dll.tail = Order[Count] /\ dll.next[dll.tail] = None /\ dll.prev[dll.head] = None
    /\ \A k \in 2 .. Count : dll.prev[Order[k]] = Order[k - 1]

\* The running size is that of the cached prefixes and never exceeds the limit, so
\* that eviction always ends and never finds the list empty.
SizeAgrees ==
    /\ cache_size_mb = MapThenSumSet(LAMBDA p : Size[p], DOMAIN cache_map)
    /\ cache_size_mb <= Limit

\* Threads that load the same prefix at the same time end up with one node: no
\* entry is replaced by another one ("If we already have it, return the node in
\* the cache").
NodesStay ==
    [][ \A p \in DOMAIN cache_map \cap DOMAIN cache_map' : cache_map'[p] = cache_map[p] ]_vars

\* The cache is an LRU cache.
Lru == INSTANCE LruCache WITH recent <- [k \in 1 .. Count |-> prefix_id[Order[k]]]

\* Under the concurrent use of get and clear the list is in the order of use, what
\* is used least recently leaves first, and only for want of room.
ImplementsLru == Lru!Spec
=============================================================================
