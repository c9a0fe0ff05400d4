------------------------------ MODULE LruCache ------------------------------
(***************************************************************************)
(* Abstract: a cache of prompt prefixes, most recently used first, whose   *)
(* total size never exceeds a limit and which forgets the least recently   *)
(* used prefix, and only to make room for another.                         *)
(***************************************************************************)
EXTENDS Integers, Sequences, FiniteSetsExt, SequencesExt

CONSTANTS
    PrefixIds,
    Size,       \* prompt_size_mb of a prefix
    Limit       \* PROMPT_CACHE_SIZE_MB

VARIABLES
    recent,     \* the prefixes in the cache
    used        \* the prefix returned last

Total == MapThenSumSet(LAMBDA p : Size[p], ToSet(recent))

Init == recent = <<>> /\ used \notin PrefixIds

Use(p) ==
    /\ \E i \in DOMAIN recent : recent[i] = p /\ recent' = <<p>> \o RemoveAt(recent, i)
    /\ used' = p

Evict ==
    /\ recent # <<>>
    /\ \E p \in PrefixIds \ ToSet(recent) : Size[p] <= Limit /\ Total + Size[p] > Limit
    /\ recent' = Front(recent)
    /\ UNCHANGED used

Insert(p) ==
    /\ p \notin ToSet(recent)
    /\ Total + Size[p] <= Limit
    /\ recent' = <<p>> \o recent
    /\ used' = p

Clear == recent' = <<>> /\ UNCHANGED used

Next == Evict \/ Clear \/ \E p \in PrefixIds : Use(p) \/ Insert(p)

Spec == Init /\ [][Next]_<<recent, used>>
=============================================================================
