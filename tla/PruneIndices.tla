---------------------------- MODULE PruneIndices ----------------------------
(***************************************************************************)
(* Model.get_indices_to_keep (server/.../models/model.py), the merge by    *)
(* which prune of the causal, flash and seq2seq batches finds the requests *)
(* that stay: one action per branch of the loop.                           *)
(*                                                                         *)
(* The requests of a batch are in the order of their ids.  The completed   *)
(* ids come from the router in any order; prune returns early if there are *)
(* none.                                                                   *)
(***************************************************************************)
EXTENDS Integers, Sequences, Functions, TLAPS

CONSTANTS
    Ids,        \* request ids
    MaxLen      \* bound: length of either list

ASSUME IdsAssumption == Ids \subseteq Nat /\ MaxLen \in Nat \ {0}

VARIABLES
    requests,       \* ids of the batch's requests
    completed_ids,
    i,              \* request being looked at (enumerate)
    c,              \* position in completed_ids of next_id, past the end for None
    next_batch_keep_indices

vars == <<requests, completed_ids, i, c, next_batch_keep_indices>>

Ascending(s) == \A k \in DOMAIN s : \A h \in 1 .. k - 1 : s[h] < s[k]

Lists == UNION {[1 .. n -> Ids] : n \in 1 .. MaxLen}

TypeOK ==
    /\ requests \in Seq(Ids) /\ completed_ids \in Seq(Ids)
    /\ i \in 1 .. Len(requests) + 1
    /\ c \in 1 .. Len(completed_ids) + 1
    /\ next_batch_keep_indices \in Seq(1 .. Len(requests))

Init ==
    /\ requests \in {s \in Lists : Ascending(s)}
    /\ completed_ids \in {s \in Lists : IsInjective(s)}
    /\ i = 1 /\ c = 1 /\ next_batch_keep_indices = <<>>

NextId == c <= Len(completed_ids)       \* next_id is not None

\* while next_id is not None and r.id > next_id
StopsAtEqual(r) == NextId /\ r >= completed_ids[c]      \* mutant
Behind(r) == NextId /\ r > completed_ids[c]

Advance ==
    /\ i <= Len(requests) /\ Behind(requests[i])
    /\ c' = c + 1
    /\ UNCHANGED <<requests, completed_ids, i, next_batch_keep_indices>>

\* if r.id != next_id
Keep ==
    /\ i <= Len(requests) /\ ~Behind(requests[i])
    /\ ~(NextId /\ requests[i] = completed_ids[c])
    /\ next_batch_keep_indices' = Append(next_batch_keep_indices, i)
    /\ i' = i + 1
    /\ UNCHANGED <<requests, completed_ids, c>>

Drop ==
    /\ i <= Len(requests) /\ ~Behind(requests[i])
    /\ NextId /\ requests[i] = completed_ids[c]
    /\ i' = i + 1
    /\ UNCHANGED <<requests, completed_ids, c, next_batch_keep_indices>>

Returned == i > Len(requests) /\ UNCHANGED vars

Next == Advance \/ Keep \/ Drop \/ Returned

Spec == Init /\ [][Next]_vars

----------------------------------------------------------------------------
\* An id is recognised only if all ids listed before it are smaller.
IdsSeenByMerge ==
    {completed_ids[k] : k \in {j \in DOMAIN completed_ids :
                                  \A h \in 1 .. j - 1 : completed_ids[h] < completed_ids[j]}}

\* What the loop keeps, at any time: the requests passed whose id it does not
\* recognise.  ShardService prunes by this closed form.
KeepsUnseen ==
    \A k \in 1 .. i - 1 :
        k \in Range(next_batch_keep_indices) <=> requests[k] \notin IdsSeenByMerge

\* If the completed ids ascend, no completed request is kept and none is lost
\* ("Prune completed entries from a batch").
PrunesExactly ==
    i > Len(requests) /\ Ascending(completed_ids) =>
        {requests[k] : k \in Range(next_batch_keep_indices)}
            = Range(requests) \ Range(completed_ids)

----------------------------------------------------------------------------
(* Proofs, for lists of any length.                                         *)

\* Every completed id passed is below some request looked at.
Passed == \A h \in 1 .. c - 1 : \E k \in 1 .. i : k <= Len(requests) /\ completed_ids[h] < requests[k]

Inv ==
    /\ TypeOK
    /\ Ascending(requests)
    /\ Range(next_batch_keep_indices) \subseteq 1 .. i - 1
    /\ KeepsUnseen
    /\ Passed

\* The elements of a list with one more.
LEMMA RangeAppend ==
  ASSUME NEW S, NEW s \in Seq(S), NEW e \in S
  PROVE  Range(Append(s, e)) = Range(s) \cup {e}
  <1>1. /\ DOMAIN Append(s, e) = 1 .. Len(s) + 1
        /\ \A k \in 1 .. Len(s) : Append(s, e)[k] = s[k]
        /\ Append(s, e)[Len(s) + 1] = e
      OBVIOUS
  <1>2. DOMAIN s = 1 .. Len(s) /\ Len(s) \in Nat
      OBVIOUS
  <1>3. \A k \in 1 .. Len(s) + 1 : k \in 1 .. Len(s) \/ k = Len(s) + 1
      BY <1>2
  <1>4. Len(s) + 1 \in 1 .. Len(s) + 1 /\ 1 .. Len(s) \subseteq 1 .. Len(s) + 1
      BY <1>2
  <1>. QED  BY <1>1, <1>2, <1>3, <1>4, Zenon DEF Range

\* The invariant of the loop holds before it,
LEMMA InitInv == Init => Inv
  <1> SUFFICES ASSUME Init PROVE Inv
      OBVIOUS
  <1>0. ASSUME NEW s \in Lists PROVE s \in Seq(Ids) /\ Len(s) \in Nat
      BY IdsAssumption DEF Lists
  <1>1. requests \in Seq(Ids) /\ completed_ids \in Seq(Ids)
      BY <1>0 DEF Init
  <1>2. next_batch_keep_indices = <<>>
      BY DEF Init
  <1>3. TypeOK
      <2>1. <<>> \in Seq(1 .. Len(requests))
          OBVIOUS
      <2>. QED  BY <1>1, <1>2, <2>1 DEF Init, TypeOK
  <1>4. Range(next_batch_keep_indices) = {}
      BY <1>2 DEF Range
  <1>. QED  BY <1>3, <1>4 DEF Init, Inv, KeepsUnseen, Passed

\* Everything before position c is below the request looked at.
LEMMA PassedBelow ==
  ASSUME Inv, i <= Len(requests)
  PROVE  /\ requests[i] \in Nat
         /\ \A h \in 1 .. c - 1 : completed_ids[h] < requests[i]
         /\ \A h \in 1 .. Len(completed_ids) : completed_ids[h] \in Nat
  <1>0. ASSUME NEW s \in Seq(Ids), NEW k \in 1 .. Len(s) PROVE s[k] \in Nat
      <2>1. s[k] \in Ids
          OBVIOUS
      <2>. QED  BY <2>1, IdsAssumption
  <1>1. \A k \in 1 .. Len(requests) : requests[k] \in Nat
      BY <1>0 DEF Inv, TypeOK
  <1>2. \A h \in 1 .. Len(completed_ids) : completed_ids[h] \in Nat
      BY <1>0 DEF Inv, TypeOK
  <1>3. i \in 1 .. Len(requests)
      BY DEF Inv, TypeOK
  <1>4. ASSUME NEW h \in 1 .. c - 1
        PROVE  completed_ids[h] < requests[i]
      <2>1. PICK k \in 1 .. i : k <= Len(requests) /\ completed_ids[h] < requests[k]
          BY <1>4 DEF Inv, Passed
      <2>2. k = i \/ k \in 1 .. i - 1
          BY <1>3
      <2>3. requests[k] <= requests[i]
          <3>1. CASE k = i
              BY <1>1, <1>3, <3>1
          <3>2. CASE k \in 1 .. i - 1
              <4>1. requests[k] < requests[i]
                  BY <1>3, <3>2 DEF Inv, TypeOK, Ascending
              <4>. QED  BY <1>1, <1>3, <4>1, <3>2
          <3>. QED  BY <2>2, <3>1, <3>2
      <2>4. completed_ids[h] \in Nat /\ requests[k] \in Nat /\ requests[i] \in Nat
          BY <1>1, <1>2, <1>3 DEF Inv, TypeOK
      <2>. QED  BY <2>1, <2>3, <2>4
  <1>. QED  BY <1>1, <1>2, <1>3, <1>4

\* The test of the loop is membership in IdsSeenByMerge.
LEMMA SeenTest ==
  ASSUME Inv, i <= Len(requests), ~Behind(requests[i])
  PROVE  requests[i] \in IdsSeenByMerge <=> NextId /\ requests[i] = completed_ids[c]
  <1>0. /\ DOMAIN completed_ids = 1 .. Len(completed_ids) /\ Len(completed_ids) \in Nat
        /\ c \in 1 .. Len(completed_ids) + 1
      BY DEF Inv, TypeOK
  <1>1. ASSUME NextId, requests[i] = completed_ids[c]
        PROVE  requests[i] \in IdsSeenByMerge
      <2>1. c \in DOMAIN completed_ids
          BY <1>0, <1>1 DEF NextId
      <2>. QED  BY <1>1, <2>1, PassedBelow DEF IdsSeenByMerge
  <1>2. ASSUME requests[i] \in IdsSeenByMerge
        PROVE  NextId /\ requests[i] = completed_ids[c]
      <2>1. PICK j \in 1 .. Len(completed_ids) :
                /\ requests[i] = completed_ids[j]
                /\ \A h \in 1 .. j - 1 : completed_ids[h] < completed_ids[j]
          BY <1>0, <1>2 DEF IdsSeenByMerge
      <2>2. ~(j < c)
          <3>1. SUFFICES ASSUME j < c PROVE FALSE
              OBVIOUS
          <3>2. j \in 1 .. c - 1
              BY <1>0, <3>1
          <3>3. completed_ids[j] < requests[i]
              BY <3>2, PassedBelow
          <3>. QED  BY <2>1, <3>3, PassedBelow
      <2>3. ~(c < j)
          <3>1. SUFFICES ASSUME c < j PROVE FALSE
              OBVIOUS
          <3>2. c \in 1 .. j - 1 /\ NextId
              BY <1>0, <3>1 DEF NextId
          <3>3. completed_ids[c] < requests[i]
              BY <2>1, <3>2
          <3>. QED  BY <1>0, <3>2, <3>3, PassedBelow DEF Behind
      <2>4. j = c
          BY <1>0, <2>2, <2>3
      <2>. QED  BY <2>1, <2>4 DEF NextId
  <1>. QED  BY <1>1, <1>2

\* each turn keeps it,
LEMMA NextInv ==
  ASSUME Inv, [Next]_vars
  PROVE  Inv'
  <1> USE DEF Inv
  <1>0. /\ Len(requests) \in Nat /\ Len(completed_ids) \in Nat
        /\ i \in Nat /\ c \in Nat
      BY DEF TypeOK
  <1>1. CASE Advance
      <2>1. TypeOK'
          BY <1>0, <1>1 DEF Advance, Behind, NextId, TypeOK
      <2>2. Passed'
          <3>1. i \in 1 .. i /\ completed_ids[c] < requests[i]
              <4>1. requests[i] > completed_ids[c] /\ c \in 1 .. Len(completed_ids)
                  BY <1>0, <1>1 DEF Advance, Behind, NextId, TypeOK
              <4>. QED  BY <1>1, <4>1, PassedBelow DEF Advance, TypeOK
          <3>2. \A h \in 1 .. c' - 1 : h \in 1 .. c - 1 \/ h = c
              BY <1>0, <1>1 DEF Advance
          <3>. QED  BY <1>1, <3>1, <3>2 DEF Advance, Passed
      <2>. QED  BY <1>1, <2>1, <2>2 DEF Advance, Ascending, KeepsUnseen, IdsSeenByMerge
  <1>2. ASSUME i <= Len(requests), i' = i + 1, UNCHANGED <<requests, completed_ids, c>>
        PROVE  /\ i' \in 1 .. Len(requests) + 1 /\ Ascending(requests)'
               /\ Passed' /\ IdsSeenByMerge' = IdsSeenByMerge
               /\ \A k \in 1 .. i' - 1 : k \in 1 .. i - 1 \/ k = i
      <2>1. 1 .. i \subseteq 1 .. i'
          BY <1>0, <1>2
      <2>2. Passed'
          BY <1>2, <2>1 DEF Passed
      <2>. QED  BY <1>0, <1>2, <2>2 DEF TypeOK, Ascending, IdsSeenByMerge
  <1>3. CASE Keep
      <2>1. Range(next_batch_keep_indices') = Range(next_batch_keep_indices) \cup {i}
          <3>1. i \in 1 .. Len(requests)
              BY <1>3 DEF Keep, TypeOK
          <3>. QED  BY <1>3, <3>1, RangeAppend DEF Keep, TypeOK
      <2>2. requests[i] \notin IdsSeenByMerge
          BY <1>3, SeenTest DEF Keep
      <2>3. TypeOK'
          <3>1. i \in 1 .. Len(requests)
              BY <1>3 DEF Keep, TypeOK
          <3>. QED  BY <1>2, <1>3, <3>1 DEF Keep, TypeOK
      <2>4. KeepsUnseen'
          <3>1. i \notin 1 .. i - 1
              BY <1>0
          <3>. QED  BY <1>2, <1>3, <2>1, <2>2, <3>1 DEF Keep, KeepsUnseen
      <2>5. (Range(next_batch_keep_indices) \subseteq 1 .. i - 1)'
          <3>1. i' = i + 1 /\ 1 .. i - 1 \subseteq 1 .. i /\ i \in 1 .. i
              BY <1>3 DEF Keep, TypeOK
          <3>. QED  BY <1>0, <2>1, <3>1
      <2>. QED  BY <1>2, <1>3, <2>3, <2>4, <2>5 DEF Keep
  <1>4. CASE Drop
      <2>1. requests[i] \in IdsSeenByMerge
          BY <1>4, SeenTest DEF Drop
      <2>2. TypeOK'
          BY <1>2, <1>4 DEF Drop, TypeOK
      <2>3. i \notin Range(next_batch_keep_indices)
          BY <1>0
      <2>4. KeepsUnseen'
          BY <1>2, <1>4, <2>1, <2>3 DEF Drop, KeepsUnseen
      <2>5. (Range(next_batch_keep_indices) \subseteq 1 .. i - 1)'
          BY <1>0, <1>4 DEF Drop
      <2>. QED  BY <1>2, <1>4, <2>2, <2>4, <2>5 DEF Drop
  <1>5. CASE UNCHANGED vars
      BY <1>5 DEF vars, TypeOK, Ascending, KeepsUnseen, IdsSeenByMerge, Passed
  <1>. QED  BY <1>1, <1>3, <1>4, <1>5 DEF Next, Returned

\* and so it always holds.
LEMMA InvAlways == Spec => []Inv
  BY InitInv, NextInv, PTL DEF Spec

\* get_indices_to_keep keeps exactly the requests whose id is not preceded, in
\* the completed list, by a larger one.
THEOREM MergeKeepsUnseen == Spec => []KeepsUnseen
  BY InvAlways, PTL DEF Inv

\* Given ascending completed ids, prune removes exactly the completed requests.
THEOREM MergeIsExact == Spec => []PrunesExactly
  <1>1. Inv => PrunesExactly
      <2> SUFFICES ASSUME Inv, i > Len(requests), Ascending(completed_ids)
                   PROVE  {requests[k] : k \in Range(next_batch_keep_indices)}
                              = Range(requests) \ Range(completed_ids)
          BY DEF PrunesExactly
      <2>1. 1 .. i - 1 = DOMAIN requests
          BY DEF Inv, TypeOK
      <2>2. IdsSeenByMerge = Range(completed_ids)
          BY DEF IdsSeenByMerge, Range, Ascending
      <2>3. \A k \in DOMAIN requests :
                k \in Range(next_batch_keep_indices) <=> requests[k] \notin Range(completed_ids)
          BY <2>1, <2>2 DEF Inv, KeepsUnseen
      <2>4. Range(next_batch_keep_indices) \subseteq DOMAIN requests
          BY <2>1 DEF Inv
      <2> HIDE DEF Inv
      <2>. QED  BY <2>3, <2>4, Zenon DEF Range
  <1>. QED  BY <1>1, InvAlways, PTL
=============================================================================
