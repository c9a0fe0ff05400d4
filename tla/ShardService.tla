---------------------------- MODULE ShardService ----------------------------
(***************************************************************************)
(* One shard: TextGenerationService of server.py with its batch Cache      *)
(* (cache.py), at the level of which request sits in which cached batch.   *)
(* A handler contains no await, so it is one atomic step per call.         *)
(*                                                                         *)
(* The two families of batch types differ in prune: CausalLMBatch,         *)
(* FlashCausalLMBatch and Seq2SeqLMBatch merge the sorted request list     *)
(* with completed_ids (Model.get_indices_to_keep); PagedCausalLMBatch      *)
(* (Paged) tests membership, and also owns KV-cache sequences.             *)
(***************************************************************************)
EXTENDS Rpc, Functions

CONSTANTS
    MaxTokensPerStep,   \* tokens one NextToken may produce per request (speculation)
    MaxRequestErrors,   \* bound: per-request errors a shard may report
    MaxRpcFailures      \* bound: failed calls (connection, out of memory, raised)

ASSUME ShardAssumption ==
    /\ MaxTokensPerStep \in Nat \ {0}
    /\ ~Paged => MaxTokensPerStep = 1
    /\ MaxRequestErrors \in Nat
    /\ MaxRpcFailures \in Nat

VARIABLES
    cache,          \* Cache.cache: batch id -> ids of the batch's requests
    room,           \* tokens the batch still has space for, per request
                    \* (max_remaining_tokens, or total_lengths - input_lengths)
    kv,             \* requests holding sequences in the paged KV cache
    request_errors, \* per-request errors reported so far
    rpc_failures    \* calls failed so far

shardVars == <<cache, room, kv, request_errors, rpc_failures>>

ShardTypeOK ==
    /\ \E B \in SUBSET BatchIds : cache \in [B -> SUBSET Ids]
    /\ room \in [Ids -> Nat]
    /\ kv \in SUBSET Ids
    /\ request_errors \in 0 .. MaxRequestErrors
    /\ rpc_failures \in 0 .. MaxRpcFailures

ShardInit ==
    /\ cache = [b \in {} |-> {}]
    /\ room = [i \in Ids |-> 0]
    /\ kv = {}
    /\ request_errors = 0
    /\ rpc_failures = 0

----------------------------------------------------------------------------
(* Pruning.  get_indices_to_keep walks the requests in ascending id order   *)
(* and advances through completed_ids past every id below the request's,    *)
(* so it recognises an id only if all ids listed before it are smaller.     *)
(* PruneIndices checks this reading against the loop itself.                *)
IdsSeenByMerge(completed) ==
    {completed[j] : j \in {k \in DOMAIN completed :
                              \A h \in 1 .. k - 1 : completed[h] < completed[k]}}

PrunedIds(completed) == IF Paged THEN Range(completed) ELSE IdsSeenByMerge(completed)

\* The ids of the requests of a cached batch, {} when Cache.pop finds none.
BatchOf(b) == IF b \in DOMAIN cache THEN cache[b] ELSE {}

\* prune: the requests that stay; {} stands for None, the batch is discarded.
Prune(cb) == IF cb.done THEN {} ELSE BatchOf(cb.batch_id) \ PrunedIds(cb.completed_ids)

\* _free_paged_sequences, for one cached batch: by membership in every model.
FreesListedOnly(cb) == BatchOf(cb.batch_id) \cap Range(cb.completed_ids)    \* mutant
FreedIds(cb) ==
    IF cb.done THEN BatchOf(cb.batch_id)
    ELSE BatchOf(cb.batch_id) \cap Range(cb.completed_ids)

FreedBy(cbs) == UNION {FreedIds(cbs[k]) : k \in DOMAIN cbs}

Named(cbs) == {cbs[k].batch_id : k \in DOMAIN cbs}

\* Cache after the prune loop of Prefill: each named batch is popped, pruned
\* and put back unless nothing is left of it.
PrunedCache(cbs) ==
    LET kept == {cbs[k].batch_id : k \in {h \in DOMAIN cbs : Prune(cbs[h]) # {}}}
    IN  [b \in (DOMAIN cache \ Named(cbs)) \cup kept |->
            IF b \in kept
            THEN Prune(cbs[CHOOSE k \in DOMAIN cbs : cbs[k].batch_id = b])
            ELSE cache[b]]

InFlight(method) == call.method = method /\ reply.kind = "none"

\* room after producing outs tokens; the batch types count every decoded step
\* of a request, and never below zero space.
KeepsRoom(used) == room     \* mutant
RoomAfter(used) ==
    [i \in Ids |-> IF i \in DOMAIN used
                   THEN IF room[i] > used[i] THEN room[i] - used[i] ELSE 0
                   ELSE room[i]]

----------------------------------------------------------------------------
\* Prefill names a batch to prune that is not in the cache: ValueError.
PrefillNotFound ==
    /\ InFlight("prefill")
    /\ \E k \in DOMAIN call.cached : call.cached[k].batch_id \notin DOMAIN cache
    /\ reply' = Answer("error")
    /\ UNCHANGED <<call, shardVars>>

\* Prefill: prune, from_pb (which leaves out the requests whose prefix or
\* input fails), generate the first token, cache the batch.
Prefill(errs1, errs2, both) ==
    /\ InFlight("prefill")
    /\ Named(call.cached) \subseteq DOMAIN cache
    /\ errs1 # DOMAIN call.requests
    /\ request_errors + Cardinality(errs1) + Cardinality(errs2) <= MaxRequestErrors
    /\ request_errors' = request_errors + Cardinality(errs1) + Cardinality(errs2)
    /\ LET batch == DOMAIN call.requests \ errs1
           outs  == (batch \ errs2) \cup both
       IN  /\ cache' = [b \in DOMAIN PrunedCache(call.cached) \cup {call.batch_id} |->
                          IF b = call.batch_id THEN batch
                          ELSE PrunedCache(call.cached)[b]]
           /\ room' = [i \in Ids |-> IF i \in batch THEN call.requests[i] - 1 ELSE room[i]]
           /\ kv' = (kv \ FreedBy(call.cached)) \cup (IF Paged THEN batch ELSE {})
           /\ reply' = OkReply(call.batch_id, [i \in outs |-> 1], errs1, errs2)
    /\ UNCHANGED <<call, rpc_failures>>

\* The flash and paged models append a request's token before they collect the input
\* token details, so that at prefill a request may be reported both ways; the others
\* report each request once, which is the case of no such request.
PrefillRequest ==
    \E errs1 \in SUBSET DOMAIN call.requests :
        \E errs2 \in SUBSET (DOMAIN call.requests \ errs1) :
            \E both \in SUBSET errs2 : Prefill(errs1, errs2, both)

\* from_pb rejects every request: forward_time_ns is never assigned, so that
\* building the response raises UnboundLocalError after the pruning was done.
PrefillNoBatch ==
    /\ InFlight("prefill")
    /\ Named(call.cached) \subseteq DOMAIN cache
    /\ request_errors + Cardinality(DOMAIN call.requests) <= MaxRequestErrors
    /\ request_errors' = request_errors + Cardinality(DOMAIN call.requests)
    /\ cache' = PrunedCache(call.cached)
    /\ kv' = kv \ FreedBy(call.cached)
    /\ reply' = Answer("error")
    /\ UNCHANGED <<call, room, rpc_failures>>

----------------------------------------------------------------------------
\* Positions of the named batches that survive their pruning.
LiveBatches(cbs) == {k \in DOMAIN cbs : Prune(cbs[k]) # {}}

\* NextToken pops every named batch; one that is still wanted must be there.
\* The batches popped before the missing one are lost with it.
NextTokenNotFound ==
    /\ InFlight("next_token")
    /\ \E k \in DOMAIN call.cached :
          LET popped == {call.cached[h].batch_id : h \in 1 .. k} IN
          /\ ~call.cached[k].done
          /\ call.cached[k].batch_id \notin DOMAIN cache
          /\ \A h \in 1 .. k - 1 :
                ~call.cached[h].done => call.cached[h].batch_id \in DOMAIN cache
          /\ cache' = Restrict(cache, DOMAIN cache \ popped)
          /\ kv' = kv \ UNION {FreedIds(call.cached[h]) : h \in 1 .. k}
    /\ reply' = Answer("error")
    /\ UNCHANGED <<call, room, request_errors, rpc_failures>>

NothingMissing ==
    \A k \in DOMAIN call.cached :
        ~call.cached[k].done => call.cached[k].batch_id \in DOMAIN cache

\* Every named batch is finished: nothing to do but the clean-up.
NextTokenEmpty ==
    /\ InFlight("next_token")
    /\ NothingMissing
    /\ LiveBatches(call.cached) = {}
    /\ cache' = [b \in {} |-> {}]
    /\ kv' = kv \ FreedBy(call.cached)
    /\ reply' = Answer("empty")
    /\ UNCHANGED <<call, room, request_errors, rpc_failures>>

\* The remaining batches are concatenated under the id of the first, any other
\* cached batch is dropped (its paged sequences are not freed), and one step is
\* generated.  A paged request without room is skipped: it yields no output.
NextToken(errs, both, tokens) ==
    LET live   == LiveBatches(call.cached)
        first  == CHOOSE k \in live : \A h \in live : k <= h
        batch  == UNION {Prune(call.cached[k]) : k \in live}
        active == IF Paged THEN {i \in batch : room[i] > 0} ELSE batch
        outs   == (active \ errs) \cup both
    IN  /\ InFlight("next_token")
        /\ NothingMissing
        /\ live # {}
        /\ errs \subseteq active
        /\ DOMAIN tokens = active
        /\ \A i \in active : Paged => tokens[i] <= room[i]
        /\ request_errors + Cardinality(errs) <= MaxRequestErrors
        /\ request_errors' = request_errors + Cardinality(errs)
        /\ cache' = [b \in {call.cached[first].batch_id} |-> batch]
        /\ room' = RoomAfter(tokens)
        /\ kv' = kv \ FreedBy(call.cached)
        /\ reply' = OkReply(call.cached[first].batch_id, Restrict(tokens, outs), {}, errs)
        /\ UNCHANGED <<call, rpc_failures>>

NextTokenRequest ==
    LET batch == UNION {Prune(call.cached[k]) : k \in LiveBatches(call.cached)} IN
    \E D \in SUBSET batch :
        \E errs \in SUBSET D, tokens \in [D -> 1 .. MaxTokensPerStep] :
            \E both \in IF Paged /\ MaxTokensPerStep > 1 THEN SUBSET errs ELSE {{}} :
                NextToken(errs, both, tokens)

----------------------------------------------------------------------------
(* Failures of a call as a whole.                                           *)
FailCall == rpc_failures < MaxRpcFailures /\ rpc_failures' = rpc_failures + 1

\* The connection breaks before the handler starts.
CallLost ==
    /\ call.method # "none" /\ reply.kind = "none"
    /\ FailCall
    /\ reply' = Answer("error")
    /\ UNCHANGED <<call, cache, room, kv, request_errors>>

\* The handler finished, its response does not arrive.
ReplyLost ==
    /\ reply.kind \in {"ok", "empty"}
    /\ FailCall
    /\ reply' = Answer("error")
    /\ UNCHANGED <<call, cache, room, kv, request_errors>>

\* generate_token raises (out of memory, say) in Prefill: the pruning is done,
\* the new batch is not cached; the paged model may hold its sequences already.
PrefillRaises ==
    /\ InFlight("prefill")
    /\ Named(call.cached) \subseteq DOMAIN cache
    /\ FailCall
    /\ cache' = PrunedCache(call.cached)
    /\ kv' \in {kv \ FreedBy(call.cached),
                (kv \ FreedBy(call.cached)) \cup (IF Paged THEN DOMAIN call.requests ELSE {})}
    /\ reply' = Answer("error")
    /\ UNCHANGED <<call, room, request_errors>>

\* ... and in NextToken: every batch was popped, nothing is put back.
NextTokenRaises ==
    /\ InFlight("next_token")
    /\ NothingMissing
    /\ LiveBatches(call.cached) # {}
    /\ FailCall
    /\ cache' = [b \in {} |-> {}]
    /\ kv' = kv \ FreedBy(call.cached)
    /\ reply' = Answer("error")
    /\ UNCHANGED <<call, room, request_errors>>

----------------------------------------------------------------------------
ShardHandles ==
    \/ PrefillNotFound \/ PrefillRequest \/ PrefillNoBatch
    \/ NextTokenNotFound \/ NextTokenEmpty \/ NextTokenRequest

ShardFails == CallLost \/ ReplyLost \/ PrefillRaises \/ NextTokenRaises
=============================================================================
