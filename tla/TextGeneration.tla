--------------------------- MODULE TextGeneration ---------------------------
(***************************************************************************)
(* The serving core: clients, the router's batching task with its queue,   *)
(* and the shard, which interact through one RPC at a time.                *)
(***************************************************************************)
EXTENDS BatchingTask, ShardService

vars == <<routerVars, rpcVars, shardVars>>

\* The state of every component has its type.
TypeOK == RouterTypeOK /\ RpcTypeOK /\ ShardTypeOK

Init == RouterInit /\ RpcInit /\ ShardInit

ClientActs == ClientStep /\ UNCHANGED shardVars
TaskActs == TaskStep /\ UNCHANGED shardVars
QueueActs == QueueStep /\ UNCHANGED shardVars
ShardActs == (ShardHandles \/ ShardFails) /\ UNCHANGED routerVars

\* All requests were made and the router waits for more, or it has panicked,
\* which ends the process.
Quiescent ==
    /\ \/ pc = "panic"
       \/ /\ pc = "next_batch" /\ channel = {} /\ buffer = {}
          /\ \A r \in Requests : receiver[r] # "unsent"
    /\ UNCHANGED vars

Next == ClientActs \/ TaskActs \/ QueueActs \/ ShardActs \/ Quiescent

Spec == Init /\ [][Next]_vars

\* The batching task is one tokio task that is woken whenever it can run, the
\* shard answers every call it gets, and the queue servicer is polled whenever
\* the task waits for a call.  Clients and failures are not obliged to act.
Fairness ==
    /\ WF_vars(TaskActs)
    /\ WF_vars(ShardHandles /\ UNCHANGED routerVars)
    /\ SF_vars(QueueActs)

FairSpec == Spec /\ Fairness

----------------------------------------------------------------------------
(* Properties.                                                              *)

\* The router implements the service promised to its callers.
Service == INSTANCE RequestService WITH tokens <- generated

\* Whatever fails, the router is a RequestService: one terminating response per
\* request, no token after it, a normal response only within the token limits
\* (send_final, check_stopping_criteria, send_errors, service_queue).
ImplementsService == Service!Spec

\* Every request whose client still listens is eventually answered (the callers
\* of infer await the response without a timeout of their own).
EveryRequestAnswered == Service!EveryRequestAnswered

Waiting(r) == receiver[r] = "open" /\ answer[r] = "none"

\* "The background task will never drop the sender" (infer unwraps the received
\* result): while a client waits, the entry with the sending half of its channel
\* is in exactly one of the channel, the buffer and the entries, and there once.
SenderHeld ==
    /\ \A r \in Requests : Waiting(r) => r \in channel \cup buffer \cup Range(entries)
    /\ channel \cap buffer = {}
    /\ (channel \cup buffer) \cap Range(entries) = {}
    /\ IsInjective(entries)

\* The requests that the shard will go on with when it gets batches.
LiveOnShard == UNION {Prune(batches[k]) : k \in DOMAIN batches}

\* Whenever the router is about to ask for the next tokens, the shard still has
\* every request in progress and will not prune it: no entry waits for tokens
\* that never come.
EntriesOnShard == pc = "decode" => DOMAIN entries \subseteq LiveOnShard

\* ... and conversely the shard generates for no request the router has dropped,
\* because every completed id reaches it through one call or the other.
NoStrayRequests == pc = "decode" => LiveOnShard \subseteq DOMAIN entries

\* ... which a failed prefill alone can undo.
NoStraysWhileCallsSucceed == rpc_failures = 0 => NoStrayRequests

\* The shard's space for a request's tokens is exactly what the router will still
\* let it generate, after any sequence of prefills, steps and failed calls.
RoomAgrees ==
    pc \in {"loop", "decode"} =>
        \A i \in DOMAIN entries :
            room[i] = Params[entries[i]].max_new - generated[entries[i]]

\* A failed prefill fails exactly the requests of its batch: ids from start_id
\* on are the add-on batch, and without start_id the batch is all there is.
PrefillFailureIsolated ==
    [][ pc = "rpc" /\ call.method = "prefill" /\ reply.kind = "error" /\ pc' # "rpc"
        => DOMAIN entries' = DOMAIN entries \ DOMAIN call.requests ]_vars

\* get_indices_to_keep relies on ascending ids: in the batches that are going to
\* be concatenated, and in the list of the completed ones.
AscendingIds ==
    pc = "decode" =>
        \A k \in DOMAIN batches :
            /\ \A h \in 1 .. k - 1 : \A i \in BatchOf(batches[h].batch_id),
                                        j \in BatchOf(batches[k].batch_id) : i < j
            /\ \A m \in DOMAIN batches[k].completed_ids : \A h \in 1 .. m - 1 :
                    batches[k].completed_ids[h] < batches[k].completed_ids[m]

\* The u32 count of remaining tokens is never decremented below zero, unless
\* requests have strayed after a failed prefill.
NoTokenUnderflow ==
    rpc_failures = 0 /\ pc = "loop" => batch_max_remaining_tokens # 0

\* Between calls the paged KV cache holds sequences for exactly the requests of
\* the cached batches: none is freed while its batch lives, and none is leaked until
\* a call fails or the shard reports a failed request (after which a batch can be
\* dropped that the router takes to be there, see NoneMeansAllCompleted).
KvMatchesCache ==
    Paged /\ pc \in {"next_batch", "loop", "decode"} =>
        /\ UNION Range(cache) \subseteq kv
        /\ rpc_failures = 0 /\ request_errors = 0 => kv = UNION Range(cache)

\* The batching task never panics ("ID not found. This is a bug.").
NoPanic == pc # "panic"

\* "Return None if all requests in this batch have completed": a missing status
\* means that no request of the batch is in progress.
NoneMeansAllCompleted ==
    pc = "loop" /\ cached_batch.done =>
        BatchOf(cached_batch.batch_id) \cap DOMAIN entries = {}
=============================================================================
