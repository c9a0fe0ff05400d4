---------------------------- MODULE BatchingTask ----------------------------
(***************************************************************************)
(* The router's batching loop (router/src/batcher.rs) with the part of the *)
(* request queue it drives (router/src/queue.rs) and the clients' response *)
(* channels.                                                               *)
(*                                                                         *)
(* Requests are numbered in the order they enter the queue's channel, so   *)
(* the channel and the staging buffer are sets ordered by that number.     *)
(* Which waiting requests try_next_batch picks depends on their weights,   *)
(* which this module leaves out: it may pick any, in queue order, within   *)
(* the size limit.                                                         *)
(***************************************************************************)
EXTENDS Rpc, Functions, FiniteSetsExt

CONSTANTS
    Requests,           \* the clients' requests, numbered in arrival order
    Params,             \* parameters of each request
    QueueCapacity,      \* capacity of the mpsc channel
    SizeLimit,          \* BatchingConfig::size_limit
    MaxWaitingTokens,   \* max_waiting_tokens
    CancelCheckEvery,   \* a unary receiver is looked at every so many tokens (16)
    MaxU32              \* largest value of the u32 token counts

ParamsType == [stream    : BOOLEAN,        \* streaming or unary
               min_new   : Nat,            \* min_new_tokens
               max_new   : Nat \ {0},      \* max_new_tokens
               stop_seqs : BOOLEAN,        \* stop sequences given
               deadline  : BOOLEAN]        \* time limit given

ASSUME RequestAssumption ==
    /\ Requests \subseteq Nat
    /\ Params \in [Requests -> ParamsType]
    /\ \A r \in Requests : Params[r].min_new <= Params[r].max_new    \* validate

ASSUME ConfigAssumption ==
    /\ QueueCapacity \in Nat \ {0}
    /\ SizeLimit \in Nat \ {0}
    /\ MaxWaitingTokens \in Nat \ {0}
    /\ CancelCheckEvery \in Nat \ {0}
    /\ MaxU32 \in Nat \ {0}

VARIABLES
    \* clients
    receiver,       \* the receiving half of a request's response channel
    answer,         \* the terminating response a client has been sent
    expired,        \* requests whose deadline has passed
    \* Queue
    channel,        \* entries in the shared mpsc channel
    buffer,         \* staging buffer
    next_id, next_batch_id,
    serviced,       \* service_queue has pruned the buffer during this call
    \* TokenProcessor
    entries,        \* id -> request, for all requests being generated
    generated,      \* generated_tokens of each request
    generation_health,
    \* process_next_tokens
    outputs, input_errors, decode_errors,   \* what is still to be processed
    processed,      \* outputs seen so far (request_count in the end)
    completed_ids,
    \* batching_task
    pc,
    cached_batch, batches, waiting_tokens,
    batch_max_remaining_tokens,
    prefill_delayed \* next_prefill_after is Some(_)

clientVars  == <<receiver, answer, expired>>
queueVars   == <<channel, buffer, next_id, next_batch_id>>
processVars == <<outputs, input_errors, decode_errors, processed, completed_ids>>
loopVars    == <<cached_batch, batches, waiting_tokens, batch_max_remaining_tokens,
                 prefill_delayed>>
routerVars  == <<clientVars, queueVars, serviced, entries, generated, generation_health,
                 processVars, pc, loopVars>>

NotCounted == -1        \* batch_max_remaining_tokens = None
NoBatch == [batch_id |-> 0, done |-> FALSE, completed_ids |-> <<>>]

ClientTypeOK ==
    /\ receiver \in [Requests -> {"unsent", "open", "closed"}]
    /\ answer \in [Requests -> {"none", "ok", "error", "timeout", "rejected"}]
    /\ expired \in SUBSET Requests

QueueTypeOK ==
    /\ channel \in SUBSET Requests
    /\ buffer \in SUBSET Requests
    /\ next_id \in Nat /\ next_batch_id \in Nat
    /\ serviced \in BOOLEAN

EntriesTypeOK ==
    /\ \E D \in SUBSET Ids : entries \in [D -> Requests]
    /\ generated \in [Requests -> Nat]
    /\ generation_health \in BOOLEAN

ProcessTypeOK ==
    /\ \E D \in SUBSET Ids : outputs \in [D -> Nat \ {0}]
    /\ input_errors \in SUBSET Ids /\ decode_errors \in SUBSET Ids
    /\ processed \in Nat
    /\ completed_ids \in Seq(Ids)

LoopTypeOK ==
    /\ pc \in {"next_batch", "rpc", "process", "loop", "decode", "panic"}
    /\ cached_batch \in CachedBatch
    /\ batches \in Seq(CachedBatch)
    /\ waiting_tokens \in 1 .. MaxWaitingTokens
    /\ prefill_delayed \in BOOLEAN

RouterTypeOK ==
    ClientTypeOK /\ QueueTypeOK /\ EntriesTypeOK /\ ProcessTypeOK /\ LoopTypeOK

RouterInit ==
    /\ receiver = [r \in Requests |-> "unsent"]
    /\ answer = [r \in Requests |-> "none"]
    /\ expired = {}
    /\ channel = {} /\ buffer = {}
    /\ next_id = 0 /\ next_batch_id = 1
    /\ serviced = FALSE
    /\ entries = [i \in {} |-> 0]
    /\ generated = [r \in Requests |-> 0]
    /\ generation_health = FALSE
    /\ outputs = NoIds /\ input_errors = {} /\ decode_errors = {}
    /\ processed = 0 /\ completed_ids = <<>>
    /\ pc = "next_batch"
    /\ cached_batch = NoBatch /\ batches = <<>>
    /\ waiting_tokens = 1 /\ batch_max_remaining_tokens = NotCounted
    /\ prefill_delayed = FALSE

----------------------------------------------------------------------------
(* Clients.                                                                 *)

Arrives(r) == receiver[r] = "unsent" /\ \A q \in Requests : q < r => receiver[q] # "unsent"

\* infer, infer_stream: enqueue_request with room in the channel.
Enqueue(r) ==
    /\ pc # "panic"
    /\ Arrives(r)
    /\ Cardinality(channel) < QueueCapacity
    /\ receiver' = [receiver EXCEPT ![r] = "open"]
    /\ channel' = channel \cup {r}
    /\ UNCHANGED <<answer, expired, buffer, next_id, next_batch_id, serviced, entries,
                   generated, generation_health, processVars, pc, loopVars, rpcVars>>

\* ... and with a full one: the caller gets RequestQueueFull.
Reject(r) ==
    /\ pc # "panic"
    /\ Arrives(r)
    /\ Cardinality(channel) >= QueueCapacity
    /\ receiver' = [receiver EXCEPT ![r] = "closed"]
    /\ answer' = [answer EXCEPT ![r] = "rejected"]
    /\ UNCHANGED <<expired, queueVars, serviced, entries, generated, generation_health,
                   processVars, pc, loopVars, rpcVars>>

\* The client goes away: the receiver is dropped, which nobody is told.
Cancel(r) ==
    /\ receiver[r] = "open" /\ answer[r] = "none"
    /\ receiver' = [receiver EXCEPT ![r] = "closed"]
    /\ UNCHANGED <<answer, expired, queueVars, serviced, entries, generated,
                   generation_health, processVars, pc, loopVars, rpcVars>>

\* Time passes the request's deadline.
Expire(r) ==
    /\ Params[r].deadline /\ r \notin expired
    /\ receiver[r] # "unsent" /\ answer[r] = "none"
    /\ expired' = expired \cup {r}
    /\ UNCHANGED <<receiver, answer, queueVars, serviced, entries, generated,
                   generation_health, processVars, pc, loopVars, rpcVars>>

\* Entry::send_final to each of rs: a closed receiver never sees it.
SendFinal(rs, result) ==
    answer' = [r \in Requests |-> IF r \in rs /\ receiver[r] = "open" THEN result
                                                                     ELSE answer[r]]

----------------------------------------------------------------------------
(* The queue.                                                               *)

\* next_batch waits for the channel while the buffer is empty, then drains it.
FillBuffer ==
    /\ pc = "next_batch"
    /\ buffer = {} /\ channel # {}
    /\ buffer' = channel
    /\ channel' = {}
    /\ UNCHANGED <<clientVars, next_id, next_batch_id, serviced, entries, generated,
                   generation_health, processVars, pc, loopVars, rpcVars>>

\* service_queue, polled while a call is awaited, first drops the cancelled
\* entries from the buffer and answers the expired ones ...
DropsExpired ==     \* mutant: no response for an expired entry
    /\ pc = "rpc" /\ ~serviced
    /\ buffer' = {r \in buffer : receiver[r] = "open" /\ r \notin expired}
    /\ serviced' = TRUE
    /\ UNCHANGED <<clientVars, channel, next_id, next_batch_id, entries, generated,
                   generation_health, processVars, pc, loopVars, rpcVars>>
PruneBuffer ==
    /\ pc = "rpc" /\ ~serviced
    /\ LET cancelled == {r \in buffer : receiver[r] = "closed"}
           late      == (buffer \ cancelled) \cap expired
       IN  /\ buffer' = buffer \ (cancelled \cup late)
           /\ SendFinal(late, "timeout")
    /\ serviced' = TRUE
    /\ UNCHANGED <<receiver, expired, channel, next_id, next_batch_id, entries, generated,
                   generation_health, processVars, pc, loopVars, rpcVars>>

\* ... and then moves what arrives on the channel into it.
ServiceQueue ==
    /\ pc = "rpc" /\ serviced
    /\ \E r \in channel :
          /\ \A q \in channel : r <= q
          /\ channel' = channel \ {r}
          /\ buffer' = buffer \cup {r}
    /\ UNCHANGED <<clientVars, next_id, next_batch_id, serviced, entries, generated,
                   generation_health, processVars, pc, loopVars, rpcVars>>

\* The early returns of try_next_batch.
CanTake(min_size) ==
    /\ Cardinality(buffer) >= min_size
    /\ Cardinality(DOMAIN entries) + min_size <= SizeLimit

\* A choice of try_next_batch: the waiting requests new[next_id], new[next_id+1],
\* ..., which are taken in queue order and given these ids.
Choice(new) == \A i, j \in DOMAIN new : i < j => new[i] < new[j]

NewIds(n) == next_id .. next_id + n - 1

\* try_next_batch returns the batch new of n requests; they enter the entries.
TakeBatch(n, new, to_prune, start_id) ==
    /\ Choice(new)
    /\ Cardinality(DOMAIN entries) + n <= SizeLimit
    /\ next_batch_id \in BatchIds
    /\ buffer' = buffer \ Range(new)
    /\ next_id' = next_id + n
    /\ next_batch_id' = next_batch_id + 1
    /\ entries' = [i \in DOMAIN entries \cup NewIds(n) |->
                      IF i \in NewIds(n) THEN new[i] ELSE entries[i]]
    /\ call' = PrefillCall(next_batch_id,
                           [i \in NewIds(n) |-> Params[new[i]].max_new],
                           to_prune, start_id)
    /\ serviced' = FALSE
    /\ pc' = "rpc"

----------------------------------------------------------------------------
(* batching_task.                                                           *)

\* The outer loop: next_batch yields a batch, which is sent to the shard.
NextBatch ==
    /\ pc = "next_batch"
    /\ CanTake(1)
    /\ \E n \in 1 .. SizeLimit :
          /\ NewIds(n) \subseteq Ids
          /\ \E new \in [NewIds(n) -> buffer] : TakeBatch(n, new, <<>>, NoStartId)
    /\ UNCHANGED <<clientVars, channel, generated, generation_health, processVars,
                   loopVars, reply>>

\* max_remaining_tokens sums over the entries, with u32 arithmetic.
MaxRemainingTokens ==
    MapThenSumSet(LAMBDA i : Params[entries[i]].max_new - generated[entries[i]],
                  DOMAIN entries)

\* batch_max_remaining_tokens as the loop body recomputes or decrements it.
RemainingTokens ==
    IF batch_max_remaining_tokens = NotCounted THEN MaxRemainingTokens
    ELSE IF batch_max_remaining_tokens = 0 THEN MaxU32
    ELSE batch_max_remaining_tokens - 1

\* Minimum number of requests worth an add-on prefill.
MinSize ==
    LET batch_size == Cardinality(DOMAIN entries)
        share == (batch_size * (MaxWaitingTokens - waiting_tokens)) \div MaxWaitingTokens
    IN  IF batch_size <= 1 \/ waiting_tokens >= MaxWaitingTokens \/ share < 1
        THEN 1 ELSE share

\* What an add-on prefill has the shard prune: the existing batch, unless
\* nothing of it has completed.
NeverPrunes == <<>>     \* mutant
ToPrune ==
    IF ~cached_batch.done /\ cached_batch.completed_ids = <<>> THEN <<>>
    ELSE <<cached_batch>>

\* The body of the inner loop takes an add-on batch.
ExtendBatch ==
    /\ pc = "loop"
    /\ RemainingTokens >= 2
    /\ CanTake(MinSize)
    /\ \E n \in 1 .. SizeLimit :
          /\ NewIds(n) \subseteq Ids
          /\ \E new \in [NewIds(n) -> buffer] : TakeBatch(n, new, ToPrune, next_id)
    /\ batch_max_remaining_tokens' = RemainingTokens
    /\ UNCHANGED <<clientVars, channel, generated, generation_health, processVars,
                   cached_batch, batches, waiting_tokens, prefill_delayed, reply>>

\* ... or goes on without one: the batch is about to complete, it is too early
\* for another prefill, or try_next_batch found nothing that fits.  With no
\* entry in progress the first waiting request always fits (validate_batch_config).
KeepBatch ==
    /\ pc = "loop"
    /\ \/ /\ RemainingTokens < 2 \/ prefill_delayed
          /\ UNCHANGED prefill_delayed
       \/ /\ RemainingTokens >= 2
          /\ ~CanTake(MinSize) \/ DOMAIN entries # {}
          /\ prefill_delayed' = FALSE
    /\ batch_max_remaining_tokens' = RemainingTokens
    /\ batches' = <<cached_batch>>
    /\ pc' = "decode"
    /\ UNCHANGED <<clientVars, queueVars, serviced, entries, generated, generation_health,
                   processVars, cached_batch, waiting_tokens, rpcVars>>

\* next_token: the call for one more token of every request.
SendNextToken ==
    /\ pc = "decode"
    /\ call' = NextTokenCall(batches)
    /\ serviced' = FALSE
    /\ pc' = "rpc"
    /\ UNCHANGED <<clientVars, queueVars, entries, generated, generation_health,
                   processVars, loopVars, reply>>
----------------------------------------------------------------------------
(* What follows the await of a call, given the CachedBatch it produced      *)
(* (NoBatch for None).                                                      *)

LeaveLoop ==
    /\ pc' = "next_batch"
    /\ cached_batch' = NoBatch /\ batches' = <<>>
    /\ waiting_tokens' = 1 /\ batch_max_remaining_tokens' = NotCounted
    /\ prefill_delayed' = FALSE

EnterLoop(result) ==
    /\ pc' = "loop"
    /\ cached_batch' = result /\ batches' = <<>>

ResumeFirstPrefill(result) ==
    /\ call.method = "prefill" /\ call.start_id = NoStartId
    /\ \/ result = NoBatch /\ LeaveLoop
       \/ /\ result # NoBatch
          /\ EnterLoop(result)
          /\ waiting_tokens' = 1 /\ batch_max_remaining_tokens' = NotCounted
          /\ prefill_delayed' = FALSE

\* After an add-on prefill the existing batch is taken to be pruned, whatever the
\* outcome of the call, and the new batch is put after it.
PrunedBatches ==
    IF cached_batch.done THEN <<>> ELSE <<[cached_batch EXCEPT !.completed_ids = <<>>]>>

PutsNewFirst(kept, new) == <<new>> \o kept     \* mutant
ExtendedBy(kept, new) == Append(kept, new)

ResumeExtend(result) ==
    LET all == IF result = NoBatch THEN PrunedBatches ELSE ExtendedBy(PrunedBatches, result)
    IN  /\ call.method = "prefill" /\ call.start_id # NoStartId
        /\ \/ all = <<>> /\ LeaveLoop
           \/ /\ all # <<>>
              /\ pc' = "decode"
              /\ batches' = all
              /\ waiting_tokens' = 1 /\ batch_max_remaining_tokens' = NotCounted
              /\ prefill_delayed' = TRUE
              /\ UNCHANGED cached_batch

ResumeNextToken(result) ==
    /\ call.method = "next_token"
    /\ \/ result = NoBatch /\ LeaveLoop
       \/ /\ result # NoBatch
          /\ EnterLoop(result)
          /\ waiting_tokens' = IF waiting_tokens < MaxWaitingTokens
                               THEN waiting_tokens + 1 ELSE MaxWaitingTokens
          /\ batch_max_remaining_tokens' =
                IF result.done \/ result.completed_ids # <<>> THEN NotCounted
                ELSE batch_max_remaining_tokens
          /\ UNCHANGED prefill_delayed

Resume(result) ==
    /\ ResumeFirstPrefill(result) \/ ResumeExtend(result) \/ ResumeNextToken(result)
    /\ call' = NoCall
    /\ reply' = NoReply

----------------------------------------------------------------------------
(* _wrap_future, process_next_tokens.                                       *)

\* Ok(None): only batch cleanup was performed.
ReceiveEmpty ==
    /\ pc = "rpc" /\ reply.kind = "empty"
    /\ Resume(NoBatch)
    /\ UNCHANGED <<clientVars, queueVars, serviced, entries, generated, generation_health,
                   processVars>>

\* Err: send_errors fails every entry, or those of the add-on batch, which are
\* the ones with ids from start_id on.
FailsAll(start_id) == DOMAIN entries    \* mutant
FailsNone(start_id) == {}               \* mutant
FailedIds(start_id) == {i \in DOMAIN entries : start_id = NoStartId \/ i >= start_id}

ReceiveError ==
    /\ pc = "rpc" /\ reply.kind = "error"
    /\ SendFinal({entries[i] : i \in FailedIds(call.start_id)}, "error")
    /\ entries' = Restrict(entries, DOMAIN entries \ FailedIds(call.start_id))
    /\ generation_health' = FALSE
    /\ Resume(NoBatch)
    /\ UNCHANGED <<receiver, expired, queueVars, serviced, generated, processVars>>

\* Ok(Some): process_input_tokens asserts that a prefilled request is known and
\* has no token yet; then the outputs and errors are processed one by one.
ReceiveTokens ==
    /\ pc = "rpc" /\ reply.kind = "ok"
    /\ pc' = IF call.method = "prefill" /\ \E i \in DOMAIN reply.outputs :
                    i \notin DOMAIN entries \/ generated[entries[i]] # 0
             THEN "panic" ELSE "process"
    /\ outputs' = reply.outputs
    /\ input_errors' = reply.input_errors
    /\ decode_errors' = reply.decode_errors
    /\ processed' = 0 /\ completed_ids' = <<>>
    /\ reply' = [reply EXCEPT !.kind = "taken"]
    /\ UNCHANGED <<clientVars, queueVars, serviced, entries, generated, generation_health,
                   loopVars, call>>

\* The output that comes next, in the order of the reply.
NextOutput(i) == i \in DOMAIN outputs /\ (Paged \/ \A j \in DOMAIN outputs : i <= j)

KeepsConsumed(i) ==     \* mutant: a request stays listed without tokens
    /\ outputs' = [outputs EXCEPT ![i] = @ - 1]
    /\ processed' = processed + 1
ConsumeOutput(i) ==
    /\ outputs' = IF outputs[i] > 1 THEN [outputs EXCEPT ![i] = @ - 1]
                  ELSE Restrict(outputs, DOMAIN outputs \ {i})
    /\ processed' = processed + 1

RemoveEntry(i) ==
    /\ entries' = Restrict(entries, DOMAIN entries \ {i})
    /\ completed_ids' = Append(completed_ids, i)

\* A token of a request that is not, or no longer, known is ignored.
IgnoreOutput ==
    /\ pc = "process"
    /\ \E i \in DOMAIN outputs \ DOMAIN entries : NextOutput(i) /\ ConsumeOutput(i)
    /\ UNCHANGED <<clientVars, queueVars, serviced, entries, generated, generation_health,
                   input_errors, decode_errors, completed_ids, pc, loopVars, rpcVars>>

\* check_stopping_criteria for request r with g tokens, of which the last may
\* or may not be the EOS token or complete a stop sequence.
IgnoresMinimum(r, g) == TRUE        \* mutant
MayFinish(r, g) == r \in expired \/ g >= Params[r].min_new

MayContinue(r, g) ==
    /\ r \notin expired
    /\ g < Params[r].min_new \/ g < Params[r].max_new

\* The receiver was seen closed while request r went on with g tokens.
SeenCancelled(r, g) ==
    receiver[r] = "closed" /\ (Params[r].stream \/ g % CancelCheckEvery = 0)

ProcessOutput(i, result) ==
    /\ pc = "process"
    /\ NextOutput(i) /\ i \in DOMAIN entries
    /\ ConsumeOutput(i)
    /\ generated' = [generated EXCEPT ![entries[i]] = @ + 1]
    /\ SendFinal(IF result = "none" THEN {} ELSE {entries[i]}, result)
    /\ UNCHANGED <<receiver, expired, queueVars, serviced, generation_health,
                   input_errors, decode_errors, pc, loopVars, rpcVars>>

\* A stopping criterion is met: the final response is sent.
Finish ==
    \E i \in DOMAIN entries :
        /\ ProcessOutput(i, "ok")
        /\ MayFinish(entries[i], generated[entries[i]] + 1)
        /\ RemoveEntry(i)

\* The incremental decoder (used with stop sequences) fails on the token.
DecodeFails ==
    \E i \in DOMAIN entries :
        /\ ProcessOutput(i, "error")
        /\ Params[entries[i]].stop_seqs
        /\ RemoveEntry(i)

\* Generation goes on, unless the client is seen to have gone.
Continue ==
    \E i \in DOMAIN entries :
        /\ ProcessOutput(i, "none")
        /\ MayContinue(entries[i], generated[entries[i]] + 1)
        /\ IF SeenCancelled(entries[i], generated[entries[i]] + 1) THEN RemoveEntry(i)
           ELSE UNCHANGED <<entries, completed_ids>>

\* The errors follow, one by one; an unknown id is a panic, which ends the
\* process (Batcher::new).
NextError(i) ==
    LET errs == IF input_errors # {} THEN input_errors ELSE decode_errors
    IN  i \in errs /\ \A j \in errs : i <= j

ProcessError ==
    /\ pc = "process"
    /\ DOMAIN outputs = {}
    /\ \E i \in input_errors \cup decode_errors :
          /\ NextError(i)
          /\ input_errors' = input_errors \ {i}
          /\ decode_errors' = decode_errors \ {i}
          /\ \/ /\ i \in DOMAIN entries
                /\ SendFinal({entries[i]}, "error")
                /\ RemoveEntry(i)
                /\ UNCHANGED pc
             \/ /\ i \notin DOMAIN entries
                /\ pc' = "panic"
                /\ UNCHANGED <<answer, entries, completed_ids>>
    /\ UNCHANGED <<receiver, expired, queueVars, serviced, generated, generation_health,
                   outputs, processed, loopVars, rpcVars>>

\* All are processed: the status is None if as many requests have completed as
\* there were outputs, otherwise the list of completed ids.
AnyCompletedIsAll ==    \* mutant
    [batch_id      |-> reply.batch_id,
     done          |-> completed_ids # <<>>,
     completed_ids |-> <<>>]
ProcessedBatch ==
    [batch_id      |-> reply.batch_id,
     done          |-> Len(completed_ids) = processed,
     completed_ids |-> IF Len(completed_ids) = processed THEN <<>> ELSE completed_ids]

FinishStep ==
    /\ pc = "process"
    /\ DOMAIN outputs = {} /\ input_errors \cup decode_errors = {}
    /\ generation_health' = TRUE
    /\ Resume(ProcessedBatch)
    /\ processed' = 0 /\ completed_ids' = <<>>
    /\ UNCHANGED <<clientVars, queueVars, serviced, entries, generated, outputs,
                   input_errors, decode_errors>>

----------------------------------------------------------------------------
ClientStep == \E r \in Requests : Enqueue(r) \/ Reject(r) \/ Cancel(r) \/ Expire(r)

\* What the batching task does, but for servicing the queue while it awaits.
TaskStep ==
    \/ FillBuffer \/ NextBatch \/ ExtendBatch \/ KeepBatch \/ SendNextToken
    \/ ReceiveEmpty \/ ReceiveError \/ ReceiveTokens
    \/ IgnoreOutput \/ Finish \/ DecodeFails \/ Continue \/ ProcessError \/ FinishStep

QueueStep == PruneBuffer \/ ServiceQueue
=============================================================================
