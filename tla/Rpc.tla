-------------------------------- MODULE Rpc --------------------------------
(***************************************************************************)
(* The interface between the router and a shard: the one Prefill or        *)
(* NextToken call that can be in flight, and its reply.  A call is issued  *)
(* by TokenProcessor (router/src/batcher.rs), carried by                   *)
(* router/client/src/client.rs and answered by TextGenerationService       *)
(* (server/text_generation_server/server.py).                              *)
(*                                                                         *)
(* Request ids and batch ids are the u64 numbers the queue hands out.      *)
(***************************************************************************)
EXTENDS Integers, Sequences, FiniteSets

CONSTANTS
    Ids,        \* the request ids that may be handed out (a named bound)
    BatchIds,   \* the batch ids that may be handed out (a named bound)
    Paged       \* the model is a PagedCausalLM

\* Queue::new starts the request ids at 0 and the batch ids at 1.
ASSUME IdAssumption ==
    /\ Ids \subseteq Nat /\ IsFiniteSet(Ids)
    /\ BatchIds \subseteq Nat \ {0}
    /\ Paged \in BOOLEAN

VARIABLES
    call,       \* the call in flight
    reply       \* what the shard, or the broken connection, answered

rpcVars == <<call, reply>>

----------------------------------------------------------------------------
\* A CachedBatch names a batch kept by the shard.  done stands for a missing
\* status ("the whole batch has completed"), otherwise completed_ids lists the
\* requests that have completed since the last call.
CachedBatch == [batch_id : BatchIds \cup {0}, done : BOOLEAN, completed_ids : Seq(Ids)]

NoIds == [i \in {} |-> 1]

\* Prefill carries the new batch (its id and, for each of its requests, the
\* max_output_length) and the batches to prune first; NextToken carries only
\* cached batches.  start_id is not on the wire: the router remembers it while
\* it awaits the reply.
NoStartId == -1
CallsFor(D) ==
    [method   : {"none", "prefill", "next_token"},
     batch_id : BatchIds \cup {0},
     requests : [D -> Nat \ {0}],
     cached   : Seq(CachedBatch),
     start_id : Ids \cup {NoStartId}]

NoCall == [method |-> "none", batch_id |-> 0, requests |-> NoIds, cached |-> <<>>,
           start_id |-> NoStartId]

PrefillCall(b, reqs, to_prune, start) ==
    [method |-> "prefill", batch_id |-> b, requests |-> reqs, cached |-> to_prune,
     start_id |-> start]

NextTokenCall(batches) ==
    [method |-> "next_token", batch_id |-> 0, requests |-> NoIds, cached |-> batches,
     start_id |-> NoStartId]

\* A reply is "taken" while the router processes it.
\* outputs gives the number of tokens produced for each request (more than one
\* under speculation); input_errors were raised while the batch was built,
\* decode_errors while its tokens were decoded; they are reported in that order,
\* each in the order of the batch, which is that of the ids.  So are the outputs,
\* but for a paged model, which lists sampled requests before speculated ones.
RepliesFor(D) ==
    [kind          : {"none", "ok", "empty", "error", "taken"},
     batch_id      : BatchIds \cup {0},
     outputs       : [D -> Nat \ {0}],
     input_errors  : SUBSET Ids,
     decode_errors : SUBSET Ids]

Answer(kind) == [kind |-> kind, batch_id |-> 0, outputs |-> NoIds,
                 input_errors |-> {}, decode_errors |-> {}]

NoReply == Answer("none")

OkReply(b, outs, errs1, errs2) ==
    [kind |-> "ok", batch_id |-> b, outputs |-> outs,
     input_errors |-> errs1, decode_errors |-> errs2]

CallTypeOK == \E D \in SUBSET Ids : call \in CallsFor(D)

ReplyTypeOK == \E D \in SUBSET Ids : reply \in RepliesFor(D)

RpcTypeOK == CallTypeOK /\ ReplyTypeOK

RpcInit == call = NoCall /\ reply = NoReply
============================================================================
