---------------------------- MODULE ModelBatches ----------------------------
(***************************************************************************)
(* What the calls of the router do to the tensors of a shard's batches:    *)
(* Prefill and NextToken (server.py) over the batch type of the model.     *)
(* The failures of calls and the lists of ids are the subject of           *)
(* ShardService; here calls succeed and the router reports exactly the     *)
(* completed requests.                                                     *)
(***************************************************************************)
EXTENDS TensorSlices, TokenChoosers, FiniteSets, Functions

CONSTANTS
    PT2_COMPILE,    \* whether sequence-to-sequence models are compiled
    Speculator, SPECULATOR_MAX_BATCH_SIZE, CandidateCount, NPredict, TotalBlocks,
    Shapes,         \* bound: the lengths a request may have
    NumRequests     \* bound: requests of a behaviour

ASSUME ShapesAssumption ==
    /\ PadMultiple \in Nat \ {0} /\ NumRequests \in Nat
    /\ \A s \in Shapes :
          /\ s.text \in Nat /\ s.input \in 1 .. s.text /\ s.output \in Nat \ {0}
          /\ s.prefix \in Nat /\ s.decoder_prefix \in Nat
          /\ s.parameters.min_new_tokens \in Nat
          \* The router sends sampling parameters only with a temperature (grpc_server.rs).
          /\ s.parameters.temperature = 0 =>
                /\ s.parameters.top_k = 0
                /\ Disabled(s.parameters.top_p) = 100 /\ Disabled(s.parameters.typical_p) = 100

VARIABLES
    kind,           \* the batch type of the shard's model
    arrived,        \* requests given to the shard so far
    cache,          \* the cached batches, oldest first
    kv,             \* the paged KV cache manager
    shifted         \* whether from_pb has taken a position in pb for another row

vars == <<kind, arrived, cache, kv, shifted>>

Causal  == INSTANCE CausalLMBatch
Seq2Seq == INSTANCE Seq2SeqLMBatch
Flash   == INSTANCE FlashCausalLMBatch
Paged   == INSTANCE PagedCausalLMBatch

\* batch_type's operations; the paged one cannot fail in from_pb.
from_pb(pb, failed) ==
    CASE kind = "causal"  -> Causal!from_pb(pb, failed)
      [] kind = "seq2seq" -> Seq2Seq!from_pb(pb, failed)
      [] kind = "flash"   -> Flash!from_pb(pb, failed)
      [] kind = "paged"   -> [raises |-> FALSE, batch |-> Paged!from_pb(pb)]
concatenate(b1, b2) ==
    CASE kind = "causal"  -> Causal!concatenate(b1, b2)
      [] kind = "seq2seq" -> Seq2Seq!concatenate(b1, b2)
      [] kind = "flash"   -> Flash!concatenate(b1, b2)
      [] kind = "paged"   -> Paged!concatenate(b1, b2)
prune(b, completed_ids) ==
    CASE kind = "causal"  -> Causal!prune(b, completed_ids)
      [] kind = "seq2seq" -> Seq2Seq!prune(b, completed_ids)
      [] kind = "flash"   -> Flash!prune(b, completed_ids)
      [] kind = "paged"   -> Paged!prune(b, completed_ids)
Generated(row) ==
    CASE kind = "causal"  -> Causal!Generated(row)
      [] kind = "seq2seq" -> Seq2Seq!Generated(row)
      [] kind = "flash"   -> Flash!Generated(row)
      [] kind = "paged"   -> Paged!Generated(row)

\* The possible results, with the state of the cache manager.
generate_token(b, kv0, first, for_concat) ==
    LET Only(batch) == {[batch |-> batch, kv |-> kv0]} IN
    CASE kind = "causal"  -> Only(Causal!generate_token(b, first, for_concat))
      [] kind = "seq2seq" -> Only(Seq2Seq!generate_token(b, first, for_concat))
      [] kind = "flash"   -> Only(Flash!generate_token(b, first, for_concat))
      [] kind = "paged"   -> Paged!generate_token(b, kv0, first)

Freed(kv0, b, completed_ids) ==
    IF kind = "paged" THEN Paged!free_paged_sequences(kv0, b, completed_ids) ELSE kv0

RequestsOf(b) == {b.rows[k].request.id : k \in DOMAIN b.rows}
AtLimit(row) == Generated(row) = row.request.output
AllAtLimit(b) == \A k \in DOMAIN b.rows : AtLimit(b.rows[k])

Init ==
    /\ kind \in {"causal", "seq2seq", "flash", "paged"}
    /\ arrived = 0 /\ cache = <<>> /\ kv = <<>> /\ shifted = FALSE

\* The requests the router found completed in b after its last token: all at
\* their limit, any at an end-of-sequence token or a cancellation.
Completions(b) ==
    {done \in SUBSET RequestsOf(b) :
        \A k \in DOMAIN b.rows : AtLimit(b.rows[k]) => b.rows[k].request.id \in done}

\* prune, or drop the batch if all of it has completed.
Remaining(b, done) == IF RequestsOf(b) \subseteq done THEN <<>> ELSE <<prune(b, done)>>

\* The paged batch type does not use prefixes.
NewRequests(shapes) ==
    [k \in DOMAIN shapes |->
        [id |-> arrived + k, text |-> shapes[k].text, input |-> shapes[k].input,
         prefix |-> IF kind = "paged" THEN 0 ELSE shapes[k].prefix,
         decoder_prefix |-> shapes[k].decoder_prefix,
         output |-> shapes[k].output, parameters |-> shapes[k].parameters]]

\* A request that CausalLMBatch treats by its position follows one that it leaves out.
Shifts(pb, failed) ==
  /\ kind = "causal"
  /\ \E j, k \in DOMAIN pb :
        /\ j < k /\ pb[j] \in failed /\ pb[k] \notin failed
        /\ Truncated(pb[k]) \/ pb[k].prefix > 0

\* Prefill of n requests, for some of which the prefix may be missing; the batch in
\* progress, if any, is pruned first.
Prefill ==
    \E n \in 1 .. NumRequests - arrived, done \in SUBSET (1 .. arrived) :
    \E shapes \in [1 .. n -> Shapes] :
        LET pb    == NewRequests(shapes)
            kept  == IF cache = <<>> THEN <<>> ELSE Remaining(cache[1], done)
            freed == IF cache = <<>> THEN kv ELSE Freed(kv, cache[1], done)
        IN  /\ Len(cache) < 2
            /\ IF cache = <<>> THEN done = {} ELSE done \in Completions(cache[1])
            /\ arrived' = arrived + n /\ UNCHANGED kind
            /\ \E failed \in SUBSET {pb[k] : k \in {j \in 1 .. n : pb[j].prefix > 0}} :
                  LET built == from_pb(pb, failed) IN
                  /\ failed # Range(pb)
                  /\ shifted' = (shifted \/ Shifts(pb, failed))
                  /\ IF built.raises THEN cache' = kept /\ kv' = freed
                     ELSE \E result \in generate_token(built.batch, freed, TRUE, kept # <<>>) :
                            cache' = Append(kept, result.batch) /\ kv' = result.kv

\* NextToken: prune the one or two batches, concatenate what is left, and generate.  A
\* batch that another was added to has been pruned then and not grown since.
NextToken ==
    /\ cache # <<>>
    /\ \E done \in [DOMAIN cache -> SUBSET (1 .. arrived)] :
          LET one   == Len(cache) = 1
              left1 == Remaining(cache[1], done[1])
              freed1 == Freed(kv, cache[1], done[1])
              left  == IF one THEN left1 ELSE left1 \o Remaining(cache[2], done[2])
              freed == IF one THEN freed1 ELSE Freed(freed1, cache[2], done[2])
              batch == IF Len(left) = 1 THEN left[1] ELSE concatenate(left[1], left[2])
          IN  /\ \A k \in DOMAIN cache : done[k] \in Completions(cache[k])
              /\ Len(cache) = 2 => done[1] = {}
              /\ IF left = <<>> THEN cache' = <<>> /\ kv' = freed
                 ELSE \E result \in generate_token(batch, freed, FALSE, FALSE) :
                        cache' = <<result.batch>> /\ kv' = result.kv
    /\ UNCHANGED <<kind, arrived, shifted>>

AllDone == arrived = NumRequests /\ cache = <<>> /\ UNCHANGED vars

Next == Prefill \/ NextToken \/ AllDone

Spec == Init /\ [][Next]_vars

----------------------------------------------------------------------------
(* Properties.                                                              *)

\* However batches are prefilled, concatenated and pruned, no request sees the
\* tokens of another, padding, or its own at the wrong place, as long as from_pb
\* did not mistake positions.  (A batch of which every request has used up its
\* tokens is not looked at: it is dropped next.)
RowsAligned ==
    ~shifted => \A k \in DOMAIN cache : ~AllAtLimit(cache[k]) =>
        \A j \in DOMAIN cache[k].rows :
            CASE kind = "causal"  -> Causal!RowAligned(cache[k], j)
              [] kind = "seq2seq" -> Seq2Seq!RowAligned(cache[k], j)
              [] kind = "flash"   -> Flash!RowAligned(cache[k], j)
              [] kind = "paged"   -> AtLimit(cache[k].rows[j])
                                     \/ Paged!RowAligned(cache[k], kv, j)

\* There is room for all tokens that the requests of a batch may still generate,
\* and not more than the longest of them needs.
RoomForAll ==
    \A k \in DOMAIN cache : ~AllAtLimit(cache[k]) =>
        CASE kind = "causal"  -> Causal!RoomFor(cache[k])
          [] kind = "seq2seq" -> Seq2Seq!RoomFor(cache[k])
          [] kind = "flash"   -> Flash!RoomFor(cache[k])
          [] kind = "paged"   -> Paged!RoomFor(cache[k])

\* Between calls the KV cache manager has exactly the sequences of the cached
\* batches and the parents that these share tokens with: the candidates of
\* speculative steps and the chains of parents are all freed in the end.
KvInUse ==
    kind = "paged" => DOMAIN kv = UNION {Paged!InUse(cache[k], kv) : k \in DOMAIN cache}

\* The processors, warpers, random generators and counters that act on a row of the
\* scores are those its own request asked for, and its generator and its count of
\* tokens continue where they were, however rows have moved.  (Speculative steps do
\* not use the chooser for greedy rows.)
ChoosersFollowRows ==
    \A k \in DOMAIN cache :
        LET b == cache[k] IN
        \A j \in DOMAIN b.rows : kind # "paged" \/ b.next_token_chooser.do_sample[j] =>
            Effect(b.next_token_chooser, j)
                = Wanted(b.rows[j].request.parameters, Generated(b.rows[j]))

\* "Trim pre-allocated tensors if we padded to multiple of 8. This is important to
\* be able to generate up to the model's token limit."
NoExtraPadding ==
    kind = "causal" /\ Len(cache) = 1 =>
        \A k \in DOMAIN cache[1].rows :
            Len(cache[1].rows[k].past) < cache[1].max_sequence_length
=============================================================================
