--------------------------- MODULE ParallelLayers ---------------------------
(***************************************************************************)
(* What each rank of a tensor-parallel group reads of a checkpoint         *)
(* (utils/weights.py), the layers made of that (utils/layers.py) and the   *)
(* flash attention (utils/flash_attn.py).                                  *)
(*                                                                         *)
(* A tensor is the sequence of its rows, or columns, along the dimension   *)
(* that is split, each a pair <<tensor, index>>; its numbers are left out. *)
(* A number that a layer computes is the term that computes it: the row of *)
(* the weights, the entry of the bias and the input.  A value that ranks   *)
(* add up is a bag of terms, so that a term added twice or never, or       *)
(* computed from an input that differs from the other ranks', is seen.     *)
(* The hidden states h of a forward pass are a function from ranks to      *)
(* sequences of bags, one for each token.                                  *)
(*                                                                         *)
(* A configuration c has world, the number of ranks, gpus, quantize, bits, *)
(* groupsize, act_order and cuda, which say how the weights are quantized  *)
(* and whether the CUDA kernels for them are installed.                    *)
(***************************************************************************)
EXTENDS Integers, SequencesExt

\* No tensor of that name or of one of its aliases.
Absent == "absent"

\* Weights.get_filename: the name itself, or the first of its aliases that a
\* file of the checkpoint holds.
get_filename(routing, aliases, name) ==
    LET candidates == <<name>> \o (IF name \in DOMAIN aliases THEN aliases[name] ELSE <<>>)
        found == SelectSeq(candidates, LAMBDA n : n \in routing)
    IN  IF found = <<>> THEN Absent ELSE Head(found)

get_tensor(name, size) == [i \in 1..size |-> <<name, i - 1>>]

\* Weights.get_partial_sharded: the rank's block; a remainder belongs to no rank.
get_partial_sharded(name, size, world, rank) ==
    SubSeq(get_tensor(name, size), rank * (size \div world) + 1, (rank + 1) * (size \div world))

\* The assertion of Weights.get_sharded.
Shardable(size, world) == size % world = 0

\* Weights.get_sharded where the assertion holds.
get_sharded(name, size, world, rank) == get_partial_sharded(name, size, world, rank)

\* Weights.get_multi_weights_col: the rank's blocks of several tensors, each
\* given as <<name, size>>.
get_multi_weights_col(tensors, world, rank) ==
    FlattenSeq([i \in DOMAIN tensors |-> get_sharded(tensors[i][1], tensors[i][2], world, rank)])

-----------------------------------------------------------------------------
\* Weights.get_multi_weights_row for GPTQ: input row i of the checkpoint is
\* scaled by group g_idx[i].

Groups(c, size) == IF c.groupsize < 0 THEN 1 ELSE size \div c.groupsize

\* The checkpoint's g_idx: act-order spreads the rows over the groups.
g_idx(c, size, i) ==
    IF c.groupsize < 0 THEN 0
    ELSE IF c.act_order THEN i % Groups(c, size) ELSE i \div c.groupsize

IgnoresActOrder(c) == c.cuda /\ c.bits = 4  \* mutant

\* Whether the CUDA kernel is used: it cannot reorder activations that are
\* split over several GPUs.
use_gptq_cuda(c) == c.cuda /\ c.bits = 4 /\ (c.world = 1 \/ c.groupsize < 0 \/ ~c.act_order)

\* The assertion on the shards of qzeros and scales.
ScalesLoad(c, size) ==
    use_gptq_cuda(c) /\ c.groupsize >= 0 => Shardable(Groups(c, size), c.world)

\* The scale group of the checkpoint that the kernel applies to the rank's
\* i-th row: without g_idx it counts the rows of its own scales.
AppliedGroup(c, size, rank, i) ==
    LET row == rank * (size \div c.world) + i IN
    IF use_gptq_cuda(c) /\ c.world > 1
    THEN IF c.groupsize < 0 THEN 0
         ELSE rank * (Groups(c, size) \div c.world) + (i \div c.groupsize)
    ELSE g_idx(c, size, row)

\* layers.get_linear: the linear layer of a quantization, if there is one.  Those of
\* bitsandbytes and of GPTQ need a GPU.
get_linear(c) ==
    CASE c.quantize = "none"                -> "FastLinear"
      [] c.quantize = "gptq" /\ c.gpus > 0 -> IF use_gptq_cuda(c) THEN "GPTQ_CUDA_LINEAR" ELSE "QuantLinear"
      [] OTHER                              -> Absent

-----------------------------------------------------------------------------
AllRanks(c) == 0..c.world - 1

\* Hidden states given rank by rank and token by token.  (f @@ <<>> is f; TLC
\* evaluates its values once.)
HiddenStates(h, value(_, _)) ==
    [r \in DOMAIN h |-> [t \in DOMAIN h[r] |-> value(r, t)] @@ <<>>] @@ <<>>

\* a + b for hidden states.
Plus(a, b) == HiddenStates(a, LAMBDA r, t : a[r][t] (+) b[r][t])

\* torch.distributed.all_reduce.
all_reduce(h) ==
    HiddenStates(h, LAMBDA r, t : FoldFunction(LAMBDA a, b : a (+) b, EmptyBag, [q \in DOMAIN h |-> h[q][t]]))

\* FastLayerNorm.forward: the normed sum of the hidden states and the residual.
\* The sum itself is the next residual.
LayerNorm(name, h) == HiddenStates(h, LAMBDA r, t : <<name, h[r][t]>>)

\* The view of a vector as heads of n numbers.
Heads(v, n) == [i \in 1..Len(v) \div n |-> SubSeq(v, (i - 1) * n + 1, i * n)]

-----------------------------------------------------------------------------
\* A linear layer is the sequence of its rows, with the entries of the bias.

WithBias(rows, bias) == [i \in DOMAIN rows |-> <<rows[i], bias[i]>>]

BiasOf(tensors) == [i \in DOMAIN tensors |-> <<<<tensors[i][1], "bias">>, tensors[i][2]>>]

\* Weights.get_multi_weights_col and get_sharded refuse a size that does not divide.
Divides(c, tensors) == \A i \in DOMAIN tensors : Shardable(tensors[i][2], c.world)

\* TensorParallelColumnLinear.load_multi.
ColumnLinear(c, tensors, bias, rank) ==
    IF bias THEN WithBias(get_multi_weights_col(tensors, c.world, rank),
                          get_multi_weights_col(BiasOf(tensors), c.world, rank))
    ELSE get_multi_weights_col(tensors, c.world, rank)

\* FastLinear.forward on a token's input.
Apply(linear, x) == [i \in DOMAIN linear |-> <<linear[i], x>>]

OnEveryRank(name, rank) == SetToBag({<<name, "bias">>})  \* mutant

\* The bias of a row-parallel layer is on one rank only, for its outputs are added up.
RowBias(name, rank) == IF rank = 0 THEN SetToBag({<<name, "bias">>}) ELSE EmptyBag

\* TensorParallelRowLinear: the rank's share of the output on the vector v, each
\* number times its column, scaled by the column's group under GPTQ.
RowLinear(c, name, size, bias, rank, v) ==
    LET columns == get_sharded(name, size, c.world, rank)
        scale(i) == IF c.quantize = "gptq" THEN AppliedGroup(c, size, rank, i - 1) ELSE 0
    IN  SetToBag({<<columns[i], scale(i), v[i]>> : i \in DOMAIN v})
            (+) (IF bias THEN RowBias(name, rank) ELSE EmptyBag)

\* Whether a row-parallel layer of the size can be loaded.
RowLoads(c, size) == Shardable(size, c.world) /\ (c.quantize = "gptq" => ScalesLoad(c, size))

\* TensorParallelEmbedding.forward without its all_reduce: the row of a token on
\* the rank that holds it, zero (the masking entry null_idx) on the others.
Embedding(c, name, size, rank, id) ==
    LET block_size == size \div c.world
        min_id == rank * block_size
        max_id == IF size < (rank + 1) * block_size THEN size ELSE (rank + 1) * block_size
        weight == get_partial_sharded(name, size, c.world, rank)
    IN  IF min_id > id \/ id >= max_id THEN EmptyBag
        ELSE SetToBag({weight[id - min_id + 1]})

AlwaysShards(c) == c.world > 1  \* mutant

\* TensorParallelHead.load: the head is split unless the vocabulary does not divide.
should_gather(c) == c.world > 1 /\ Shardable(c.vocab, c.world)

\* TensorParallelHead.forward: the logits of the last token on a rank, gathered
\* from all ranks in their order.
HeadLogits(c, name, h, rank) ==
    LET last(r) == h[r][Len(h[r])]
        part(r) == get_partial_sharded(name, c.vocab, c.world, r)
    IN  IF should_gather(c) THEN FlattenSeq([i \in 1..c.world |-> Apply(part(i - 1), last(i - 1))])
        ELSE Apply(get_tensor(name, c.vocab), last(rank))

\* The last norm of a model, and of one whose layers pass on a residual.
FinalNorm(name, s) == [hidden |-> LayerNorm(name, s.hidden), past |-> s.past]

Normed(s) == [hidden |-> LayerNorm("norm", Plus(s.hidden, s.residual)), past |-> s.past]

\* The forward pass of a model with its head.
WithHead(c, name, s) ==
    [logits |-> [r \in AllRanks(c) |-> HeadLogits(c, name, s.hidden, r)], past |-> s.past]

-----------------------------------------------------------------------------
\* BasePositionRotaryEmbedding: a query or key turned by its position.
Rotary(v, position) == <<"rotary", position, v>>

\* Softmax attention of one head over its keys, records [k, v, bias].
Attend(q, keys) ==
    [e \in DOMAIN keys[1].v |->
        <<q, [j \in DOMAIN keys |-> <<keys[j].k, keys[j].v[e], keys[j].bias>>]>>]

\* flash_attn.attention: every query head with the key head of its group, over
\* the keys up to its own position when causal, else over all.  q and kv are
\* sequences of tokens, each of heads.
attention(q, kv, causal) ==
    [t \in DOMAIN q |-> FlattenSeq([i \in DOMAIN q[t] |->
        LET group == (i - 1) \div (Len(q[t]) \div Len(kv[1])) + 1
            seen == IF causal THEN t ELSE Len(kv)
        IN  Attend(q[t][i], [j \in 1..seen |-> kv[j][group]])])]

\* A flash or paged attention layer from its queries and keys on, without its
\* reduction: the keys are in the layer's cache, and a decode step sees all of it.
Attended(c, l, bias, query, present, layer_past) ==
    [out |-> [r \in AllRanks(c) |->
                LET output == attention(query[r], present[r], layer_past[r] = <<>>)
                IN  [t \in DOMAIN output |-> RowLinear(c, <<l, "o">>, c.heads * c.size, bias, r, output[t])]],
     present |-> present]

\* An attention layer's reduced result.
Reduced(attn) == [attn EXCEPT !.out = all_reduce(@)]
=============================================================================
