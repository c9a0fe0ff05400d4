-------------------------- MODULE FlashSantacoder ---------------------------
(***************************************************************************)
(* GPT-BigCode (Santacoder, Starcoder) with flash attention                *)
(* (custom_modeling/flash_santacoder_modeling.py).  One key and value head *)
(* serves all query heads and is replicated on every rank.  Token and      *)
(* position embeddings are left unreduced and reduced together.  Its       *)
(* variant over a paged cache follows.                                     *)
(***************************************************************************)
EXTENDS ParallelLayers

num_heads(c) == c.heads \div c.world

Rows(c) == (c.heads + 2) * c.size

\* The rank's block of the query rows of a fused tensor, and all its key and
\* value rows.
QueryBlock(c, name, rank) ==
    LET block_size == (Rows(c) - 2 * c.size) \div c.world
        tensor == get_tensor(name, Rows(c))
    IN  SubSeq(tensor, rank * block_size + 1, (rank + 1) * block_size)
            \o SubSeq(tensor, Rows(c) - 2 * c.size + 1, Rows(c))

\* _load_multi_mqa_gptq: the zeros are packed eight to a word.
GptqLoads(c) == c.fused /\ ~c.transpose /\ (c.heads * c.size) % c.world = 0 /\ (2 * c.size) % 8 = 0

\* _load_multi_mqa: separate tensors that are not transposed are joined along the
\* wrong dimension, which the check of the shape refuses.
MqaLoads(c) == IF c.fused THEN (c.heads * c.size) % c.world = 0 ELSE c.transpose /\ Divides(c, <<<<"q", c.heads * c.size>>>>)

\* load_multi_mqa: the rows of a rank, and their bias.
load_multi_mqa(c, l, rank) ==
    LET unfused(q, kv) == get_sharded(q, c.heads * c.size, c.world, rank) \o get_tensor(kv, 2 * c.size)
    IN  IF c.fused THEN WithBias(QueryBlock(c, <<l, "qkv">>, rank), QueryBlock(c, <<l, "qkv", "bias">>, rank))
        ELSE WithBias(unfused(<<l, "q">>, <<l, "kv">>), unfused(<<l, "q", "bias">>, <<l, "kv", "bias">>))

\* load_col.
load_col(c, l, rank) == ColumnLinear(c, <<<<<<l, "up">>, c.units>>>>, TRUE, rank)

\* load_row.
load_row(c, name, size, rank, v) == RowLinear(c, name, size, TRUE, rank, v)

Loads(c) ==
    /\ c.heads % c.world = 0
    /\ IF c.quantize = "gptq" THEN GptqLoads(c) ELSE MqaLoads(c)
    /\ RowLoads(c, c.heads * c.size)
    /\ RowLoads(c, c.units)

\* FlashMQAttention.forward: the fused projection on a rank, and its parts.
c_attn(c, l, x) ==
    [r \in AllRanks(c) |-> LET rows == load_multi_mqa(c, l, r)
                           IN  [t \in DOMAIN x[r] |-> Heads(Apply(rows, x[r][t]), c.size)]]

QueriesOf(c, qkv) == [r \in DOMAIN qkv |-> [t \in DOMAIN qkv[r] |-> SubSeq(qkv[r][t], 1, num_heads(c))]]

KeyValuesOf(c, qkv, layer_past) ==
    [r \in DOMAIN qkv |-> layer_past[r] \o [t \in DOMAIN qkv[r] |->
        <<[k |-> qkv[r][t][num_heads(c) + 1], v |-> qkv[r][t][num_heads(c) + 2], bias |-> 0]>>]]

FlashMQAttention(c, l, x, tokens, layer_past) ==
    Reduced(Attended(c, l, TRUE, QueriesOf(c, c_attn(c, l, x)), KeyValuesOf(c, c_attn(c, l, x), layer_past), layer_past))

MLP(c, l, x) ==
    all_reduce([r \in AllRanks(c) |-> [t \in DOMAIN x[r] |->
        load_row(c, <<l, "down">>, c.units, r, Apply(load_col(c, l, r), x[r][t]))]])

\* Block.forward after its attention.
AfterAttention(c, l, attn, res, past) ==
    LET attn_res == Plus(attn.out, res)
    IN  [hidden |-> MLP(c, l, LayerNorm(<<l, "ln2">>, attn_res)), residual |-> attn_res,
         past |-> [past EXCEPT ![l] = attn.present]]

\* Block.forward.
Block(c, l, s, tokens) ==
    LET res == Plus(s.hidden, s.residual)
    IN  AfterAttention(c, l, FlashMQAttention(c, l, LayerNorm(<<l, "ln1">>, res), tokens, s.past[l]), res, s.past)

\* FlashSantacoderModel.wte, with reduce=False.
word_embeddings(c, tokens) ==
    [r \in AllRanks(c) |-> [t \in DOMAIN tokens |-> Embedding(c, <<0, "wte">>, c.vocab, r, tokens[t].id)]]

\* FlashSantacoderModel.forward.
FlashSantacoderModel(c, inputs_embeds, tokens, past) ==
    LET wpe == [r \in AllRanks(c) |-> [t \in DOMAIN tokens |->
                    Embedding(c, <<0, "wpe">>, c.positions, r, tokens[t].position)]]
        none == [r \in AllRanks(c) |-> [t \in DOMAIN tokens |-> EmptyBag]]
    IN  Normed(FoldLeft(LAMBDA s, l : Block(c, l, s, tokens),
                        [hidden |-> all_reduce(Plus(inputs_embeds, wpe)), residual |-> none, past |-> past],
                        [l \in 1..c.layers |-> l]))

\* FlashSantacoderForCausalLM.forward: the head is tied to the token embedding.
forward(c, inputs_embeds, tokens, past) ==
    WithHead(c, <<0, "wte">>, FlashSantacoderModel(c, inputs_embeds, tokens, past))

-----------------------------------------------------------------------------
(* paged_santacoder_modeling.py, with a copy of the loading code above.     *)

\* _load_multi_mqa_gptq imports a name that utils/layers.py does not have.
PagedGptqLoads(c) == FALSE

\* The projection, whose rows a copy of load_multi_mqa loads.
paged_c_attn(c, l, x) == c_attn(c, l, x)

PagedLoads(c) ==
    /\ c.heads % c.world = 0
    /\ IF c.quantize = "gptq" THEN PagedGptqLoads(c) ELSE MqaLoads(c)
    /\ RowLoads(c, c.heads * c.size)
    /\ RowLoads(c, c.units)

\* PagedMQAttention.forward.
PagedMQAttention(c, l, x, tokens, layer_past) ==
    LET qkv == paged_c_attn(c, l, x) IN
    Reduced(Attended(c, l, TRUE, QueriesOf(c, qkv), KeyValuesOf(c, qkv, layer_past), layer_past))

PagedMLP(c, l, x) == MLP(c, l, x)

\* Block.forward after its attention.
PagedAfterAttention(c, l, attn, res, past) ==
    LET attn_res == Plus(attn.out, res)
    IN  [hidden |-> PagedMLP(c, l, LayerNorm(<<l, "ln2">>, attn_res)), residual |-> attn_res,
         past |-> [past EXCEPT ![l] = attn.present]]

\* Block.forward.
PagedBlock(c, l, s, tokens) ==
    LET res == Plus(s.hidden, s.residual)
    IN  PagedAfterAttention(c, l,
            PagedMQAttention(c, l, LayerNorm(<<l, "ln1">>, res), tokens, s.past[l]), res, s.past)

\* PagedSantacoderModel.forward.
PagedSantacoderModel(c, inputs_embeds, tokens, past) ==
    LET wpe == [r \in AllRanks(c) |-> [t \in DOMAIN tokens |->
                    Embedding(c, <<0, "wpe">>, c.positions, r, tokens[t].position)]]
        none == [r \in AllRanks(c) |-> [t \in DOMAIN tokens |-> EmptyBag]]
    IN  Normed(FoldLeft(LAMBDA s, l : PagedBlock(c, l, s, tokens),
                        [hidden |-> all_reduce(Plus(inputs_embeds, wpe)), residual |-> none, past |-> past],
                        [l \in 1..c.layers |-> l]))

\* PagedSantacoderForCausalLM.forward.
paged_forward(c, inputs_embeds, tokens, past) ==
    WithHead(c, <<0, "wte">>, PagedSantacoderModel(c, inputs_embeds, tokens, past))
=============================================================================
