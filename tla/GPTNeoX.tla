------------------------------ MODULE GPTNeoX -------------------------------
(***************************************************************************)
(* GPT-NeoX without flash attention (custom_modeling/neox_modeling.py),    *)
(* used when sharded.  A batch is padded on the left; the attention mask   *)
(* has one entry for every key, and the cache keeps every token.  The      *)
(* variant with flash attention follows.                                   *)
(***************************************************************************)
EXTENDS ParallelLayers

num_attention_heads(c) == c.heads \div c.world

Fused(c, l) == <<<<<<l, "qkv">>, 3 * c.heads * c.size>>>>

Loads(c) == c.heads % c.world = 0 /\ Divides(c, Fused(c, 1)) /\ RowLoads(c, c.heads * c.size) /\ RowLoads(c, c.units)

SeesPadding(mask, i) == [j \in 1..i |-> j]  \* mutant

\* prepare_attn_mask: the i-th of all tokens sees itself and those before it that
\* are not padding.  A decode step has one query, which needs no causal mask.
prepare_attn_mask(mask, i) == SelectSeq([j \in 1..i |-> j], LAMBDA j : mask[j])

\* GPTNeoXAttention._attn: a query all of whose keys are masked, that of a padding
\* token, weighs them all alike.
_attn(q, keys, seen) ==
    IF seen = <<>> THEN [e \in DOMAIN keys[1].v |-> <<"uniform", [j \in DOMAIN keys |-> keys[j].v[e]]>>]
    ELSE Attend(q, [j \in DOMAIN seen |-> keys[seen[j]]])

\* GPTNeoXAttention.forward: query, key and value of every head, the cache with
\* them, and what the queries make of it.
query_key_value(c, l, x) ==
    [r \in AllRanks(c) |-> LET linear == ColumnLinear(c, Fused(c, l), TRUE, r) IN
        [t \in DOMAIN x[r] |-> [i \in 1..num_attention_heads(c) |->
            Heads(Heads(Apply(linear, x[r][t]), 3 * c.size)[i], c.size)]]]

KeyValues(c, qkv, tokens, layer_past) ==
    [r \in DOMAIN qkv |-> layer_past[r] \o [t \in DOMAIN tokens |-> [i \in DOMAIN qkv[r][t] |->
        [k |-> Rotary(qkv[r][t][i][2], <<c.rope, tokens[t].position>>), v |-> qkv[r][t][i][3], bias |-> 0]]]]

Context(c, qkv, present, tokens, mask, layer_past) ==
    [r \in DOMAIN qkv |-> [t \in DOMAIN tokens |-> FlattenSeq([i \in DOMAIN qkv[r][t] |->
        _attn(Rotary(qkv[r][t][i][1], <<c.rope, tokens[t].position>>), [j \in DOMAIN present[r] |-> present[r][j][i]],
              prepare_attn_mask(mask, Len(layer_past[r]) + t))])]]

AttendTo(c, l, qkv, present, tokens, mask, layer_past) ==
    LET context == Context(c, qkv, present, tokens, mask, layer_past)
    IN  [out |-> all_reduce([r \in AllRanks(c) |-> [t \in DOMAIN tokens |->
                    RowLinear(c, <<l, "o">>, c.heads * c.size, TRUE, r, context[r][t])]]),
         present |-> present]

GPTNeoXAttention(c, l, x, tokens, mask, layer_past) ==
    LET qkv == query_key_value(c, l, x)
    IN  AttendTo(c, l, qkv, KeyValues(c, qkv, tokens, layer_past), tokens, mask, layer_past)

GPTNeoXMLP(c, l, x) ==
    LET dense_h_to_4h(r) == ColumnLinear(c, <<<<<<l, "up">>, c.units>>>>, TRUE, r)
    IN  all_reduce([r \in AllRanks(c) |-> [t \in DOMAIN x[r] |->
            RowLinear(c, <<l, "down">>, c.units, TRUE, r, Apply(dense_h_to_4h(r), x[r][t]))]])

\* GPTNeoXLayer.forward after its attention.
AfterAttention(c, l, attn, s) ==
    LET attn_output == Plus(attn.out, s.hidden)
        mlp_input == IF c.parallel THEN s.hidden ELSE attn_output
    IN  [hidden |-> Plus(GPTNeoXMLP(c, l, LayerNorm(<<l, "ln2">>, mlp_input)), attn_output),
         past |-> [s.past EXCEPT ![l] = attn.present]]

\* GPTNeoXLayer.forward.
GPTNeoXLayer(c, l, s, tokens, mask) ==
    AfterAttention(c, l, GPTNeoXAttention(c, l, LayerNorm(<<l, "ln1">>, s.hidden), tokens, mask, s.past[l]), s)

\* GPTNeoXModel.embed_in.
word_embeddings(c, tokens) ==
    all_reduce([r \in AllRanks(c) |-> [t \in DOMAIN tokens |->
        Embedding(c, <<0, "embed">>, c.vocab, r, tokens[t].id)]])

\* GPTNeoXModel.forward.
GPTNeoXModel(c, inputs_embeds, tokens, mask, past) ==
    FinalNorm("norm", FoldLeft(LAMBDA s, l : GPTNeoXLayer(c, l, s, tokens, mask),
                               [hidden |-> inputs_embeds, past |-> past], [l \in 1..c.layers |-> l]))

\* GPTNeoxForCausalLM.forward.
forward(c, inputs_embeds, tokens, mask, past) ==
    WithHead(c, "lm_head", GPTNeoXModel(c, inputs_embeds, tokens, mask, past))

-----------------------------------------------------------------------------
(* flash_neox_modeling.py.  The checkpoint interleaves query, key and value *)
(* of each head; the flash model wants all queries first, so the rows and   *)
(* the bias are permuted when they are loaded.  With parallel residuals     *)
(* attention and MLP are added up on each rank and reduced once.            *)

num_heads(c) == c.heads \div c.world

\* (heads, 3, size) -> (3, heads, size).
Permuted(c, s) ==
    [i \in DOMAIN s |->
        LET j == i - 1
            part == j \div (num_heads(c) * c.size)
            head == (j \div c.size) % num_heads(c)
        IN  s[(head * 3 + part) * c.size + (j % c.size) + 1]]

\* load_qkv: quantized weights are not permuted, the bias always is.
load_qkv(c, l, rank) ==
    LET weight == get_multi_weights_col(Fused(c, l), c.world, rank)
        bias == get_multi_weights_col(BiasOf(Fused(c, l)), c.world, rank)
    IN  WithBias(IF c.quantize = "gptq" THEN weight ELSE Permuted(c, weight), Permuted(c, bias))

ReducesTwice(c, h) == all_reduce(h)  \* mutant

\* load_row: with parallel residuals the layer does not reduce its output.
load_row(c, h) == IF c.parallel THEN h ELSE all_reduce(h)

FlashLoads(c) == c.heads % c.world = 0 /\ Divides(c, Fused(c, 1)) /\ RowLoads(c, c.heads * c.size) /\ RowLoads(c, c.units)

\* FlashNeoxAttention.forward: the heads of the fused projection, and its parts.
flash_query_key_value(c, l, x) ==
    [r \in AllRanks(c) |-> LET rows == load_qkv(c, l, r)
                           IN  [t \in DOMAIN x[r] |-> Heads(Apply(rows, x[r][t]), c.size)]]

queries(c, qkv, tokens) ==
    [r \in DOMAIN qkv |-> [t \in DOMAIN tokens |-> [i \in 1..num_heads(c) |->
        Rotary(qkv[r][t][i], <<c.rope, tokens[t].position>>)]]]

FlashKeyValues(c, qkv, tokens, layer_past) ==
    LET n == num_heads(c) IN
    [r \in DOMAIN qkv |-> layer_past[r] \o [t \in DOMAIN tokens |-> [i \in 1..n |->
        [k |-> Rotary(qkv[r][t][n + i], <<c.rope, tokens[t].position>>), v |-> qkv[r][t][2 * n + i], bias |-> 0]]]]

FlashNeoxAttention(c, l, x, tokens, layer_past) ==
    [Attended(c, l, TRUE, queries(c, flash_query_key_value(c, l, x), tokens),
              FlashKeyValues(c, flash_query_key_value(c, l, x), tokens, layer_past), layer_past) EXCEPT !.out = load_row(c, @)]

FlashMLP(c, l, x) ==
    LET dense_h_to_4h(r) == ColumnLinear(c, <<<<<<l, "up">>, c.units>>>>, TRUE, r)
    IN  load_row(c, [r \in AllRanks(c) |-> [t \in DOMAIN x[r] |->
            RowLinear(c, <<l, "down">>, c.units, TRUE, r, Apply(dense_h_to_4h(r), x[r][t]))]])

None(c, tokens) == [r \in AllRanks(c) |-> [t \in DOMAIN tokens |-> EmptyBag]]

\* FlashNeoXLayer.forward after its attention, with parallel residuals and without.
AfterParallel(c, l, attn, s, tokens) ==
    [hidden |-> Plus(all_reduce(Plus(FlashMLP(c, l, LayerNorm(<<l, "ln2">>, s.hidden)), attn.out)), s.hidden),
     residual |-> None(c, tokens), past |-> [s.past EXCEPT ![l] = attn.present]]

AfterFlashAttention(c, l, attn, res, past) ==
    LET attn_res == Plus(attn.out, res)
    IN  [hidden |-> FlashMLP(c, l, LayerNorm(<<l, "ln2">>, attn_res)), residual |-> attn_res,
         past |-> [past EXCEPT ![l] = attn.present]]

\* FlashNeoXLayer.forward.
FlashNeoXLayer(c, l, s, tokens) ==
    LET res == Plus(s.hidden, s.residual)
        attn(x) == FlashNeoxAttention(c, l, LayerNorm(<<l, "ln1">>, x), tokens, s.past[l])
    IN  IF c.parallel THEN AfterParallel(c, l, attn(s.hidden), s, tokens)
        ELSE AfterFlashAttention(c, l, attn(res), res, s.past)

\* FlashGPTNeoXModel.embed_in.
flash_word_embeddings(c, tokens) ==
    all_reduce([r \in AllRanks(c) |-> [t \in DOMAIN tokens |->
        Embedding(c, <<0, "embed">>, c.vocab, r, tokens[t].id)]])

\* FlashGPTNeoXModel.forward.
FlashGPTNeoXModel(c, inputs_embeds, tokens, past) ==
    Normed(FoldLeft(LAMBDA s, l : FlashNeoXLayer(c, l, s, tokens),
                    [hidden |-> inputs_embeds, residual |-> None(c, tokens), past |-> past],
                    [l \in 1..c.layers |-> l]))

\* FlashGPTNeoXForCausalLM.forward.
flash_forward(c, inputs_embeds, tokens, past) ==
    WithHead(c, "lm_head", FlashGPTNeoXModel(c, inputs_embeds, tokens, past))
=============================================================================
