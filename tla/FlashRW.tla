------------------------------ MODULE FlashRW -------------------------------
(***************************************************************************)
(* Falcon / RefinedWeb with flash attention                                *)
(* (custom_modeling/flash_rw_modeling.py): the decoder of the small models *)
(* (FlashRWLayer), and of the large ones, whose heads are grouped with     *)
(* their key and value head (FlashRWLargeLayer).                           *)
(***************************************************************************)
EXTENDS ParallelLayers

\* RWConfig: the number of key and value heads, and which decoder is used.
n_head_kv(c) == IF c.kv > 0 THEN c.kv ELSE IF c.multi_query THEN 1 ELSE c.heads

new_decoder_architecture(c) ==
    IF c.new_decoder # "unset" THEN c.new_decoder = "yes" ELSE c.type = "RefinedWeb"

Fused(c, l) == <<<<<<l, "qkv">>, (c.heads + 2 * n_head_kv(c)) * c.size>>>>

query_key_value(c, l, rank) == ColumnLinear(c, Fused(c, l), c.bias, rank)

\* load_row: with parallel attention the layer does not reduce its output.
load_row(c, h) == IF c.parallel THEN h ELSE all_reduce(h)

SmallLoads(c) == c.heads % c.world = 0

LargeLoads(c) == c.world <= n_head_kv(c) /\ n_head_kv(c) % c.world = 0 /\ c.parallel

Loads(c) ==
    /\ ~c.alibi
    /\ IF new_decoder_architecture(c) THEN LargeLoads(c) ELSE SmallLoads(c)
    /\ Divides(c, Fused(c, 1))
    /\ RowLoads(c, c.heads * c.size)
    /\ RowLoads(c, c.units)

\* The split of FlashRWAttention.forward: the number of key and value heads is
\* not divided by the number of ranks.
Splits(c) ==
    ~new_decoder_architecture(c) =>
        Len(query_key_value(c, 1, 0)) = (c.heads \div c.world) * c.size + 2 * n_head_kv(c) * c.size

\* FlashRWAttention.forward: queries first, then keys, then values.  qkv holds the
\* heads of the projection's output for every token of the rank.
FlashRWAttention(c, qkv, tokens) ==
    LET n == c.heads \div c.world
        m == n_head_kv(c)
        turned(v, t) == Rotary(v, <<c.rope, tokens[t].position>>)
    IN  [query |-> [t \in DOMAIN qkv |-> [i \in 1..n |-> turned(qkv[t][i], t)]],
         kv |-> [t \in DOMAIN qkv |-> [g \in 1..m |->
                    [k |-> turned(qkv[t][n + g], t), v |-> qkv[t][n + m + g], bias |-> 0]]]]

\* FlashRWLargeAttention.forward: the queries of a group, then its key and value.
FlashRWLargeAttention(c, qkv, tokens) ==
    LET groups == n_head_kv(c) \div c.world
        n == c.heads \div n_head_kv(c)
        at(t, g, i) == qkv[t][(g - 1) * (n + 2) + i]
        turned(v, t) == Rotary(v, <<c.rope, tokens[t].position>>)
    IN  [query |-> [t \in DOMAIN qkv |-> [i \in 1..groups * n |->
                    turned(at(t, (i - 1) \div n + 1, ((i - 1) % n) + 1), t)]],
         kv |-> [t \in DOMAIN qkv |-> [g \in 1..groups |->
                    [k |-> turned(at(t, g, n + 1), t), v |-> at(t, g, n + 2), bias |-> 0]]]]

\* The beginning of both, and the attention that both end with.
Parts(c, l, x, tokens) ==
    [r \in AllRanks(c) |->
        LET rows == query_key_value(c, l, r)
            qkv == [t \in DOMAIN x[r] |-> Heads(Apply(rows, x[r][t]), c.size)]
        IN  IF new_decoder_architecture(c) THEN FlashRWLargeAttention(c, qkv, tokens)
            ELSE FlashRWAttention(c, qkv, tokens)]

SelfAttention(c, l, x, tokens, layer_past) ==
    LET parts == Parts(c, l, x, tokens)
    IN  [Attended(c, l, c.bias, [r \in AllRanks(c) |-> parts[r].query],
                  [r \in AllRanks(c) |-> layer_past[r] \o parts[r].kv], layer_past) EXCEPT !.out = load_row(c, @)]

FlashMLP(c, l, x) ==
    LET dense_h_to_4h(r) == ColumnLinear(c, <<<<<<l, "up">>, c.units>>>>, c.bias, r)
    IN  load_row(c, [r \in AllRanks(c) |-> [t \in DOMAIN x[r] |->
            RowLinear(c, <<l, "down">>, c.units, c.bias, r, Apply(dense_h_to_4h(r), x[r][t]))]])

\* FlashRWLayer.forward after its attention.
AfterAttention(c, l, attn, ln, res, past) ==
    LET attn_res == Plus(attn.out, res)
        residual == IF c.parallel THEN res ELSE attn_res
        hidden == IF c.parallel THEN all_reduce(Plus(FlashMLP(c, l, ln), attn.out))
                  ELSE FlashMLP(c, l, LayerNorm(<<l, "ln2">>, attn_res))
    IN  [hidden |-> hidden, residual |-> residual, past |-> [past EXCEPT ![l] = attn.present]]

\* FlashRWLayer.forward.
FlashRWLayer(c, l, s, tokens) ==
    LET res == Plus(s.hidden, s.residual)
        ln == LayerNorm(<<l, "ln1">>, res)
    IN  AfterAttention(c, l, SelfAttention(c, l, ln, tokens, s.past[l]), ln, res, s.past)

\* FlashRWLargeLayer.forward after its attention.
AfterLargeAttention(c, l, attn, res, past) ==
    [hidden |-> all_reduce(Plus(attn.out, FlashMLP(c, l, LayerNorm(<<l, "ln_mlp">>, res)))), residual |-> res,
     past |-> [past EXCEPT ![l] = attn.present]]

\* FlashRWLargeLayer.forward.
FlashRWLargeLayer(c, l, s, tokens) ==
    LET res == Plus(s.hidden, s.residual)
    IN  AfterLargeAttention(c, l, SelfAttention(c, l, LayerNorm(<<l, "ln_attn">>, res), tokens, s.past[l]), res, s.past)

\* FlashRWModel.word_embeddings.
word_embeddings(c, tokens) ==
    all_reduce([r \in AllRanks(c) |-> [t \in DOMAIN tokens |->
        Embedding(c, <<0, "embed">>, c.vocab, r, tokens[t].id)]])

\* FlashRWModel.forward.
FlashRWModel(c, inputs_embeds, tokens, past) ==
    LET none == [r \in AllRanks(c) |-> [t \in DOMAIN tokens |-> EmptyBag]]
    IN  Normed(FoldLeft(LAMBDA s, l : IF new_decoder_architecture(c) THEN FlashRWLargeLayer(c, l, s, tokens)
                                          ELSE FlashRWLayer(c, l, s, tokens),
                        [hidden |-> inputs_embeds, residual |-> none, past |-> past],
                        [l \in 1..c.layers |-> l]))

\* FlashRWForCausalLM.forward.
forward(c, inputs_embeds, tokens, past) ==
    WithHead(c, "lm_head", FlashRWModel(c, inputs_embeds, tokens, past))
=============================================================================
