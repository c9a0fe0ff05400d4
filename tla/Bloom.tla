------------------------------- MODULE Bloom --------------------------------
(***************************************************************************)
(* BLOOM (custom_modeling/bloom_modeling.py).  Positions enter through     *)
(* alibi, a slope for each head times the number of the key among those    *)
(* that are not padding; every rank takes the slopes of its own heads.     *)
(***************************************************************************)
EXTENDS ParallelLayers

num_heads(c) == c.heads \div c.world

Fused(c, l) == <<<<<<l, "qkv">>, 3 * c.heads * c.size>>>>

Loads(c) == c.heads % c.world = 0 /\ Divides(c, Fused(c, 1)) /\ RowLoads(c, c.heads * c.size) /\ RowLoads(c, c.units)

\* The slow and exact way to add up the slices of pretraining reads the weight of
\* a parallel layer, which has none.
Splits(c) == ~c.slow_but_exact

\* prepare_inputs_for_generation takes a cache of one head on each rank for one in
\* the standard format, and fails to convert it.
DecodeRuns(c) == num_heads(c) # 1

\* The exponents of build_alibi_tensor's slopes, in units of 4 over the largest
\* power of two p of heads: even ones, then odd ones for the remaining heads.
slopes(c) ==
    LET p == CHOOSE q \in {1, 2, 4, 8, 16} : q <= c.heads /\ c.heads < 2 * q
    IN  [h \in 1..c.heads |-> <<p, IF h <= p THEN 2 * h ELSE 2 * (h - p) - 1>>]

\* build_alibi_tensor: (cumsum - 1) * mask for a key.
arange(mask, j) == IF mask[j] THEN Cardinality({i \in 1..j : mask[i]}) - 1 ELSE 0

WholeAlibi(c, rank) == SubSeq(slopes(c), 1, num_heads(c))  \* mutant

\* BloomModel.forward's slice of alibi for the rank.
RankAlibi(c, rank) == SubSeq(slopes(c), rank * num_heads(c) + 1, (rank + 1) * num_heads(c))

\* BloomModel._prepare_attn_mask, with _make_causal_mask and _expand_mask.
_prepare_attn_mask(mask, i) == SelectSeq([j \in 1..i |-> j], LAMBDA j : mask[j])

\* _split_heads: query, key and value of each head.
_split_heads(c, fused_qkv) == [i \in 1..num_heads(c) |-> Heads(Heads(fused_qkv, 3 * c.size)[i], c.size)]

\* BloomAttention.compute_attention for one token; a token that sees no key
\* weighs all alike.
compute_attention(q, keys, seen) ==
    IF seen = <<>> THEN [e \in DOMAIN keys[1].v |-> <<"uniform", [j \in DOMAIN keys |-> keys[j].v[e]]>>]
    ELSE Attend(q, [j \in DOMAIN seen |-> keys[seen[j]]])

\* BloomAttention.forward without the residual: query, key and value of every
\* head, the cache with them, the keys with their alibi, and the result.
query_key_value(c, l, x) ==
    [r \in AllRanks(c) |-> LET linear == ColumnLinear(c, Fused(c, l), TRUE, r)
                           IN  [t \in DOMAIN x[r] |-> _split_heads(c, Apply(linear, x[r][t]))]]

KeyValues(qkv, layer_past) ==
    [r \in DOMAIN qkv |-> layer_past[r] \o [t \in DOMAIN qkv[r] |-> [i \in DOMAIN qkv[r][t] |->
        [k |-> qkv[r][t][i][2], v |-> qkv[r][t][i][3]]]]]

Biased(c, present, rank, i, mask) ==
    [j \in DOMAIN present |->
        [k |-> present[j][i].k, v |-> present[j][i].v, bias |-> <<RankAlibi(c, rank)[i], arange(mask, j)>>]]

AttendTo(c, l, qkv, present, mask, layer_past) ==
    LET context(r, t) == FlattenSeq([i \in 1..num_heads(c) |->
            compute_attention(qkv[r][t][i][1], Biased(c, present[r], r, i, mask),
                              _prepare_attn_mask(mask, Len(layer_past[r]) + t))])
    IN  [out |-> all_reduce([r \in AllRanks(c) |-> [t \in DOMAIN qkv[r] |->
                    RowLinear(c, <<l, "o">>, c.heads * c.size, TRUE, r, context(r, t))]]),
         present |-> present]

BloomAttention(c, l, x, mask, layer_past) ==
    LET qkv == query_key_value(c, l, x) IN AttendTo(c, l, qkv, KeyValues(qkv, layer_past), mask, layer_past)

\* BloomMLP.forward without the residual.
BloomMLP(c, l, x) ==
    LET dense_h_to_4h(r) == ColumnLinear(c, <<<<<<l, "up">>, c.units>>>>, TRUE, r)
    IN  all_reduce([r \in AllRanks(c) |-> [t \in DOMAIN x[r] |->
            RowLinear(c, <<l, "down">>, c.units, TRUE, r, Apply(dense_h_to_4h(r), x[r][t]))]])

\* A normed value as hidden states.
Value(x) == [r \in DOMAIN x |-> [t \in DOMAIN x[r] |-> SetToBag({x[r][t]})]]

\* BloomBlock.forward after its attention.
AfterAttention(c, l, attn, ln1, s) ==
    LET attention_output == Plus(attn.out, IF c.post_layernorm THEN Value(ln1) ELSE s.hidden)
        ln2 == LayerNorm(<<l, "ln2">>, attention_output)
    IN  [hidden |-> Plus(BloomMLP(c, l, ln2), IF c.post_layernorm THEN Value(ln2) ELSE attention_output),
         past |-> [s.past EXCEPT ![l] = attn.present]]

\* BloomBlock.forward.
BloomBlock(c, l, s, mask) ==
    LET ln1 == LayerNorm(<<l, "ln1">>, s.hidden)
    IN  AfterAttention(c, l, BloomAttention(c, l, ln1, mask, s.past[l]), ln1, s)

\* BloomModel.word_embeddings.
word_embeddings(c, tokens) ==
    all_reduce([r \in AllRanks(c) |-> [t \in DOMAIN tokens |->
        Embedding(c, <<0, "embed">>, c.vocab, r, tokens[t].id)]])

\* BloomModel.forward.
BloomModel(c, inputs_embeds, mask, past) ==
    FinalNorm("norm", FoldLeft(LAMBDA s, l : BloomBlock(c, l, s, mask),
                               [hidden |-> Value(LayerNorm(<<0, "ln_e">>, inputs_embeds)), past |-> past],
                               [l \in 1..c.layers |-> l]))

\* BloomForCausalLM.forward: the head is tied to the token embedding.
forward(c, inputs_embeds, mask, past) ==
    WithHead(c, <<0, "embed">>, BloomModel(c, inputs_embeds, mask, past))
=============================================================================
