--------------------------------- MODULE T5 ---------------------------------
(***************************************************************************)
(* T5 (custom_modeling/t5_modeling.py).  The encoder runs once for a batch *)
(* padded on the left; the decoder attends to its own tokens, through a    *)
(* bias that depends on the distance of query and key and that the first   *)
(* layer shares with the others, and to the encoder's output, whose keys   *)
(* and values it keeps.                                                    *)
(***************************************************************************)
EXTENDS ParallelLayers

n_heads(c) == c.heads \div c.world

inner_dim(c) == c.heads * c.size

\* T5Attention.__init__ and T5LayerFF.__init__; wo is never quantized.
Loads(c) == c.heads % c.world = 0 /\ RowLoads(c, inner_dim(c)) /\ Shardable(c.units, c.world)

WholeBias(c, rank) == SubSeq(get_tensor("relative_attention_bias", c.heads), 1, n_heads(c))  \* mutant

\* PartialTPEmbedding: the columns of the rank's heads.
relative_attention_bias(c, rank) == get_sharded("relative_attention_bias", c.heads, c.world, rank)

\* T5Attention._relative_position_bucket, with its logarithmic buckets beyond
\* max_exact taken as one.
_relative_position_bucket(c, relative_position, bidirectional) ==
    LET num_buckets == IF bidirectional THEN c.buckets \div 2 ELSE c.buckets
        distance == IF relative_position < 0 THEN -relative_position
                    ELSE IF bidirectional THEN relative_position ELSE 0
        max_exact == num_buckets \div 2
    IN  (IF bidirectional /\ relative_position > 0 THEN num_buckets ELSE 0)
            + (IF distance < max_exact THEN distance ELSE max_exact)

\* T5Attention.compute_bias for query i and key j.
compute_bias(c, stack, rank, h, i, j) ==
    <<stack, relative_attention_bias(c, rank)[h], _relative_position_bucket(c, j - i, stack = "encoder")>>

\* The q, k or v projection of a layer on a rank, as heads.
project(c, name, rank, x) == Heads(Apply(ColumnLinear(c, <<<<name, inner_dim(c)>>>>, FALSE, rank), x), c.size)

\* Keys and values of the tokens x.
Pairs(keys, values) == [i \in DOMAIN keys |-> [k |-> keys[i], v |-> values[i]]]

KeyValues(c, name, rank, x) ==
    [t \in DOMAIN x |->
        Pairs(project(c, Append(name, "k"), rank, x[t]), project(c, Append(name, "v"), rank, x[t]))]

\* T5Attention.forward for one query over the keys seen, whose bias is given; a
\* query that sees no key weighs all alike.
T5Attention(q, keys, seen, bias) ==
    IF seen = <<>> THEN [e \in DOMAIN keys[1].v |-> <<"uniform", [j \in DOMAIN keys |-> keys[j].v[e]]>>]
    ELSE Attend(q, [n \in DOMAIN seen |-> [k |-> keys[seen[n]].k, v |-> keys[seen[n]].v, bias |-> bias[seen[n]]]])

\* T5LayerNorm.forward.
T5LayerNorm(name, h) == LayerNorm(name, h)

\* Its output projection.
Output(c, name, context) ==
    all_reduce([r \in AllRanks(c) |-> [t \in DOMAIN context[r] |->
        RowLinear(c, Append(name, "o"), inner_dim(c), FALSE, r, context[r][t])]])

\* An attention layer over the keys present: queries of x on every head, the keys
\* that each token sees and their bias.
Attention(c, name, h, x, present, seen, bias) ==
    LET queries(r, t) == project(c, Append(name, "q"), r, x[r][t])
    IN  [hidden |-> Plus(h, Output(c, name, [r \in AllRanks(c) |-> [t \in DOMAIN x[r] |->
                        FlattenSeq([i \in 1..n_heads(c) |->
                            T5Attention(queries(r, t)[i], [j \in DOMAIN present[r] |-> present[r][j][i]],
                                        seen[t], bias[r][t][i])])]])),
         present |-> present]

\* T5LayerSelfAttention.forward: the encoder sees all tokens that are not padding,
\* the decoder those up to its own.
T5LayerSelfAttention(c, stack, l, h, mask, layer_past) ==
    LET name == <<stack, l, "self">>
        x == T5LayerNorm(<<stack, l, "ln0">>, h)
        at(t) == Len(layer_past[0]) + t
        seen == [t \in DOMAIN x[0] |-> SelectSeq([j \in DOMAIN mask |-> j],
                                                 LAMBDA j : mask[j] /\ (stack = "decoder" => j <= at(t)))]
        bias == [r \in AllRanks(c) |-> [t \in DOMAIN x[r] |-> [i \in 1..n_heads(c) |->
                    [j \in DOMAIN mask |-> compute_bias(c, stack, r, i, at(t), j)]]]]
    IN  Attention(c, name, h, x, [r \in AllRanks(c) |-> layer_past[r] \o KeyValues(c, name, r, x[r])], seen, bias)

\* T5LayerCrossAttention.forward: keys and values of the encoder's output, from
\* the cache once they are there.
T5LayerCrossAttention(c, l, h, encoded, mask, layer_past) ==
    LET name == <<"decoder", l, "cross">>
        x == T5LayerNorm(<<"decoder", l, "ln1">>, h)
        seen == [t \in DOMAIN x[0] |-> SelectSeq([j \in DOMAIN mask |-> j], LAMBDA j : mask[j])]
        bias == [r \in AllRanks(c) |-> [t \in DOMAIN x[r] |-> [i \in 1..n_heads(c) |-> [j \in DOMAIN mask |-> 0]]]]
    IN  Attention(c, name, h, x, [r \in AllRanks(c) |->
                    IF layer_past[r] = <<>> THEN KeyValues(c, name, r, encoded[r]) ELSE layer_past[r]], seen, bias)

\* T5LayerFF.forward with T5DenseActDense or T5DenseGatedActDense.
T5LayerFF(c, stack, l, h) ==
    LET x == T5LayerNorm(<<stack, l, "ln2">>, h)
        wi(r, n, t) == Apply(ColumnLinear(c, <<<<<<stack, l, n>>, c.units>>>>, FALSE, r), x[r][t])
        states(r, t) == IF c.gated THEN [i \in 1..c.units \div c.world |-> <<wi(r, "wi_0", t)[i], wi(r, "wi_1", t)[i]>>]
                        ELSE wi(r, "wi", t)
    IN  Plus(h, all_reduce([r \in AllRanks(c) |-> [t \in DOMAIN x[r] |->
            RowLinear([c EXCEPT !.quantize = "none"], <<stack, l, "wo">>, c.units, FALSE, r, states(r, t))]]))

\* T5Block.forward after its attentions; past[l] holds the keys and values of both.
AfterCrossAttention(c, l, attn, cross, past) ==
    [hidden |-> T5LayerFF(c, "decoder", l, cross.hidden),
     past |-> [past EXCEPT ![l] = [self |-> attn.present, cross |-> cross.present]]]

AfterSelfAttention(c, stack, l, attn, past, encoded, encoder_mask) ==
    IF stack = "encoder" THEN [hidden |-> T5LayerFF(c, stack, l, attn.hidden), past |-> past]
    ELSE AfterCrossAttention(
            c, l, attn, T5LayerCrossAttention(c, l, attn.hidden, encoded, encoder_mask, past[l].cross), past)

\* T5Block.forward.
T5Block(c, stack, l, s, mask, encoded, encoder_mask) ==
    AfterSelfAttention(c, stack, l, T5LayerSelfAttention(c, stack, l, s.hidden, mask, s.past[l].self),
                       s.past, encoded, encoder_mask)

\* T5ForConditionalGeneration.shared.
word_embeddings(c, tokens) ==
    all_reduce([r \in AllRanks(c) |-> [t \in DOMAIN tokens |->
        Embedding(c, <<0, "embed">>, c.vocab, r, tokens[t].id)]])

NoPast(c) == [l \in 1..c.layers |-> [self |-> [r \in AllRanks(c) |-> <<>>], cross |-> [r \in AllRanks(c) |-> <<>>]]]

\* T5Stack.forward.
T5Stack(c, stack, inputs_embeds, mask, past, encoded, encoder_mask) ==
    FinalNorm(<<stack, "norm">>,
              FoldLeft(LAMBDA s, l : T5Block(c, stack, l, s, mask, encoded, encoder_mask),
                       [hidden |-> inputs_embeds, past |-> past], [l \in 1..c.layers |-> l]))

\* The encoder of T5ForConditionalGeneration.forward, on its first call.
encoder(c, inputs_embeds, mask) == T5Stack(c, "encoder", inputs_embeds, mask, NoPast(c), <<>>, <<>>).hidden

\* Its decoder and head.
forward(c, tokens, past, encoded, encoder_mask) ==
    LET visible == [j \in 1..Len(past[1].self[0]) + Len(tokens) |-> TRUE]
    IN  WithHead(c, "lm_head", T5Stack(c, "decoder", word_embeddings(c, tokens), visible, past, encoded, encoder_mask))
=============================================================================
