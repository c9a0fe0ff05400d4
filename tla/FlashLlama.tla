----------------------------- MODULE FlashLlama -----------------------------
(***************************************************************************)
(* The Llama model with flash attention                                    *)
(* (custom_modeling/flash_llama_modeling.py): how each rank loads its part *)
(* of the checkpoint, and what a forward pass makes of it.  tokens is the  *)
(* sequence of the tokens of the pass, past the keys and values of every   *)
(* layer and rank.  Its variant over a paged cache follows.                *)
(***************************************************************************)
EXTENDS ParallelLayers

num_heads(c) == c.heads \div c.world

num_key_value_heads(c) == c.kv \div c.world

Projections(c, l) ==
    <<<<<<l, "q">>, c.heads * c.size>>, <<<<l, "k">>, c.kv * c.size>>, <<<<l, "v">>, c.kv * c.size>>>>

\* _load_gqa, which checks its shape unless the weights are quantized.
_load_gqa(c, l, rank) == ColumnLinear(c, Projections(c, l), FALSE, rank)


GqaLoads(c) ==
    c.quantize # "gptq" =>
        Len(_load_gqa(c, 1, 0)) = (num_heads(c) + 2 * num_key_value_heads(c)) * c.size

\* FlashLlamaAttention.__init__ and LlamaMLP.__init__.
Loads(c) ==
    /\ c.rope \in {"none", "linear"}
    /\ c.heads % c.world = 0
    /\ Divides(c, Projections(c, 1))
    /\ c.heads # c.kv => GqaLoads(c)
    /\ RowLoads(c, c.heads * c.size)
    /\ RowLoads(c, c.units)

\* The split of the projection's output into queries, keys and values.
Splits(c) ==
    Len(_load_gqa(c, 1, 0)) = num_heads(c) * c.size + 2 * num_key_value_heads(c) * c.size

\* FlashLlamaAttention.forward on a rank: the queries of the tokens, and their
\* keys and values.
queries(c, l, rank, x, tokens) ==
    LET n == num_heads(c) * c.size IN
    [t \in DOMAIN x |->
        LET q == Heads(SubSeq(Apply(_load_gqa(c, l, rank), x[t]), 1, n), c.size)
        IN  [i \in DOMAIN q |-> Rotary(q[i], <<c.rope, tokens[t].position>>)]]

KeyValues(c, l, rank, x, tokens) ==
    LET n == num_heads(c) * c.size
        m == num_key_value_heads(c)
    IN  [t \in DOMAIN x |->
            LET kv == Heads(SubSeq(Apply(_load_gqa(c, l, rank), x[t]), n + 1, n + 2 * m * c.size), c.size)
            IN  [g \in 1..m |-> [k |-> Rotary(kv[g], <<c.rope, tokens[t].position>>),
                                 v |-> kv[m + g], bias |-> 0]]]

\* Keys and values are added to the layer's cache; a decode step sees all of it.
FlashLlamaAttention(c, l, x, tokens, layer_past) ==
    Reduced(Attended(c, l, FALSE, [r \in AllRanks(c) |-> queries(c, l, r, x[r], tokens)],
                     [r \in AllRanks(c) |-> layer_past[r] \o KeyValues(c, l, r, x[r], tokens)], layer_past))

\* LlamaMLP: gate and up projection fused in one matrix, viewed as two.
LlamaMLP(c, l, x) ==
    LET gate_up(r) == ColumnLinear(c, <<<<<<l, "gate">>, c.units>>, <<<<l, "up">>, c.units>>>>, FALSE, r)
        n == c.units \div c.world
        states(r, t) == LET v == Apply(gate_up(r), x[r][t]) IN [i \in 1..n |-> <<v[i], v[n + i]>>]
    IN  all_reduce([r \in AllRanks(c) |-> [t \in DOMAIN x[r] |->
            RowLinear(c, <<l, "down">>, c.units, FALSE, r, states(r, t))]])

\* LlamaRMSNorm.forward.
LlamaRMSNorm(name, h) == LayerNorm(name, h)

\* FlashLlamaLayer.forward after its attention.
AfterAttention(c, l, attn, res, past) ==
    LET attn_res == Plus(attn.out, res)
    IN  [hidden |-> LlamaMLP(c, l, LlamaRMSNorm(<<l, "ln2">>, attn_res)), residual |-> attn_res,
         past |-> [past EXCEPT ![l] = attn.present]]

\* FlashLlamaLayer.forward; s holds the hidden states, the residual and the cache.
FlashLlamaLayer(c, l, s, tokens) ==
    LET res == Plus(s.hidden, s.residual)
    IN  AfterAttention(c, l, FlashLlamaAttention(c, l, LlamaRMSNorm(<<l, "ln1">>, res), tokens, s.past[l]), res, s.past)

\* FlashLlamaModel.embed_tokens.
word_embeddings(c, tokens) ==
    all_reduce([r \in AllRanks(c) |-> [t \in DOMAIN tokens |->
        Embedding(c, <<0, "embed">>, c.vocab, r, tokens[t].id)]])

\* FlashLlamaModel.forward.
FlashLlamaModel(c, inputs_embeds, tokens, past) ==
    LET none == [r \in AllRanks(c) |-> [t \in DOMAIN tokens |-> EmptyBag]]
    IN  Normed(FoldLeft(LAMBDA s, l : FlashLlamaLayer(c, l, s, tokens),
                        [hidden |-> inputs_embeds, residual |-> none, past |-> past],
                        [l \in 1..c.layers |-> l]))

\* FlashLlamaForCausalLM.forward.
forward(c, inputs_embeds, tokens, past) ==
    WithHead(c, "lm_head", FlashLlamaModel(c, inputs_embeds, tokens, past))

-----------------------------------------------------------------------------
(* paged_llama_modeling.py loads its weights with a copy of the code above  *)
(* but ignores the configured scaling of the rotary embedding.  The cache   *)
(* is the library's (PagedAttentionCacheDataLayer): store appends, and a    *)
(* decode step attends to all that is stored.                               *)

Unscaled(c) == [c EXCEPT !.rope = "none"]

\* PagedLlamaAttention.__init__ and LlamaMLP.__init__.
PagedLoads(c) == Loads(Unscaled(c))

\* PagedLlamaAttention.forward.
PagedLlamaAttention(c, l, x, tokens, layer_past) ==
    Reduced(Attended(c, l, FALSE, [r \in AllRanks(c) |-> queries(Unscaled(c), l, r, x[r], tokens)],
                     [r \in AllRanks(c) |-> layer_past[r] \o KeyValues(Unscaled(c), l, r, x[r], tokens)],
                     layer_past))

\* LlamaRMSNorm.forward.
PagedRMSNorm(name, h) == LayerNorm(name, h)

PagedMLP(c, l, x) == LlamaMLP(c, l, x)

\* PagedLlamaLayer.forward after its attention.
PagedAfterAttention(c, l, attn, res, past) ==
    LET attn_res == Plus(attn.out, res)
    IN  [hidden |-> PagedMLP(c, l, PagedRMSNorm(<<l, "ln2">>, attn_res)), residual |-> attn_res,
         past |-> [past EXCEPT ![l] = attn.present]]

\* PagedLlamaLayer.forward.
PagedLlamaLayer(c, l, s, tokens) ==
    LET res == Plus(s.hidden, s.residual)
    IN  PagedAfterAttention(c, l,
            PagedLlamaAttention(c, l, PagedRMSNorm(<<l, "ln1">>, res), tokens, s.past[l]), res, s.past)

\* PagedLlamaModel.forward.
PagedLlamaModel(c, inputs_embeds, tokens, past) ==
    LET none == [r \in AllRanks(c) |-> [t \in DOMAIN tokens |-> EmptyBag]]
    IN  Normed(FoldLeft(LAMBDA s, l : PagedLlamaLayer(c, l, s, tokens),
                        [hidden |-> inputs_embeds, residual |-> none, past |-> past],
                        [l \in 1..c.layers |-> l]))

\* PagedLlamaForCausalLM.forward.
paged_forward(c, inputs_embeds, tokens, past) ==
    WithHead(c, "lm_head", PagedLlamaModel(c, inputs_embeds, tokens, past))
=============================================================================
