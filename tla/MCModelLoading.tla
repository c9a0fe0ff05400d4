--------------------------- MODULE MCModelLoading ---------------------------
EXTENDS ModelLoading

Base ==
    [type |-> "llama", framework |-> "tgis_native", flash |-> TRUE, paged |-> FALSE, world |-> 2, gpus |-> 2,
     quantize |-> "none", bits |-> 4, groupsize |-> -1, act_order |-> FALSE, cuda |-> TRUE, dtype |-> "float16",
     heads |-> 2, kv |-> 2, size |-> 1, units |-> 2, vocab |-> 2, positions |-> 8, layers |-> 1,
     parallel |-> FALSE, fused |-> TRUE, transpose |-> FALSE, rope |-> "none", alibi |-> FALSE, bias |-> FALSE,
     multi_query |-> FALSE, new_decoder |-> "unset", slow_but_exact |-> FALSE, post_layernorm |-> FALSE,
     gated |-> FALSE, buckets |-> 4, prefix |-> FALSE, pad |-> 0, bigcode |-> FALSE, variant |-> TRUE,
     safetensors |-> TRUE, hf |-> {"causal"},
     names |-> {"embed_tokens", "lm_head", "wte", "word_embeddings", "embed_in", "embed_out", "shared"}]

\* Settings whose checkpoint, GPUs or model cannot be served, or go to a library.
Refused ==
    {[Base EXCEPT !.world = 3], [Base EXCEPT !.gpus = 0], [Base EXCEPT !.safetensors = FALSE],
     [Base EXCEPT !.names = {"embed_tokens"}],
     [Base EXCEPT !.quantize = "gptq", !.type = "bloom", !.flash = FALSE, !.gpus = 0],
     [Base EXCEPT !.rope = "dynamic"], [Base EXCEPT !.type = "opt"],
     [Base EXCEPT !.flash = FALSE], [Base EXCEPT !.flash = FALSE, !.world = 1],
     [Base EXCEPT !.paged = TRUE, !.flash = FALSE], [Base EXCEPT !.paged = TRUE, !.type = "gpt_neox"]}
    \union {[Base EXCEPT !.flash = FALSE, !.framework = f, !.world = w, !.type = t, !.hf = h, !.quantize = q, !.bits = b,
                         !.variant = v, !.dtype = d] :
        f \in {"hf_transformers", "ds_inference"}, w \in {1, 2}, t \in {"bart", "gpt_megatron", "hf_adapted"},
        h \in {{}, {"causal", "seq2seq"}}, q \in {"none", "gptq"}, b \in {4, 8}, v \in BOOLEAN, d \in {"float16", "float32"}}

LlamaConfigs ==
    {Base, [Base EXCEPT !.kv = 0, !.world = 1, !.framework = "hf_transformers"], [Base EXCEPT !.vocab = 3, !.prefix = TRUE],
     [Base EXCEPT !.layers = 2], [Base EXCEPT !.rope = "linear"], [Base EXCEPT !.kv = 3],
     [Base EXCEPT !.heads = 4], [Base EXCEPT !.heads = 3, !.kv = 3, !.units = 3, !.vocab = 3, !.world = 3, !.gpus = 4],
     [Base EXCEPT !.paged = TRUE, !.world = 1, !.prefix = TRUE], [Base EXCEPT !.paged = TRUE, !.world = 1, !.rope = "linear"]}
    \union {[Base EXCEPT !.kv = 1, !.size = 2, !.quantize = q] : q \in {"none", "gptq", "bitsandbytes"}}
    \union {[Base EXCEPT !.quantize = "bitsandbytes", !.paged = p] : p \in BOOLEAN}
    \union {[Base EXCEPT !.heads = 4, !.kv = 4, !.units = 4, !.quantize = "gptq", !.groupsize = g, !.act_order = a, !.cuda = k] :
        g \in {-1, 2}, a \in BOOLEAN, k \in BOOLEAN}

NeoXConfigs ==
    LET neox == [Base EXCEPT !.type = "gpt_neox"]
    IN  {[neox EXCEPT !.parallel = p, !.flash = f, !.prefix = TRUE] : p \in BOOLEAN, f \in BOOLEAN}
        \union {[neox EXCEPT !.flash = FALSE, !.framework = f, !.pad = 1, !.heads = 4, !.size = 1] : f \in {"tgis_native", "hf_transformers"}}
        \union {[neox EXCEPT !.world = 1, !.flash = FALSE], [neox EXCEPT !.world = 1, !.parallel = TRUE, !.size = 2],
                [neox EXCEPT !.quantize = "gptq"], [neox EXCEPT !.quantize = "bitsandbytes"], [neox EXCEPT !.parallel = TRUE, !.layers = 2]}

BigcodeConfigs ==
    LET bigcode == [Base EXCEPT !.type = "gpt_bigcode", !.prefix = TRUE]
    IN  {[bigcode EXCEPT !.fused = f, !.transpose = t] : f \in BOOLEAN, t \in BOOLEAN}
        \union {[bigcode EXCEPT !.paged = p, !.quantize = q, !.size = 4, !.world = 1] : p \in BOOLEAN, q \in {"none", "gptq"}}
        \union {[bigcode EXCEPT !.type = "gpt2", !.bigcode = b, !.heads = 4, !.names = {"lm_head"}] : b \in BOOLEAN}

FalconConfigs ==
    LET falcon == [Base EXCEPT !.type = "falcon", !.kv = 0, !.names = {"lm_head"}]
        large == [falcon EXCEPT !.type = "RefinedWeb", !.heads = 4, !.kv = 2, !.parallel = TRUE]
    IN  {[falcon EXCEPT !.world = w, !.multi_query = m, !.parallel = p, !.bias = TRUE] :
            w \in {1, 2}, m \in BOOLEAN, p \in BOOLEAN}
        \union {large, [large EXCEPT !.bias = TRUE, !.prefix = TRUE], [large EXCEPT !.parallel = FALSE],
                [large EXCEPT !.alibi = TRUE], [large EXCEPT !.kv = 1], [large EXCEPT !.new_decoder = "no"]}

BloomConfigs ==
    LET bloom == [Base EXCEPT !.type = "bloom", !.flash = FALSE, !.size = 2, !.heads = 4]
    IN  {[bloom EXCEPT !.pad = p, !.post_layernorm = n] : p \in {0, 1}, n \in BOOLEAN}
        \union {[bloom EXCEPT !.world = 1, !.heads = h] : h \in {1, 3}}
        \union {[bloom EXCEPT !.heads = 2], [bloom EXCEPT !.slow_but_exact = TRUE], [bloom EXCEPT !.flash = TRUE],
                [bloom EXCEPT !.prefix = TRUE, !.pad = 1, !.heads = 6, !.gpus = 0],
                [bloom EXCEPT !.framework = "hf_transformers", !.world = 1]}

T5Configs ==
    LET t5 == [Base EXCEPT !.type = "t5", !.flash = FALSE, !.hf = {"seq2seq"}]
    IN  {[t5 EXCEPT !.gated = g, !.world = w, !.pad = w - 1] : g \in BOOLEAN, w \in {1, 2}}
        \union {[t5 EXCEPT !.prefix = TRUE, !.names = {"encoder.embed_tokens", "decoder.embed_tokens"}],
                [t5 EXCEPT !.names = {"shared"}],
                [t5 EXCEPT !.heads = 4, !.quantize = "gptq", !.groupsize = 2, !.act_order = TRUE]}

MCConfigs ==
    Refused \union LlamaConfigs \union NeoXConfigs \union BigcodeConfigs \union FalconConfigs
        \union BloomConfigs \union T5Configs
=============================================================================
