------------------------------ MODULE Engines -------------------------------
(***************************************************************************)
(* Which engine, wrapper and model class serve a model: get_model          *)
(* (models/__init__.py) decides on the first two from the settings and the *)
(* model's type, the engine (inference_engine/) on the third.  c is the    *)
(* configuration: the settings, the model's config and what is known of    *)
(* its checkpoint.                                                         *)
(***************************************************************************)
EXTENDS ParallelLayers, FiniteSets

FalconTypes == {"RefinedWeb", "RefinedWebModel", "falcon"}

\* get_model: the engine in place of the configured one.
deployment_framework(c) ==
    IF c.paged \/ c.flash THEN "tgis_native"
    ELSE IF c.type = "gpt_megatron" THEN "ibm_fms"
    ELSE IF c.framework = "hf_transformers" /\ c.world > 1 /\ c.type # "hf_adapted" THEN "tgis_native"
    ELSE c.framework

\* get_model: what the transformers library can do with the type, bart as a
\* sequence to sequence model only.
Supports(c) == IF c.type = "bart" THEN c.hf \ {"causal"} ELSE c.hf

\* get_model: the wrapper, if any.  flash_attn and FlashCausalLM need a GPU.
get_model(c) ==
    IF c.paged THEN (IF c.type \in {"llama", "gpt_bigcode"} THEN "PagedCausalLM" ELSE Absent)
    ELSE IF c.flash THEN (IF c.gpus > 0 THEN "FlashCausalLM" ELSE Absent)
    ELSE IF c.type = "gpt_megatron" \/ "causal" \in Supports(c) THEN "CausalLM"
    ELSE IF "seq2seq" \in Supports(c) THEN "Seq2SeqLM"
    ELSE Absent

\* LlamaConfig.__init__: without key and value heads of its own a model has one
\* for each head.
LlamaConfig(c) == IF c.type = "llama" /\ c.kv = 0 THEN [c EXCEPT !.kv = c.heads] ELSE c

-----------------------------------------------------------------------------
\* BaseInferenceEngine.__init__: every rank has a GPU of its own, or the CPU.
EnoughGpus(c) == c.gpus > 0 => c.world <= c.gpus

\* hf_transformers and hf_accelerate: the quantizations they accept.
HfAccepts(c) == c.quantize \in {"none", "bitsandbytes"} \/ (c.quantize = "gptq" /\ c.bits = 4)

\* ds_inference: the types DeepSpeed has kernels for.
DeepSpeedAccepts(c) == c.dtype \in {"float16", "int8"}

\* ibm_fms: only gpt_megatron, if its sizes are those of a known variant.
FmsAccepts(c) == c.type = "gpt_megatron" /\ c.variant

\* Whether an engine other than tgis_native hands the model to its library.
LibraryAccepts(c, framework) ==
    CASE framework \in {"hf_transformers", "hf_accelerate"} -> HfAccepts(c)
      [] framework = "ds_inference" -> DeepSpeedAccepts(c)
      [] framework = "ibm_fms" -> FmsAccepts(c)
      [] OTHER -> TRUE

-----------------------------------------------------------------------------
\* tgis_native.

NONTP_FLASH_TYPES == FalconTypes \union {"gpt_neox", "gpt_bigcode", "llama"}
TP_NONFLASH_TYPES == {"bloom", "t5", "gpt_neox"}
TP_FLASH_TYPES == NONTP_FLASH_TYPES
NONTP_NONFLASH_TYPES == {"bloom", "t5"}

\* Starcoder checkpoints have the type of GPT-2.
model_type(c) == IF c.type = "gpt2" /\ c.bigcode THEN "gpt_bigcode" ELSE c.type

OneTable(c) == model_type(c) \in TP_FLASH_TYPES \union TP_NONFLASH_TYPES  \* mutant

TypeSupported(c) ==
    model_type(c) \in IF c.world > 1 THEN (IF c.flash THEN TP_FLASH_TYPES ELSE TP_NONFLASH_TYPES)
                      ELSE (IF c.flash THEN NONTP_FLASH_TYPES ELSE NONTP_NONFLASH_TYPES)

\* InferenceEngine.__init__: the class of a supported type, "auto" where none of
\* the engine's own is chosen.
model_class(c) ==
    CASE model_type(c) = "bloom"       -> "BloomForCausalLM"
      [] model_type(c) = "t5"          -> "T5ForConditionalGeneration"
      [] model_type(c) = "gpt_neox"    -> IF c.flash THEN "FlashGPTNeoXForCausalLM" ELSE "GPTNeoxForCausalLM"
      [] model_type(c) = "gpt_bigcode" -> IF c.paged THEN "PagedSantacoderForCausalLM" ELSE "FlashSantacoderForCausalLM"
      [] model_type(c) = "llama"       -> IF c.paged THEN "PagedLlamaForCausalLM" ELSE "FlashLlamaForCausalLM"
      [] model_type(c) \in FalconTypes -> IF c.world > 1 /\ c.alibi THEN Absent ELSE "FlashRWForCausalLM"
      [] OTHER                         -> "auto"

\* The other names under which a tensor may be found.
aliases(c) ==
    CASE model_type(c) = "t5" ->
            [shared |-> <<"encoder.embed_tokens", "decoder.embed_tokens">>, lm_head |-> <<"decoder.embed_tokens">>]
      [] model_type(c) = "gpt_bigcode" -> [wte |-> <<"lm_head">>]
      [] model_type(c) \in FalconTypes -> [word_embeddings |-> <<"lm_head">>, lm_head |-> <<"word_embeddings">>]
      [] OTHER -> <<>>

\* The tensors that a class reads for the token embedding and the head.
EmbeddingNames(c) ==
    CASE model_type(c) = "t5"          -> {"shared", "lm_head"}
      [] model_type(c) = "gpt_bigcode" -> {"wte"}
      [] model_type(c) = "bloom"       -> {"word_embeddings"}
      [] model_type(c) = "gpt_neox"    -> {"embed_in", "embed_out"}
      [] model_type(c) = "llama"       -> {"embed_tokens", "lm_head"}
      [] OTHER                         -> {"word_embeddings", "lm_head"}

\* Weights: safetensors files are required, and must hold every tensor read.
WeightsFound(c) ==
    c.safetensors /\ \A n \in EmbeddingNames(c) : get_filename(c.names, aliases(c), n) # Absent
=============================================================================
