---------------------------- MODULE ModelLoading ----------------------------
(***************************************************************************)
(* A model from its selection to its first tokens: get_model, the engine,  *)
(* the weights that each rank loads, the wrapper (CausalLM, Seq2SeqLM,     *)
(* FlashCausalLM, PagedCausalLM) with its batch type, then a prefill and   *)
(* decode steps of one request.  All ranks take the same decisions, from   *)
(* the same settings and files, so that a step is one of all ranks.        *)
(***************************************************************************)
EXTENDS Engines

CONSTANTS
    Configs,       \* bound: the settings and models tried
    PromptLength,  \* bound: tokens of a prompt
    MaxSteps       \* bound: decode steps

Llama == INSTANCE FlashLlama
NeoX == INSTANCE GPTNeoX
Santacoder == INSTANCE FlashSantacoder
RW == INSTANCE FlashRW
BloomModule == INSTANCE Bloom
T5Module == INSTANCE T5

VARIABLES
    config,      \* the settings, the model's config and its checkpoint
    stage,       \* how far it has got
    wrapper,     \* the wrapper's class
    class,       \* the model's class
    batch_type,
    inputs,      \* tokens of the prefill (of the encoder for T5)
    outputs,     \* tokens fed to the decode steps (to the decoder for T5)
    past,        \* keys and values
    encoded,     \* encoder output
    logits       \* of every rank, after the last pass

vars == <<config, stage, wrapper, class, batch_type, inputs, outputs, past, encoded, logits>>

Causal == <<>>  \* encoded, where there is no encoder

Init ==
    /\ config \in {LlamaConfig(c) : c \in Configs}
    /\ stage = "start" /\ wrapper = Absent /\ class = Absent /\ batch_type = Absent
    /\ inputs = <<>> /\ outputs = <<>> /\ past = <<>> /\ encoded = Causal /\ logits = <<>>

-----------------------------------------------------------------------------
\* What the class of a model does.

SantacoderClasses == {"FlashSantacoderForCausalLM", "PagedSantacoderForCausalLM"}

ClassLoads(k, c) ==
    /\ get_linear(c) # Absent
    /\ CASE k = "FlashLlamaForCausalLM"      -> Llama!Loads(c)
         [] k = "PagedLlamaForCausalLM"      -> Llama!PagedLoads(c)
         [] k = "FlashGPTNeoXForCausalLM"    -> NeoX!FlashLoads(c)
         [] k = "GPTNeoxForCausalLM"         -> NeoX!Loads(c)
         [] k = "FlashSantacoderForCausalLM" -> Santacoder!Loads(c)
         [] k = "PagedSantacoderForCausalLM" -> Santacoder!PagedLoads(c)
         [] k = "FlashRWForCausalLM"         -> RW!Loads(c)
         [] k = "BloomForCausalLM"           -> BloomModule!Loads(c)
         [] k = "T5ForConditionalGeneration" -> T5Module!Loads(c)
         [] OTHER                            -> FALSE

\* Whether a forward pass gets through: the shapes it expects are those loaded.
ForwardRuns(k, c) ==
    CASE k \in {"FlashLlamaForCausalLM", "PagedLlamaForCausalLM"} -> Llama!Splits(c)
      [] k = "FlashRWForCausalLM" -> RW!Splits(c)
      [] k = "BloomForCausalLM"   -> BloomModule!Splits(c)
      [] OTHER                    -> TRUE

word_embeddings(k, c, tokens) ==
    IF k \in SantacoderClasses THEN Santacoder!word_embeddings(c, tokens) ELSE Llama!word_embeddings(c, tokens)

mask(tokens) == [t \in DOMAIN tokens |-> ~tokens[t].pad]

\* A pass of a decoder over new tokens; seen are all tokens up to them.
Forward(k, c, embeds, tokens, seen, kv) ==
    CASE k = "FlashLlamaForCausalLM"      -> Llama!forward(c, embeds, tokens, kv)
      [] k = "PagedLlamaForCausalLM"      -> Llama!paged_forward(c, embeds, tokens, kv)
      [] k = "FlashGPTNeoXForCausalLM"    -> NeoX!flash_forward(c, embeds, tokens, kv)
      [] k = "GPTNeoxForCausalLM"         -> NeoX!forward(c, embeds, tokens, mask(seen), kv)
      [] k = "FlashSantacoderForCausalLM" -> Santacoder!forward(c, embeds, tokens, kv)
      [] k = "PagedSantacoderForCausalLM" -> Santacoder!paged_forward(c, embeds, tokens, kv)
      [] k = "FlashRWForCausalLM"         -> RW!forward(c, embeds, tokens, kv)
      [] k = "BloomForCausalLM"           -> BloomModule!forward(c, embeds, mask(seen), kv)

NoPast(c) == [l \in 1..c.layers |-> [r \in AllRanks(c) |-> <<>>]]

NeverZero(k, rank) == FALSE  \* mutant

\* Model.__init__: where the embedding is not reduced only one rank adds a prefix.
return_zero(k, rank) == k \in SantacoderClasses /\ rank # 0

\* The embeddings of the tokens, a prompt prefix in the place of its own.
inputs_embeds(k, c, tokens) ==
    LET embeds == word_embeddings(k, c, tokens)
        prefix(r, t) == IF return_zero(k, r) THEN EmptyBag ELSE SetToBag({<<<<0, "prefix">>, tokens[t].id>>})
    IN  [r \in AllRanks(c) |-> [t \in DOMAIN tokens |->
            IF tokens[t].virtual THEN prefix(r, t) ELSE embeds[r][t]]]

-----------------------------------------------------------------------------
\* get_model.
Select ==
    /\ stage = "start"
    /\ wrapper' = get_model(config)
    /\ stage' = IF get_model(config) = Absent THEN "refused" ELSE "selected"
    /\ UNCHANGED <<config, class, batch_type, inputs, outputs, past, encoded, logits>>

\* The engine's constructor up to its weights: the GPUs are checked, then the
\* type.  A model of another engine is the library's.
StartEngine ==
    /\ stage = "selected"
    /\ LET framework == deployment_framework(config) IN
       IF ~EnoughGpus(config) THEN stage' = "refused" /\ class' = Absent
       ELSE IF framework # "tgis_native"
       THEN stage' = (IF LibraryAccepts(config, framework) THEN "library" ELSE "refused") /\ class' = Absent
       ELSE IF ~TypeSupported(config) \/ model_class(config) = Absent THEN stage' = "refused" /\ class' = Absent
       ELSE stage' = "weights" /\ class' = model_class(config)
    /\ UNCHANGED <<config, wrapper, batch_type, inputs, outputs, past, encoded, logits>>

\* The rest of it: the weights, and the model made of them.
LoadWeights ==
    /\ stage = "weights"
    /\ stage' = IF WeightsFound(config) /\ ClassLoads(class, config) THEN "loaded" ELSE "refused"
    /\ UNCHANGED <<config, wrapper, class, batch_type, inputs, outputs, past, encoded, logits>>

\* The last dimension of a cached key and value after a pass over one token.
KeyShape(k, c) == IF k = "BloomForCausalLM" THEN 1 ELSE c.size
ValueShape(c) == c.size

NeverTransposed(k, c) == TRUE  \* mutant

keys_head_dim_last(k, c) == KeyShape(k, c) = ValueShape(c)

\* CausalLM.__init__ and Seq2SeqLM.__init__ run one token through the model to
\* see the layout of its cache; the others know theirs.
InitWrapper ==
    /\ stage = "loaded"
    /\ LET probes == wrapper \in {"CausalLM", "Seq2SeqLM"} IN
       IF probes /\ ~ForwardRuns(class, config) THEN stage' = "failed" /\ batch_type' = Absent
       ELSE /\ stage' = "ready"
            /\ batch_type' =
                 CASE wrapper = "CausalLM" ->
                        IF keys_head_dim_last(class, config) THEN "CausalLMBatch" ELSE "KeysDimTransposedCausalLMBatch"
                   [] wrapper = "Seq2SeqLM" ->
                        IF keys_head_dim_last(class, config) THEN "Seq2SeqLMBatch" ELSE "KeysDimTransposedSeq2SeqLMBatch"
                   [] wrapper = "FlashCausalLM" -> "FlashCausalLMBatch"
                   [] wrapper = "PagedCausalLM" -> "PagedCausalLMBatch"
    /\ UNCHANGED <<config, wrapper, class, inputs, outputs, past, encoded, logits>>

-----------------------------------------------------------------------------
Ids(c) == 0..c.vocab - 1

\* A token of the request, at the position of those that are not padding.
Token(id, position) == [id |-> id, position |-> position, pad |-> FALSE, virtual |-> FALSE]

\* from_pb: padding (for a longer request of the batch), prefix and prompt.
Padded(c, prompt) ==
    LET padding == [i \in 1..c.pad |-> [id |-> 0, position |-> 1, pad |-> TRUE, virtual |-> FALSE]]
        prefix == IF c.prefix THEN <<[id |-> 0, position |-> 0, pad |-> FALSE, virtual |-> TRUE]>> ELSE <<>>
    IN  padding \o prefix \o [i \in DOMAIN prompt |-> Token(prompt[i], Len(prefix) + i - 1)]

\* The token that starts a decoder.
StartToken == Token(0, 0)

\* What generate_token keeps of a forward pass.
Generates(out) == past' = out.past /\ logits' = out.logits

\* The forward pass of a prefill; an encoder runs first.
PrefillDecoder(tokens) ==
    /\ Generates(Forward(class, config, inputs_embeds(class, config, tokens), tokens, tokens, NoPast(config)))
    /\ outputs' = <<>> /\ encoded' = Causal

PrefillEncoded(tokens, enc) ==
    /\ Generates(T5Module!forward(config, <<StartToken>>, T5Module!NoPast(config), enc, mask(tokens)))
    /\ outputs' = <<StartToken>> /\ encoded' = enc

\* generate_token with first=True.
Prefill(prompt) ==
    /\ stage = "ready"
    /\ LET tokens == Padded(config, prompt) IN
       IF ~ForwardRuns(class, config)
       THEN stage' = "failed" /\ UNCHANGED <<inputs, outputs, past, encoded, logits>>
       ELSE /\ stage' = "generating" /\ inputs' = tokens
            /\ IF wrapper = "Seq2SeqLM"
               THEN PrefillEncoded(tokens, T5Module!encoder(config, inputs_embeds(class, config, tokens), mask(tokens)))
               ELSE PrefillDecoder(tokens)
    /\ UNCHANGED <<config, wrapper, class, batch_type>>

\* generate_token on the token chosen in the last step.
Decode(id) ==
    /\ stage = "generating"
    /\ Len(outputs) < MaxSteps
    /\ IF class = "BloomForCausalLM" /\ ~BloomModule!DecodeRuns(config)
       THEN stage' = "failed" /\ UNCHANGED <<outputs, past, logits>>
       ELSE LET before == SelectSeq(inputs \o outputs, LAMBDA t : ~t.pad)
                token == Token(id, IF wrapper = "Seq2SeqLM" THEN Len(outputs) ELSE Len(before))
            IN  /\ outputs' = Append(outputs, token) /\ UNCHANGED stage
                /\ Generates(
                     IF wrapper = "Seq2SeqLM" THEN T5Module!forward(config, <<token>>, past, encoded, mask(inputs))
                     ELSE Forward(class, config, inputs_embeds(class, config, <<token>>), <<token>>,
                                  inputs \o outputs \o <<token>>, past))
    /\ UNCHANGED <<config, wrapper, class, batch_type, inputs, encoded>>

Next ==
    \/ Select \/ StartEngine \/ LoadWeights \/ InitWrapper
    \/ \E prompt \in [1..PromptLength -> Ids(config)] : Prefill(prompt)
    \/ \E id \in Ids(config) : Decode(id)

Spec == Init /\ [][Next]_vars

-----------------------------------------------------------------------------
\* The model on one device: one implementation of each architecture, without
\* padding, in one pass over all tokens.
ReferenceClass(k) ==
    CASE k = "PagedLlamaForCausalLM"      -> "FlashLlamaForCausalLM"
      [] k = "PagedSantacoderForCausalLM" -> "FlashSantacoderForCausalLM"
      [] k = "FlashGPTNeoXForCausalLM"    -> "GPTNeoxForCausalLM"
      [] OTHER                            -> k

ReferenceLogits ==
    LET c == [config EXCEPT !.world = 1]
        k == ReferenceClass(class)
        prompt == SelectSeq(inputs, LAMBDA t : ~t.pad)
        all == prompt \o outputs
    IN  (IF wrapper = "Seq2SeqLM"
         THEN T5Module!forward(c, outputs, T5Module!NoPast(c),
                               T5Module!encoder(c, inputs_embeds(k, c, prompt), mask(prompt)), mask(prompt))
         ELSE Forward(k, c, inputs_embeds(k, c, all), all, all, NoPast(c))).logits[0]

\* Two implementations are known to compute another model: the quantized weights
\* of GPT-NeoX are not permuted for the flash model, and the paged Llama model
\* leaves out the scaling of the rotary embedding.  And a vocabulary that does not
\* divide leaves ids to no rank, which are embedded to zero.
OnNoRank(token) == ~token.virtual /\ token.id >= config.world * (config.vocab \div config.world)

OtherModel ==
    \/ class = "FlashGPTNeoXForCausalLM" /\ config.quantize = "gptq"
    \/ class = "PagedLlamaForCausalLM" /\ config.rope # "none"
    \/ \E token \in Range(inputs \o outputs) : OnNoRank(token)

\* Every rank's logits are those of the whole model on one device over all tokens
\* at once: splitting the weights, adding biases, embeddings and prefixes on one
\* rank only, deferring reductions, padding and the cache change nothing.  Where they
\* compute another model, all ranks compute the same one.
ShardsComputeTheModel ==
    stage = "generating" =>
        /\ \A q, r \in AllRanks(config) : logits[q] = logits[r]
        /\ ~OtherModel => \A r \in AllRanks(config) : logits[r] = ReferenceLogits


\* get_model, which chooses the wrapper, and the engine, which chooses the class,
\* agree on the cache that they share: its kind, and the layout of its keys.
WrapperFitsModel ==
    stage \in {"ready", "generating"} =>
        batch_type =
            CASE class = "BloomForCausalLM" -> "KeysDimTransposedCausalLMBatch"
              [] class = "GPTNeoxForCausalLM" -> "CausalLMBatch"
              [] class = "T5ForConditionalGeneration" -> "Seq2SeqLMBatch"
              [] class \in {"PagedLlamaForCausalLM", "PagedSantacoderForCausalLM"} -> "PagedCausalLMBatch"
              [] OTHER -> "FlashCausalLMBatch"
=============================================================================
