--------------------------- MODULE MCShardStartup ---------------------------
EXTENDS ShardStartup

\* Limits that leave room for a request, and three that do not: one token too many,
\* several, and no second token.
MCLimits == {<<2, 4>>, <<4, 4>>, <<5, 3>>, <<1, 2>>}

\* The settings that are refused or inferred, and models that cannot be loaded, are tried
\* without an estimation or in the separate process, other limits with the compiler.
MCConfigs ==
    {c \in [ESTIMATE_MEMORY : {"auto", "manual", "off"}, PAGED_ATTENTION : BOOLEAN, PT2_COMPILE : BOOLEAN,
            cuda : BOOLEAN, quantize : {"none", "gptq", "bitsandbytes", "other"},
            dtype : {"none", "float16", "int8"}, batch_padding : BOOLEAN, loads : BOOLEAN,
            max_new_tokens : {1, 2, 4, 5}, max_sequence_length : {2, 3, 4}] :
        /\ <<c.max_new_tokens, c.max_sequence_length>> \in MCLimits
        /\ <<c.max_new_tokens, c.max_sequence_length>> # <<2, 4>> =>
              c.PT2_COMPILE /\ c.ESTIMATE_MEMORY = "off" /\ ~c.PAGED_ATTENTION /\ c.dtype = "float16"
        /\ c.batch_padding => c.ESTIMATE_MEMORY = "manual"
        /\ c.PT2_COMPILE => c.ESTIMATE_MEMORY # "manual"
        /\ c.quantize # "none" \/ c.dtype = "int8" =>
              /\ ~c.PT2_COMPILE
              /\ \/ c.ESTIMATE_MEMORY = "off"
                 \/ c.quantize = "other" /\ c.ESTIMATE_MEMORY = "auto" /\ c.PAGED_ATTENTION
        /\ ~c.loads => c.ESTIMATE_MEMORY # "manual" /\ ~c.PT2_COMPILE
        /\ c.dtype = "none" => c.ESTIMATE_MEMORY # "manual" /\ ~c.PT2_COMPILE}

MCDevice(prefill, tokens) == [prefill |-> prefill, tokens |-> tokens]

\* Devices alike, with less and less memory, and pairs that are not.
MCCapacities ==
    {[r \in Ranks |-> d] : d \in {MCDevice(40, 26), MCDevice(40, 7), MCDevice(18, 40), MCDevice(13, 9),
                                  MCDevice(9, 40), MCDevice(7, 40)}}
    \cup {[r \in Ranks |-> IF r = 1 THEN p[1] ELSE p[2]] :
            p \in {<<MCDevice(40, 26), MCDevice(18, 40)>>, <<MCDevice(18, 9), MCDevice(18, 40)>>,
                   <<MCDevice(13, 40), MCDevice(14, 40)>>, <<MCDevice(7, 40), MCDevice(40, 26)>>}}

\* A padded model, one without a linear part, and one for which two do not fit.
MCFits == {Memory(12, 1, 0, 1, 1, 1), Memory(6, 0, 1, 1, 2, 1), Memory(3, 2, 0, 0, 1, 1)}
=============================================================================
