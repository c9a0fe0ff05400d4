--------------------------- MODULE MCModelBatches ---------------------------
EXTENDS ModelBatches

Neutral == [temperature |-> 0, top_k |-> 0, top_p |-> 100, typical_p |-> 100,
            repetition_penalty |-> 1, min_new_tokens |-> 0, length_penalty |-> NoLengthPenalty,
            logprobs |-> FALSE]

\* A plain request that samples, one whose text is truncated, greedy with penalties,
\* and one with prefixes.
MCShapes ==
    { [text |-> 1, input |-> 1, prefix |-> 0, decoder_prefix |-> 0, output |-> 5,
       parameters |-> [Neutral EXCEPT !.temperature = 2, !.top_k = 3, !.top_p = 90, !.typical_p = 50]],
      [text |-> 4, input |-> 2, prefix |-> 0, decoder_prefix |-> 0, output |-> 2,
       parameters |-> [Neutral EXCEPT !.repetition_penalty = 2, !.min_new_tokens = 1,
                                      !.logprobs = TRUE]],
      [text |-> 2, input |-> 2, prefix |-> 2, decoder_prefix |-> 2, output |-> 3,
       parameters |-> [Neutral EXCEPT !.top_p = 0,
                                      !.length_penalty = <<1>>]] }
=============================================================================
