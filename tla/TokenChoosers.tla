---------------------------- MODULE TokenChoosers ----------------------------
(***************************************************************************)
(* How the next tokens of a batch are chosen (utils/tokens.py and          *)
(* utils/logits_process.py): which processors a HeterogeneousNextToken-    *)
(* Chooser applies to which row, with whose parameters, and how that       *)
(* follows the rows when batches are concatenated and pruned.              *)
(*                                                                         *)
(* A processor is the column of its values, one per row, and <<>> when it  *)
(* was left out because every value has no effect.  Probabilities are      *)
(* percentages.  A sampling is the number of random draws it has made.     *)
(***************************************************************************)
EXTENDS Ordering, FiniteSetsExt

Column(s, F(_)) == [k \in DOMAIN s |-> F(s[k])]

\* "any(x != neutral for x in column)"
Needed(column, neutral) == IF \E k \in DOMAIN column : column[k] # neutral THEN column ELSE <<>>

KeepsAll(column, indices, neutral) == column      \* mutant
FilterColumn(column, indices, neutral) ==
    IF column = <<>> THEN <<>> ELSE Needed(Pick(column, indices), neutral)

----------------------------------------------------------------------------
(* HeterogeneousSampling: greedy rows take the argmax, the others draw from *)
(* a generator of their own.                                                *)

NoSampling == -1        \* None in the list of samplings

\* Existing samplings are taken over, to preserve the state of their generators.
NewSampling(seed) == IF seed = NoSampling THEN 0 ELSE seed
MakeSampling(do_sample, seeds) ==
    [greedy_indices   |-> {k \in DOMAIN do_sample : ~do_sample[k]},
     sampling_mapping |-> {k \in DOMAIN do_sample : do_sample[k]},
     samplings |-> [k \in DOMAIN do_sample |->
                        IF do_sample[k] THEN NewSampling(seeds[k]) ELSE NoSampling]]

Draw(c) ==
    [c EXCEPT !.samplings = [k \in DOMAIN @ |->
        IF k \in c.sampling_mapping THEN @[k] + 1 ELSE @[k]]]

FilterSampling(c, indices) ==
    [greedy_indices   |-> {k \in DOMAIN indices : indices[k] \notin c.sampling_mapping},
     sampling_mapping |-> {k \in DOMAIN indices : indices[k] \in c.sampling_mapping},
     samplings        |-> Pick(c.samplings, indices)]

\* Greedy() answers None for every row.
Greedy(n) == MakeSampling([k \in 1 .. n |-> FALSE], [k \in 1 .. n |-> NoSampling])

----------------------------------------------------------------------------
(* HeterogeneousNextTokenChooser.                                           *)

AnyOf(s) == \E k \in DOMAIN s : s[k]

Disabled(p) == IF p > 0 THEN p ELSE 100
Corrected(temperature) == IF temperature # 0 THEN temperature ELSE 1
NoLengthPenalty == <<>>

\* The index of the k-th score and whether top_k is off for the row.
TopKEntry(k) == [value |-> k, index |-> Max({k - 1, 0}), disabled |-> k = 0]

\* pb is the list of the requests' parameters; samplings and current_tokens come from
\* the choosers that are combined and are <<>> for a new batch.
MakeChooser(pb, return_logprobs, samplings, current_tokens) ==
    LET do_sample == Column(pb, LAMBDA p : p.temperature # 0)
        seeds == IF samplings = <<>> THEN Column(pb, LAMBDA p : NoSampling) ELSE samplings
        Warper(column, neutral) == IF AnyOf(do_sample) THEN Needed(column, neutral) ELSE <<>>
        temperatures == Column(pb, LAMBDA p : p.temperature)
    IN  [repetition_processor |-> Needed(Column(pb, LAMBDA p : p.repetition_penalty), 1),
         temperature |-> IF AnyOf(do_sample) /\ Needed(temperatures, 1) # <<>>
                         THEN Column(pb, LAMBDA p : Corrected(p.temperature)) ELSE <<>>,
         top_k       |-> Warper(Column(pb, LAMBDA p : TopKEntry(p.top_k)), TopKEntry(0)),
         top_p       |-> Warper(Column(pb, LAMBDA p : Disabled(p.top_p)), 100),
         typical_p   |-> Warper(Column(pb, LAMBDA p : Disabled(p.typical_p)), 100),
         choice      |-> IF AnyOf(do_sample) THEN MakeSampling(do_sample, seeds) ELSE Greedy(Len(pb)),
         do_sample   |-> do_sample,
         length_penalty |-> Column(pb, LAMBDA p : p.length_penalty),
         min_new_tokens |-> Column(pb, LAMBDA p : p.min_new_tokens),
         return_logprobs |-> return_logprobs,
         current_tokens |-> IF current_tokens = <<>> THEN Column(pb, LAMBDA p : 0)
                            ELSE current_tokens]

\* What concatenate passes on from the choosers of the batches.
NewChooser(pb) == MakeChooser(pb, Column(pb, LAMBDA p : p.logprobs), <<>>, <<>>)

Restarts(pb, c1, c2) ==     \* mutant
    MakeChooser(pb, c1.return_logprobs \o c2.return_logprobs, <<>>,
                c1.current_tokens \o c2.current_tokens)
CombineChoosers(pb, c1, c2) ==
    MakeChooser(pb, c1.return_logprobs \o c2.return_logprobs,
                c1.choice.samplings \o c2.choice.samplings,
                c1.current_tokens \o c2.current_tokens)

\* A column is filtered by its own list of values; a chooser left without sampling
\* rows becomes greedy.
FilterChooser(c, indices) ==
    LET do_sample == Pick(c.do_sample, indices) IN
    [repetition_processor |-> FilterColumn(c.repetition_processor, indices, 1),
     temperature     |-> FilterColumn(c.temperature, indices, 1),
     top_k           |-> FilterColumn(c.top_k, indices, TopKEntry(0)),
     top_p           |-> FilterColumn(c.top_p, indices, 100),
     typical_p       |-> FilterColumn(c.typical_p, indices, 100),
     choice          |-> IF AnyOf(do_sample) THEN FilterSampling(c.choice, indices)
                         ELSE Greedy(Len(indices)),
     do_sample       |-> do_sample,
     length_penalty  |-> Pick(c.length_penalty, indices),
     min_new_tokens  |-> Pick(c.min_new_tokens, indices),
     return_logprobs |-> Pick(c.return_logprobs, indices),
     current_tokens  |-> Pick(c.current_tokens, indices)]

\* Tokens are counted while the minimum or a length penalty needs them.
Counts(c, k) == c.current_tokens[k] < c.min_new_tokens[k] \/ c.length_penalty[k] # NoLengthPenalty

\* One call: the minimum and the length penalty, the processors, the choice.
Choose(c) ==
    [c EXCEPT !.current_tokens = [k \in DOMAIN @ |-> IF Counts(c, k) THEN @[k] + 1 ELSE @[k]],
              !.choice = Draw(c.choice)]

----------------------------------------------------------------------------
(* What happens to the scores of row k, as a record.                        *)

\* The length penalty grows with the tokens past its start.
TokensPast(length_penalty, n) ==
    IF length_penalty = NoLengthPenalty THEN 0 ELSE Max({0, n - length_penalty[1]})

ValueIn(column, k, neutral) == IF column = <<>> THEN neutral ELSE column[k]

Effect(c, k) ==
    [eos_blocked |-> c.current_tokens[k] < c.min_new_tokens[k],
     tokens_past |-> TokensPast(c.length_penalty[k], c.current_tokens[k]),
     repetition_penalty |-> ValueIn(c.repetition_processor, k, 1),
     temperature |-> ValueIn(c.temperature, k, 1),
     top_k     |-> ValueIn(c.top_k, k, TopKEntry(0)),
     top_p     |-> ValueIn(c.top_p, k, 100),
     typical_p |-> ValueIn(c.typical_p, k, 100),
     sampled   |-> k \in c.choice.sampling_mapping,
     draws     |-> c.choice.samplings[k],
     logprobs  |-> c.return_logprobs[k]]

\* What the parameters of a request ask for, after it has generated n tokens.
Wanted(p, n) ==
    [eos_blocked |-> n < p.min_new_tokens,
     tokens_past |-> TokensPast(p.length_penalty, n),
     repetition_penalty |-> p.repetition_penalty,
     temperature |-> Corrected(p.temperature),
     top_k     |-> TopKEntry(p.top_k),
     top_p     |-> Disabled(p.top_p),
     typical_p |-> Disabled(p.typical_p),
     sampled   |-> p.temperature # 0,
     draws     |-> IF p.temperature # 0 THEN n ELSE NoSampling,
     logprobs  |-> p.logprobs]
=============================================================================
