------------------------- MODULE ModelBatchesProofs -------------------------
(***************************************************************************)
(* What ModelBatches says of the batch types holds for any requests, and   *)
(* any sequence of prefills, steps, concatenations and prunings.  The rows *)
(* of a batch and the columns of its chooser move by different code: the   *)
(* invariant says of each column what it has for each row.  Tensors are    *)
(* cut and written by offsets that depend on one another: the invariant    *)
(* also says how long each of them is, by the lengths of the rows.         *)
(***************************************************************************)
EXTENDS ModelBatches, FiniteSums, SequencesExt, SequenceTheorems

-----------------------------------------------------------------------------
(* The batch types use the operators of TokenChoosers, Ordering and         *)
(* TensorSlices under names of their own.                                   *)

\* Those of the padded batch ...
LEMMA CausalNames ==
  ASSUME NEW c, NEW d, NEW pb, NEW indices, NEW done, NEW failed
  PROVE  /\ Causal!NewChooser(pb) = NewChooser(pb)
         /\ Causal!CombineChoosers(pb, c, d) = CombineChoosers(pb, c, d)
         /\ Causal!FilterChooser(c, indices) = FilterChooser(c, indices)
         /\ Causal!Choose(c) = Choose(c)
         /\ Causal!Pick(pb, indices) = Pick(pb, indices)
         /\ Causal!KeepIndices(c, done) = KeepIndices(c, done)
         /\ Causal!Accepted(pb, failed) = Accepted(pb, failed)
  <1> USE DEF
              Causal!AnyOf, AnyOf, Causal!Greedy, Greedy, Causal!MakeSampling, MakeSampling,
              Causal!NoSampling, NoSampling, Causal!NewSampling, NewSampling, Causal!TopKEntry,
              TopKEntry, Causal!Needed, Needed, Causal!Max, Max
  <1>1. Causal!Choose(c) = Choose(c)
      BY DEF Causal!Choose, Choose, Causal!Draw, Draw, Causal!Counts, Counts,
             Causal!NoLengthPenalty, NoLengthPenalty
  <1>2. Causal!FilterChooser(c, indices) = FilterChooser(c, indices)
      BY DEF Causal!FilterChooser, FilterChooser, Causal!Pick, Pick,
             Causal!FilterColumn, FilterColumn, Causal!FilterSampling, FilterSampling
  <1>3. Causal!Pick(pb, indices) = Pick(pb, indices)
      BY DEF Causal!Pick, Pick
  <1>4. Causal!KeepIndices(c, done) = KeepIndices(c, done)
      BY DEF Causal!KeepIndices, KeepIndices, Causal!InOrder, InOrder, Causal!Cardinality, Cardinality
  <1>5. Causal!Accepted(pb, failed) = Accepted(pb, failed)
      BY DEF Causal!Accepted, Accepted, Causal!InOrder, InOrder, Causal!Pick, Pick, Causal!Cardinality, Cardinality
  <1> USE DEF
              Causal!MakeChooser, MakeChooser, Causal!Column, Column, Causal!Corrected,
              Corrected, Causal!Disabled, Disabled
  <1>6. Causal!NewChooser(pb) = NewChooser(pb)
      BY DEF Causal!NewChooser, NewChooser
  <1>7. Causal!CombineChoosers(pb, c, d) = CombineChoosers(pb, c, d)
      BY DEF Causal!CombineChoosers, CombineChoosers
  <1>. QED  BY <1>1, <1>2, <1>3, <1>4, <1>5, <1>6, <1>7

\* ... of the encoder-decoder batch ...
LEMMA Seq2SeqNames ==
  ASSUME NEW c, NEW d, NEW pb, NEW indices, NEW done, NEW failed
  PROVE  /\ Seq2Seq!NewChooser(pb) = NewChooser(pb)
         /\ Seq2Seq!CombineChoosers(pb, c, d) = CombineChoosers(pb, c, d)
         /\ Seq2Seq!FilterChooser(c, indices) = FilterChooser(c, indices)
         /\ Seq2Seq!Choose(c) = Choose(c)
         /\ Seq2Seq!Pick(pb, indices) = Pick(pb, indices)
         /\ Seq2Seq!KeepIndices(c, done) = KeepIndices(c, done)
         /\ Seq2Seq!Accepted(pb, failed) = Accepted(pb, failed)
  <1> USE DEF
              Seq2Seq!AnyOf, AnyOf, Seq2Seq!Greedy, Greedy, Seq2Seq!MakeSampling, MakeSampling,
              Seq2Seq!NoSampling, NoSampling, Seq2Seq!NewSampling, NewSampling,
              Seq2Seq!TopKEntry, TopKEntry, Seq2Seq!Needed, Needed, Seq2Seq!Max, Max
  <1>1. Seq2Seq!Choose(c) = Choose(c)
      BY DEF Seq2Seq!Choose, Choose, Seq2Seq!Draw, Draw, Seq2Seq!Counts, Counts,
             Seq2Seq!NoLengthPenalty, NoLengthPenalty
  <1>2. Seq2Seq!FilterChooser(c, indices) = FilterChooser(c, indices)
      BY DEF Seq2Seq!FilterChooser, FilterChooser, Seq2Seq!Pick, Pick,
             Seq2Seq!FilterColumn, FilterColumn, Seq2Seq!FilterSampling, FilterSampling
  <1>3. Seq2Seq!Pick(pb, indices) = Pick(pb, indices)
      BY DEF Seq2Seq!Pick, Pick
  <1>4. Seq2Seq!KeepIndices(c, done) = KeepIndices(c, done)
      BY DEF Seq2Seq!KeepIndices, KeepIndices, Seq2Seq!InOrder, InOrder, Seq2Seq!Cardinality, Cardinality
  <1>5. Seq2Seq!Accepted(pb, failed) = Accepted(pb, failed)
      BY DEF Seq2Seq!Accepted, Accepted, Seq2Seq!InOrder, InOrder, Seq2Seq!Pick, Pick, Seq2Seq!Cardinality, Cardinality
  <1> USE DEF
              Seq2Seq!MakeChooser, MakeChooser, Seq2Seq!Column, Column, Seq2Seq!Corrected,
              Corrected, Seq2Seq!Disabled, Disabled
  <1>6. Seq2Seq!NewChooser(pb) = NewChooser(pb)
      BY DEF Seq2Seq!NewChooser, NewChooser
  <1>7. Seq2Seq!CombineChoosers(pb, c, d) = CombineChoosers(pb, c, d)
      BY DEF Seq2Seq!CombineChoosers, CombineChoosers
  <1>. QED  BY <1>1, <1>2, <1>3, <1>4, <1>5, <1>6, <1>7

\* ... of the unpadded batch ...
LEMMA FlashNames ==
  ASSUME NEW c, NEW d, NEW pb, NEW indices, NEW done, NEW failed
  PROVE  /\ Flash!NewChooser(pb) = NewChooser(pb)
         /\ Flash!CombineChoosers(pb, c, d) = CombineChoosers(pb, c, d)
         /\ Flash!FilterChooser(c, indices) = FilterChooser(c, indices)
         /\ Flash!Choose(c) = Choose(c)
         /\ Flash!Pick(pb, indices) = Pick(pb, indices)
         /\ Flash!KeepIndices(c, done) = KeepIndices(c, done)
         /\ Flash!Accepted(pb, failed) = Accepted(pb, failed)
  <1> USE DEF
              Flash!AnyOf, AnyOf, Flash!Greedy, Greedy, Flash!MakeSampling, MakeSampling,
              Flash!NoSampling, NoSampling, Flash!NewSampling, NewSampling, Flash!TopKEntry,
              TopKEntry, Flash!Needed, Needed, Flash!Max, Max
  <1>1. Flash!Choose(c) = Choose(c)
      BY DEF Flash!Choose, Choose, Flash!Draw, Draw, Flash!Counts, Counts,
             Flash!NoLengthPenalty, NoLengthPenalty
  <1>2. Flash!FilterChooser(c, indices) = FilterChooser(c, indices)
      BY DEF Flash!FilterChooser, FilterChooser, Flash!Pick, Pick,
             Flash!FilterColumn, FilterColumn, Flash!FilterSampling, FilterSampling
  <1>3. Flash!Pick(pb, indices) = Pick(pb, indices)
      BY DEF Flash!Pick, Pick
  <1>4. Flash!KeepIndices(c, done) = KeepIndices(c, done)
      BY DEF Flash!KeepIndices, KeepIndices, Flash!InOrder, InOrder, Flash!Cardinality, Cardinality
  <1>5. Flash!Accepted(pb, failed) = Accepted(pb, failed)
      BY DEF Flash!Accepted, Accepted, Flash!InOrder, InOrder, Flash!Pick, Pick, Flash!Cardinality, Cardinality
  <1> USE DEF
              Flash!MakeChooser, MakeChooser, Flash!Column, Column, Flash!Corrected, Corrected,
              Flash!Disabled, Disabled
  <1>6. Flash!NewChooser(pb) = NewChooser(pb)
      BY DEF Flash!NewChooser, NewChooser
  <1>7. Flash!CombineChoosers(pb, c, d) = CombineChoosers(pb, c, d)
      BY DEF Flash!CombineChoosers, CombineChoosers
  <1>. QED  BY <1>1, <1>2, <1>3, <1>4, <1>5, <1>6, <1>7

\* ... and of the paged batch are the same.
LEMMA PagedNames ==
  ASSUME NEW c, NEW d, NEW pb, NEW indices, NEW done, NEW failed
  PROVE  /\ Paged!NewChooser(pb) = NewChooser(pb)
         /\ Paged!CombineChoosers(pb, c, d) = CombineChoosers(pb, c, d)
         /\ Paged!FilterChooser(c, indices) = FilterChooser(c, indices)
         /\ Paged!Choose(c) = Choose(c)
         /\ Paged!Pick(pb, indices) = Pick(pb, indices)
         /\ Paged!KeepIndices(c, done) = KeepIndices(c, done)
         /\ Paged!Accepted(pb, failed) = Accepted(pb, failed)
  <1> USE DEF
              Paged!AnyOf, AnyOf, Paged!Greedy, Greedy, Paged!MakeSampling, MakeSampling,
              Paged!NoSampling, NoSampling, Paged!NewSampling, NewSampling, Paged!TopKEntry,
              TopKEntry, Paged!Needed, Needed, Paged!Max, Max
  <1>1. Paged!Choose(c) = Choose(c)
      BY DEF Paged!Choose, Choose, Paged!Draw, Draw, Paged!Counts, Counts,
             Paged!NoLengthPenalty, NoLengthPenalty
  <1>2. Paged!FilterChooser(c, indices) = FilterChooser(c, indices)
      BY DEF Paged!FilterChooser, FilterChooser, Paged!Pick, Pick,
             Paged!FilterColumn, FilterColumn, Paged!FilterSampling, FilterSampling
  <1>3. Paged!Pick(pb, indices) = Pick(pb, indices)
      BY DEF Paged!Pick, Pick
  <1>4. Paged!KeepIndices(c, done) = KeepIndices(c, done)
      BY DEF Paged!KeepIndices, KeepIndices, Paged!InOrder, InOrder, Paged!Cardinality, Cardinality
  <1>5. Paged!Accepted(pb, failed) = Accepted(pb, failed)
      BY DEF Paged!Accepted, Accepted, Paged!InOrder, InOrder, Paged!Pick, Pick, Paged!Cardinality, Cardinality
  <1> USE DEF
              Paged!MakeChooser, MakeChooser, Paged!Column, Column, Paged!Corrected, Corrected,
              Paged!Disabled, Disabled
  <1>6. Paged!NewChooser(pb) = NewChooser(pb)
      BY DEF Paged!NewChooser, NewChooser
  <1>7. Paged!CombineChoosers(pb, c, d) = CombineChoosers(pb, c, d)
      BY DEF Paged!CombineChoosers, CombineChoosers
  <1>. QED  BY <1>1, <1>2, <1>3, <1>4, <1>5, <1>6, <1>7

-----------------------------------------------------------------------------
(* The choosers.                                                            *)

\* The column of a processor has the values V of the rows, or was left out because
\* all of them are neutral.
Covers(column, V, neutral) ==
    column = V \/ (column = <<>> /\ \A k \in DOMAIN V : V[k] = neutral)

\* A row's count of tokens, which stops at the minimum if nothing else needs it.
Counted(p, n) ==
    IF p.length_penalty # NoLengthPenalty \/ n < p.min_new_tokens THEN n ELSE p.min_new_tokens

\* Parameters as the router sends them.
Legal(p) ==
    /\ p.min_new_tokens \in Nat
    /\ p.temperature = 0 => p.top_k = 0 /\ Disabled(p.top_p) = 100 /\ Disabled(p.typical_p) = 100

ChooserFields ==
    {"repetition_processor", "temperature", "top_k", "top_p", "typical_p", "choice", "do_sample",
     "length_penalty", "min_new_tokens", "return_logprobs", "current_tokens"}

\* The chooser c is that of rows with the parameters P, for which it has been called G
\* times.
Carries(c, P, G) ==
    /\ DOMAIN c = ChooserFields
    /\ DOMAIN c.choice = {"greedy_indices", "sampling_mapping", "samplings"}
    /\ Covers(c.repetition_processor, [k \in DOMAIN P |-> P[k].repetition_penalty], 1)
    /\ Covers(c.temperature, [k \in DOMAIN P |-> Corrected(P[k].temperature)], 1)
    /\ Covers(c.top_k, [k \in DOMAIN P |-> TopKEntry(P[k].top_k)], TopKEntry(0))
    /\ Covers(c.top_p, [k \in DOMAIN P |-> Disabled(P[k].top_p)], 100)
    /\ Covers(c.typical_p, [k \in DOMAIN P |-> Disabled(P[k].typical_p)], 100)
    /\ c.choice.sampling_mapping = {k \in DOMAIN P : P[k].temperature # 0}
    /\ c.choice.samplings =
           [k \in DOMAIN P |-> IF P[k].temperature # 0 THEN G[k] ELSE NoSampling]
    /\ c.do_sample = [k \in DOMAIN P |-> P[k].temperature # 0]
    /\ c.length_penalty = [k \in DOMAIN P |-> P[k].length_penalty]
    /\ c.min_new_tokens = [k \in DOMAIN P |-> P[k].min_new_tokens]
    /\ c.return_logprobs = [k \in DOMAIN P |-> P[k].logprobs]
    /\ c.current_tokens = [k \in DOMAIN P |-> Counted(P[k], G[k])]

\* A chooser that carries the parameters does to a row what they ask for.
LEMMA CarriesEffect ==
  ASSUME NEW c, NEW P, NEW G, \A k \in DOMAIN P : Legal(P[k]) /\ G[k] \in Nat, Carries(c, P, G),
         NEW k \in DOMAIN P
  PROVE  Effect(c, k) = Wanted(P[k], G[k])
  <1> DEFINE p == P[k]  n == G[k]
  <1>1. p.min_new_tokens \in Nat /\ n \in Nat
      BY DEF Legal
  <1>2. c.current_tokens[k] = Counted(p, n) /\ c.length_penalty[k] = p.length_penalty
        /\ c.min_new_tokens[k] = p.min_new_tokens /\ c.return_logprobs[k] = p.logprobs
      BY DEF Carries
  <1>3. (Counted(p, n) < p.min_new_tokens) = (n < p.min_new_tokens)
      BY <1>1 DEF Counted
  <1>4. TokensPast(p.length_penalty, Counted(p, n)) = TokensPast(p.length_penalty, n)
      BY DEF TokensPast, Counted
  <1>5. /\ ValueIn(c.repetition_processor, k, 1) = p.repetition_penalty
        /\ ValueIn(c.temperature, k, 1) = Corrected(p.temperature)
        /\ ValueIn(c.top_k, k, TopKEntry(0)) = TopKEntry(p.top_k)
        /\ ValueIn(c.top_p, k, 100) = Disabled(p.top_p)
        /\ ValueIn(c.typical_p, k, 100) = Disabled(p.typical_p)
      <2>1. ASSUME NEW column, NEW V, DOMAIN V = DOMAIN P, NEW neutral, Covers(column, V, neutral)
            PROVE  ValueIn(column, k, neutral) = V[k]
          BY <2>1 DEF ValueIn, Covers
      <2>. QED  BY <2>1 DEF Carries
  <1>6. (k \in c.choice.sampling_mapping) = (p.temperature # 0)
        /\ c.choice.samplings[k] = IF p.temperature # 0 THEN n ELSE NoSampling
      BY DEF Carries
  <1>. QED  BY <1>2, <1>3, <1>4, <1>5, <1>6 DEF Effect, Wanted

\* The chooser of a new batch, and that of rows with the samplings and counts of others.
LEMMA MakeCarries ==
  ASSUME NEW n \in Nat \ {0}, NEW P, DOMAIN P = 1 .. n, Len(P) = n, NEW G,
         \A k \in 1 .. n : Legal(P[k]) /\ G[k] \in Nat, NEW samplings, NEW counts,
         \/ samplings = <<>> /\ \A k \in 1 .. n : G[k] = 0
         \/ /\ samplings = [k \in 1 .. n |-> IF P[k].temperature # 0 THEN G[k] ELSE NoSampling]
            /\ samplings # <<>>,
         \/ counts = <<>> /\ \A k \in 1 .. n : G[k] = 0
         \/ counts = [k \in 1 .. n |-> Counted(P[k], G[k])] /\ counts # <<>>
  PROVE  Carries(MakeChooser(P, [k \in 1 .. n |-> P[k].logprobs], samplings, counts), P, G)
  <1> DEFINE do_sample == [k \in 1 .. n |-> P[k].temperature # 0]
             c == MakeChooser(P, [k \in 1 .. n |-> P[k].logprobs], samplings, counts)
             seeds == IF samplings = <<>> THEN [k \in 1 .. n |-> NoSampling] ELSE samplings
             wanted == [k \in 1 .. n |-> IF P[k].temperature # 0 THEN G[k] ELSE NoSampling]
  <1>1. ~AnyOf(do_sample) => \A k \in 1 .. n : P[k].temperature = 0
      BY DEF AnyOf
  <1>2. ASSUME NEW V, NEW neutral PROVE Covers(Needed(V, neutral), V, neutral)
      BY DEF Covers, Needed
  <1>3. ASSUME NEW V, DOMAIN V = 1 .. n, NEW neutral,
               \A k \in 1 .. n : P[k].temperature = 0 => V[k] = neutral
        PROVE  Covers(IF AnyOf(do_sample) THEN Needed(V, neutral) ELSE <<>>, V, neutral)
      BY <1>1, <1>2, <1>3 DEF Covers
  <1>4. Covers(IF AnyOf(do_sample) /\ Needed([k \in 1 .. n |-> P[k].temperature], 1) # <<>>
               THEN [k \in 1 .. n |-> Corrected(P[k].temperature)] ELSE <<>>,
               [k \in 1 .. n |-> Corrected(P[k].temperature)], 1)
      <2>1. CASE ~AnyOf(do_sample)
          BY <1>1, <2>1 DEF Covers, Corrected
      <2>2. CASE Needed([k \in 1 .. n |-> P[k].temperature], 1) = <<>>
          <3>1. \A k \in 1 .. n : P[k].temperature = 1
              BY <2>2 DEF Needed
          <3>. QED  BY <2>2, <3>1 DEF Covers, Corrected
      <2>. QED  BY <2>1, <2>2 DEF Covers
  <1>5. /\ Covers(c.repetition_processor, [k \in DOMAIN P |-> P[k].repetition_penalty], 1)
        /\ Covers(c.temperature, [k \in DOMAIN P |-> Corrected(P[k].temperature)], 1)
      BY <1>2, <1>4 DEF MakeChooser, Column
  <1>6. /\ Covers(c.top_k, [k \in DOMAIN P |-> TopKEntry(P[k].top_k)], TopKEntry(0))
        /\ Covers(c.top_p, [k \in DOMAIN P |-> Disabled(P[k].top_p)], 100)
        /\ Covers(c.typical_p, [k \in DOMAIN P |-> Disabled(P[k].typical_p)], 100)
      <2>1. \A k \in 1 .. n : P[k].temperature = 0 =>
                /\ TopKEntry(P[k].top_k) = TopKEntry(0)
                /\ Disabled(P[k].top_p) = 100 /\ Disabled(P[k].typical_p) = 100
          BY DEF Legal
      <2>2. c.top_k = IF AnyOf(do_sample) THEN Needed([k \in 1 .. n |-> TopKEntry(P[k].top_k)], TopKEntry(0)) ELSE <<>>
          BY DEF MakeChooser, Column
      <2>3. c.top_p = IF AnyOf(do_sample) THEN Needed([k \in 1 .. n |-> Disabled(P[k].top_p)], 100) ELSE <<>>
          BY DEF MakeChooser, Column
      <2>4. c.typical_p = IF AnyOf(do_sample) THEN Needed([k \in 1 .. n |-> Disabled(P[k].typical_p)], 100) ELSE <<>>
          BY DEF MakeChooser, Column
      <2>5. Covers(c.top_k, [k \in 1 .. n |-> TopKEntry(P[k].top_k)], TopKEntry(0))
          <3> DEFINE V == [k \in 1 .. n |-> TopKEntry(P[k].top_k)]
          <3>1. DOMAIN V = 1 .. n /\ \A k \in 1 .. n : P[k].temperature = 0 => V[k] = TopKEntry(0)
              BY <2>1
          <3> HIDE DEF c, do_sample, V
          <3>. QED  BY <1>3, <2>2, <3>1 DEF V
      <2>6. Covers(c.top_p, [k \in 1 .. n |-> Disabled(P[k].top_p)], 100)
          <3> DEFINE V == [k \in 1 .. n |-> Disabled(P[k].top_p)]
          <3>1. DOMAIN V = 1 .. n /\ \A k \in 1 .. n : P[k].temperature = 0 => V[k] = 100
              BY <2>1
          <3> HIDE DEF c, do_sample, V
          <3>. QED  BY <1>3, <2>3, <3>1 DEF V
      <2>7. Covers(c.typical_p, [k \in 1 .. n |-> Disabled(P[k].typical_p)], 100)
          <3> DEFINE V == [k \in 1 .. n |-> Disabled(P[k].typical_p)]
          <3>1. DOMAIN V = 1 .. n /\ \A k \in 1 .. n : P[k].temperature = 0 => V[k] = 100
              BY <2>1
          <3> HIDE DEF c, do_sample, V
          <3>. QED  BY <1>3, <2>4, <3>1 DEF V
      <2> HIDE DEF c, do_sample
      <2>. QED  BY <2>5, <2>6, <2>7
  <1>7. \A k \in 1 .. n : P[k].temperature # 0 => NewSampling(seeds[k]) = G[k]
      <2>1. NoSampling \notin Nat
          BY DEF NoSampling
      <2>. QED  BY <2>1 DEF NewSampling
  <1>8. c.choice = IF AnyOf(do_sample) THEN MakeSampling(do_sample, seeds) ELSE Greedy(n)
      BY DEF MakeChooser, Column
  <1>9. /\ DOMAIN c.choice = {"greedy_indices", "sampling_mapping", "samplings"}
        /\ c.choice.sampling_mapping = {k \in DOMAIN P : P[k].temperature # 0}
        /\ c.choice.samplings = wanted
      <2> HIDE DEF c
      <2>1. CASE AnyOf(do_sample)
          <3>1. DOMAIN do_sample = 1 .. n /\ \A k \in 1 .. n : do_sample[k] <=> P[k].temperature # 0
              OBVIOUS
          <3>2. c.choice = MakeSampling(do_sample, seeds)
              BY <1>8, <2>1
          <3> HIDE DEF do_sample, seeds
          <3>3. c.choice.sampling_mapping = {k \in DOMAIN P : P[k].temperature # 0}
              BY <3>1, <3>2 DEF MakeSampling
          <3>4. c.choice.samplings = wanted
              BY <1>7, <3>1, <3>2 DEF MakeSampling
          <3>. QED  BY <3>2, <3>3, <3>4 DEF MakeSampling
      <2>2. CASE ~AnyOf(do_sample)
          BY <1>1, <1>8, <2>2 DEF Greedy, MakeSampling
      <2>. QED  BY <2>1, <2>2
  <1>10. DOMAIN c = ChooserFields
      BY DEF MakeChooser, ChooserFields
  <1>11. /\ c.do_sample = do_sample
         /\ c.length_penalty = [k \in DOMAIN P |-> P[k].length_penalty]
         /\ c.min_new_tokens = [k \in DOMAIN P |-> P[k].min_new_tokens]
         /\ c.return_logprobs = [k \in DOMAIN P |-> P[k].logprobs]
      BY DEF MakeChooser, Column
  <1>12. c.current_tokens = [k \in DOMAIN P |-> Counted(P[k], G[k])]
      <2>1. c.current_tokens = IF counts = <<>> THEN [k \in 1 .. n |-> 0] ELSE counts
          BY DEF MakeChooser, Column
      <2>2. counts = <<>> => \A k \in 1 .. n : Counted(P[k], G[k]) = 0
          <3>1. ASSUME NEW k \in 1 .. n, G[k] = 0 PROVE Counted(P[k], G[k]) = 0
              <4>1. P[k].min_new_tokens \in Nat
                  BY DEF Legal
              <4>. QED  BY <3>1, <4>1 DEF Counted
          <3>2. counts = <<>> => \A k \in 1 .. n : G[k] = 0
              OBVIOUS
          <3>. QED  BY <3>1, <3>2
      <2> HIDE DEF c
      <2>. QED  BY <2>1, <2>2
  <1>13. /\ c.choice.samplings =
               [k \in DOMAIN P |-> IF P[k].temperature # 0 THEN G[k] ELSE NoSampling]
         /\ c.do_sample = [k \in DOMAIN P |-> P[k].temperature # 0]
      BY <1>9, <1>11
  <1>14. Carries(c, P, G)
      <2> HIDE DEF c
      <2>. QED  BY <1>5, <1>6, <1>9, <1>10, <1>11, <1>12, <1>13 DEF Carries
  <1>. QED  BY <1>14

\* One call counts for every row and draws for those that sample.
LEMMA ChooseCarries ==
  ASSUME NEW c, NEW P, NEW G, \A k \in DOMAIN P : Legal(P[k]) /\ G[k] \in Nat, Carries(c, P, G)
  PROVE  Carries(Choose(c), P, [k \in DOMAIN P |-> G[k] + 1])
  <1> DEFINE d == Choose(c)
  <1>1. ASSUME NEW k \in DOMAIN P
        PROVE  (IF Counts(c, k) THEN c.current_tokens[k] + 1 ELSE c.current_tokens[k])
                   = Counted(P[k], G[k] + 1)
      <2>1. P[k].min_new_tokens \in Nat /\ G[k] \in Nat
          BY DEF Legal
      <2>2. /\ c.current_tokens[k] = Counted(P[k], G[k]) /\ c.min_new_tokens[k] = P[k].min_new_tokens
            /\ c.length_penalty[k] = P[k].length_penalty
          BY DEF Carries
      <2>. QED  BY <2>1, <2>2 DEF Counts, Counted
  <1>2. d.current_tokens = [k \in DOMAIN P |-> Counted(P[k], G[k] + 1)]
      BY <1>1 DEF Choose, Carries, ChooserFields
  <1>3. d.choice = Draw(c.choice)
      BY DEF Choose, Carries, ChooserFields
  <1>4. Draw(c.choice).samplings =
            [k \in DOMAIN P |-> IF P[k].temperature # 0 THEN G[k] + 1 ELSE NoSampling]
      BY DEF Draw, Carries
  <1>5. /\ DOMAIN Draw(c.choice) = DOMAIN c.choice
        /\ Draw(c.choice).sampling_mapping = c.choice.sampling_mapping
      BY DEF Draw, Carries
  <1>6. /\ DOMAIN d = DOMAIN c
        /\ d.repetition_processor = c.repetition_processor /\ d.temperature = c.temperature
        /\ d.top_k = c.top_k /\ d.top_p = c.top_p /\ d.typical_p = c.typical_p
        /\ d.do_sample = c.do_sample /\ d.length_penalty = c.length_penalty
        /\ d.min_new_tokens = c.min_new_tokens /\ d.return_logprobs = c.return_logprobs
      BY DEF Choose, Carries, ChooserFields
  <1> DEFINE H == [k \in DOMAIN P |-> G[k] + 1]
  <1>7. /\ d.choice.samplings = [k \in DOMAIN P |-> IF P[k].temperature # 0 THEN H[k] ELSE NoSampling]
        /\ d.current_tokens = [k \in DOMAIN P |-> Counted(P[k], H[k])]
      BY <1>2, <1>3, <1>4
  <1>8. Carries(d, P, H)
      <2> HIDE DEF d, H
      <2>. QED  BY <1>3, <1>5, <1>6, <1>7 DEF Carries
  <1>. QED  BY <1>8

\* The rows of the given indices keep theirs.
LEMMA FilterCarries ==
  ASSUME NEW c, NEW P, NEW G, Carries(c, P, G), NEW n \in Nat, NEW indices \in [1 .. n -> DOMAIN P],
         Len(indices) = n
  PROVE  Carries(FilterChooser(c, indices), Pick(P, indices), Pick(G, indices))
  <1> DEFINE d == FilterChooser(c, indices)  Q == Pick(P, indices)  H == Pick(G, indices)
  <1>1. DOMAIN Q = 1 .. n /\ \A k \in 1 .. n : indices[k] \in DOMAIN P /\ Q[k] = P[indices[k]] /\ H[k] = G[indices[k]]
      BY DEF Pick
  <1>2. ASSUME NEW column, NEW V, DOMAIN V = DOMAIN P, NEW neutral, Covers(column, V, neutral),
               NEW W, W = [k \in 1 .. n |-> V[indices[k]]]
        PROVE  Covers(FilterColumn(column, indices, neutral), W, neutral)
      <2>1. CASE column = <<>>
          <3>1. \A k \in 1 .. n : W[k] = neutral
              BY <1>1, <1>2, <2>1 DEF Covers
          <3>. QED  BY <1>2, <2>1, <3>1 DEF FilterColumn, Covers
      <2>2. CASE column # <<>>
          <3>1. column = V /\ Pick(column, indices) = W
              BY <1>2, <2>2 DEF Covers, Pick
          <3>. QED  BY <2>2, <3>1 DEF FilterColumn, Needed, Covers
      <2>. QED  BY <2>1, <2>2
  <1>3. Covers(d.repetition_processor, [k \in 1 .. n |-> Q[k].repetition_penalty], 1)
      <2> DEFINE V == [k \in DOMAIN P |-> P[k].repetition_penalty]
                 W == [k \in 1 .. n |-> Q[k].repetition_penalty]
      <2>1. DOMAIN V = DOMAIN P /\ W = [k \in 1 .. n |-> V[indices[k]]]
          BY <1>1
      <2>2. Covers(c.repetition_processor, V, 1) /\ d.repetition_processor = FilterColumn(c.repetition_processor, indices, 1)
          BY DEF Carries, FilterChooser
      <2> HIDE DEF V, W, d
      <2>. QED  BY <1>2, <2>1, <2>2 DEF W
  <1>4. Covers(d.temperature, [k \in 1 .. n |-> Corrected(Q[k].temperature)], 1)
      <2> DEFINE V == [k \in DOMAIN P |-> Corrected(P[k].temperature)]
                 W == [k \in 1 .. n |-> Corrected(Q[k].temperature)]
      <2>1. DOMAIN V = DOMAIN P /\ W = [k \in 1 .. n |-> V[indices[k]]]
          BY <1>1
      <2>2. Covers(c.temperature, V, 1) /\ d.temperature = FilterColumn(c.temperature, indices, 1)
          BY DEF Carries, FilterChooser
      <2> HIDE DEF V, W, d
      <2>. QED  BY <1>2, <2>1, <2>2 DEF W
  <1>5. Covers(d.top_k, [k \in 1 .. n |-> TopKEntry(Q[k].top_k)], TopKEntry(0))
      <2> DEFINE V == [k \in DOMAIN P |-> TopKEntry(P[k].top_k)]
                 W == [k \in 1 .. n |-> TopKEntry(Q[k].top_k)]
      <2>1. DOMAIN V = DOMAIN P /\ W = [k \in 1 .. n |-> V[indices[k]]]
          BY <1>1
      <2>2. Covers(c.top_k, V, TopKEntry(0)) /\ d.top_k = FilterColumn(c.top_k, indices, TopKEntry(0))
          BY DEF Carries, FilterChooser
      <2> HIDE DEF V, W, d
      <2>. QED  BY <1>2, <2>1, <2>2 DEF W
  <1>6. Covers(d.top_p, [k \in 1 .. n |-> Disabled(Q[k].top_p)], 100)
      <2> DEFINE V == [k \in DOMAIN P |-> Disabled(P[k].top_p)]
                 W == [k \in 1 .. n |-> Disabled(Q[k].top_p)]
      <2>1. DOMAIN V = DOMAIN P /\ W = [k \in 1 .. n |-> V[indices[k]]]
          BY <1>1
      <2>2. Covers(c.top_p, V, 100) /\ d.top_p = FilterColumn(c.top_p, indices, 100)
          BY DEF Carries, FilterChooser
      <2> HIDE DEF V, W, d
      <2>. QED  BY <1>2, <2>1, <2>2 DEF W
  <1>7. Covers(d.typical_p, [k \in 1 .. n |-> Disabled(Q[k].typical_p)], 100)
      <2> DEFINE V == [k \in DOMAIN P |-> Disabled(P[k].typical_p)]
                 W == [k \in 1 .. n |-> Disabled(Q[k].typical_p)]
      <2>1. DOMAIN V = DOMAIN P /\ W = [k \in 1 .. n |-> V[indices[k]]]
          BY <1>1
      <2>2. Covers(c.typical_p, V, 100) /\ d.typical_p = FilterColumn(c.typical_p, indices, 100)
          BY DEF Carries, FilterChooser
      <2> HIDE DEF V, W, d
      <2>. QED  BY <1>2, <2>1, <2>2 DEF W
  <1>8. /\ d.length_penalty = [k \in 1 .. n |-> Q[k].length_penalty]
        /\ d.min_new_tokens = [k \in 1 .. n |-> Q[k].min_new_tokens]
        /\ d.return_logprobs = [k \in 1 .. n |-> Q[k].logprobs]
        /\ d.current_tokens = [k \in 1 .. n |-> Counted(Q[k], H[k])]
      BY <1>1 DEF FilterChooser, Carries, Pick
  <1>9. d.do_sample = [k \in 1 .. n |-> Q[k].temperature # 0] /\ d.do_sample = Pick(c.do_sample, indices)
      BY <1>1 DEF FilterChooser, Carries, Pick
  <1>10. d.choice = IF AnyOf(d.do_sample) THEN FilterSampling(c.choice, indices) ELSE Greedy(n)
      BY DEF FilterChooser
  <1>11. DOMAIN d.choice = {"greedy_indices", "sampling_mapping", "samplings"}
      <2> HIDE DEF d
      <2>. QED  BY <1>10 DEF FilterSampling, Greedy, MakeSampling
  <1>12. /\ d.choice.sampling_mapping = {k \in 1 .. n : Q[k].temperature # 0}
         /\ d.choice.samplings = [k \in 1 .. n |-> IF Q[k].temperature # 0 THEN H[k] ELSE NoSampling]
      <2>1. CASE AnyOf(d.do_sample)
          <3>1. d.choice = FilterSampling(c.choice, indices)
              BY <1>10, <2>1
          <3> HIDE DEF d, Q, H
          <3>2. \A k \in 1 .. n : (indices[k] \in c.choice.sampling_mapping) <=> Q[k].temperature # 0
              BY <1>1 DEF Carries
          <3>3. d.choice.sampling_mapping = {k \in 1 .. n : Q[k].temperature # 0}
              BY <3>1, <3>2 DEF FilterSampling
          <3>4. d.choice.samplings = Pick(c.choice.samplings, indices)
              BY <3>1 DEF FilterSampling
          <3>. QED  BY <1>1, <3>3, <3>4 DEF Carries, Pick
      <2>2. CASE ~AnyOf(d.do_sample)
          <3>1. \A k \in 1 .. n : Q[k].temperature = 0
              <4> HIDE DEF d, Q
              <4>. QED  BY <1>9, <2>2 DEF AnyOf
          <3>2. d.choice = Greedy(n)
              BY <1>10, <2>2
          <3> HIDE DEF d, Q, H
          <3>. QED  BY <3>1, <3>2 DEF Greedy, MakeSampling
      <2>. QED  BY <2>1, <2>2
  <1>13. DOMAIN d = ChooserFields
      BY DEF FilterChooser, ChooserFields
  <1>14. Carries(d, Q, H)
      <2> HIDE DEF d, Q, H
      <2>. QED  BY <1>1, <1>3, <1>4, <1>5, <1>6, <1>7, <1>8, <1>9, <1>11, <1>12, <1>13 DEF Carries
  <1>. QED  BY <1>14

-----------------------------------------------------------------------------
(* Lists of which only the length is known.                                 *)

\* s is a list of n elements.
List(s, n) == s = [k \in 1 .. n |-> s[k]]

Joined(s, n, t, m) == [k \in 1 .. n + m |-> IF k <= n THEN s[k] ELSE t[k - n]]

\* The length of a list ...
LEMMA Lists ==
  ASSUME NEW n \in Nat, NEW s, List(s, n)
  PROVE  Len(s) = n /\ DOMAIN s = 1 .. n /\ (s = <<>> <=> n = 0)
  <1>1. DOMAIN s = 1 .. n
      BY DEF List
  <1>2. s \in Seq({s[k] : k \in 1 .. n}) /\ Len(s) = n
      <2> DEFINE S == {s[k] : k \in 1 .. n}
      <2>1. s \in [1 .. n -> S]
          BY DEF List
      <2> HIDE DEF S
      <2>2. s \in Seq(S)
          BY <2>1
      <2>. QED  BY <1>1, <2>2 DEF S
  <1>3. s = <<>> <=> n = 0
      BY <1>1, <1>2
  <1>. QED  BY <1>1, <1>2, <1>3

\* ... and the concatenation of two.
LEMMA JoinedIs ==
  ASSUME NEW n \in Nat, NEW s, List(s, n), NEW m \in Nat, NEW t, List(t, m)
  PROVE  s \o t = Joined(s, n, t, m) /\ List(s \o t, n + m)
  <1> DEFINE S == {s[k] : k \in 1 .. n} \cup {t[k] : k \in 1 .. m}
  <1>1. DOMAIN s = 1 .. n /\ DOMAIN t = 1 .. m /\ s \in [1 .. n -> S] /\ t \in [1 .. m -> S]
      BY DEF List
  <1> HIDE DEF S
  <1>2. s \in Seq(S) /\ t \in Seq(S) /\ Len(s) = n /\ Len(t) = m
      BY <1>1
  <1>3. /\ s \o t \in Seq(S) /\ Len(s \o t) = n + m
        /\ \A k \in 1 .. n : (s \o t)[k] = s[k]
        /\ \A k \in n + 1 .. n + m : (s \o t)[k] = t[k - n]
      BY <1>2
  <1> DEFINE u == s \o t
  <1> HIDE DEF u
  <1>4. u \in [1 .. n + m -> S]
      <2>1. u \in Seq(S) /\ Len(u) = n + m
          BY <1>3 DEF u
      <2>. QED  BY <2>1, LenProperties
  <1>5. \A k \in 1 .. n + m : u[k] = IF k <= n THEN s[k] ELSE t[k - n]
      BY <1>3 DEF u
  <1>. QED  BY <1>4, <1>5 DEF List, Joined, u

\* The chooser of two batches continues for the rows of both.
LEMMA CombineCarries ==
  ASSUME NEW n \in Nat \ {0}, NEW m \in Nat \ {0}, NEW c, NEW d, NEW P, NEW Q, NEW G, NEW H,
         List(P, n), List(Q, m), Carries(c, P, G), Carries(d, Q, H),
         \A k \in 1 .. n : Legal(P[k]) /\ G[k] \in Nat, \A k \in 1 .. m : Legal(Q[k]) /\ H[k] \in Nat
  PROVE  Carries(CombineChoosers(Joined(P, n, Q, m), c, d), Joined(P, n, Q, m), Joined(G, n, H, m))
  <1> DEFINE R == Joined(P, n, Q, m)  J == Joined(G, n, H, m)
             Sampled(p, k) == IF p.temperature # 0 THEN k ELSE NoSampling
  <1>1. n + m \in Nat \ {0} /\ List(R, n + m) /\ Len(R) = n + m /\ DOMAIN R = 1 .. n + m
      <2>1. n + m \in Nat \ {0} /\ List(R, n + m)
          BY DEF List, Joined
      <2> HIDE DEF R
      <2>. QED  BY <2>1, Lists
  <1>2. \A k \in 1 .. n + m :
            /\ k <= n => k \in 1 .. n /\ R[k] = P[k] /\ J[k] = G[k]
            /\ ~(k <= n) => k - n \in 1 .. m /\ R[k] = Q[k - n] /\ J[k] = H[k - n]
      BY DEF Joined
  <1>3. \A k \in 1 .. n + m : Legal(R[k]) /\ J[k] \in Nat
      <2> HIDE DEF R, J
      <2>. QED  BY <1>2
  <1>4. DOMAIN P = 1 .. n /\ DOMAIN Q = 1 .. m
      BY DEF List
  <1>5. ASSUME NEW s, NEW t, NEW u, List(s, n), List(t, m), List(u, n + m),
               \A k \in 1 .. n + m : u[k] = IF k <= n THEN s[k] ELSE t[k - n]
        PROVE  s \o t = u /\ u # <<>>
      <2>1. s \o t = Joined(s, n, t, m)
          BY <1>5, JoinedIs
      <2>2. u = Joined(s, n, t, m)
          BY <1>5 DEF List, Joined
      <2>. QED  BY <1>1, <1>5, <2>1, <2>2, Lists
  <1> HIDE DEF R, J
  <1>6. c.return_logprobs \o d.return_logprobs = [k \in 1 .. n + m |-> R[k].logprobs]
      <2> DEFINE s == [k \in 1 .. n |-> P[k].logprobs]  t == [k \in 1 .. m |-> Q[k].logprobs]
                 u == [k \in 1 .. n + m |-> R[k].logprobs]
      <2>1. c.return_logprobs = s /\ d.return_logprobs = t
          BY <1>4 DEF Carries
      <2>2. List(s, n) /\ List(t, m) /\ List(u, n + m) /\ \A k \in 1 .. n + m : u[k] = IF k <= n THEN s[k] ELSE t[k - n]
          BY <1>2 DEF List
      <2> HIDE DEF s, t, u
      <2>3. s \o t = u /\ u # <<>>
          BY <1>5, <2>2
      <2>. QED  BY <2>1, <2>3 DEF u
  <1>7. /\ c.choice.samplings \o d.choice.samplings = [k \in 1 .. n + m |-> Sampled(R[k], J[k])]
        /\ c.choice.samplings \o d.choice.samplings # <<>>
      <2> DEFINE s == [k \in 1 .. n |-> Sampled(P[k], G[k])]  t == [k \in 1 .. m |-> Sampled(Q[k], H[k])]
                 u == [k \in 1 .. n + m |-> Sampled(R[k], J[k])]
      <2>1. c.choice.samplings = s /\ d.choice.samplings = t
          BY <1>4 DEF Carries
      <2>2. List(s, n) /\ List(t, m) /\ List(u, n + m) /\ \A k \in 1 .. n + m : u[k] = IF k <= n THEN s[k] ELSE t[k - n]
          BY <1>2 DEF List
      <2> HIDE DEF s, t, u
      <2>3. s \o t = u /\ u # <<>>
          BY <1>5, <2>2
      <2>. QED  BY <2>1, <2>3 DEF u
  <1>8. /\ c.current_tokens \o d.current_tokens = [k \in 1 .. n + m |-> Counted(R[k], J[k])]
        /\ c.current_tokens \o d.current_tokens # <<>>
      <2> DEFINE s == [k \in 1 .. n |-> Counted(P[k], G[k])]  t == [k \in 1 .. m |-> Counted(Q[k], H[k])]
                 u == [k \in 1 .. n + m |-> Counted(R[k], J[k])]
      <2>1. c.current_tokens = s /\ d.current_tokens = t
          BY <1>4 DEF Carries
      <2>2. List(s, n) /\ List(t, m) /\ List(u, n + m) /\ \A k \in 1 .. n + m : u[k] = IF k <= n THEN s[k] ELSE t[k - n]
          BY <1>2 DEF List
      <2> HIDE DEF s, t, u
      <2>3. s \o t = u /\ u # <<>>
          BY <1>5, <2>2
      <2>. QED  BY <2>1, <2>3 DEF u
  <1>9. CombineChoosers(R, c, d) =
            MakeChooser(R, [k \in 1 .. n + m |-> R[k].logprobs], c.choice.samplings \o d.choice.samplings,
                        c.current_tokens \o d.current_tokens)
      BY <1>6 DEF CombineChoosers
  <1>10. Carries(CombineChoosers(R, c, d), R, J)
      <2> DEFINE N == n + m  samplings == c.choice.samplings \o d.choice.samplings
                 counts == c.current_tokens \o d.current_tokens
      <2>1. /\ samplings = [k \in 1 .. N |-> IF R[k].temperature # 0 THEN J[k] ELSE NoSampling]
            /\ samplings # <<>>
          BY <1>7
      <2>2. counts = [k \in 1 .. N |-> Counted(R[k], J[k])] /\ counts # <<>>
          BY <1>8
      <2>3. /\ N \in Nat \ {0} /\ DOMAIN R = 1 .. N /\ Len(R) = N
            /\ \A k \in 1 .. N : Legal(R[k]) /\ J[k] \in Nat
          BY <1>1, <1>3
      <2>4. CombineChoosers(R, c, d) = MakeChooser(R, [k \in 1 .. N |-> R[k].logprobs], samplings, counts)
          BY <1>9
      <2> HIDE DEF N, samplings, counts
      <2>5. Carries(MakeChooser(R, [k \in 1 .. N |-> R[k].logprobs], samplings, counts), R, J)
          BY <2>1, <2>2, <2>3, MakeCarries
      <2>. QED  BY <2>4, <2>5
  <1>. QED  BY <1>10 DEF R, J

-----------------------------------------------------------------------------
(* What an operation does to the rows and the chooser of a batch of any     *)
(* type.                                                                    *)

KnownRequest(r) ==
    /\ Legal(r.parameters) /\ r.text \in Nat /\ r.input \in 1 .. r.text
    /\ r.output \in Nat \ {0} /\ r.prefix \in Nat /\ r.decoder_prefix \in Nat

\* The fields from which the tokens of a row are counted.
RowFields ==
    IF kind \in {"causal", "seq2seq"} THEN {"request", "max_remaining_tokens"}
    ELSE {"request", "input_length", "total_length"}

RowOk(row) ==
    /\ RowFields \subseteq DOMAIN row
    /\ KnownRequest(row.request) /\ Generated(row) \in Nat
    /\ kind \in {"causal", "seq2seq"} => row.max_remaining_tokens \in Int
    /\ kind \in {"flash", "paged"} => row.input_length \in Int
    /\ kind = "paged" => /\ row.total_length = row.request.input + row.request.output
                         /\ row.input_length <= row.total_length

OfRows(b, n) ==
    /\ {"rows", "next_token_chooser"} \subseteq DOMAIN b
    /\ List(b.rows, n) /\ \A k \in 1 .. n : RowOk(b.rows[k])

ParametersOf(rows) == [k \in DOMAIN rows |-> rows[k].request.parameters]
Parameters(b) == ParametersOf(b.rows)

\* The rows for which the chooser is called once for each token.
Exact(row) == kind # "paged" \/ row.request.parameters.temperature # 0

Follows(b, G) ==
    /\ Carries(b.next_token_chooser, Parameters(b), G)
    /\ \A k \in DOMAIN b.rows : Exact(b.rows[k]) => G[k] = Generated(b.rows[k])

\* The chooser of b is that of its rows.
BatchOk(b) == \E n \in Nat \ {0} : OfRows(b, n) /\ \E G \in [1 .. n -> Nat] : Follows(b, G)

Fresh(b, n) ==
    /\ OfRows(b, n) /\ b.next_token_chooser = NewChooser(Parameters(b))
    /\ \A k \in 1 .. n : Generated(b.rows[k]) = 0

Stepped(c, b, n) ==
    /\ OfRows(c, n) /\ c.next_token_chooser = Choose(b.next_token_chooser)
    /\ \A k \in 1 .. n : /\ c.rows[k].request = b.rows[k].request
                         /\ Exact(b.rows[k]) => Generated(c.rows[k]) = Generated(b.rows[k]) + 1

Same(row, old) == row.request = old.request /\ Generated(row) = Generated(old)

Merged(c, a, n, b, m) ==
    /\ OfRows(c, n + m)
    /\ c.next_token_chooser =
           CombineChoosers(Joined(Parameters(a), n, Parameters(b), m),
                           a.next_token_chooser, b.next_token_chooser)
    /\ \A k \in 1 .. n + m : Same(c.rows[k], Joined(a.rows, n, b.rows, m)[k])

Kept(c, b, n, indices) ==
    /\ OfRows(c, n) /\ c.next_token_chooser = FilterChooser(b.next_token_chooser, indices)
    /\ \A k \in 1 .. n : Same(c.rows[k], b.rows[indices[k]])

\* The parameters of a batch's rows.
LEMMA ParametersAre ==
  ASSUME NEW b, NEW n \in Nat, OfRows(b, n)
  PROVE  /\ DOMAIN b.rows = 1 .. n /\ List(Parameters(b), n) /\ Len(Parameters(b)) = n
         /\ DOMAIN Parameters(b) = 1 .. n
         /\ \A k \in 1 .. n : /\ Parameters(b)[k] = b.rows[k].request.parameters
                              /\ Legal(Parameters(b)[k]) /\ Generated(b.rows[k]) \in Nat
  <1>1. DOMAIN b.rows = 1 .. n
      BY DEF OfRows, List
  <1>2. List(Parameters(b), n)
      BY <1>1 DEF Parameters, ParametersOf, List
  <1>3. Len(Parameters(b)) = n /\ DOMAIN Parameters(b) = 1 .. n
      BY <1>2, Lists
  <1>4. \A k \in 1 .. n : Parameters(b)[k] = b.rows[k].request.parameters
      BY <1>1 DEF Parameters, ParametersOf
  <1>5. \A k \in 1 .. n : Legal(b.rows[k].request.parameters) /\ Generated(b.rows[k]) \in Nat
      BY DEF OfRows, RowOk, KnownRequest
  <1>. QED  BY <1>1, <1>2, <1>3, <1>4, <1>5

\* A new batch has the chooser of its rows ...
LEMMA FreshOk ==
  ASSUME NEW b, NEW n \in Nat \ {0}, Fresh(b, n)
  PROVE  BatchOk(b)
  <1> DEFINE P == Parameters(b)  G == [k \in 1 .. n |-> 0]
  <1>1. OfRows(b, n)
      BY DEF Fresh
  <1>2. /\ DOMAIN b.rows = 1 .. n /\ DOMAIN P = 1 .. n /\ Len(P) = n
        /\ \A k \in 1 .. n : Legal(P[k])
      BY <1>1, ParametersAre
  <1> HIDE DEF P
  <1>3. NewChooser(P) = MakeChooser(P, [k \in 1 .. n |-> P[k].logprobs], <<>>, <<>>)
      BY <1>2 DEF NewChooser, Column
  <1>4. Carries(MakeChooser(P, [k \in 1 .. n |-> P[k].logprobs], <<>>, <<>>), P, G)
      <2>1. \A k \in 1 .. n : G[k] = 0 /\ G[k] \in Nat
          OBVIOUS
      <2> HIDE DEF G
      <2>. QED  BY <1>2, <2>1, MakeCarries
  <1>5. Follows(b, G)
      BY <1>2, <1>3, <1>4 DEF Follows, Fresh, P
  <1>6. G \in [1 .. n -> Nat]
      OBVIOUS
  <1> HIDE DEF G
  <1>. QED  BY <1>1, <1>5, <1>6 DEF BatchOk

\* ... keeps it when each row has a token more ...
LEMMA SteppedOk ==
  ASSUME NEW b, NEW n \in Nat \ {0}, OfRows(b, n), NEW G \in [1 .. n -> Nat], Follows(b, G),
         NEW c, Stepped(c, b, n)
  PROVE  BatchOk(c)
  <1> DEFINE P == Parameters(b)  H == [k \in 1 .. n |-> G[k] + 1]
  <1>1. OfRows(c, n)
      BY DEF Stepped
  <1>2. /\ DOMAIN b.rows = 1 .. n /\ DOMAIN P = 1 .. n /\ \A k \in 1 .. n : Legal(P[k])
        /\ \A k \in 1 .. n : P[k] = b.rows[k].request.parameters
      BY ParametersAre
  <1>3. DOMAIN c.rows = 1 .. n
      BY <1>1, ParametersAre
  <1>4. Parameters(c) = P
      BY <1>2, <1>3 DEF Parameters, ParametersOf, Stepped
  <1> HIDE DEF P
  <1>5. Carries(Choose(b.next_token_chooser), P, H)
      <2>1. Carries(b.next_token_chooser, P, G)
          BY DEF Follows, P
      <2>2. Carries(Choose(b.next_token_chooser), P, [k \in DOMAIN P |-> G[k] + 1])
          BY <1>2, <2>1, ChooseCarries
      <2>. QED  BY <1>2, <2>2
  <1>6. ASSUME NEW k \in 1 .. n, Exact(c.rows[k]) PROVE H[k] = Generated(c.rows[k])
      <2>1. Exact(b.rows[k])
          BY <1>6 DEF Exact, Stepped
      <2>. QED  BY <1>2, <2>1 DEF Follows, Stepped
  <1>7. Follows(c, H)
      <2> HIDE DEF H
      <2>. QED  BY <1>3, <1>4, <1>5, <1>6 DEF Follows, Stepped
  <1>8. H \in [1 .. n -> Nat]
      OBVIOUS
  <1> HIDE DEF H
  <1>. QED  BY <1>1, <1>7, <1>8 DEF BatchOk

\* ... when it is put together with another ...
LEMMA MergedOk ==
  ASSUME NEW a, NEW n \in Nat \ {0}, OfRows(a, n), NEW G \in [1 .. n -> Nat], Follows(a, G),
         NEW b, NEW m \in Nat \ {0}, OfRows(b, m), NEW H \in [1 .. m -> Nat], Follows(b, H),
         NEW c, Merged(c, a, n, b, m)
  PROVE  BatchOk(c)
  <1> DEFINE P == Parameters(a)  Q == Parameters(b)  R == Joined(P, n, Q, m)  J == Joined(G, n, H, m)
  <1>1. OfRows(c, n + m) /\ n + m \in Nat \ {0}
      BY DEF Merged
  <1>2. /\ DOMAIN a.rows = 1 .. n /\ List(P, n) /\ \A k \in 1 .. n : Legal(P[k])
        /\ \A k \in 1 .. n : P[k] = a.rows[k].request.parameters
      BY ParametersAre
  <1>3. /\ DOMAIN b.rows = 1 .. m /\ List(Q, m) /\ \A k \in 1 .. m : Legal(Q[k])
        /\ \A k \in 1 .. m : Q[k] = b.rows[k].request.parameters
      BY ParametersAre
  <1>4. DOMAIN c.rows = 1 .. n + m
      BY <1>1, ParametersAre
  <1> HIDE DEF P, Q
  <1>5. ASSUME NEW k \in 1 .. n + m
        PROVE  /\ c.rows[k].request.parameters = R[k]
               /\ Exact(c.rows[k]) => J[k] = Generated(c.rows[k])
      <2>1. CASE k <= n
          <3>1. k \in 1 .. n /\ Same(c.rows[k], a.rows[k]) /\ R[k] = P[k] /\ J[k] = G[k]
              BY <2>1 DEF Merged, Joined
          <3> HIDE DEF R, J
          <3>. QED  BY <1>2, <3>1 DEF Same, Follows, Exact
      <2>2. CASE ~(k <= n)
          <3>1. k - n \in 1 .. m /\ Same(c.rows[k], b.rows[k - n]) /\ R[k] = Q[k - n] /\ J[k] = H[k - n]
              BY <2>2 DEF Merged, Joined
          <3> HIDE DEF R, J
          <3>. QED  BY <1>3, <3>1 DEF Same, Follows, Exact
      <2>. QED  BY <2>1, <2>2
  <1>6. Parameters(c) = R
      <2>1. R = [k \in 1 .. n + m |-> R[k]]
          BY DEF Joined
      <2> HIDE DEF R
      <2>. QED  BY <1>4, <1>5, <2>1 DEF Parameters, ParametersOf
  <1>7. Carries(c.next_token_chooser, R, J)
      <2>1. Carries(a.next_token_chooser, P, G) /\ Carries(b.next_token_chooser, Q, H)
          BY DEF Follows, P, Q
      <2>2. Carries(CombineChoosers(Joined(P, n, Q, m), a.next_token_chooser, b.next_token_chooser),
                    Joined(P, n, Q, m), Joined(G, n, H, m))
          BY <1>2, <1>3, <2>1, CombineCarries
      <2>3. c.next_token_chooser = CombineChoosers(Joined(P, n, Q, m), a.next_token_chooser, b.next_token_chooser)
          BY DEF Merged, P, Q
      <2>. QED  BY <2>2, <2>3
  <1>8. J \in [1 .. n + m -> Nat]
      BY DEF Joined
  <1> HIDE DEF R, J
  <1>9. Follows(c, J)
      BY <1>4, <1>5, <1>6, <1>7 DEF Follows
  <1>. QED  BY <1>1, <1>8, <1>9 DEF BatchOk

\* ... and when rows are taken out.
LEMMA KeptOk ==
  ASSUME NEW b, NEW n \in Nat \ {0}, OfRows(b, n), NEW G \in [1 .. n -> Nat], Follows(b, G),
         NEW m \in Nat \ {0}, NEW indices \in [1 .. m -> 1 .. n], NEW c, Kept(c, b, m, indices)
  PROVE  BatchOk(c)
  <1> DEFINE P == Parameters(b)  Q == Pick(P, indices)  H == Pick(G, indices)
  <1>1. OfRows(c, m)
      BY DEF Kept
  <1>2. /\ DOMAIN b.rows = 1 .. n /\ DOMAIN P = 1 .. n
        /\ \A k \in 1 .. n : P[k] = b.rows[k].request.parameters
      BY ParametersAre
  <1>3. DOMAIN c.rows = 1 .. m
      BY <1>1, ParametersAre
  <1> HIDE DEF P
  <1>4. \A k \in 1 .. m : Q[k] = P[indices[k]] /\ H[k] = G[indices[k]] /\ indices[k] \in 1 .. n
      BY DEF Pick
  <1>5. Q = [k \in 1 .. m |-> Q[k]] /\ H \in [1 .. m -> Nat]
      BY DEF Pick
  <1>6. Carries(FilterChooser(b.next_token_chooser, indices), Q, H)
      <2>1. Carries(b.next_token_chooser, P, G)
          BY DEF Follows, P
      <2>2. Len(indices) = m
          <3>1. List(indices, m)
              BY DEF List
          <3>. QED  BY <3>1, Lists
      <2>. QED  BY <1>2, <2>1, <2>2, FilterCarries
  <1> HIDE DEF Q, H
  <1>7. Parameters(c) = Q
      BY <1>2, <1>3, <1>4, <1>5 DEF Parameters, ParametersOf, Kept, Same
  <1>8. ASSUME NEW k \in 1 .. m, Exact(c.rows[k]) PROVE H[k] = Generated(c.rows[k])
      <2>1. Same(c.rows[k], b.rows[indices[k]])
          BY DEF Kept
      <2>2. Exact(b.rows[indices[k]])
          BY <1>8, <2>1 DEF Exact, Same
      <2>. QED  BY <1>2, <1>4, <2>1, <2>2 DEF Follows, Same
  <1>9. Follows(c, H)
      BY <1>3, <1>6, <1>7, <1>8 DEF Follows, Kept
  <1>. QED  BY <1>1, <1>5, <1>9 DEF BatchOk

\* The chooser of such a batch does to a row what its request asked for.
LEMMA BatchOkEffect ==
  ASSUME NEW b, BatchOk(b), NEW j \in DOMAIN b.rows,
         kind # "paged" \/ b.next_token_chooser.do_sample[j]
  PROVE  Effect(b.next_token_chooser, j) = Wanted(b.rows[j].request.parameters, Generated(b.rows[j]))
  <1>1. PICK n \in Nat \ {0} : OfRows(b, n) /\ \E G \in [1 .. n -> Nat] : Follows(b, G)
      BY DEF BatchOk
  <1>2. PICK G \in [1 .. n -> Nat] : Follows(b, G)
      BY <1>1
  <1> DEFINE P == Parameters(b)
  <1>3. /\ DOMAIN b.rows = 1 .. n /\ DOMAIN P = 1 .. n /\ \A k \in 1 .. n : Legal(P[k])
        /\ \A k \in 1 .. n : P[k] = b.rows[k].request.parameters
      BY <1>1, ParametersAre
  <1> HIDE DEF P
  <1>4. Carries(b.next_token_chooser, P, G)
      BY <1>2 DEF Follows, P
  <1>5. Exact(b.rows[j])
      <2>1. b.next_token_chooser.do_sample = [k \in 1 .. n |-> P[k].temperature # 0]
          BY <1>3, <1>4 DEF Carries
      <2>2. b.next_token_chooser.do_sample[j] = (P[j].temperature # 0)
          BY <1>3, <2>1
      <2>. QED  BY <1>3, <2>2 DEF Exact
  <1>6. G[j] = Generated(b.rows[j])
      BY <1>2, <1>5 DEF Follows
  <1>. QED  BY <1>3, <1>4, <1>6, CarriesEffect

-----------------------------------------------------------------------------
(* The operations on the rows that are taken from a batch.                  *)

\* The list of a set of positions.
LEMMA InOrderList ==
  ASSUME NEW S \in SUBSET Nat, IsFiniteSet(S)
  PROVE  LET m == Cardinality(S)  o == InOrder[S] IN
         /\ m \in Nat /\ (m = 0 <=> S = {}) /\ o \in [1 .. m -> S] /\ List(o, m)
         /\ \A x \in S : \E k \in 1 .. m : o[k] = x
         /\ \A j, k \in 1 .. m : j < k => o[j] < o[k]
  <1> DEFINE m == Cardinality(S)  o == InOrder[S]
  <1>1. /\ m \in Nat /\ o \in [1 .. m -> S] /\ \A x \in S : \E k \in 1 .. m : o[k] = x
        /\ \A j, k \in 1 .. m : j < k => o[j] < o[k]
      BY InOrderIs
  <1>2. m = 0 <=> S = {}
      BY FS_EmptySet
  <1>3. List(o, m)
      BY <1>1 DEF List
  <1>. QED  BY <1>1, <1>2, <1>3

\* The rows that stay, as get_indices_to_keep finds them.
Staying(b, done) == {k \in DOMAIN b.rows : b.rows[k].request.id \notin done}

\* What get_indices_to_keep returns.
LEMMA KeepIndicesAre ==
  ASSUME NEW b, NEW n \in Nat, DOMAIN b.rows = 1 .. n, NEW done
  PROVE  \E m \in Nat :
            /\ m = 0 <=> Staying(b, done) = {}
            /\ KeepIndices(b, done) \in [1 .. m -> 1 .. n]
            /\ \A k \in 1 .. m : KeepIndices(b, done)[k] \in Staying(b, done)
            /\ \A x \in Staying(b, done) : \E k \in 1 .. m : KeepIndices(b, done)[k] = x
  <1> DEFINE S == Staying(b, done)
  <1>1. S \in SUBSET Nat /\ IsFiniteSet(S) /\ S \subseteq 1 .. n
      <2>1. S \subseteq 1 .. n
          BY DEF Staying
      <2>2. IsFiniteSet(1 .. n) /\ 1 .. n \subseteq Nat
          BY FS_Interval
      <2> HIDE DEF S
      <2>. QED  BY <2>1, <2>2, FS_Subset
  <1>2. KeepIndices(b, done) = InOrder[S]
      BY DEF KeepIndices, Staying
  <1> HIDE DEF S
  <1> DEFINE m == Cardinality(S)  o == InOrder[S]
  <1>3. /\ m \in Nat /\ (m = 0 <=> S = {}) /\ o \in [1 .. m -> S]
        /\ \A x \in S : \E k \in 1 .. m : o[k] = x
      BY <1>1, InOrderList
  <1> HIDE DEF m, o
  <1>4. o \in [1 .. m -> 1 .. n] /\ \A k \in 1 .. m : o[k] \in S
      BY <1>1, <1>3
  <1>5. KeepIndices(b, done) = o
      BY <1>2 DEF o
  <1>. QED  BY <1>3, <1>4, <1>5 DEF S

\* A row that counts down its remaining tokens ...
LEMMA CountdownRow ==
  ASSUME kind \in {"causal", "seq2seq"}, NEW row, KnownRequest(row.request)
  PROVE  /\ Generated(row) = row.request.output - row.max_remaining_tokens
         /\ RowOk(row) <=> /\ "request" \in DOMAIN row /\ "max_remaining_tokens" \in DOMAIN row
                           /\ row.max_remaining_tokens \in Int
                           /\ row.max_remaining_tokens <= row.request.output
  <1>1. kind = "causal" \/ kind = "seq2seq"
      OBVIOUS
  <1>2. Generated(row) = row.request.output - row.max_remaining_tokens
      <2>1. CASE kind = "causal"
          BY <2>1 DEF Generated, Causal!Generated
      <2>2. CASE kind = "seq2seq"
          BY <2>2 DEF Generated, Seq2Seq!Generated
      <2>. QED  BY <1>1, <2>1, <2>2
  <1>3. row.request.output \in Nat
      BY DEF KnownRequest
  <1>4. RowFields = {"request", "max_remaining_tokens"}
      BY DEF RowFields
  <1>5. kind # "flash" /\ kind # "paged"
      BY <1>1
  <1>. QED  BY <1>2, <1>3, <1>4, <1>5 DEF RowOk

\* ... and one that counts its tokens.
LEMMA CountupRow ==
  ASSUME kind \in {"flash", "paged"}, NEW row, KnownRequest(row.request)
  PROVE  /\ kind = "flash" => Generated(row) = row.input_length - row.request.input - row.request.prefix
         /\ kind = "paged" => Generated(row) = row.input_length - row.request.input
         /\ RowOk(row) <=> /\ {"request", "input_length", "total_length"} \subseteq DOMAIN row
                           /\ row.input_length \in Int /\ Generated(row) \in Nat
                           /\ kind = "paged" =>
                                /\ row.total_length = row.request.input + row.request.output
                                /\ row.input_length <= row.total_length
  <1>1. kind = "flash" \/ kind = "paged"
      OBVIOUS
  <1>2. kind # "causal" /\ kind # "seq2seq"
      BY <1>1
  <1>3. kind = "flash" => Generated(row) = row.input_length - row.request.input - row.request.prefix
      BY <1>2 DEF Generated, Flash!Generated
  <1>4. kind = "paged" => Generated(row) = row.input_length - row.request.input
      BY DEF Generated, Paged!Generated
  <1>5. RowFields = {"request", "input_length", "total_length"}
      BY <1>2 DEF RowFields
  <1>. QED  BY <1>1, <1>2, <1>3, <1>4, <1>5 DEF RowOk

\* A row of which only other fields have changed.
LEMMA SameRow ==
  ASSUME kind \in {"causal", "seq2seq", "flash", "paged"}, NEW old, RowOk(old), NEW row,
         \A f \in RowFields : f \in DOMAIN row /\ row[f] = old[f]
  PROVE  RowOk(row) /\ Same(row, old)
  <1>1. KnownRequest(old.request) /\ row.request = old.request
      BY DEF RowOk, RowFields
  <1>2. CASE kind \in {"causal", "seq2seq"}
      <2>1. /\ "request" \in DOMAIN row /\ "max_remaining_tokens" \in DOMAIN row
            /\ row.max_remaining_tokens = old.max_remaining_tokens
          BY <1>2 DEF RowFields
      <2>. QED  BY <1>1, <1>2, <2>1, CountdownRow DEF Same
  <1>3. CASE kind \in {"flash", "paged"}
      <2>1. /\ {"request", "input_length", "total_length"} \subseteq DOMAIN row
            /\ row.input_length = old.input_length /\ row.total_length = old.total_length
          BY <1>3 DEF RowFields
      <2>2. Generated(row) = Generated(old)
          BY <1>1, <1>3, <2>1, CountupRow
      <2>. QED  BY <1>1, <1>3, <2>1, <2>2, CountupRow DEF Same
  <1>. QED  BY <1>2, <1>3

\* The parameters of the rows of two batches.
LEMMA JoinedParameters ==
  ASSUME NEW a, NEW n \in Nat, OfRows(a, n), NEW b, NEW m \in Nat, OfRows(b, m)
  PROVE  ParametersOf(a.rows \o b.rows) = Joined(Parameters(a), n, Parameters(b), m)
  <1>1. DOMAIN a.rows = 1 .. n /\ DOMAIN b.rows = 1 .. m /\ List(a.rows, n) /\ List(b.rows, m)
      BY DEF OfRows, List
  <1>2. a.rows \o b.rows = Joined(a.rows, n, b.rows, m)
      BY <1>1, JoinedIs
  <1>3. DOMAIN Joined(a.rows, n, b.rows, m) = 1 .. n + m
      BY DEF Joined
  <1>4. ASSUME NEW k \in 1 .. n + m
        PROVE  Joined(a.rows, n, b.rows, m)[k].request.parameters
                   = Joined(Parameters(a), n, Parameters(b), m)[k]
      BY <1>1 DEF Joined, Parameters, ParametersOf
  <1>5. Joined(Parameters(a), n, Parameters(b), m)
            = [k \in 1 .. n + m |-> Joined(Parameters(a), n, Parameters(b), m)[k]]
      BY DEF Joined
  <1>. QED  BY <1>2, <1>3, <1>4, <1>5 DEF ParametersOf

\* The requests whose prefix was found.
LEMMA AcceptedAre ==
  ASSUME NEW n \in Nat, NEW pb, List(pb, n), \A k \in 1 .. n : KnownRequest(pb[k]),
         NEW failed, \E k \in 1 .. n : pb[k] \notin failed
  PROVE  \E m \in Nat \ {0} : /\ List(Accepted(pb, failed), m)
                              /\ \A k \in 1 .. m : KnownRequest(Accepted(pb, failed)[k])
  <1> DEFINE S == {k \in 1 .. n : pb[k] \notin failed}  m == Cardinality(S)  o == InOrder[S]
  <1>1. S \in SUBSET Nat /\ IsFiniteSet(S) /\ S # {}
      <2>1. IsFiniteSet(1 .. n)
          BY FS_Interval
      <2>. QED  BY <2>1, FS_Subset
  <1>2. m \in Nat /\ o \in [1 .. m -> S]
      <2> HIDE DEF S
      <2>. QED  BY <1>1, InOrderIs
  <1>3. m # 0
      <2> HIDE DEF S
      <2>. QED  BY <1>1, FS_EmptySet
  <1>4. Accepted(pb, failed) = Pick(pb, o)
      BY DEF Accepted, List
  <1> HIDE DEF m, o
  <1>5. List(Pick(pb, o), m) /\ \A k \in 1 .. m : KnownRequest(Pick(pb, o)[k])
      BY <1>2 DEF List, Pick
  <1>. QED  BY <1>2, <1>3, <1>4, <1>5

\* A row of a new batch.
NewRow(row, r) ==
    /\ RowFields \subseteq DOMAIN row /\ row.request = r
    /\ kind \in {"causal", "seq2seq"} => row.max_remaining_tokens = r.output
    /\ kind = "flash" => row.input_length = r.input + r.prefix
    /\ kind = "paged" => row.input_length = r.input /\ row.total_length = r.input + r.output

\* A batch with such rows is a new one.
LEMMA NewRowsFresh ==
  ASSUME kind \in {"causal", "seq2seq", "flash", "paged"}, NEW m \in Nat, NEW requests,
         List(requests, m), \A k \in 1 .. m : KnownRequest(requests[k]), NEW b,
         {"rows", "next_token_chooser"} \subseteq DOMAIN b, List(b.rows, m),
         b.next_token_chooser = NewChooser([k \in DOMAIN requests |-> requests[k].parameters]),
         \A k \in 1 .. m : NewRow(b.rows[k], requests[k])
  PROVE  Fresh(b, m)
  <1>1. ASSUME NEW k \in 1 .. m PROVE RowOk(b.rows[k]) /\ Generated(b.rows[k]) = 0
      <2> DEFINE row == b.rows[k]  r == requests[k]
      <2>1. /\ KnownRequest(r) /\ row.request = r /\ r.output \in Nat /\ r.input \in Nat /\ r.prefix \in Nat
            /\ NewRow(row, r)
          BY DEF KnownRequest, NewRow
      <2> HIDE DEF row, r
      <2>2. CASE kind \in {"causal", "seq2seq"}
          BY <2>1, <2>2, CountdownRow DEF NewRow, RowFields, row
      <2>3. CASE kind \in {"flash", "paged"}
          <3>1. Generated(row) = 0 /\ row.input_length \in Int
              BY <2>1, <2>3, CountupRow DEF NewRow
          <3>. QED  BY <2>1, <2>3, <3>1, CountupRow DEF NewRow, RowFields, row
      <2>. QED  BY <2>2, <2>3
  <1>2. DOMAIN b.rows = 1 .. m /\ DOMAIN requests = 1 .. m
      BY DEF List
  <1>3. Parameters(b) = [k \in DOMAIN requests |-> requests[k].parameters]
      BY <1>2 DEF Parameters, ParametersOf, NewRow
  <1>. QED  BY <1>1, <1>3 DEF Fresh, OfRows

-----------------------------------------------------------------------------
(* The padded batch.                                                        *)

\* A token more for each row ...
LEMMA CausalSteps ==
  ASSUME kind = "causal", NEW b, NEW n \in Nat, OfRows(b, n), NEW first, NEW for_concat
  PROVE  Stepped(Causal!generate_token(b, first, for_concat), b, n)
  <1> DEFINE c == Causal!generate_token(b, first, for_concat)
  <1>1. DOMAIN b.rows = 1 .. n /\ \A k \in 1 .. n : RowOk(b.rows[k])
      BY DEF OfRows, List
  <1>2. c.next_token_chooser = Choose(b.next_token_chooser)
        /\ {"rows", "next_token_chooser"} \subseteq DOMAIN c
      BY CausalNames DEF Causal!generate_token
  <1>3. DOMAIN c.rows = 1 .. n /\ List(c.rows, n)
      BY <1>1 DEF Causal!generate_token, List
  <1>4. ASSUME NEW k \in 1 .. n
        PROVE  /\ c.rows[k].request = b.rows[k].request /\ DOMAIN c.rows[k] = DOMAIN b.rows[k]
               /\ c.rows[k].max_remaining_tokens = b.rows[k].max_remaining_tokens - 1
      <2>1. "request" \in DOMAIN b.rows[k] /\ "max_remaining_tokens" \in DOMAIN b.rows[k]
          BY <1>1 DEF RowOk, RowFields
      <2>. QED  BY <1>1, <2>1 DEF Causal!generate_token
  <1> HIDE DEF c
  <1>5. ASSUME NEW k \in 1 .. n
        PROVE  RowOk(c.rows[k]) /\ Generated(c.rows[k]) = Generated(b.rows[k]) + 1
      <2>1. RowOk(b.rows[k]) /\ KnownRequest(b.rows[k].request) /\ KnownRequest(c.rows[k].request)
          BY <1>1, <1>4 DEF RowOk
      <2>2. b.rows[k].request.output \in Nat
          BY <2>1 DEF KnownRequest
      <2>. QED  BY <1>4, <2>1, <2>2, CountdownRow
  <1>. QED  BY <1>2, <1>3, <1>4, <1>5 DEF Stepped, OfRows, c

\* ... the rows of two batches ...
LEMMA CausalMerges ==
  ASSUME kind = "causal", NEW a, NEW n \in Nat, OfRows(a, n), NEW b, NEW m \in Nat, OfRows(b, m)
  PROVE  Merged(Causal!concatenate(a, b), a, n, b, m)
  <1> DEFINE c == Causal!concatenate(a, b)
             L == Max({a.max_sequence_length, b.max_sequence_length})
             offset == Max({a.padding_right_offset, b.padding_right_offset})
             s == Causal!Repadded(a, L, offset)
             t == Causal!Repadded(b, L, offset)
  <1>1. /\ DOMAIN a.rows = 1 .. n /\ \A k \in 1 .. n : RowOk(a.rows[k])
        /\ DOMAIN b.rows = 1 .. m /\ \A k \in 1 .. m : RowOk(b.rows[k])
        /\ List(a.rows, n) /\ List(b.rows, m)
      BY DEF OfRows, List
  <1>2. c.rows = s \o t /\ {"rows", "next_token_chooser"} \subseteq DOMAIN c
      BY DEF Causal!concatenate, Causal!Max, Max
  <1>3. ASSUME NEW d, NEW x, NEW y, NEW h \in Nat, DOMAIN d.rows = 1 .. h, NEW k \in 1 .. h, RowOk(d.rows[k])
        PROVE  RowOk(Causal!Repadded(d, x, y)[k]) /\ Same(Causal!Repadded(d, x, y)[k], d.rows[k])
      <2>1. RowFields = {"request", "max_remaining_tokens"} /\ RowFields \subseteq DOMAIN d.rows[k]
          BY <1>3 DEF RowFields, RowOk
      <2>2. \A f \in RowFields : /\ f \in DOMAIN Causal!Repadded(d, x, y)[k]
                                 /\ Causal!Repadded(d, x, y)[k][f] = d.rows[k][f]
          BY <1>3, <2>1 DEF Causal!Repadded
      <2>. QED  BY <1>3, <2>2, SameRow
  <1>4. List(s, n) /\ List(t, m)
      BY <1>1 DEF List, Causal!Repadded
  <1>5. c.next_token_chooser =
            CombineChoosers(Joined(Parameters(a), n, Parameters(b), m), a.next_token_chooser, b.next_token_chooser)
      <2>1. c.next_token_chooser =
                CombineChoosers(ParametersOf(a.rows \o b.rows), a.next_token_chooser, b.next_token_chooser)
          BY CausalNames DEF Causal!concatenate, Causal!Column, ParametersOf
      <2> HIDE DEF c
      <2>. QED  BY <2>1, JoinedParameters
  <1> HIDE DEF c, L, offset, s, t
  <1>6. c.rows = Joined(s, n, t, m) /\ List(c.rows, n + m)
      BY <1>2, <1>4, JoinedIs
  <1>7. ASSUME NEW k \in 1 .. n + m
        PROVE  RowOk(c.rows[k]) /\ Same(c.rows[k], Joined(a.rows, n, b.rows, m)[k])
      <2>1. CASE k <= n
          <3>1. k \in 1 .. n /\ c.rows[k] = s[k] /\ Joined(a.rows, n, b.rows, m)[k] = a.rows[k]
              BY <1>6, <2>1 DEF Joined
          <3>. QED  BY <1>1, <1>3, <3>1 DEF s
      <2>2. CASE ~(k <= n)
          <3>1. k - n \in 1 .. m /\ c.rows[k] = t[k - n] /\ Joined(a.rows, n, b.rows, m)[k] = b.rows[k - n]
              BY <1>6, <2>2 DEF Joined
          <3>. QED  BY <1>1, <1>3, <3>1 DEF t
      <2>. QED  BY <2>1, <2>2
  <1>. QED  BY <1>2, <1>5, <1>6, <1>7 DEF Merged, OfRows, c

\* ... the rows that are left ...
LEMMA CausalKeeps ==
  ASSUME kind = "causal", NEW b, NEW n \in Nat, OfRows(b, n), NEW done, done # {}, NEW m \in Nat,
         NEW indices \in [1 .. m -> 1 .. n], indices = KeepIndices(b, done)
  PROVE  Kept(Causal!prune(b, done), b, m, indices)
  <1> DEFINE c == Causal!prune(b, done)  kept == Pick(b.rows, indices)
  <1>1. DOMAIN b.rows = 1 .. n /\ \A k \in 1 .. n : RowOk(b.rows[k])
      BY DEF OfRows, List
  <1>2. Causal!KeepIndices(b, done) = indices /\ Causal!Pick(b.rows, indices) = kept
      BY CausalNames
  <1>3. DOMAIN kept = 1 .. m /\ \A k \in 1 .. m : kept[k] = b.rows[indices[k]] /\ RowOk(kept[k])
      BY <1>1 DEF Pick
  <1>4. c.next_token_chooser = FilterChooser(b.next_token_chooser, indices)
        /\ {"rows", "next_token_chooser"} \subseteq DOMAIN c
      BY <1>2, CausalNames DEF Causal!prune
  <1> HIDE DEF kept
  <1>5. DOMAIN c.rows = 1 .. m /\ List(c.rows, m)
      BY <1>2, <1>3 DEF Causal!prune, List
  <1>6. ASSUME NEW k \in 1 .. m
        PROVE  \A f \in RowFields : f \in DOMAIN c.rows[k] /\ c.rows[k][f] = kept[k][f]
      <2>1. RowFields = {"request", "max_remaining_tokens"} /\ RowFields \subseteq DOMAIN kept[k]
          BY <1>3 DEF RowFields, RowOk
      <2>. QED  BY <1>2, <1>3, <2>1 DEF Causal!prune
  <1> HIDE DEF c
  <1>7. ASSUME NEW k \in 1 .. m PROVE RowOk(c.rows[k]) /\ Same(c.rows[k], kept[k])
      BY <1>3, <1>6, SameRow
  <1>. QED  BY <1>3, <1>4, <1>5, <1>7 DEF Kept, OfRows, c

\* ... and those of a new batch.
LEMMA CausalBuilds ==
  ASSUME kind = "causal", NEW pb, NEW failed, NEW m \in Nat, List(Accepted(pb, failed), m),
         \A k \in 1 .. m : KnownRequest(Accepted(pb, failed)[k])
  PROVE  Fresh(Causal!from_pb(pb, failed).batch, m)
  <1> DEFINE b == Causal!from_pb(pb, failed).batch  requests == Accepted(pb, failed)
  <1>1. Causal!Accepted(pb, failed) = requests
      BY CausalNames
  <1>2. DOMAIN requests = 1 .. m
      BY DEF List
  <1> HIDE DEF requests
  <1>3. /\ b.next_token_chooser = NewChooser([k \in DOMAIN requests |-> requests[k].parameters])
        /\ {"rows", "next_token_chooser"} \subseteq DOMAIN b
      BY <1>1, CausalNames DEF Causal!from_pb, Causal!Column
  <1>4. List(b.rows, m) /\ \A k \in 1 .. m : NewRow(b.rows[k], requests[k])
      <2>1. DOMAIN b.rows = 1 .. m
          BY <1>1, <1>2 DEF Causal!from_pb
      <2>2. b.rows = [k \in 1 .. m |-> b.rows[k]]
          BY <1>1, <1>2, ZenonT(60) DEF Causal!from_pb
      <2>3. ASSUME NEW k \in 1 .. m PROVE NewRow(b.rows[k], requests[k])
          BY <1>1, <1>2 DEF Causal!from_pb, NewRow, RowFields
      <2> HIDE DEF b
      <2>. QED  BY <2>1, <2>2, <2>3 DEF List
  <1> HIDE DEF b
  <1>. QED  BY <1>3, <1>4, NewRowsFresh DEF requests, b

-----------------------------------------------------------------------------
(* The batch of the encoder-decoder models.                                 *)

\* A token more for each row ...
LEMMA Seq2SeqSteps ==
  ASSUME kind = "seq2seq", NEW b, NEW n \in Nat, OfRows(b, n), NEW first, NEW for_concat
  PROVE  Stepped(Seq2Seq!generate_token(b, first, for_concat), b, n)
  <1> DEFINE c == Seq2Seq!generate_token(b, first, for_concat)
  <1>1. /\ DOMAIN b.rows = 1 .. n /\ \A k \in 1 .. n : RowOk(b.rows[k])
        /\ "rows" \in DOMAIN b /\ "next_token_chooser" \in DOMAIN b
      BY DEF OfRows, List
  <1>2. c.next_token_chooser = Choose(b.next_token_chooser)
        /\ {"rows", "next_token_chooser"} \subseteq DOMAIN c
      BY <1>1, Seq2SeqNames DEF Seq2Seq!generate_token
  <1>3. DOMAIN c.rows = 1 .. n /\ List(c.rows, n)
      BY <1>1 DEF Seq2Seq!generate_token, List
  <1>4. ASSUME NEW k \in 1 .. n
        PROVE  /\ c.rows[k].request = b.rows[k].request /\ DOMAIN c.rows[k] = DOMAIN b.rows[k]
               /\ c.rows[k].max_remaining_tokens = b.rows[k].max_remaining_tokens - 1
      <2>1. "request" \in DOMAIN b.rows[k] /\ "max_remaining_tokens" \in DOMAIN b.rows[k]
          BY <1>1 DEF RowOk, RowFields
      <2>. QED  BY <1>1, <2>1 DEF Seq2Seq!generate_token
  <1> HIDE DEF c
  <1>5. ASSUME NEW k \in 1 .. n
        PROVE  RowOk(c.rows[k]) /\ Generated(c.rows[k]) = Generated(b.rows[k]) + 1
      <2>1. RowOk(b.rows[k]) /\ KnownRequest(b.rows[k].request) /\ KnownRequest(c.rows[k].request)
          BY <1>1, <1>4 DEF RowOk
      <2>2. b.rows[k].request.output \in Nat
          BY <2>1 DEF KnownRequest
      <2>. QED  BY <1>4, <2>1, <2>2, CountdownRow
  <1>. QED  BY <1>2, <1>3, <1>4, <1>5 DEF Stepped, OfRows, c

\* ... the rows of two batches ...
LEMMA Seq2SeqMerges ==
  ASSUME kind = "seq2seq", NEW a, NEW n \in Nat, OfRows(a, n), NEW b, NEW m \in Nat, OfRows(b, m)
  PROVE  Merged(Seq2Seq!concatenate(a, b), a, n, b, m)
  <1> DEFINE c == Seq2Seq!concatenate(a, b)
             L == Max({a.max_input_length, b.max_input_length})
             D == Max({a.max_decoder_input_length, b.max_decoder_input_length})
             offset == Max({a.padding_right_offset, b.padding_right_offset})
             s == Seq2Seq!Repadded(a, L, D, offset)
             t == Seq2Seq!Repadded(b, L, D, offset)
  <1>1. /\ DOMAIN a.rows = 1 .. n /\ \A k \in 1 .. n : RowOk(a.rows[k])
        /\ DOMAIN b.rows = 1 .. m /\ \A k \in 1 .. m : RowOk(b.rows[k])
        /\ List(a.rows, n) /\ List(b.rows, m)
      BY DEF OfRows, List
  <1>2. c.rows = s \o t /\ {"rows", "next_token_chooser"} \subseteq DOMAIN c
      BY DEF Seq2Seq!concatenate, Seq2Seq!Max, Max
  <1>3. ASSUME NEW d, NEW x, NEW y, NEW z, NEW h \in Nat, DOMAIN d.rows = 1 .. h, NEW k \in 1 .. h, RowOk(d.rows[k])
        PROVE  RowOk(Seq2Seq!Repadded(d, x, y, z)[k]) /\ Same(Seq2Seq!Repadded(d, x, y, z)[k], d.rows[k])
      <2>1. RowFields = {"request", "max_remaining_tokens"} /\ RowFields \subseteq DOMAIN d.rows[k]
          BY <1>3 DEF RowFields, RowOk
      <2>2. \A f \in RowFields : /\ f \in DOMAIN Seq2Seq!Repadded(d, x, y, z)[k]
                                 /\ Seq2Seq!Repadded(d, x, y, z)[k][f] = d.rows[k][f]
          BY <1>3, <2>1 DEF Seq2Seq!Repadded
      <2>. QED  BY <1>3, <2>2, SameRow
  <1>4. List(s, n) /\ List(t, m)
      BY <1>1 DEF List, Seq2Seq!Repadded
  <1>5. c.next_token_chooser =
            CombineChoosers(Joined(Parameters(a), n, Parameters(b), m), a.next_token_chooser, b.next_token_chooser)
      <2>1. c.next_token_chooser =
                CombineChoosers(ParametersOf(a.rows \o b.rows), a.next_token_chooser, b.next_token_chooser)
          BY Seq2SeqNames DEF Seq2Seq!concatenate, Seq2Seq!Column, ParametersOf
      <2> HIDE DEF c
      <2>. QED  BY <2>1, JoinedParameters
  <1> HIDE DEF c, L, D, offset, s, t
  <1>6. c.rows = Joined(s, n, t, m) /\ List(c.rows, n + m)
      BY <1>2, <1>4, JoinedIs
  <1>7. ASSUME NEW k \in 1 .. n + m
        PROVE  RowOk(c.rows[k]) /\ Same(c.rows[k], Joined(a.rows, n, b.rows, m)[k])
      <2>1. CASE k <= n
          <3>1. k \in 1 .. n /\ c.rows[k] = s[k] /\ Joined(a.rows, n, b.rows, m)[k] = a.rows[k]
              BY <1>6, <2>1 DEF Joined
          <3>. QED  BY <1>1, <1>3, <3>1 DEF s
      <2>2. CASE ~(k <= n)
          <3>1. k - n \in 1 .. m /\ c.rows[k] = t[k - n] /\ Joined(a.rows, n, b.rows, m)[k] = b.rows[k - n]
              BY <1>6, <2>2 DEF Joined
          <3>. QED  BY <1>1, <1>3, <3>1 DEF t
      <2>. QED  BY <2>1, <2>2
  <1>. QED  BY <1>2, <1>5, <1>6, <1>7 DEF Merged, OfRows, c

\* ... the rows that are left ...
LEMMA Seq2SeqKeeps ==
  ASSUME kind = "seq2seq", NEW b, NEW n \in Nat, OfRows(b, n), NEW done, done # {}, NEW m \in Nat,
         NEW indices \in [1 .. m -> 1 .. n], indices = KeepIndices(b, done)
  PROVE  Kept(Seq2Seq!prune(b, done), b, m, indices)
  <1> DEFINE c == Seq2Seq!prune(b, done)  kept == Pick(b.rows, indices)
  <1>1. /\ DOMAIN b.rows = 1 .. n /\ \A k \in 1 .. n : RowOk(b.rows[k])
        /\ "rows" \in DOMAIN b /\ "next_token_chooser" \in DOMAIN b
      BY DEF OfRows, List
  <1>2. Seq2Seq!KeepIndices(b, done) = indices /\ Seq2Seq!Pick(b.rows, indices) = kept
      BY Seq2SeqNames
  <1>3. DOMAIN kept = 1 .. m /\ \A k \in 1 .. m : kept[k] = b.rows[indices[k]] /\ RowOk(kept[k])
      BY <1>1 DEF Pick
  <1>4. c.next_token_chooser = FilterChooser(b.next_token_chooser, indices)
        /\ {"rows", "next_token_chooser"} \subseteq DOMAIN c
      BY <1>1, <1>2, Seq2SeqNames DEF Seq2Seq!prune
  <1> HIDE DEF kept
  <1>5. DOMAIN c.rows = 1 .. m /\ List(c.rows, m)
      BY <1>1, <1>2, <1>3 DEF Seq2Seq!prune, List
  <1>6. ASSUME NEW k \in 1 .. m
        PROVE  \A f \in RowFields : f \in DOMAIN c.rows[k] /\ c.rows[k][f] = kept[k][f]
      <2>1. RowFields = {"request", "max_remaining_tokens"} /\ RowFields \subseteq DOMAIN kept[k]
          BY <1>3 DEF RowFields, RowOk
      <2>. QED  BY <1>1, <1>2, <1>3, <2>1 DEF Seq2Seq!prune
  <1> HIDE DEF c
  <1>7. ASSUME NEW k \in 1 .. m PROVE RowOk(c.rows[k]) /\ Same(c.rows[k], kept[k])
      BY <1>3, <1>6, SameRow
  <1>. QED  BY <1>3, <1>4, <1>5, <1>7 DEF Kept, OfRows, c

\* ... and those of a new batch.
LEMMA Seq2SeqBuilds ==
  ASSUME kind = "seq2seq", NEW pb, NEW failed, NEW m \in Nat, List(Accepted(pb, failed), m),
         \A k \in 1 .. m : KnownRequest(Accepted(pb, failed)[k])
  PROVE  Fresh(Seq2Seq!from_pb(pb, failed).batch, m)
  <1> DEFINE b == Seq2Seq!from_pb(pb, failed).batch  requests == Accepted(pb, failed)
  <1>1. Seq2Seq!Accepted(pb, failed) = requests
      BY Seq2SeqNames
  <1>2. DOMAIN requests = 1 .. m
      BY DEF List
  <1> HIDE DEF requests
  <1>3. /\ b.next_token_chooser = NewChooser([k \in DOMAIN requests |-> requests[k].parameters])
        /\ {"rows", "next_token_chooser"} \subseteq DOMAIN b
      BY <1>1, Seq2SeqNames DEF Seq2Seq!from_pb, Seq2Seq!Column
  <1>4. List(b.rows, m) /\ \A k \in 1 .. m : NewRow(b.rows[k], requests[k])
      <2>1. DOMAIN b.rows = 1 .. m
          BY <1>1, <1>2 DEF Seq2Seq!from_pb
      <2>2. b.rows = [k \in 1 .. m |-> b.rows[k]]
          BY <1>1, <1>2, ZenonT(60) DEF Seq2Seq!from_pb
      <2>3. ASSUME NEW k \in 1 .. m PROVE NewRow(b.rows[k], requests[k])
          BY <1>1, <1>2, ZenonT(30) DEF Seq2Seq!from_pb, NewRow, RowFields
      <2> HIDE DEF b
      <2>. QED  BY <2>1, <2>2, <2>3 DEF List
  <1> HIDE DEF b
  <1>. QED  BY <1>3, <1>4, NewRowsFresh DEF requests, b

-----------------------------------------------------------------------------
(* The unpadded batch.                                                      *)

\* A token more for each row ...
LEMMA FlashSteps ==
  ASSUME kind = "flash", NEW b, NEW n \in Nat, OfRows(b, n), NEW first, NEW for_concat
  PROVE  Stepped(Flash!generate_token(b, first, for_concat), b, n)
  <1> DEFINE c == Flash!generate_token(b, first, for_concat)
  <1>1. /\ DOMAIN b.rows = 1 .. n /\ \A k \in 1 .. n : RowOk(b.rows[k])
        /\ "rows" \in DOMAIN b /\ "next_token_chooser" \in DOMAIN b
      BY DEF OfRows, List
  <1>2. c.next_token_chooser = Choose(b.next_token_chooser)
        /\ {"rows", "next_token_chooser"} \subseteq DOMAIN c
      BY <1>1, FlashNames DEF Flash!generate_token
  <1>3. DOMAIN c.rows = 1 .. n /\ List(c.rows, n)
      BY <1>1 DEF Flash!generate_token, List
  <1>4. ASSUME NEW k \in 1 .. n
        PROVE  /\ c.rows[k].request = b.rows[k].request /\ DOMAIN c.rows[k] = DOMAIN b.rows[k]
               /\ c.rows[k].input_length = b.rows[k].input_length + 1
      <2>1. {"request", "input_length", "total_length"} \subseteq DOMAIN b.rows[k]
          BY <1>1 DEF RowOk, RowFields
      <2>. QED  BY <1>1, <2>1 DEF Flash!generate_token
  <1> HIDE DEF c
  <1>5. ASSUME NEW k \in 1 .. n
        PROVE  RowOk(c.rows[k]) /\ Generated(c.rows[k]) = Generated(b.rows[k]) + 1
      <2>1. RowOk(b.rows[k]) /\ KnownRequest(b.rows[k].request) /\ KnownRequest(c.rows[k].request)
          BY <1>1, <1>4 DEF RowOk
      <2>2. b.rows[k].request.input \in Nat /\ b.rows[k].request.prefix \in Nat
          BY <2>1 DEF KnownRequest
      <2>3. b.rows[k].input_length \in Int /\ Generated(b.rows[k]) \in Nat
          BY <2>1, CountupRow
      <2>4. Generated(c.rows[k]) = Generated(b.rows[k]) + 1 /\ c.rows[k].input_length \in Int
          BY <1>4, <2>1, <2>2, <2>3, CountupRow
      <2>. QED  BY <1>4, <2>1, <2>3, <2>4, CountupRow
  <1>. QED  BY <1>2, <1>3, <1>4, <1>5 DEF Stepped, OfRows, c

\* ... the rows of two batches ...
LEMMA FlashMerges ==
  ASSUME kind = "flash", NEW a, NEW n \in Nat, OfRows(a, n), NEW b, NEW m \in Nat, OfRows(b, m)
  PROVE  Merged(Flash!concatenate(a, b), a, n, b, m)
  <1> DEFINE c == Flash!concatenate(a, b)  rows == a.rows \o b.rows
  <1>1. /\ \A k \in 1 .. n : RowOk(a.rows[k])
        /\ \A k \in 1 .. m : RowOk(b.rows[k])
        /\ List(a.rows, n) /\ List(b.rows, m)
      BY DEF OfRows
  <1>2. {"rows", "next_token_chooser"} \subseteq DOMAIN c
      BY DEF Flash!concatenate
  <1>3. c.next_token_chooser =
            CombineChoosers(Joined(Parameters(a), n, Parameters(b), m), a.next_token_chooser, b.next_token_chooser)
      <2>1. c.next_token_chooser =
                CombineChoosers(ParametersOf(a.rows \o b.rows), a.next_token_chooser, b.next_token_chooser)
          BY FlashNames DEF Flash!concatenate, Flash!Column, ParametersOf
      <2> HIDE DEF c
      <2>. QED  BY <2>1, JoinedParameters
  <1>4. rows = Joined(a.rows, n, b.rows, m) /\ DOMAIN rows = 1 .. n + m
      <2>1. rows = Joined(a.rows, n, b.rows, m)
          BY <1>1, JoinedIs
      <2>. QED  BY <2>1 DEF Joined
  <1>5. \A k \in 1 .. n + m : RowOk(Joined(a.rows, n, b.rows, m)[k])
      BY <1>1 DEF Joined
  <1> HIDE DEF rows
  <1>6. List(c.rows, n + m)
      BY <1>4 DEF Flash!concatenate, Flash!Column, List, rows
  <1>7. ASSUME NEW k \in 1 .. n + m
        PROVE  \A f \in RowFields : f \in DOMAIN c.rows[k] /\ c.rows[k][f] = rows[k][f]
      <2>1. RowFields = {"request", "input_length", "total_length"} /\ RowFields \subseteq DOMAIN rows[k]
          BY <1>4, <1>5 DEF RowFields, RowOk
      <2>. QED  BY <1>4, <2>1 DEF Flash!concatenate, Flash!Column, rows
  <1> HIDE DEF c
  <1>8. ASSUME NEW k \in 1 .. n + m
        PROVE  RowOk(c.rows[k]) /\ Same(c.rows[k], Joined(a.rows, n, b.rows, m)[k])
      BY <1>4, <1>5, <1>7, SameRow
  <1>. QED  BY <1>2, <1>3, <1>6, <1>8 DEF Merged, OfRows, c

\* ... the rows that are left ...
LEMMA FlashKeeps ==
  ASSUME kind = "flash", NEW b, NEW n \in Nat, OfRows(b, n), NEW done, done # {}, NEW m \in Nat,
         NEW indices \in [1 .. m -> 1 .. n], indices = KeepIndices(b, done)
  PROVE  Kept(Flash!prune(b, done), b, m, indices)
  <1> DEFINE c == Flash!prune(b, done)  kept == Pick(b.rows, indices)
  <1>1. /\ DOMAIN b.rows = 1 .. n /\ \A k \in 1 .. n : RowOk(b.rows[k])
        /\ "rows" \in DOMAIN b /\ "next_token_chooser" \in DOMAIN b
      BY DEF OfRows, List
  <1>2. Flash!KeepIndices(b, done) = indices /\ Flash!Pick(b.rows, indices) = kept
      BY FlashNames
  <1>3. DOMAIN kept = 1 .. m /\ \A k \in 1 .. m : kept[k] = b.rows[indices[k]] /\ RowOk(kept[k])
      BY <1>1 DEF Pick
  <1>4. c.next_token_chooser = FilterChooser(b.next_token_chooser, indices)
        /\ {"rows", "next_token_chooser"} \subseteq DOMAIN c
      BY <1>1, <1>2, FlashNames DEF Flash!prune
  <1> HIDE DEF kept
  <1>5. DOMAIN c.rows = 1 .. m /\ List(c.rows, m)
      BY <1>1, <1>2, <1>3 DEF Flash!prune, Flash!Column, List
  <1>6. ASSUME NEW k \in 1 .. m
        PROVE  \A f \in RowFields : f \in DOMAIN c.rows[k] /\ c.rows[k][f] = kept[k][f]
      <2>1. RowFields = {"request", "input_length", "total_length"} /\ RowFields \subseteq DOMAIN kept[k]
          BY <1>3 DEF RowFields, RowOk
      <2>. QED  BY <1>1, <1>2, <1>3, <2>1 DEF Flash!prune, Flash!Column
  <1> HIDE DEF c
  <1>7. ASSUME NEW k \in 1 .. m PROVE RowOk(c.rows[k]) /\ Same(c.rows[k], kept[k])
      BY <1>3, <1>6, SameRow
  <1>. QED  BY <1>3, <1>4, <1>5, <1>7 DEF Kept, OfRows, c

\* ... and those of a new batch.
LEMMA FlashBuilds ==
  ASSUME kind = "flash", NEW pb, NEW failed, NEW m \in Nat, List(Accepted(pb, failed), m),
         \A k \in 1 .. m : KnownRequest(Accepted(pb, failed)[k])
  PROVE  Fresh(Flash!from_pb(pb, failed).batch, m)
  <1> DEFINE b == Flash!from_pb(pb, failed).batch  requests == Accepted(pb, failed)
  <1>1. Flash!Accepted(pb, failed) = requests
      BY FlashNames
  <1>2. DOMAIN requests = 1 .. m
      BY DEF List
  <1> HIDE DEF requests
  <1>3. /\ b.next_token_chooser = NewChooser([k \in DOMAIN requests |-> requests[k].parameters])
        /\ {"rows", "next_token_chooser"} \subseteq DOMAIN b
      BY <1>1, FlashNames DEF Flash!from_pb, Flash!Column
  <1>4. List(b.rows, m) /\ \A k \in 1 .. m : NewRow(b.rows[k], requests[k])
      <2>1. DOMAIN b.rows = 1 .. m
          BY <1>1, <1>2 DEF Flash!from_pb
      <2>2. b.rows = [k \in 1 .. m |-> b.rows[k]]
          BY <1>1, <1>2, ZenonT(60) DEF Flash!from_pb
      <2>3. ASSUME NEW k \in 1 .. m PROVE NewRow(b.rows[k], requests[k])
          BY <1>1, <1>2 DEF Flash!from_pb, NewRow, RowFields
      <2> HIDE DEF b
      <2>. QED  BY <2>1, <2>2, <2>3 DEF List
  <1> HIDE DEF b
  <1>. QED  BY <1>3, <1>4, NewRowsFresh DEF requests, b

-----------------------------------------------------------------------------
(* The paged batch.                                                         *)

\* The tokens chosen for the rows: one for each row that samples, or more.
LEMMA PagedUpdates ==
  ASSUME kind = "paged", NEW b, NEW n \in Nat, OfRows(b, n), NEW next_tokens, NEW sequence_ids,
         \A k \in 1 .. n : /\ b.rows[k].input_length < b.rows[k].total_length
                           /\ Len(next_tokens[k]) \in Nat \ {0}
                           /\ Exact(b.rows[k]) => Len(next_tokens[k]) = 1
  PROVE  Stepped(Paged!Updated(b, next_tokens, sequence_ids), b, n)
  <1> DEFINE c == Paged!Updated(b, next_tokens, sequence_ids)
             more(k) == Min({Len(next_tokens[k]), b.rows[k].total_length - b.rows[k].input_length})
  <1>1. DOMAIN b.rows = 1 .. n /\ \A k \in 1 .. n : RowOk(b.rows[k])
      BY DEF OfRows, List
  <1>2. c.next_token_chooser = Choose(b.next_token_chooser)
        /\ {"rows", "next_token_chooser"} \subseteq DOMAIN c
      BY PagedNames DEF Paged!Updated
  <1>3. DOMAIN c.rows = 1 .. n /\ List(c.rows, n)
      BY <1>1 DEF Paged!Updated, List
  <1>4. ASSUME NEW k \in 1 .. n
        PROVE  /\ c.rows[k].request = b.rows[k].request /\ DOMAIN c.rows[k] = DOMAIN b.rows[k]
               /\ c.rows[k].total_length = b.rows[k].total_length
               /\ c.rows[k].input_length = b.rows[k].input_length + more(k)
      <2>1. {"request", "input_length", "total_length"} \subseteq DOMAIN b.rows[k]
          BY <1>1 DEF RowOk, RowFields
      <2>. QED  BY <1>1, <2>1 DEF Paged!Updated, Paged!ProcessTokens, Paged!Min, Min
  <1>5. ASSUME NEW k \in 1 .. n
        PROVE  /\ b.rows[k].input_length \in Int /\ KnownRequest(b.rows[k].request)
               /\ b.rows[k].total_length = b.rows[k].request.input + b.rows[k].request.output
               /\ Generated(b.rows[k]) \in Nat
               /\ Generated(b.rows[k]) = b.rows[k].input_length - b.rows[k].request.input
               /\ b.rows[k].request.input \in Nat /\ b.rows[k].request.output \in Nat
               /\ b.rows[k].total_length \in Int
               /\ b.rows[k].input_length - b.rows[k].request.input \in Nat
      <2>1. RowOk(b.rows[k]) /\ KnownRequest(b.rows[k].request)
          BY <1>1 DEF RowOk
      <2>2. b.rows[k].request.input \in Nat /\ b.rows[k].request.output \in Nat
          BY <2>1 DEF KnownRequest
      <2>3. /\ b.rows[k].input_length \in Int
            /\ b.rows[k].total_length = b.rows[k].request.input + b.rows[k].request.output
            /\ Generated(b.rows[k]) \in Nat
            /\ Generated(b.rows[k]) = b.rows[k].input_length - b.rows[k].request.input
          BY <2>1, CountupRow
      <2>4. b.rows[k].request.input + b.rows[k].request.output \in Int
          BY <2>2
      <2>. QED  BY <2>1, <2>2, <2>3, <2>4
  <1>6. ASSUME NEW k \in 1 .. n
        PROVE  /\ more(k) \in Nat \ {0} /\ more(k) <= b.rows[k].total_length - b.rows[k].input_length
               /\ Exact(b.rows[k]) => more(k) = 1
      <2> DEFINE x == Len(next_tokens[k])  y == b.rows[k].total_length - b.rows[k].input_length
      <2>1. x \in Nat \ {0} /\ y \in Nat \ {0} /\ (Exact(b.rows[k]) => x = 1)
          <3>1. b.rows[k].input_length \in Int /\ b.rows[k].total_length \in Int
              BY <1>5
          <3>2. b.rows[k].input_length < b.rows[k].total_length
              OBVIOUS
          <3>3. y \in Nat \ {0}
              BY <3>1, <3>2
          <3>. QED  BY <3>3
      <2> HIDE DEF x, y
      <2>2. Min({x, y}) = IF x <= y THEN x ELSE y
          BY <2>1 DEF Min
      <2>3. more(k) = Min({x, y})
          BY DEF x, y
      <2> HIDE DEF more
      <2>4. more(k) \in Nat \ {0} /\ more(k) <= y /\ (Exact(b.rows[k]) => more(k) = 1)
          BY <2>1, <2>2, <2>3
      <2>. QED  BY <2>4 DEF y
  <1> HIDE DEF c, more
  <1>7. ASSUME NEW k \in 1 .. n
        PROVE  RowOk(c.rows[k]) /\ (Exact(b.rows[k]) => Generated(c.rows[k]) = Generated(b.rows[k]) + 1)
      <2>1. KnownRequest(c.rows[k].request) /\ {"request", "input_length", "total_length"} \subseteq DOMAIN c.rows[k]
          BY <1>1, <1>4 DEF RowOk, RowFields
      <2>2. Generated(c.rows[k]) = c.rows[k].input_length - c.rows[k].request.input
          BY <2>1, CountupRow
      <2> DEFINE x == b.rows[k].input_length  y == b.rows[k].total_length  i == b.rows[k].request.input
      <2>3. /\ c.rows[k].input_length = x + more(k) /\ c.rows[k].total_length = y
            /\ c.rows[k].request.input = i /\ Generated(b.rows[k]) = x - i
          BY <1>4, <1>5
      <2>4. x \in Int /\ y \in Int /\ i \in Nat /\ x - i \in Nat
          BY <1>5
      <2>5. more(k) \in Nat \ {0} /\ more(k) <= y - x /\ (Exact(b.rows[k]) => more(k) = 1)
          BY <1>6
      <2> HIDE DEF x, y, i
      <2>6. /\ x + more(k) \in Int /\ x + more(k) <= y /\ (x + more(k)) - i \in Nat
            /\ (x + more(k)) - i = (x - i) + more(k)
          BY <2>4, <2>5
      <2>7. /\ c.rows[k].input_length \in Int /\ c.rows[k].input_length <= c.rows[k].total_length
            /\ Generated(c.rows[k]) \in Nat
          BY <2>2, <2>3, <2>6
      <2>8. Exact(b.rows[k]) => Generated(c.rows[k]) = Generated(b.rows[k]) + 1
          BY <2>2, <2>3, <2>5, <2>6
      <2>9. c.rows[k].total_length = c.rows[k].request.input + c.rows[k].request.output
          BY <1>4, <1>5
      <2>. QED  BY <2>1, <2>7, <2>8, <2>9, CountupRow
  <1>. QED  BY <1>2, <1>3, <1>4, <1>7 DEF Stepped, OfRows, c

\* So it is for all outcomes of generate_token.
LEMMA PagedSteps ==
  ASSUME kind = "paged", NEW b, NEW n \in Nat, OfRows(b, n), NEW first \in BOOLEAN, NEW cache0,
         \A k \in 1 .. n : b.rows[k].input_length < b.rows[k].total_length,
         \A k \in 1 .. n : Exact(b.rows[k]) => b.next_token_chooser.do_sample[k],
         NEW result \in Paged!generate_token(b, cache0, first)
  PROVE  Stepped(result.batch, b, n)
  <1>1. DOMAIN b.rows = 1 .. n
      BY DEF OfRows, List
  <1>2. ASSUME NEW next_tokens, NEW ids, result.batch = Paged!Updated(b, next_tokens, ids),
               \A k \in 1 .. n : /\ Len(next_tokens[k]) \in Nat \ {0}
                                 /\ Exact(b.rows[k]) => Len(next_tokens[k]) = 1
        PROVE  Stepped(result.batch, b, n)
      BY <1>2, PagedUpdates
  <1>3. ASSUME NEW k \in 1 .. n
        PROVE  Len(Paged!OneToken(b)[k]) \in Nat \ {0} /\ (Exact(b.rows[k]) => Len(Paged!OneToken(b)[k]) = 1)
      <2>1. Paged!OneToken(b)[k] = <<Paged!NextCell(b.rows[k], 1)>>
          BY <1>1 DEF Paged!OneToken, Paged!Column
      <2>2. Len(<<Paged!NextCell(b.rows[k], 1)>>) = 1
          OBVIOUS
      <2>. QED  BY <2>1, <2>2
  <1>4. CASE first
      <2>1. result = Paged!_prefill(b, cache0)
          BY <1>4 DEF Paged!generate_token
      <2>2. result.batch = Paged!Updated(b, Paged!OneToken(b), Paged!NextIds(cache0, Len(b.rows)))
          BY <2>1 DEF Paged!_prefill
      <2> DEFINE next_tokens == Paged!OneToken(b)
      <2>3. \A k \in 1 .. n : /\ Len(next_tokens[k]) \in Nat \ {0}
                              /\ Exact(b.rows[k]) => Len(next_tokens[k]) = 1
          BY <1>3, Zenon
      <2> HIDE DEF next_tokens
      <2>. QED  BY <1>2, <2>2, <2>3 DEF next_tokens
  <1>5. CASE ~first /\ ~Paged!Speculates(b, cache0)
      <2>1. result = Paged!_next_token_without_speculation(b, cache0)
          BY <1>5 DEF Paged!generate_token
      <2>2. result.batch = Paged!Updated(b, Paged!OneToken(b), Paged!SequenceIds(b))
          BY <2>1 DEF Paged!_next_token_without_speculation
      <2> DEFINE next_tokens == Paged!OneToken(b)
      <2>3. \A k \in 1 .. n : /\ Len(next_tokens[k]) \in Nat \ {0}
                              /\ Exact(b.rows[k]) => Len(next_tokens[k]) = 1
          BY <1>3, Zenon
      <2> HIDE DEF next_tokens
      <2>. QED  BY <1>2, <2>2, <2>3 DEF next_tokens
  <1>6. CASE ~first /\ Paged!Speculates(b, cache0)
      <2>1. PICK n_correct \in [DOMAIN b.rows -> 0 .. NPredict] :
                 \E best_guess \in Paged!BestGuesses(Paged!SpecInd(b), n_correct) :
                     result = Paged!_next_token_with_speculation(b, cache0, Paged!SpecInd(b), n_correct, best_guess)
          BY <1>6 DEF Paged!generate_token
      <2> DEFINE next_tokens == [k \in DOMAIN b.rows |->
                     IF k \notin Paged!SpecInd(b) THEN <<Paged!NextCell(b.rows[k], 1)>>
                     ELSE [j \in 1 .. n_correct[k] + 1 |-> Paged!NextCell(b.rows[k], j)]]
      <2>2. \E ids : result.batch = Paged!Updated(b, next_tokens, ids)
          <3>1. PICK best_guess \in Paged!BestGuesses(Paged!SpecInd(b), n_correct) :
                    result = Paged!_next_token_with_speculation(b, cache0, Paged!SpecInd(b), n_correct, best_guess)
              BY <2>1
          <3> DEFINE children == Paged!ChildIds(cache0, Len(b.rows), CandidateCount)
                     ids == [k \in DOMAIN b.rows |-> children[k][best_guess[k]]]
          <3>2. result.batch = Paged!Updated(b, next_tokens, ids)
              BY <3>1 DEF Paged!_next_token_with_speculation
          <3>. QED  BY <3>2
      <2>3. ASSUME NEW k \in 1 .. n
            PROVE  /\ Len(next_tokens[k]) \in Nat \ {0}
                   /\ Exact(b.rows[k]) => Len(next_tokens[k]) = 1
          <3>1. CASE k \notin Paged!SpecInd(b)
              BY <1>1, <3>1
          <3>2. CASE k \in Paged!SpecInd(b)
              <4> DEFINE N == n_correct[k] + 1  s == [j \in 1 .. N |-> Paged!NextCell(b.rows[k], j)]
              <4>1. N \in Nat \ {0}
                  BY <1>1
              <4>2. next_tokens[k] = s
                  BY <1>1, <3>2
              <4>3. List(s, N)
                  BY DEF List
              <4>4. Len(s) = N
                  <5> HIDE DEF s, N
                  <5>. QED  BY <4>1, <4>3, Lists
              <4>5. ~Exact(b.rows[k])
                  BY <1>1, <3>2 DEF Paged!SpecInd
              <4>. QED  BY <4>1, <4>2, <4>4, <4>5
          <3>. QED  BY <3>1, <3>2
      <2> HIDE DEF next_tokens
      <2>. QED  BY <1>2, <2>2, <2>3
  <1>. QED  BY <1>4, <1>5, <1>6

\* The rows of two batches ...
LEMMA PagedMerges ==
  ASSUME kind = "paged", NEW a, NEW n \in Nat, OfRows(a, n), NEW b, NEW m \in Nat, OfRows(b, m)
  PROVE  Merged(Paged!concatenate(a, b), a, n, b, m)
  <1> DEFINE c == Paged!concatenate(a, b)  rows == a.rows \o b.rows
  <1>1. /\ \A k \in 1 .. n : RowOk(a.rows[k])
        /\ \A k \in 1 .. m : RowOk(b.rows[k])
        /\ List(a.rows, n) /\ List(b.rows, m)
      BY DEF OfRows
  <1>2. {"rows", "next_token_chooser"} \subseteq DOMAIN c
      BY DEF Paged!concatenate
  <1>3. c.next_token_chooser =
            CombineChoosers(Joined(Parameters(a), n, Parameters(b), m), a.next_token_chooser, b.next_token_chooser)
      <2>1. c.next_token_chooser =
                CombineChoosers(ParametersOf(a.rows \o b.rows), a.next_token_chooser, b.next_token_chooser)
          BY PagedNames DEF Paged!concatenate, Paged!Column, ParametersOf
      <2> HIDE DEF c
      <2>. QED  BY <2>1, JoinedParameters
  <1>4. rows = Joined(a.rows, n, b.rows, m) /\ DOMAIN rows = 1 .. n + m
      <2>1. rows = Joined(a.rows, n, b.rows, m)
          BY <1>1, JoinedIs
      <2>. QED  BY <2>1 DEF Joined
  <1>5. \A k \in 1 .. n + m : RowOk(Joined(a.rows, n, b.rows, m)[k])
      BY <1>1 DEF Joined
  <1> HIDE DEF rows
  <1>6. List(c.rows, n + m)
      BY <1>4 DEF Paged!concatenate, Paged!Column, List, rows
  <1>7. ASSUME NEW k \in 1 .. n + m
        PROVE  \A f \in RowFields : f \in DOMAIN c.rows[k] /\ c.rows[k][f] = rows[k][f]
      <2>1. RowFields = {"request", "input_length", "total_length"} /\ RowFields \subseteq DOMAIN rows[k]
          BY <1>4, <1>5 DEF RowFields, RowOk
      <2>. QED  BY <1>4, <2>1 DEF Paged!concatenate, Paged!Column, rows
  <1> HIDE DEF c
  <1>8. ASSUME NEW k \in 1 .. n + m
        PROVE  RowOk(c.rows[k]) /\ Same(c.rows[k], Joined(a.rows, n, b.rows, m)[k])
      BY <1>4, <1>5, <1>7, SameRow
  <1>. QED  BY <1>2, <1>3, <1>6, <1>8 DEF Merged, OfRows, c

\* ... the rows that are left ...
LEMMA PagedKeeps ==
  ASSUME kind = "paged", NEW b, NEW n \in Nat, OfRows(b, n), NEW done, done # {}, NEW m \in Nat,
         NEW indices \in [1 .. m -> 1 .. n], indices = KeepIndices(b, done)
  PROVE  Kept(Paged!prune(b, done), b, m, indices)
  <1> DEFINE c == Paged!prune(b, done)  kept == Pick(b.rows, indices)
  <1>1. /\ DOMAIN b.rows = 1 .. n /\ \A k \in 1 .. n : RowOk(b.rows[k])
        /\ "rows" \in DOMAIN b /\ "next_token_chooser" \in DOMAIN b
      BY DEF OfRows, List
  <1>2. Paged!KeepIndices(b, done) = indices /\ Paged!Pick(b.rows, indices) = kept
      BY PagedNames
  <1>3. DOMAIN kept = 1 .. m /\ \A k \in 1 .. m : kept[k] = b.rows[indices[k]] /\ RowOk(kept[k])
      BY <1>1 DEF Pick
  <1>4. c.next_token_chooser = FilterChooser(b.next_token_chooser, indices)
        /\ {"rows", "next_token_chooser"} \subseteq DOMAIN c
      BY <1>1, <1>2, PagedNames DEF Paged!prune
  <1> HIDE DEF kept
  <1>5. DOMAIN c.rows = 1 .. m /\ List(c.rows, m)
      BY <1>1, <1>2, <1>3 DEF Paged!prune, Paged!Column, List
  <1>6. ASSUME NEW k \in 1 .. m
        PROVE  \A f \in RowFields : f \in DOMAIN c.rows[k] /\ c.rows[k][f] = kept[k][f]
      <2>1. RowFields = {"request", "input_length", "total_length"} /\ RowFields \subseteq DOMAIN kept[k]
          BY <1>3 DEF RowFields, RowOk
      <2>. QED  BY <1>1, <1>2, <1>3, <2>1 DEF Paged!prune, Paged!Column
  <1> HIDE DEF c
  <1>7. ASSUME NEW k \in 1 .. m PROVE RowOk(c.rows[k]) /\ Same(c.rows[k], kept[k])
      BY <1>3, <1>6, SameRow
  <1>. QED  BY <1>3, <1>4, <1>5, <1>7 DEF Kept, OfRows, c

\* ... and those of a new batch, in which no request is left out.
LEMMA PagedBuilds ==
  ASSUME kind = "paged", NEW requests, NEW m \in Nat, List(requests, m),
         \A k \in 1 .. m : KnownRequest(requests[k])
  PROVE  Fresh(Paged!from_pb(requests), m)
  <1> DEFINE b == Paged!from_pb(requests)
  <1>1. DOMAIN requests = 1 .. m
      BY DEF List
  <1>2. /\ b.next_token_chooser = NewChooser([k \in DOMAIN requests |-> requests[k].parameters])
        /\ {"rows", "next_token_chooser"} \subseteq DOMAIN b
      BY PagedNames DEF Paged!from_pb, Paged!Column
  <1>3. List(b.rows, m) /\ \A k \in 1 .. m : NewRow(b.rows[k], requests[k])
      BY <1>1 DEF Paged!from_pb, List, NewRow, RowFields
  <1> HIDE DEF b
  <1>. QED  BY <1>2, <1>3, NewRowsFresh DEF b

-----------------------------------------------------------------------------
(* Python's slices on lists.                                                *)

\* A part of a list.
LEMMA SubSeqIs ==
  ASSUME NEW n \in Nat, NEW s, List(s, n), NEW lo \in Int, NEW hi \in Int,
         1 <= lo, lo <= hi + 1, hi <= n
  PROVE  /\ List(SubSeq(s, lo, hi), hi - lo + 1)
         /\ \A k \in 1 .. hi - lo + 1 : SubSeq(s, lo, hi)[k] = s[lo + k - 1]
  <1> DEFINE S == {s[k] : k \in 1 .. n}  u == SubSeq(s, lo, hi)
  <1>1. s \in [1 .. n -> S]
      BY DEF List
  <1> HIDE DEF S
  <1>2. s \in Seq(S) /\ Len(s) = n /\ DOMAIN s = 1 .. n
      BY <1>1
  <1>3. /\ u \in Seq(S) /\ Len(u) = (IF lo <= hi THEN hi - lo + 1 ELSE 0)
        /\ \A k \in 1 .. hi - lo + 1 : u[k] = s[lo + k - 1]
      BY <1>2, SubSeqProperties
  <1> HIDE DEF u
  <1>4. Len(u) = hi - lo + 1
      BY <1>3
  <1>5. u \in [1 .. hi - lo + 1 -> S]
      BY <1>3, <1>4, LenProperties
  <1>. QED  BY <1>3, <1>5 DEF List, u

\* The position that a bound of a slice stands for.
LEMMA PositionIs ==
  ASSUME NEW n \in Nat, NEW x \in Int
  PROVE  /\ Position(n, x) \in 0 .. n
         /\ x < 0 /\ n + x >= 0 => Position(n, x) = n + x
         /\ 0 <= x /\ x <= n => Position(n, x) = x
  <1>1. CASE x < 0
      <2>1. Max({0, n + x}) = IF n + x >= 0 THEN n + x ELSE 0
          BY <1>1 DEF Max
      <2>. QED  BY <1>1, <2>1 DEF Position
  <1>2. CASE x >= 0
      <2>1. Min({x, n}) = IF x <= n THEN x ELSE n
          BY <1>2 DEF Min
      <2>. QED  BY <1>2, <2>1 DEF Position
  <1>. QED  BY <1>1, <1>2

\* s[lo:hi]
LEMMA SliceIs ==
  ASSUME NEW n \in Nat, NEW s, List(s, n), NEW lo \in Int, NEW hi \in Int,
         NEW l \in Nat, NEW h \in Nat, l = Position(n, lo), h = Position(n, hi), l <= h
  PROVE  /\ List(Slice(s, lo, hi), h - l)
         /\ \A k \in 1 .. h - l : Slice(s, lo, hi)[k] = s[l + k]
  <1>1. Len(s) = n
      BY Lists
  <1>2. Slice(s, lo, hi) = SubSeq(s, l + 1, h)
      BY <1>1 DEF Slice
  <1>3. h <= n
      BY PositionIs
  <1>4. /\ List(SubSeq(s, l + 1, h), h - (l + 1) + 1)
        /\ \A k \in 1 .. h - (l + 1) + 1 : SubSeq(s, l + 1, h)[k] = s[(l + 1) + k - 1]
      BY <1>3, SubSeqIs
  <1>5. h - (l + 1) + 1 = h - l /\ \A k \in 1 .. h - l : (l + 1) + k - 1 = l + k
      OBVIOUS
  <1> DEFINE z == SubSeq(s, l + 1, h)
  <1>6. List(z, h - l) /\ \A k \in 1 .. h - l : z[k] = s[(l + 1) + k - 1]
      BY <1>4, <1>5
  <1> HIDE DEF z
  <1>7. \A k \in 1 .. h - l : z[k] = s[l + k]
      BY <1>5, <1>6
  <1>. QED  BY <1>2, <1>6, <1>7 DEF z

\* Only what the concatenation is.
LEMMA JoinedOnly ==
  ASSUME NEW n \in Nat, NEW s, List(s, n), NEW m \in Nat, NEW t, List(t, m)
  PROVE  s \o t = Joined(s, n, t, m)
  BY JoinedIs

\* Three lists, one after the other.
Thrice(s, n, t, m, u, l) ==
    [k \in 1 .. n + m + l |-> IF k <= n THEN s[k] ELSE IF k <= n + m THEN t[k - n] ELSE u[k - n - m]]

\* Their concatenation.
LEMMA ThreeLists ==
  ASSUME NEW n \in Nat, NEW s, List(s, n), NEW m \in Nat, NEW t, List(t, m),
         NEW l \in Nat, NEW u, List(u, l)
  PROVE  s \o t \o u = Thrice(s, n, t, m, u, l) /\ List(s \o t \o u, n + m + l)
  <1> DEFINE a == s \o t
  <1>1. List(a, n + m) /\ a = Joined(s, n, t, m)
      <2>1. a = Joined(s, n, t, m)
          BY JoinedOnly
      <2> HIDE DEF a
      <2>. QED  BY <2>1 DEF List, Joined
  <1>2. List(a \o u, n + m + l) /\ a \o u = Joined(a, n + m, u, l)
      <2> DEFINE k == n + m
      <2>1. k \in Nat /\ List(a, k)
          BY <1>1
      <2> HIDE DEF a, k
      <2>2. a \o u = Joined(a, k, u, l)
          BY <2>1, JoinedOnly
      <2>3. List(a \o u, k + l)
          BY <2>2 DEF List, Joined
      <2>. QED  BY <2>2, <2>3 DEF k
  <1> HIDE DEF a
  <1>3. Joined(a, n + m, u, l) = Thrice(s, n, t, m, u, l)
      <2>1. \A k \in 1 .. n + m + l : k - (n + m) = k - n - m
          OBVIOUS
      <2>2. \A k \in 1 .. n + m : a[k] = IF k <= n THEN s[k] ELSE t[k - n]
          BY <1>1 DEF Joined
      <2>3. \A k \in 1 .. n + m + l : Joined(a, n + m, u, l)[k] = Thrice(s, n, t, m, u, l)[k]
          BY <2>1, <2>2 DEF Joined, Thrice
      <2>. QED  BY <2>3 DEF Joined, Thrice
  <1>. QED  BY <1>2, <1>3 DEF a

\* s[lo:hi] = v never changes the length ...
LEMMA PutIs ==
  ASSUME NEW n \in Nat, NEW s, List(s, n), NEW lo \in Int, NEW hi \in Int,
         NEW q \in Nat, NEW v, List(v, q)
  PROVE  /\ List(Put(s, lo, hi, v), n)
         /\ Position(n, hi) - Position(n, lo) = q =>
               \A k \in 1 .. n : Put(s, lo, hi, v)[k] =
                   IF Position(n, lo) < k /\ k <= Position(n, hi) THEN v[k - Position(n, lo)] ELSE s[k]
  <1> DEFINE l == Position(n, lo)  h0 == Position(n, hi)  h == Max({l, h0})
             mid == IF Len(v) = h - l THEN v ELSE [k \in 1 .. h - l |-> Misfit]
             a == SubSeq(s, 1, l)  z == SubSeq(s, h + 1, n)
  <1>1. l \in 0 .. n /\ h0 \in 0 .. n
      BY PositionIs
  <1>2. h = (IF h0 >= l THEN h0 ELSE l) /\ h \in l .. n /\ h - l \in Nat
      <2> HIDE DEF l, h0
      <2>1. Max({l, h0}) = IF h0 >= l THEN h0 ELSE l
          BY <1>1 DEF Max
      <2>. QED  BY <1>1, <2>1
  <1>3. Put(s, lo, hi, v) = a \o mid \o z
      <2>1. Len(s) = n
          BY Lists
      <2>. QED  BY <2>1 DEF Put
  <1> HIDE DEF l, h0, h
  <1>4. List(a, l) /\ \A k \in 1 .. l : a[k] = s[k]
      <2>1. /\ List(a, l - 1 + 1)
            /\ \A k \in 1 .. l - 1 + 1 : a[k] = s[1 + k - 1]
          BY <1>1, SubSeqIs
      <2>2. l - 1 + 1 = l /\ \A k \in 1 .. l : 1 + k - 1 = k
          BY <1>1
      <2>. QED  BY <2>1, <2>2
  <1>5. List(z, n - h) /\ \A k \in 1 .. n - h : z[k] = s[h + k]
      <2>1. /\ List(z, n - (h + 1) + 1)
            /\ \A k \in 1 .. n - (h + 1) + 1 : z[k] = s[(h + 1) + k - 1]
          BY <1>1, <1>2, SubSeqIs
      <2>2. n - (h + 1) + 1 = n - h /\ \A k \in 1 .. n - h : (h + 1) + k - 1 = h + k
          BY <1>1, <1>2
      <2>. QED  BY <2>1, <2>2
  <1>6. Len(v) = q
      BY Lists
  <1>7. List(mid, h - l)
      BY <1>6 DEF List
  <1>8. h0 - l = q => h = h0 /\ mid = v
      BY <1>1, <1>2, <1>6
  <1> DEFINE c == a \o mid \o z  g == h - l  e == n - h
  <1>9. g \in Nat /\ e \in Nat /\ l \in Nat /\ l + g = h /\ l + g + e = n
      BY <1>1, <1>2
  <1> HIDE DEF a, z, mid
  <1>10. /\ List(c, l + g + e)
         /\ \A k \in 1 .. l : c[k] = a[k]
         /\ \A k \in l + 1 .. l + g : c[k] = mid[k - l]
         /\ \A k \in l + g + 1 .. l + g + e : c[k] = z[k - l - g]
      <2>1. List(mid, g) /\ List(z, e) /\ List(a, l)
          BY <1>4, <1>5, <1>7
      <2> HIDE DEF g, e
      <2>2. c = Thrice(a, l, mid, g, z, e) /\ List(c, l + g + e)
          BY <1>9, <2>1, ThreeLists
      <2>. QED  BY <1>9, <2>2 DEF Thrice
  <1>11. \A k \in h + 1 .. n : k - l - g = k - h /\ k - h \in 1 .. e /\ h + (k - h) = k
      BY <1>1, <1>2
  <1>12. \A k \in 1 .. e : z[k] = s[h + k]
      BY <1>5
  <1> HIDE DEF c, g, e
  <1>13. \A k \in h + 1 .. n : c[k] = s[k]
      BY <1>9, <1>10, <1>11, <1>12
  <1>14. \A k \in 1 .. l : c[k] = s[k]
      BY <1>4, <1>10
  <1>15. h0 - l = q => \A k \in 1 .. n : c[k] = IF l < k /\ k <= h0 THEN v[k - l] ELSE s[k]
      <2> SUFFICES ASSUME h0 - l = q, NEW k \in 1 .. n
                   PROVE  c[k] = IF l < k /\ k <= h0 THEN v[k - l] ELSE s[k]
          OBVIOUS
      <2>1. h = h0 /\ mid = v /\ l \in Nat /\ h \in Nat /\ l <= h
          BY <1>1, <1>2, <1>8
      <2>2. CASE k <= l
          <3>1. k \in 1 .. l /\ ~(l < k)
              BY <2>1, <2>2
          <3>. QED  BY <1>14, <3>1
      <2>3. CASE l < k /\ k <= h
          <3>1. k \in l + 1 .. l + g
              BY <1>9, <2>1, <2>3
          <3>2. c[k] = mid[k - l]
              BY <1>10, <3>1
          <3>. QED  BY <2>1, <2>3, <3>2
      <2>4. CASE h < k
          <3>1. k \in h + 1 .. n /\ ~(k <= h)
              BY <2>1, <2>4
          <3>. QED  BY <1>13, <2>1, <3>1
      <2>. QED  BY <2>1, <2>2, <2>3, <2>4
  <1>16. List(c, n)
      BY <1>9, <1>10
  <1>. QED  BY <1>3, <1>15, <1>16 DEF c, l, h0

\* s[x] = v
LEMMA PutAtIs ==
  ASSUME NEW n \in Nat, NEW s, List(s, n), NEW x \in Int, NEW v, NEW p \in 1 .. n,
         p = IF x < 0 THEN n + x + 1 ELSE x + 1
  PROVE  /\ List(PutAt(s, x, v), n)
         /\ \A k \in 1 .. n : PutAt(s, x, v)[k] = IF k = p THEN v ELSE s[k]
  <1> DEFINE a == SubSeq(s, 1, p - 1)  z == SubSeq(s, p + 1, n)  mid == <<v>>  c == a \o mid \o z
             m == p - 1  e == n - p
  <1>1. PutAt(s, x, v) = c
      <2>1. Len(s) = n /\ DOMAIN s = 1 .. n
          BY Lists
      <2>. QED  BY <2>1 DEF PutAt
  <1>2. List(a, m) /\ \A k \in 1 .. m : a[k] = s[k]
      <2>1. /\ List(a, (p - 1) - 1 + 1)
            /\ \A k \in 1 .. (p - 1) - 1 + 1 : a[k] = s[1 + k - 1]
          BY SubSeqIs
      <2>2. (p - 1) - 1 + 1 = m /\ \A k \in 1 .. m : 1 + k - 1 = k
          OBVIOUS
      <2>. QED  BY <2>1, <2>2
  <1>3. List(z, e) /\ \A k \in 1 .. e : z[k] = s[p + k]
      <2>1. /\ List(z, n - (p + 1) + 1)
            /\ \A k \in 1 .. n - (p + 1) + 1 : z[k] = s[(p + 1) + k - 1]
          BY SubSeqIs
      <2>2. n - (p + 1) + 1 = e /\ \A k \in 1 .. e : (p + 1) + k - 1 = p + k
          OBVIOUS
      <2>. QED  BY <2>1, <2>2
  <1>4. List(mid, 1) /\ mid[1] = v
      BY DEF List
  <1>5. m \in Nat /\ e \in Nat /\ m + 1 + e = n /\ m + 1 = p
      OBVIOUS
  <1> HIDE DEF a, z, mid
  <1>6. /\ List(c, m + 1 + e)
        /\ \A k \in 1 .. m : c[k] = a[k]
        /\ \A k \in m + 1 .. m + 1 : c[k] = mid[k - m]
        /\ \A k \in m + 1 + 1 .. m + 1 + e : c[k] = z[k - m - 1]
      <2> HIDE DEF m, e
      <2>1. c = Thrice(a, m, mid, 1, z, e) /\ List(c, m + 1 + e)
          BY <1>2, <1>3, <1>4, <1>5, ThreeLists
      <2>. QED  BY <1>5, <2>1 DEF Thrice
  <1>7. \A k \in p + 1 .. n : k - m - 1 = k - p /\ k - p \in 1 .. e /\ p + (k - p) = k
      OBVIOUS
  <1> HIDE DEF c, e
  <1>8. \A k \in p + 1 .. n : c[k] = s[k]
      BY <1>3, <1>5, <1>6, <1>7
  <1>9. c[p] = v
      <2>1. p \in m + 1 .. m + 1 /\ p - m = 1
          OBVIOUS
      <2>. QED  BY <1>4, <1>6, <2>1
  <1>10. \A k \in 1 .. n : c[k] = IF k = p THEN v ELSE s[k]
      BY <1>2, <1>6, <1>8, <1>9
  <1>. QED  BY <1>1, <1>5, <1>6, <1>10

\* A constant list.
LEMMA FillIs ==
  ASSUME NEW n \in Nat, NEW v
  PROVE  List(Fill(n, v), n) /\ \A k \in 1 .. n : Fill(n, v)[k] = v
  BY DEF Fill, List

\* Consecutive cells of a request.
LEMMA CellsIs ==
  ASSUME NEW r, NEW lo \in Int, NEW hi \in Int, lo <= hi + 1
  PROVE  /\ List(Cells(r, lo, hi), hi - lo + 1)
         /\ \A k \in 1 .. hi - lo + 1 : Cells(r, lo, hi)[k] = <<r, lo + k - 1>>
  <1>1. Max({0, hi - lo + 1}) = hi - lo + 1
      BY DEF Max
  <1>. QED  BY <1>1 DEF Cells, List

\* The largest of the numbers that the rows have in a field.
Largest(m, rows, f) ==
    /\ m \in Nat /\ \A k \in DOMAIN rows : rows[k][f] \in Nat /\ rows[k][f] <= m
    /\ \E k \in DOMAIN rows : rows[k][f] = m

\* It is what MaxOf finds ...
LEMMA LargestIs ==
  ASSUME NEW n \in Nat \ {0}, NEW rows, DOMAIN rows = 1 .. n, NEW f,
         \A k \in 1 .. n : rows[k][f] \in Nat
  PROVE  Largest(Max({rows[k][f] : k \in DOMAIN rows}), rows, f)
  <1> DEFINE g == [k \in 1 .. n |-> rows[k][f]]  S == {g[k] : k \in 1 .. n}
  <1>1. S \in SUBSET Nat /\ S # {} /\ {rows[k][f] : k \in DOMAIN rows} = S
      <2>1. g[1] \in S
          OBVIOUS
      <2>. QED  BY <2>1
  <1>2. IsFiniteSet(S)
      <2> DEFINE T == 1 .. n
      <2>1. IsFiniteSet(T)
          BY FS_Interval
      <2> HIDE DEF g, T
      <2>2. IsFiniteSet({g[k] : k \in T})
          BY <2>1, ImageFinite
      <2>. QED  BY <2>2 DEF T
  <1>3. Max(S) \in S /\ \A x \in S : x <= Max(S)
      <2> HIDE DEF S
      <2>. QED  BY <1>1, <1>2, MaxIs
  <1>4. \A k \in 1 .. n : rows[k][f] \in S
      OBVIOUS
  <1>5. \E k \in 1 .. n : rows[k][f] = Max(S)
      BY <1>3
  <1>6. Max(S) \in Nat
      BY <1>1, <1>3
  <1> HIDE DEF S
  <1>7. Largest(Max(S), rows, f)
      BY <1>3, <1>4, <1>5, <1>6 DEF Largest
  <1>. QED  BY <1>1, <1>7

\* The longest input of rows ...
LEMMA LongestInput ==
  ASSUME NEW n \in Nat \ {0}, NEW rows, DOMAIN rows = 1 .. n, \A k \in 1 .. n : rows[k].input_length \in Nat
  PROVE  Largest(Max({rows[k].input_length : k \in DOMAIN rows}), rows, "input_length")
  BY LargestIs

\* ... their longest total ...
LEMMA LongestTotal ==
  ASSUME NEW n \in Nat \ {0}, NEW rows, DOMAIN rows = 1 .. n, \A k \in 1 .. n : rows[k].total_length \in Nat
  PROVE  Largest(Max({rows[k].total_length : k \in DOMAIN rows}), rows, "total_length")
  BY LargestIs

\* ... and the most tokens that one has left.
LEMMA MostRemaining ==
  ASSUME NEW n \in Nat \ {0}, NEW rows, DOMAIN rows = 1 .. n, \A k \in 1 .. n : rows[k].max_remaining_tokens \in Nat
  PROVE  Largest(Max({rows[k].max_remaining_tokens : k \in DOMAIN rows}), rows, "max_remaining_tokens")
  BY LargestIs

\* A number that is the largest is what Max finds.
LEMMA LargestOnly ==
  ASSUME NEW m, NEW rows, NEW f, Largest(m, rows, f)
  PROVE  Max({rows[k][f] : k \in DOMAIN rows}) = m
  <1> DEFINE S == {rows[k][f] : k \in DOMAIN rows}
  <1>1. m \in S /\ m \in Nat /\ \A x \in S : x \in Nat /\ x <= m
      BY DEF Largest
  <1> HIDE DEF S
  <1>2. \A x \in S : (\A y \in S : x >= y) => x = m
      BY <1>1
  <1>3. \A y \in S : m >= y
      BY <1>1
  <1>. QED  BY <1>1, <1>2, <1>3 DEF Max, S

\* The larger of two numbers.
LEMMA MaxOfTwo ==
  ASSUME NEW x \in Int, NEW y \in Int
  PROVE  Max({x, y}) = (IF x >= y THEN x ELSE y)
  BY DEF Max

\* It changes with the rows ...
LEMMA LargestMoves ==
  ASSUME NEW m, NEW rows, NEW f, Largest(m, rows, f), NEW other, DOMAIN other = DOMAIN rows,
         NEW d \in Int, \A k \in DOMAIN rows : other[k][f] = rows[k][f] + d /\ other[k][f] \in Nat
  PROVE  Largest(m + d, other, f)
  <1>1. PICK k \in DOMAIN rows : rows[k][f] = m
      BY DEF Largest
  <1>2. other[k][f] = m + d /\ m + d \in Nat
      BY <1>1
  <1>3. \A j \in DOMAIN rows : rows[j][f] \in Nat /\ rows[j][f] <= m /\ m \in Nat
      BY DEF Largest
  <1>4. \A j \in DOMAIN rows : rows[j][f] + d <= m + d
      BY <1>3
  <1>. QED  BY <1>1, <1>2, <1>4 DEF Largest

\* ... and is the larger one for the rows of two batches.
LEMMA LargestJoins ==
  ASSUME NEW n \in Nat, NEW m \in Nat, NEW s, NEW t, DOMAIN s = 1 .. n, DOMAIN t = 1 .. m,
         NEW f, NEW x, Largest(x, s, f), NEW y, Largest(y, t, f),
         NEW u, DOMAIN u = 1 .. n + m, \A k \in 1 .. n + m : u[k][f] = Joined(s, n, t, m)[k][f]
  PROVE  Largest(Max({x, y}), u, f)
  <1>1. x \in Nat /\ y \in Nat
      BY DEF Largest
  <1>2. Max({x, y}) = IF x >= y THEN x ELSE y
      BY <1>1, MaxOfTwo
  <1> DEFINE z == IF x >= y THEN x ELSE y
  <1>3. \A k \in 1 .. n : u[k][f] = s[k][f]
      BY DEF Joined
  <1>4. \A k \in 1 .. m : k + n \in 1 .. n + m /\ u[k + n][f] = t[k][f]
      <2>1. \A k \in 1 .. m : k + n \in 1 .. n + m /\ ~(k + n <= n) /\ k + n - n = k
          OBVIOUS
      <2>. QED  BY <2>1 DEF Joined
  <1>5. \A k \in 1 .. n + m : k \in 1 .. n \/ (k - n \in 1 .. m /\ k = (k - n) + n)
      OBVIOUS
  <1>6. \A k \in 1 .. n : s[k][f] \in Nat /\ s[k][f] <= z
      BY <1>1 DEF Largest
  <1>7. \A k \in 1 .. m : t[k][f] \in Nat /\ t[k][f] <= z
      BY <1>1 DEF Largest
  <1>8. ASSUME NEW k \in 1 .. n + m PROVE u[k][f] \in Nat /\ u[k][f] <= z
      <2> HIDE DEF z
      <2>1. CASE k \in 1 .. n
          BY <1>3, <1>6, <2>1
      <2>2. CASE k - n \in 1 .. m /\ k = (k - n) + n
          <3> DEFINE j == k - n
          <3>1. j \in 1 .. m /\ u[k][f] = u[j + n][f]
              BY <2>2
          <3> HIDE DEF j
          <3>. QED  BY <1>4, <1>7, <3>1
      <2>. QED  BY <1>5, <2>1, <2>2
  <1>9. \E k \in 1 .. n + m : u[k][f] = z
      <2>1. CASE x >= y
          <3>1. PICK k \in 1 .. n : s[k][f] = x
              BY DEF Largest
          <3>2. k \in 1 .. n + m
              OBVIOUS
          <3>. QED  BY <1>3, <2>1, <3>1, <3>2
      <2>2. CASE ~(x >= y)
          <3>1. PICK k \in 1 .. m : t[k][f] = y
              BY DEF Largest
          <3>. QED  BY <1>4, <2>2, <3>1
      <2>. QED  BY <2>1, <2>2
  <1>. QED  BY <1>1, <1>2, <1>8, <1>9 DEF Largest

\* The longest input of two batches joined is the longer of the two batches' longest.
LEMMA InputsJoin ==
  ASSUME NEW n \in Nat, NEW m \in Nat, NEW s, NEW t, DOMAIN s = 1 .. n, DOMAIN t = 1 .. m,
         NEW x, Largest(x, s, "input_length"), NEW y, Largest(y, t, "input_length"),
         NEW u, DOMAIN u = 1 .. n + m,
         \A k \in 1 .. n + m : u[k].input_length = Joined(s, n, t, m)[k].input_length
  PROVE  Largest(Max({x, y}), u, "input_length")
  BY LargestJoins

\* ... and so the longest total.
LEMMA TotalsJoin ==
  ASSUME NEW n \in Nat, NEW m \in Nat, NEW s, NEW t, DOMAIN s = 1 .. n, DOMAIN t = 1 .. m,
         NEW x, Largest(x, s, "total_length"), NEW y, Largest(y, t, "total_length"),
         NEW u, DOMAIN u = 1 .. n + m,
         \A k \in 1 .. n + m : u[k].total_length = Joined(s, n, t, m)[k].total_length
  PROVE  Largest(Max({x, y}), u, "total_length")
  BY LargestJoins

-----------------------------------------------------------------------------
(* Lists of lists.                                                          *)

\* 0 and the sums of the first numbers of a list.
Cumulative(c, s, n) ==
    /\ c \in [1 .. n + 1 -> Nat] /\ c[1] = 0
    /\ \A k \in 1 .. n : s[k] \in Nat /\ c[k + 1] = c[k] + s[k]

\* CumSum finds them.
LEMMA CumSumIs ==
  ASSUME NEW n \in Nat, NEW s, List(s, n), \A k \in 1 .. n : s[k] \in Nat
  PROVE  Cumulative(CumSum(s), s, n)
  <1> DEFINE Sum(g, k) == IF k = 0 THEN 0 ELSE g[k - 1] + s[k]
             sum == CHOOSE g : g = [k \in 0 .. n |-> Sum(g, k)]
             R == {m \in 0 .. n : \E g \in [0 .. m -> Nat] : \A k \in 0 .. m : g[k] = Sum(g, k)}
  <1>1. Len(s) = n
      BY Lists
  <1>2. CumSum(s) = [k \in 1 .. n + 1 |-> sum[k - 1]]
      BY <1>1 DEF CumSum
  <1>3. 0 \in R
      <2> DEFINE g == [k \in 0 .. 0 |-> 0]
      <2>1. g \in [0 .. 0 -> Nat] /\ \A k \in 0 .. 0 : g[k] = Sum(g, k)
          OBVIOUS
      <2>2. 0 \in 0 .. n
          OBVIOUS
      <2> HIDE DEF g, Sum
      <2>. QED  BY <2>1, <2>2
  <1>4. ASSUME NEW m \in 0 .. n - 1, m \in R PROVE m + 1 \in R
      <2>1. PICK g \in [0 .. m -> Nat] : \A k \in 0 .. m : g[k] = Sum(g, k)
          BY <1>4
      <2> DEFINE h == [k \in 0 .. m + 1 |-> IF k <= m THEN g[k] ELSE g[m] + s[m + 1]]
      <2>2. s[m + 1] \in Nat /\ g[m] \in Nat
          OBVIOUS
      <2>3. h \in [0 .. m + 1 -> Nat]
          BY <2>2
      <2>4. ASSUME NEW k \in 0 .. m + 1 PROVE h[k] = Sum(h, k)
          <3>1. CASE k <= m
              <4>1. h[k] = g[k] /\ (k # 0 => k - 1 \in 0 .. m + 1 /\ h[k - 1] = g[k - 1])
                  BY <3>1
              <4>. QED  BY <2>1, <3>1, <4>1
          <3>2. CASE k = m + 1
              BY <3>2
          <3>. QED  BY <3>1, <3>2
      <2>5. m + 1 \in 0 .. n
          OBVIOUS
      <2> HIDE DEF h, Sum
      <2>. QED  BY <2>3, <2>4, <2>5
  <1>5. n \in R
      <2> HIDE DEF R
      <2>1. 0 .. n \subseteq R
          BY <1>3, <1>4, CountingUp
      <2>. QED  BY <2>1
  <1>6. PICK g \in [0 .. n -> Nat] : \A k \in 0 .. n : g[k] = Sum(g, k)
      BY <1>5
  <1>7. g = [k \in 0 .. n |-> Sum(g, k)]
      BY <1>6
  <1>8. sum = [k \in 0 .. n |-> Sum(sum, k)]
      BY <1>7
  <1> HIDE DEF sum
  <1>9. DOMAIN sum = 0 .. n /\ \A k \in 0 .. n : sum[k] = IF k = 0 THEN 0 ELSE sum[k - 1] + s[k]
      BY <1>8
  <1> DEFINE Q == {k \in 0 .. n : sum[k] \in Nat}
  <1>10. 0 .. n \subseteq Q
      <2>1. 0 \in Q
          BY <1>9
      <2>2. ASSUME NEW k \in 0 .. n - 1, k \in Q PROVE k + 1 \in Q
          <3>1. k + 1 \in 0 .. n /\ k + 1 # 0 /\ k + 1 - 1 = k /\ s[k + 1] \in Nat
              OBVIOUS
          <3>. QED  BY <1>9, <2>2, <3>1
      <2> HIDE DEF Q
      <2>. QED  BY <2>1, <2>2, CountingUp
  <1> DEFINE c == [k \in 1 .. n + 1 |-> sum[k - 1]]
  <1>11. \A k \in 1 .. n + 1 : k - 1 \in 0 .. n
      OBVIOUS
  <1>12. c \in [1 .. n + 1 -> Nat]
      BY <1>10, <1>11
  <1>13. c[1] = 0
      BY <1>9
  <1>14. ASSUME NEW k \in 1 .. n PROVE c[k + 1] = c[k] + s[k]
      <2>1. c[k + 1] = sum[k] /\ c[k] = sum[k - 1]
          OBVIOUS
      <2>2. k \in 0 .. n /\ k # 0
          OBVIOUS
      <2>3. sum[k] = sum[k - 1] + s[k]
          BY <1>9, <2>2
      <2> HIDE DEF c
      <2>. QED  BY <2>1, <2>3
  <1> HIDE DEF c
  <1>15. Cumulative(c, s, n)
      BY <1>12, <1>13, <1>14 DEF Cumulative
  <1>. QED  BY <1>2, <1>15 DEF c

\* The cumulative lengths grow.
LEMMA CumulativeGrows ==
  ASSUME NEW n \in Nat, NEW c, NEW s, Cumulative(c, s, n), NEW i \in 1 .. n + 1, NEW j \in i .. n + 1
  PROVE  c[i] <= c[j]
  <1> DEFINE G == {m \in 0 .. n + 1 - i : c[i] <= c[i + m]}
  <1>0. \A k \in 1 .. n + 1 : c[k] \in Nat
      BY DEF Cumulative
  <1>1. 0 \in G
      BY <1>0
  <1>2. ASSUME NEW m \in 0 .. n + 1 - i - 1, m \in G PROVE m + 1 \in G
      <2> DEFINE h == i + m
      <2>1. h \in 1 .. n /\ i + (m + 1) = h + 1 /\ m + 1 \in 0 .. n + 1 - i
          OBVIOUS
      <2>2. c[h + 1] = c[h] + s[h] /\ s[h] \in Nat
          BY <2>1 DEF Cumulative
      <2>3. c[h] \in Nat /\ c[i] \in Nat
          BY <1>0, <2>1
      <2>4. c[i] <= c[h]
          BY <1>2
      <2> HIDE DEF h
      <2>. QED  BY <2>1, <2>2, <2>3, <2>4
  <1>3. 0 .. n + 1 - i \subseteq G
      <2> DEFINE l == n + 1 - i
      <2>1. l \in Nat
          OBVIOUS
      <2> HIDE DEF G, l
      <2>2. 0 .. l \subseteq G
          BY <1>1, <1>2, <2>1, CountingUp DEF l
      <2>. QED  BY <2>2 DEF l
  <1>4. j - i \in 0 .. n + 1 - i /\ i + (j - i) = j
      OBVIOUS
  <1>. QED  BY <1>3, <1>4

\* Cumulative lengths depend on nothing else.
LEMMA CumulativeOnly ==
  ASSUME NEW n \in Nat, NEW c, NEW s, Cumulative(c, s, n), NEW d, NEW t, Cumulative(d, t, n),
         \A k \in 1 .. n : s[k] = t[k]
  PROVE  c = d
  <1> DEFINE G == {m \in 0 .. n : c[m + 1] = d[m + 1]}
  <1>1. 0 \in G
      BY DEF Cumulative
  <1>2. ASSUME NEW m \in 0 .. n - 1, m \in G PROVE m + 1 \in G
      <2>1. m + 1 \in 1 .. n
          OBVIOUS
      <2>2. c[m + 1 + 1] = c[m + 1] + s[m + 1] /\ d[m + 1 + 1] = d[m + 1] + t[m + 1]
          BY <2>1 DEF Cumulative
      <2>. QED  BY <1>2, <2>1, <2>2
  <1>3. 0 .. n \subseteq G
      <2> HIDE DEF G
      <2>. QED  BY <1>1, <1>2, CountingUp
  <1>4. \A k \in 1 .. n + 1 : c[k] = d[k]
      <2>1. \A k \in 1 .. n + 1 : k - 1 \in 0 .. n /\ k - 1 + 1 = k
          OBVIOUS
      <2>. QED  BY <1>3, <2>1
  <1>. QED  BY <1>4 DEF Cumulative

\* Lists, one after the other: where each of them begins.
LEMMA FlattenIs ==
  ASSUME NEW n \in Nat \ {0}, NEW s, List(s, n), NEW len, NEW c, Cumulative(c, len, n),
         \A k \in 1 .. n : List(s[k], len[k])
  PROVE  /\ List(FlattenSeq(s), c[n + 1])
         /\ \A k \in 1 .. n : \A j \in 1 .. len[k] : FlattenSeq(s)[c[k] + j] = s[k][j]
  <1> DEFINE Flat(f, i) == IF i = 1 THEN s[i] ELSE f[i - 1] \o s[i]
             flatten == CHOOSE f : f = [i \in 1 .. n |-> Flat(f, i)]
             R == {m \in 0 .. n : \E f : DOMAIN f = 1 .. m /\ \A i \in 1 .. m : f[i] = Flat(f, i)}
  <1>1. Len(s) = n
      BY Lists
  <1>2. FlattenSeq(s) = flatten[n]
      BY <1>1 DEF FlattenSeq
  <1>3. 0 \in R
      <2> DEFINE g == [k \in 1 .. 0 |-> 0]
      <2>1. DOMAIN g = 1 .. 0 /\ \A i \in 1 .. 0 : g[i] = Flat(g, i)
          OBVIOUS
      <2>. QED  BY <2>1
  <1>4. ASSUME NEW m \in 0 .. n - 1, m \in R PROVE m + 1 \in R
      <2>1. PICK g : DOMAIN g = 1 .. m /\ \A i \in 1 .. m : g[i] = Flat(g, i)
          BY <1>4
      <2> DEFINE h == [i \in 1 .. m + 1 |-> IF i <= m THEN g[i] ELSE Flat(g, i)]
      <2>2. ASSUME NEW i \in 1 .. m + 1 PROVE h[i] = Flat(h, i)
          <3>1. i # 1 => i - 1 \in 1 .. m /\ h[i - 1] = g[i - 1]
              OBVIOUS
          <3>2. h[i] = Flat(g, i)
              <4>1. CASE i <= m
                  <5>1. i \in 1 .. m /\ h[i] = g[i]
                      BY <4>1
                  <5> HIDE DEF h, Flat
                  <5>. QED  BY <2>1, <5>1
              <4>2. CASE ~(i <= m)
                  BY <4>2
              <4>. QED  BY <4>1, <4>2
          <3> HIDE DEF h
          <3>. QED  BY <3>1, <3>2
      <2>3. DOMAIN h = 1 .. m + 1
          OBVIOUS
      <2>4. m + 1 \in 0 .. n
          OBVIOUS
      <2> HIDE DEF h, Flat
      <2>. QED  BY <2>2, <2>3, <2>4
  <1>5. n \in R
      <2> HIDE DEF R
      <2>1. 0 .. n \subseteq R
          BY <1>3, <1>4, CountingUp
      <2>. QED  BY <2>1
  <1>6. PICK g : DOMAIN g = 1 .. n /\ \A i \in 1 .. n : g[i] = Flat(g, i)
      BY <1>5
  <1> DEFINE g1 == [i \in 1 .. n |-> g[i]]
  <1>7. g1 = [i \in 1 .. n |-> Flat(g1, i)]
      <2>1. \A i \in 1 .. n : i # 1 => i - 1 \in 1 .. n
          OBVIOUS
      <2>2. \A i \in 1 .. n : Flat(g, i) = Flat(g1, i)
          BY <2>1
      <2>3. g1 = [i \in 1 .. n |-> g1[i]] /\ \A i \in 1 .. n : g1[i] = g[i]
          OBVIOUS
      <2> HIDE DEF g1, Flat
      <2>4. \A i \in 1 .. n : g1[i] = Flat(g1, i)
          BY <1>6, <2>2, <2>3
      <2>. QED  BY <2>3, <2>4
  <1> HIDE DEF g1
  <1>8. flatten = [i \in 1 .. n |-> Flat(flatten, i)]
      BY <1>7, Zenon
  <1> HIDE DEF flatten
  <1>9. \A i \in 1 .. n : flatten[i] = IF i = 1 THEN s[i] ELSE flatten[i - 1] \o s[i]
      BY <1>8
  <1> DEFINE Right(m) == /\ List(flatten[m], c[m + 1])
                         /\ \A k \in 1 .. m : \A j \in 1 .. len[k] : flatten[m][c[k] + j] = s[k][j]
             Q == {m \in 0 .. n : m = 0 \/ Right(m)}
  <1>10. ASSUME NEW k \in 1 .. n
         PROVE  /\ c[k] \in Nat /\ c[k + 1] \in Nat /\ len[k] \in Nat /\ c[k + 1] = c[k] + len[k]
                /\ List(s[k], len[k])
      BY DEF Cumulative
  <1>11. ASSUME NEW m \in 0 .. n - 1, m \in Q PROVE m + 1 \in Q
      <2> DEFINE i == m + 1
      <2>1. i \in 1 .. n /\ i - 1 = m
          OBVIOUS
      <2>2. /\ c[i] \in Nat /\ c[i + 1] \in Nat /\ len[i] \in Nat /\ c[i + 1] = c[i] + len[i]
            /\ List(s[i], len[i])
          BY <1>10, <2>1
      <2>3. CASE m = 0
          <3>1. i = 1 /\ c[1] = 0 /\ flatten[1] = s[1]
              BY <1>9, <2>1, <2>3 DEF Cumulative
          <3>2. c[1 + 1] = len[1] /\ \A j \in 1 .. len[1] : c[1] + j = j
              BY <2>2, <3>1
          <3>3. List(flatten[1], c[1 + 1])
              BY <2>2, <3>1, <3>2
          <3>4. \A k \in 1 .. 1 : \A j \in 1 .. len[k] : flatten[1][c[k] + j] = s[k][j]
              BY <3>1, <3>2
          <3>. QED  BY <2>1, <3>1, <3>3, <3>4
      <2>4. CASE m # 0
          <3>1. Right(m)
              <4> HIDE DEF Right
              <4>. QED  BY <1>11, <2>4
          <3>2. m \in 1 .. n /\ flatten[i] = flatten[m] \o s[i]
              <4>1. m \in 1 .. n /\ i # 1
                  BY <2>4
              <4> HIDE DEF i
              <4>. QED  BY <1>9, <2>1, <4>1
          <3> DEFINE p == flatten[m]  q == flatten[i]  x == c[i]  y == len[i]  z == s[i]
          <3>3. /\ List(p, x) /\ q = p \o z /\ x \in Nat /\ y \in Nat /\ List(z, y) /\ c[i + 1] = x + y
                /\ \A k \in 1 .. m : \A j \in 1 .. len[k] : p[c[k] + j] = s[k][j]
              BY <2>2, <3>1, <3>2
          <3>4. \A k \in 1 .. i : k = i \/ k \in 1 .. m
              BY <2>1
          <3>5. ASSUME NEW k \in 1 .. m PROVE c[k] \in Nat /\ len[k] \in Nat /\ c[k] + len[k] <= x
              <4>1. k \in 1 .. n /\ k + 1 \in 1 .. n + 1 /\ i \in k + 1 .. n + 1
                  OBVIOUS
              <4>2. c[k + 1] <= c[i]
                  <5> HIDE DEF i
                  <5>. QED  BY <4>1, CumulativeGrows
              <4>. QED  BY <1>10, <4>1, <4>2
          <3> HIDE DEF p, q, x, y, z
          <3>6. q = Joined(p, x, z, y) /\ List(q, x + y)
              BY <3>3, JoinedIs
          <3>8. ASSUME NEW j \in 1 .. y PROVE q[x + j] = z[j]
              <4> DEFINE h == x + j
              <4>1. h \in 1 .. x + y /\ ~(h <= x) /\ h - x = j
                  BY <3>3
              <4> HIDE DEF h
              <4>2. q[h] = z[h - x]
                  BY <3>6, <4>1 DEF Joined
              <4>. QED  BY <4>1, <4>2 DEF h
          <3>9. ASSUME NEW k \in 1 .. m, NEW j \in 1 .. len[k] PROVE q[c[k] + j] = s[k][j]
              <4>1. c[k] + j \in 1 .. x + y /\ c[k] + j <= x
                  BY <3>3, <3>5, SMTT(30)
              <4>. QED  BY <3>3, <3>6, <4>1 DEF Joined
          <3>10. \A k \in 1 .. i : \A j \in 1 .. len[k] : q[c[k] + j] = s[k][j]
              BY <3>4, <3>8, <3>9 DEF x, y, z
          <3>11. List(q, c[i + 1])
              BY <3>3, <3>6
          <3>7. Right(i)
              BY <3>10, <3>11 DEF q
          <3>. QED  BY <2>1, <3>7 DEF i
      <2>. QED  BY <2>3, <2>4
  <1>12. 0 .. n \subseteq Q
      <2>1. 0 \in Q
          OBVIOUS
      <2> HIDE DEF Q
      <2>. QED  BY <1>11, <2>1, CountingUp
  <1>13. Right(n)
      BY <1>12
  <1>. QED  BY <1>2, <1>13

\* Elements put at different positions.
LEMMA PutEachIs ==
  ASSUME NEW n \in Nat, NEW s, List(s, n), NEW m \in Nat, NEW indices, List(indices, m),
         \A k \in 1 .. m : indices[k] \in 0 .. n - 1,
         \A j, k \in 1 .. m : indices[j] = indices[k] => j = k, NEW v
  PROVE  /\ List(PutEach(s, indices, v), n)
         /\ \A k \in 1 .. m : PutEach(s, indices, v)[indices[k] + 1] = v[k]
         /\ \A j \in 1 .. n : (\A k \in 1 .. m : indices[k] # j - 1) => PutEach(s, indices, v)[j] = s[j]
  <1> DEFINE At(j) == {k \in 1 .. m : indices[k] = j - 1}
             r == [j \in 1 .. n |-> IF At(j) # {} THEN v[CHOOSE k \in At(j) : TRUE] ELSE s[j]]
  <1>1. Len(s) = n /\ DOMAIN s = 1 .. n /\ DOMAIN indices = 1 .. m
      BY Lists
  <1>2. PutEach(s, indices, v) = r
      <2> DEFINE at(j) == {k \in DOMAIN indices : indices[k] = j - 1}
                 guard == \A k \in DOMAIN indices : indices[k] \in 0 .. Len(s) - 1
                 u == [j \in DOMAIN s |-> IF at(j) # {} THEN v[CHOOSE k \in at(j) : TRUE] ELSE s[j]]
      <2>1. PutEach(s, indices, v) = IF guard THEN u ELSE Append(s, Misfit)
          BY DEF PutEach
      <2>2. guard
          BY <1>1
      <2>3. u = r
          BY <1>1
      <2> HIDE DEF u, r, guard
      <2>. QED  BY <2>1, <2>2, <2>3
  <1>3. List(r, n)
      BY DEF List
  <1>4. ASSUME NEW k \in 1 .. m PROVE r[indices[k] + 1] = v[k]
      <2> DEFINE j == indices[k] + 1
      <2>1. j \in 1 .. n /\ indices[k] = j - 1
          OBVIOUS
      <2>2. At(j) = {k}
          BY <2>1
      <2>3. (CHOOSE h \in {k} : TRUE) = k
          OBVIOUS
      <2> HIDE DEF j
      <2>4. r[j] = v[k]
          BY <2>1, <2>2, <2>3
      <2>. QED  BY <2>4 DEF j
  <1>5. ASSUME NEW j \in 1 .. n, \A k \in 1 .. m : indices[k] # j - 1 PROVE r[j] = s[j]
      BY <1>5
  <1> HIDE DEF r
  <1>. QED  BY <1>2, <1>3, <1>4, <1>5

-----------------------------------------------------------------------------
(* The names of these operators in the batch types.                         *)

\* Those of the padded batch ...
LEMMA CausalSlices ==
  /\ \A S : Causal!Max(S) = Max(S) /\ Causal!Min(S) = Min(S)
  /\ \A s, lo, hi : Causal!Slice(s, lo, hi) = Slice(s, lo, hi)
  /\ \A s, lo, hi, v : Causal!Put(s, lo, hi, v) = Put(s, lo, hi, v)
  /\ \A s, x, v : Causal!PutAt(s, x, v) = PutAt(s, x, v)
  /\ \A n, v : Causal!Fill(n, v) = Fill(n, v)
  /\ \A r, lo, hi : Causal!Cells(r, lo, hi) = Cells(r, lo, hi)
  /\ \A r, g : Causal!Context(r, g) = Context(r, g)
  /\ \A r : Causal!PrefixCells(r) = PrefixCells(r)
  /\ \A n : Causal!Zeros(n) = Fill(n, <<0, 0>>) /\ Causal!Ones(n) = Fill(n, <<1, 1>>)
  /\ \A n : Causal!TokenizeLength(n) = TokenizeLength(n)
  <1>1. \A S : Causal!Max(S) = Max(S) /\ Causal!Min(S) = Min(S)
      BY DEF Causal!Max, Max, Causal!Min, Min
  <1>2. \A s, lo, hi : Causal!Slice(s, lo, hi) = Slice(s, lo, hi)
      <2>1. \A n, x : Causal!Position(n, x) = Position(n, x)
          BY DEF Causal!Position, Position, Causal!Max, Max, Causal!Min, Min
      <2>. QED  BY <2>1 DEF Causal!Slice, Slice
  <1>3. \A s, lo, hi, v : Causal!Put(s, lo, hi, v) = Put(s, lo, hi, v)
      <2>1. \A n, x : Causal!Position(n, x) = Position(n, x)
          BY DEF Causal!Position, Position, Causal!Max, Max, Causal!Min, Min
      <2>2. Causal!Misfit = Misfit
          BY DEF Causal!Misfit, Misfit
      <2>. TAKE s, lo, hi, v
      <2>. DEFINE l == Position(Len(s), lo)
      <2>3. Causal!Position(Len(s), lo) = l /\ Causal!Position(Len(s), hi) = Position(Len(s), hi)
          BY <2>1
      <2>4. Causal!Max({l, Position(Len(s), hi)}) = Max({l, Position(Len(s), hi)})
          BY <1>1
      <2>. QED  BY <2>2, <2>3, <2>4, Zenon DEF Causal!Put, Put
  <1>4. \A s, x, v : Causal!PutAt(s, x, v) = PutAt(s, x, v)
      BY DEF Causal!PutAt, PutAt, Causal!Misfit, Misfit
  <1>5. \A n, v : Causal!Fill(n, v) = Fill(n, v)
      BY DEF Causal!Fill, Fill
  <1>6. \A r, lo, hi : Causal!Cells(r, lo, hi) = Cells(r, lo, hi)
      BY DEF Causal!Cells, Cells, Causal!Max, Max
  <1>7. \A r, g : Causal!Context(r, g) = Context(r, g)
      BY DEF Causal!Context, Context, Causal!PrefixCells, PrefixCells, Causal!Cells, Cells, Causal!Max, Max
  <1>8. \A r : Causal!PrefixCells(r) = PrefixCells(r)
      BY DEF Causal!PrefixCells, PrefixCells, Causal!Cells, Cells, Causal!Max, Max
  <1>9. \A n : Causal!Zeros(n) = Fill(n, <<0, 0>>) /\ Causal!Ones(n) = Fill(n, <<1, 1>>)
      BY DEF Causal!Zeros, Causal!Ones, Causal!Fill, Fill
  <1>10. \A n : Causal!TokenizeLength(n) = TokenizeLength(n)
      BY DEF Causal!TokenizeLength, TokenizeLength
  <1>. QED  BY <1>1, <1>2, <1>3, <1>4, <1>5, <1>6, <1>7, <1>8, <1>9, <1>10

\* ... of the encoder-decoder batch ...
LEMMA Seq2SeqSlices ==
  /\ \A S : Seq2Seq!Max(S) = Max(S) /\ Seq2Seq!Min(S) = Min(S)
  /\ \A s, lo, hi : Seq2Seq!Slice(s, lo, hi) = Slice(s, lo, hi)
  /\ \A s, lo, hi, v : Seq2Seq!Put(s, lo, hi, v) = Put(s, lo, hi, v)
  /\ \A s, x, v : Seq2Seq!PutAt(s, x, v) = PutAt(s, x, v)
  /\ \A n, v : Seq2Seq!Fill(n, v) = Fill(n, v)
  /\ \A r, lo, hi : Seq2Seq!Cells(r, lo, hi) = Cells(r, lo, hi)
  /\ \A r, g : Seq2Seq!Context(r, g) = Context(r, g)
  /\ \A r : Seq2Seq!PrefixCells(r) = PrefixCells(r)
  /\ \A n : Seq2Seq!Zeros(n) = Fill(n, <<0, 0>>) /\ Seq2Seq!Ones(n) = Fill(n, <<1, 1>>)
  /\ \A n : Seq2Seq!TokenizeLength(n) = TokenizeLength(n)
  /\ \A r, T : Seq2Seq!TokenizedRow(r, T) = TokenizedRow(r, T)
  /\ \A r, T : Seq2Seq!TokenizedMask(r, T) = TokenizedMask(r, T)
  /\ \A m, s : Seq2Seq!Seen(m, s) = Seen(m, s)
  <1>1. \A S : Seq2Seq!Max(S) = Max(S) /\ Seq2Seq!Min(S) = Min(S)
      BY DEF Seq2Seq!Max, Max, Seq2Seq!Min, Min
  <1>2. \A s, lo, hi : Seq2Seq!Slice(s, lo, hi) = Slice(s, lo, hi)
      <2>1. \A n, x : Seq2Seq!Position(n, x) = Position(n, x)
          BY DEF Seq2Seq!Position, Position, Seq2Seq!Max, Max, Seq2Seq!Min, Min
      <2>. QED  BY <2>1 DEF Seq2Seq!Slice, Slice
  <1>3. \A s, lo, hi, v : Seq2Seq!Put(s, lo, hi, v) = Put(s, lo, hi, v)
      <2>1. \A n, x : Seq2Seq!Position(n, x) = Position(n, x)
          BY DEF Seq2Seq!Position, Position, Seq2Seq!Max, Max, Seq2Seq!Min, Min
      <2>2. Seq2Seq!Misfit = Misfit
          BY DEF Seq2Seq!Misfit, Misfit
      <2>. TAKE s, lo, hi, v
      <2>. DEFINE l == Position(Len(s), lo)
      <2>3. Seq2Seq!Position(Len(s), lo) = l /\ Seq2Seq!Position(Len(s), hi) = Position(Len(s), hi)
          BY <2>1
      <2>4. Seq2Seq!Max({l, Position(Len(s), hi)}) = Max({l, Position(Len(s), hi)})
          BY <1>1
      <2>. QED  BY <2>2, <2>3, <2>4, Zenon DEF Seq2Seq!Put, Put
  <1>4. \A s, x, v : Seq2Seq!PutAt(s, x, v) = PutAt(s, x, v)
      BY DEF Seq2Seq!PutAt, PutAt, Seq2Seq!Misfit, Misfit
  <1>5. \A n, v : Seq2Seq!Fill(n, v) = Fill(n, v)
      BY DEF Seq2Seq!Fill, Fill
  <1>6. \A r, lo, hi : Seq2Seq!Cells(r, lo, hi) = Cells(r, lo, hi)
      BY DEF Seq2Seq!Cells, Cells, Seq2Seq!Max, Max
  <1>7. \A r, g : Seq2Seq!Context(r, g) = Context(r, g)
      BY DEF Seq2Seq!Context, Context, Seq2Seq!PrefixCells, PrefixCells, Seq2Seq!Cells, Cells, Seq2Seq!Max, Max
  <1>8. \A r : Seq2Seq!PrefixCells(r) = PrefixCells(r)
      BY DEF Seq2Seq!PrefixCells, PrefixCells, Seq2Seq!Cells, Cells, Seq2Seq!Max, Max
  <1>9. \A n : Seq2Seq!Zeros(n) = Fill(n, <<0, 0>>) /\ Seq2Seq!Ones(n) = Fill(n, <<1, 1>>)
      BY DEF Seq2Seq!Zeros, Seq2Seq!Ones, Seq2Seq!Fill, Fill
  <1>10. \A n : Seq2Seq!TokenizeLength(n) = TokenizeLength(n)
      BY DEF Seq2Seq!TokenizeLength, TokenizeLength
  <1>11. \A r, T : Seq2Seq!TokenizedRow(r, T) = TokenizedRow(r, T)
      BY <1>1, <1>3, <1>5, <1>6, SMTT(30) DEF Seq2Seq!TokenizedRow, TokenizedRow, Seq2Seq!Truncated, Truncated, Seq2Seq!Pad, Pad
  <1>12. \A r, T : Seq2Seq!TokenizedMask(r, T) = TokenizedMask(r, T)
      BY DEF Seq2Seq!TokenizedMask, TokenizedMask, Seq2Seq!Put, Put, Seq2Seq!Position, Position, Seq2Seq!Max, Max, Seq2Seq!Min, Min, Seq2Seq!Misfit, Misfit, Seq2Seq!Zeros, Zeros, Seq2Seq!Ones, Ones, Seq2Seq!Fill, Fill, Seq2Seq!Truncated, Truncated
  <1>13. \A m, s : Seq2Seq!Seen(m, s) = Seen(m, s)
      BY DEF Seq2Seq!Seen, Seen, Seq2Seq!Misfit, Misfit, Seq2Seq!Pick, Pick, Seq2Seq!InOrder, InOrder, Seq2Seq!Cardinality, Cardinality
  <1>. QED  BY <1>1, <1>2, <1>3, <1>4, <1>5, <1>6, <1>7, <1>8, <1>9, <1>10, <1>11, <1>12, <1>13

\* ... of the flash batch ...
LEMMA FlashSlices ==
  /\ \A S : Flash!Max(S) = Max(S) /\ Flash!Min(S) = Min(S)
  /\ \A s, lo, hi : Flash!Slice(s, lo, hi) = Slice(s, lo, hi)
  /\ \A s, lo, hi, v : Flash!Put(s, lo, hi, v) = Put(s, lo, hi, v)
  /\ \A s, x, v : Flash!PutAt(s, x, v) = PutAt(s, x, v)
  /\ \A n, v : Flash!Fill(n, v) = Fill(n, v)
  /\ \A r, lo, hi : Flash!Cells(r, lo, hi) = Cells(r, lo, hi)
  /\ \A r, g : Flash!Context(r, g) = Context(r, g)
  /\ \A r : Flash!PrefixCells(r) = PrefixCells(r)
  /\ \A s, x, v : Flash!PutEach(s, x, v) = PutEach(s, x, v)
  /\ \A s : Flash!CumSum(s) = CumSum(s)
  /\ \A s : Flash!FlattenSeq(s) = FlattenSeq(s)
  /\ \A s : Flash!Last(s) = s[Len(s)] /\ Flash!Front(s) = Front(s)
  <1>1. \A S : Flash!Max(S) = Max(S) /\ Flash!Min(S) = Min(S)
      BY DEF Flash!Max, Max, Flash!Min, Min
  <1>2. \A s, lo, hi : Flash!Slice(s, lo, hi) = Slice(s, lo, hi)
      <2>1. \A n, x : Flash!Position(n, x) = Position(n, x)
          BY DEF Flash!Position, Position, Flash!Max, Max, Flash!Min, Min
      <2>. QED  BY <2>1 DEF Flash!Slice, Slice
  <1>3. \A s, lo, hi, v : Flash!Put(s, lo, hi, v) = Put(s, lo, hi, v)
      <2>1. \A n, x : Flash!Position(n, x) = Position(n, x)
          BY DEF Flash!Position, Position, Flash!Max, Max, Flash!Min, Min
      <2>2. Flash!Misfit = Misfit
          BY DEF Flash!Misfit, Misfit
      <2>. TAKE s, lo, hi, v
      <2>. DEFINE l == Position(Len(s), lo)
      <2>3. Flash!Position(Len(s), lo) = l /\ Flash!Position(Len(s), hi) = Position(Len(s), hi)
          BY <2>1
      <2>4. Flash!Max({l, Position(Len(s), hi)}) = Max({l, Position(Len(s), hi)})
          BY <1>1
      <2>. QED  BY <2>2, <2>3, <2>4, Zenon DEF Flash!Put, Put
  <1>4. \A s, x, v : Flash!PutAt(s, x, v) = PutAt(s, x, v)
      BY DEF Flash!PutAt, PutAt, Flash!Misfit, Misfit
  <1>5. \A n, v : Flash!Fill(n, v) = Fill(n, v)
      BY DEF Flash!Fill, Fill
  <1>6. \A r, lo, hi : Flash!Cells(r, lo, hi) = Cells(r, lo, hi)
      BY DEF Flash!Cells, Cells, Flash!Max, Max
  <1>7. \A r, g : Flash!Context(r, g) = Context(r, g)
      BY DEF Flash!Context, Context, Flash!PrefixCells, PrefixCells, Flash!Cells, Cells, Flash!Max, Max
  <1>8. \A r : Flash!PrefixCells(r) = PrefixCells(r)
      BY DEF Flash!PrefixCells, PrefixCells, Flash!Cells, Cells, Flash!Max, Max
  <1>9. \A s, x, v : Flash!PutEach(s, x, v) = PutEach(s, x, v)
      BY DEF Flash!PutEach, PutEach, Flash!Misfit, Misfit
  <1>10. \A s : Flash!CumSum(s) = CumSum(s)
      BY DEF Flash!CumSum, CumSum
  <1>11. \A s : Flash!FlattenSeq(s) = FlattenSeq(s)
      BY DEF Flash!FlattenSeq, FlattenSeq
  <1>12. \A s : Flash!Last(s) = s[Len(s)] /\ Flash!Front(s) = Front(s)
      BY DEF Flash!Last, Flash!Front, Front
  <1>. QED  BY <1>1, <1>2, <1>3, <1>4, <1>5, <1>6, <1>7, <1>8, <1>9, <1>10, <1>11, <1>12

\* ... and of the paged one.
LEMMA PagedSlices ==
  /\ \A S : Paged!Max(S) = Max(S) /\ Paged!Min(S) = Min(S)
  /\ \A s, lo, hi : Paged!Slice(s, lo, hi) = Slice(s, lo, hi)
  /\ \A s, lo, hi, v : Paged!Put(s, lo, hi, v) = Put(s, lo, hi, v)
  /\ \A s, x, v : Paged!PutAt(s, x, v) = PutAt(s, x, v)
  /\ \A n, v : Paged!Fill(n, v) = Fill(n, v)
  /\ \A r, lo, hi : Paged!Cells(r, lo, hi) = Cells(r, lo, hi)
  /\ \A r, g : Paged!Context(r, g) = Context(r, g)
  /\ \A s : Paged!Last(s) = s[Len(s)]
  /\ \A s : Paged!FlattenSeq(s) = FlattenSeq(s)
  <1>1. \A S : Paged!Max(S) = Max(S) /\ Paged!Min(S) = Min(S)
      BY DEF Paged!Max, Max, Paged!Min, Min
  <1>2. \A s, lo, hi : Paged!Slice(s, lo, hi) = Slice(s, lo, hi)
      <2>1. \A n, x : Paged!Position(n, x) = Position(n, x)
          BY DEF Paged!Position, Position, Paged!Max, Max, Paged!Min, Min
      <2>. QED  BY <2>1 DEF Paged!Slice, Slice
  <1>3. \A s, lo, hi, v : Paged!Put(s, lo, hi, v) = Put(s, lo, hi, v)
      <2>1. \A n, x : Paged!Position(n, x) = Position(n, x)
          BY DEF Paged!Position, Position, Paged!Max, Max, Paged!Min, Min
      <2>2. Paged!Misfit = Misfit
          BY DEF Paged!Misfit, Misfit
      <2>. TAKE s, lo, hi, v
      <2>. DEFINE l == Position(Len(s), lo)
      <2>3. Paged!Position(Len(s), lo) = l /\ Paged!Position(Len(s), hi) = Position(Len(s), hi)
          BY <2>1
      <2>4. Paged!Max({l, Position(Len(s), hi)}) = Max({l, Position(Len(s), hi)})
          BY <1>1
      <2>. QED  BY <2>2, <2>3, <2>4, Zenon DEF Paged!Put, Put
  <1>4. \A s, x, v : Paged!PutAt(s, x, v) = PutAt(s, x, v)
      BY DEF Paged!PutAt, PutAt, Paged!Misfit, Misfit
  <1>5. \A n, v : Paged!Fill(n, v) = Fill(n, v)
      BY DEF Paged!Fill, Fill
  <1>6. \A r, lo, hi : Paged!Cells(r, lo, hi) = Cells(r, lo, hi)
      BY DEF Paged!Cells, Cells, Paged!Max, Max
  <1>7. \A r, g : Paged!Context(r, g) = Context(r, g)
      BY DEF Paged!Context, Context, Paged!PrefixCells, PrefixCells, Paged!Cells, Cells, Paged!Max, Max
  <1>8. \A s : Paged!Last(s) = s[Len(s)]
      BY DEF Paged!Last
  <1>9. \A s : Paged!FlattenSeq(s) = FlattenSeq(s)
      BY DEF Paged!FlattenSeq, FlattenSeq
  <1>. QED  BY <1>1, <1>2, <1>3, <1>4, <1>5, <1>6, <1>7, <1>8, <1>9

-----------------------------------------------------------------------------
(* Slices within a list.                                                    *)

\* The position of a bound in s[lo:hi].
At(n, x) == IF x < 0 THEN n + x ELSE x

LEMMA PositionAt ==
  ASSUME NEW n \in Nat, NEW x \in Int, 0 <= At(n, x), At(n, x) <= n
  PROVE  Position(n, x) = At(n, x)
  BY PositionIs DEF At

\* s[lo:hi] ...
LEMMA SliceAt ==
  ASSUME NEW n \in Nat, NEW s, List(s, n), NEW lo \in Int, NEW hi \in Int, NEW l, NEW m,
         l = At(n, lo), m = At(n, hi) - l, 0 <= l, 0 <= m, At(n, hi) <= n
  PROVE  /\ List(Slice(s, lo, hi), m) /\ m \in Nat /\ l \in Nat
         /\ \A k \in 1 .. m : Slice(s, lo, hi)[k] = s[l + k]
  <1> DEFINE h == At(n, hi)
  <1>1. l \in Nat /\ h \in Nat /\ l <= h /\ h <= n /\ m = h - l /\ m \in Nat
      BY DEF At
  <1>2. l = Position(n, lo) /\ h = Position(n, hi)
      BY <1>1, PositionAt
  <1> HIDE DEF h
  <1>. QED  BY <1>1, <1>2, SliceIs

\* ... of which the last bound is the length ...
LEMMA SliceFrom ==
  ASSUME NEW n \in Nat, NEW s, List(s, n), NEW l \in 0 .. n
  PROVE  /\ List(Slice(s, l, Len(s)), n - l) /\ n - l \in Nat
         /\ \A k \in 1 .. n - l : Slice(s, l, Len(s))[k] = s[l + k]
  <1>1. Len(s) = n
      BY Lists
  <1> DEFINE m == n - l
  <1>2. l = At(n, l) /\ m = At(n, n) - l /\ 0 <= l /\ 0 <= m /\ At(n, n) <= n
      BY DEF At
  <1> HIDE DEF m
  <1>3. /\ List(Slice(s, l, n), m) /\ m \in Nat
        /\ \A k \in 1 .. m : Slice(s, l, n)[k] = s[l + k]
      BY <1>2, SliceAt
  <1>. QED  BY <1>1, <1>3 DEF m

\* ... and the first is counted from the end.
LEMMA SliceLast ==
  ASSUME NEW n \in Nat, NEW s, List(s, n), NEW p \in 1 .. n
  PROVE  /\ List(Slice(s, -p, Len(s)), p)
         /\ \A k \in 1 .. p : Slice(s, -p, Len(s))[k] = s[n - p + k]
  <1>1. Len(s) = n
      BY Lists
  <1> DEFINE l == n - p  lo == -p
  <1>2. l = At(n, lo) /\ p = At(n, n) - l /\ 0 <= l /\ 0 <= p /\ At(n, n) <= n /\ lo \in Int
      BY DEF At
  <1> HIDE DEF l, lo
  <1>3. /\ List(Slice(s, lo, n), p)
        /\ \A k \in 1 .. p : Slice(s, lo, n)[k] = s[l + k]
      BY <1>2, SliceAt
  <1>. QED  BY <1>1, <1>3 DEF l, lo

\* The first elements, and all but the last.
LEMMA SliceFirst ==
  ASSUME NEW n \in Nat, NEW s, List(s, n), NEW m \in 0 .. n
  PROVE  List(Slice(s, 0, m), m) /\ \A k \in 1 .. m : Slice(s, 0, m)[k] = s[k]
  <1> DEFINE l == 0
  <1>2. l = At(n, l) /\ m = At(n, m) - l /\ 0 <= l /\ 0 <= m /\ At(n, m) <= n /\ l \in Int
      BY DEF At
  <1> HIDE DEF l
  <1>3. List(Slice(s, l, m), m) /\ \A k \in 1 .. m : Slice(s, l, m)[k] = s[l + k]
      BY <1>2, SliceAt
  <1>4. \A k \in 1 .. m : l + k = k
      BY DEF l
  <1>. QED  BY <1>3, <1>4 DEF l

LEMMA SliceFront ==
  ASSUME NEW n \in Nat, NEW s, List(s, n), NEW o \in 1 .. n
  PROVE  List(Slice(s, 0, -o), n - o) /\ \A k \in 1 .. n - o : Slice(s, 0, -o)[k] = s[k]
  <1> DEFINE l == 0  hi == -o  m == n - o
  <1>2. l = At(n, l) /\ m = At(n, hi) - l /\ 0 <= l /\ 0 <= m /\ At(n, hi) <= n /\ l \in Int /\ hi \in Int
      BY DEF At
  <1> HIDE DEF l, hi, m
  <1>3. List(Slice(s, l, hi), m) /\ \A k \in 1 .. m : Slice(s, l, hi)[k] = s[l + k]
      BY <1>2, SliceAt
  <1>4. \A k \in 1 .. m : l + k = k
      BY DEF l
  <1>. QED  BY <1>3, <1>4 DEF l, hi, m

\* s[-o] = v
LEMMA PutFromEnd ==
  ASSUME NEW n \in Nat, NEW s, List(s, n), NEW o \in 1 .. n, NEW v
  PROVE  /\ List(PutAt(s, -o, v), n)
         /\ \A k \in 1 .. n : PutAt(s, -o, v)[k] = IF k = n - o + 1 THEN v ELSE s[k]
  <1> DEFINE x == -o  p == n - o + 1
  <1>1. x \in Int /\ p \in 1 .. n /\ p = IF x < 0 THEN n + x + 1 ELSE x + 1
      OBVIOUS
  <1> HIDE DEF x, p
  <1>2. List(PutAt(s, x, v), n) /\ \A k \in 1 .. n : PutAt(s, x, v)[k] = IF k = p THEN v ELSE s[k]
      BY <1>1, PutAtIs
  <1>. QED  BY <1>2 DEF x, p

\* s[lo:hi] = v, when it fits.
LEMMA PutFits ==
  ASSUME NEW n \in Nat, NEW s, List(s, n), NEW lo \in Int, NEW hi \in Int, NEW l \in Nat, NEW h \in Nat,
         l = At(n, lo), h = At(n, hi), l <= h, h <= n, NEW v, List(v, h - l)
  PROVE  /\ List(Put(s, lo, hi, v), n)
         /\ \A k \in 1 .. n : Put(s, lo, hi, v)[k] = IF l < k /\ k <= h THEN v[k - l] ELSE s[k]
  <1>1. l = Position(n, lo) /\ h = Position(n, hi)
      BY PositionAt
  <1> DEFINE q == h - l
  <1>2. q \in Nat /\ List(v, q) /\ Position(n, hi) - Position(n, lo) = q
      BY <1>1
  <1> HIDE DEF q
  <1>3. /\ List(Put(s, lo, hi, v), n)
        /\ Position(n, hi) - Position(n, lo) = q =>
                 \A k \in 1 .. n : Put(s, lo, hi, v)[k] =
                    IF Position(n, lo) < k /\ k <= Position(n, hi) THEN v[k - Position(n, lo)] ELSE s[k]
      BY <1>2, PutIs
  <1>. QED  BY <1>1, <1>2, <1>3

\* Whatever is put, the length stays.
LEMMA PutLength ==
  ASSUME NEW n \in Nat, NEW s, List(s, n), NEW lo \in Int, NEW hi \in Int, NEW q \in Nat, NEW v, List(v, q)
  PROVE  List(Put(s, lo, hi, v), n)
  BY PutIs

-----------------------------------------------------------------------------
(* The lengths of a padded batch.                                           *)

CausalFields ==
    {"request", "input_length", "max_remaining_tokens", "attention_mask", "all_input_ids", "past", "input_ids",
     "position_ids"}

\* Of the w positions before the free ones, q are in the next input.
CausalRowFits(row, M, o, w, q) ==
    LET r == row.request IN
    /\ CausalFields \subseteq DOMAIN row
    /\ KnownRequest(r) /\ row.max_remaining_tokens \in 0 .. r.output
    /\ row.input_length = r.input + r.prefix + r.output - row.max_remaining_tokens
    /\ List(row.attention_mask, w + o) /\ List(row.all_input_ids, M + o)
    /\ List(row.past, w - q) /\ List(row.input_ids, q)

CausalFits(b, n, w, q) ==
    LET M == b.max_sequence_length  o == b.padding_right_offset IN
    /\ n \in Nat \ {0} /\ w \in Nat /\ q \in 1 .. w /\ M <= w /\ List(b.rows, n)
    /\ Largest(M, b.rows, "input_length") /\ Largest(o, b.rows, "max_remaining_tokens")
    /\ \A k \in 1 .. n : CausalRowFits(b.rows[k], M, o, w, q)

\* Each row has generated a token.
Started(b) == \A k \in DOMAIN b.rows : b.rows[k].max_remaining_tokens < b.rows[k].request.output

\* A step.
LEMMA CausalStepFits ==
  ASSUME NEW b, NEW n, NEW w, NEW q, CausalFits(b, n, w, q), NEW first \in BOOLEAN, NEW for_concat \in BOOLEAN,
         \A k \in DOMAIN b.rows : b.rows[k].max_remaining_tokens # 0
  PROVE  LET c == Causal!generate_token(b, first, for_concat)
             x == IF first /\ ~for_concat THEN b.max_sequence_length ELSE w
         IN  CausalFits(c, n, x + 1, 1) /\ Started(c) /\ c.max_sequence_length = b.max_sequence_length + 1
  <1> DEFINE M == b.max_sequence_length  o == b.padding_right_offset
             c == Causal!generate_token(b, first, for_concat)
             x == IF first /\ ~for_concat THEN M ELSE w
             left == w - x
  <1>1. /\ n \in Nat \ {0} /\ w \in Nat /\ q \in 1 .. w /\ M <= w /\ List(b.rows, n)
        /\ Largest(M, b.rows, "input_length") /\ Largest(o, b.rows, "max_remaining_tokens")
        /\ M \in Nat /\ o \in Nat /\ DOMAIN b.rows = 1 .. n
      BY DEF CausalFits, Largest, List
  <1>2. \A k \in 1 .. n : CausalRowFits(b.rows[k], M, o, w, q)
      BY DEF CausalFits
  <1>3. o # 0
      <2>1. PICK k \in 1 .. n : b.rows[k].max_remaining_tokens = o
          BY <1>1 DEF Largest
      <2>. QED  BY <1>1, <2>1
  <1>4. Causal!LeftPad(b, first, for_concat) = left
      <2>1. List(b.rows[1].attention_mask, w + o) /\ w + o \in Nat
          BY <1>1, <1>2 DEF CausalRowFits
      <2>2. Len(b.rows[1].attention_mask) = w + o
          BY <2>1, Lists
      <2>. QED  BY <1>1, <2>2 DEF Causal!LeftPad
  <1>5. x \in Nat /\ left \in Nat /\ x <= w /\ M <= x /\ left + x = w
      BY <1>1
  <1>6. c.max_sequence_length = M + 1 /\ c.padding_right_offset = o - 1
      BY DEF Causal!generate_token
  <1>7. DOMAIN c.rows = 1 .. n /\ List(c.rows, n)
      BY <1>1 DEF Causal!generate_token, List
  <1>8. ASSUME NEW k \in 1 .. n
        PROVE  LET row == b.rows[k]  new == c.rows[k]
                   past == row.past \o row.input_ids
                   mask == PutAt(row.attention_mask, -o, <<1, 1>>)
               IN  /\ DOMAIN new = DOMAIN row /\ new.request = row.request
                   /\ new.input_length = row.input_length + 1
                   /\ new.max_remaining_tokens = row.max_remaining_tokens - 1
                   /\ new.attention_mask = Slice(mask, left, Len(mask))
                   /\ new.all_input_ids = PutAt(row.all_input_ids, -o, Causal!NextCell(row))
                   /\ new.past = Slice(past, left, Len(past))
                   /\ new.input_ids = <<Causal!NextCell(row)>>
      <2>1. CausalFields \subseteq DOMAIN b.rows[k]
          BY <1>2 DEF CausalRowFits
      <2>. QED  BY <1>1, <1>4, <2>1, CausalSlices DEF Causal!generate_token, CausalFields
  <1> HIDE DEF c, x, left, M, o
  <1>9. ASSUME NEW k \in 1 .. n
        PROVE  CausalRowFits(c.rows[k], M + 1, o - 1, x + 1, 1)
               /\ c.rows[k].max_remaining_tokens < c.rows[k].request.output
      <2> DEFINE row == b.rows[k]  new == c.rows[k]  r == row.request
                 past == row.past \o row.input_ids
                 mask == PutAt(row.attention_mask, -o, <<1, 1>>)
      <2>1. CausalRowFits(row, M, o, w, q) /\ row.max_remaining_tokens # 0
          BY <1>1, <1>2
      <2>2. /\ new.request = r /\ KnownRequest(r) /\ CausalFields \subseteq DOMAIN new
            /\ new.max_remaining_tokens = row.max_remaining_tokens - 1
            /\ new.input_length = row.input_length + 1
          BY <1>8, <2>1 DEF CausalRowFits
      <2>3. r.output \in Nat /\ r.input \in Nat /\ r.prefix \in Nat
          BY <2>2 DEF KnownRequest
      <2>4. /\ row.max_remaining_tokens \in 1 .. r.output
            /\ row.input_length = r.input + r.prefix + r.output - row.max_remaining_tokens
          BY <2>1, <2>3 DEF CausalRowFits
      <2>5. /\ new.max_remaining_tokens \in 0 .. r.output /\ new.max_remaining_tokens < r.output
            /\ new.input_length = r.input + r.prefix + r.output - new.max_remaining_tokens
          <3> HIDE DEF row, new, r
          <3>. QED  BY <2>2, <2>3, <2>4
      <2>6. List(new.attention_mask, x + 1 + (o - 1))
          <3> DEFINE W == w + o
          <3>1. W \in Nat /\ List(row.attention_mask, W) /\ o \in 1 .. W /\ left \in 0 .. W
                /\ W - left = x + 1 + (o - 1)
              BY <1>1, <1>3, <1>5, <2>1 DEF CausalRowFits
          <3> HIDE DEF W
          <3>2. List(mask, W)
              BY <3>1, PutFromEnd
          <3> HIDE DEF mask
          <3>3. List(Slice(mask, left, Len(mask)), W - left)
              BY <3>1, <3>2, SliceFrom
          <3>. QED  BY <1>8, <3>1, <3>3 DEF mask
      <2>7. List(new.all_input_ids, M + 1 + (o - 1))
          <3> DEFINE W == M + o
          <3>1. W \in Nat /\ List(row.all_input_ids, W) /\ o \in 1 .. W /\ W = M + 1 + (o - 1)
              BY <1>1, <1>3, <2>1 DEF CausalRowFits
          <3> HIDE DEF W
          <3>2. List(PutAt(row.all_input_ids, -o, Causal!NextCell(row)), W)
              BY <3>1, PutFromEnd
          <3>. QED  BY <1>8, <3>1, <3>2
      <2>8. List(new.past, x + 1 - 1)
          <3>1. List(row.past, w - q) /\ List(row.input_ids, q) /\ w - q \in Nat /\ q \in Nat
              BY <1>1, <2>1 DEF CausalRowFits
          <3>2. List(past, w - q + q)
              BY <3>1, JoinedIs
          <3>3. w - q + q = w
              BY <1>1
          <3>4. Len(past) = w /\ List(past, w)
              BY <1>1, <3>2, <3>3, Lists
          <3> HIDE DEF past
          <3>5. List(Slice(past, left, Len(past)), w - left)
              BY <1>1, <1>5, <3>4, SliceFrom
          <3>6. w - left = x + 1 - 1
              BY <1>1, <1>5
          <3>. QED  BY <1>8, <3>5, <3>6 DEF past
      <2>9. List(new.input_ids, 1)
          <3>1. new.input_ids = <<Causal!NextCell(row)>>
              BY <1>8
          <3> HIDE DEF new, row
          <3>. QED  BY <3>1 DEF List
      <2>10. new.request = r
          BY <2>2
      <2>11. KnownRequest(r) /\ CausalFields \subseteq DOMAIN new
          BY <2>2
      <2> HIDE DEF new, row, r
      <2>12. CausalRowFits(new, M + 1, o - 1, x + 1, 1) /\ new.max_remaining_tokens < new.request.output
          <3>1. CausalFields \subseteq DOMAIN new /\ KnownRequest(new.request) /\ new.max_remaining_tokens \in 0 .. new.request.output
              BY <2>5, <2>10, <2>11
          <3>2. new.input_length = new.request.input + new.request.prefix + new.request.output - new.max_remaining_tokens
              BY <2>5, <2>10, <2>11
          <3>3. new.max_remaining_tokens < new.request.output
              BY <2>5, <2>10
          <3> DEFINE M1 == M + 1  o1 == o - 1  x1 == x + 1
          <3>4. List(new.attention_mask, x1 + o1) /\ List(new.all_input_ids, M1 + o1) /\ List(new.past, x1 - 1)
              BY <1>1, <1>5, <2>6, <2>7, <2>8
          <3> HIDE DEF M1, o1, x1
          <3>5. CausalRowFits(new, M1, o1, x1, 1)
              BY <2>9, <3>1, <3>2, <3>4 DEF CausalRowFits
          <3>. QED  BY <3>3, <3>5 DEF M1, o1, x1
      <2>. QED  BY <2>12 DEF new
  <1>10. Largest(M + 1, c.rows, "input_length")
      <2>1. \A k \in 1 .. n : c.rows[k].input_length = b.rows[k].input_length + 1
          BY <1>8
      <2>2. \A k \in 1 .. n : b.rows[k].input_length \in Nat
          BY <1>1 DEF Largest
      <2>3. \A k \in DOMAIN b.rows : /\ c.rows[k].input_length = b.rows[k].input_length + 1
                                     /\ c.rows[k].input_length \in Nat
          BY <1>1, <2>1, <2>2, SMTT(30)
      <2> DEFINE d == 1
      <2>4. d \in Int /\ \A k \in DOMAIN b.rows : /\ c.rows[k].input_length = b.rows[k].input_length + d
                                                 /\ c.rows[k].input_length \in Nat
          BY <2>3
      <2> HIDE DEF d
      <2>5. Largest(M + d, c.rows, "input_length")
          BY <1>1, <1>7, <2>4, LargestMoves
      <2>. QED  BY <2>5 DEF d
  <1>11. Largest(o - 1, c.rows, "max_remaining_tokens")
      <2>1. \A k \in 1 .. n : c.rows[k].max_remaining_tokens = b.rows[k].max_remaining_tokens + -1
          BY <1>1, <1>8 DEF Largest
      <2>2. \A k \in 1 .. n : b.rows[k].max_remaining_tokens \in Nat /\ b.rows[k].max_remaining_tokens # 0
          BY <1>1 DEF Largest
      <2>3. \A k \in 1 .. n : c.rows[k].max_remaining_tokens \in Nat
          BY <2>1, <2>2
      <2> DEFINE d == -1
      <2>4. d \in Int /\ \A k \in DOMAIN b.rows :
                            /\ c.rows[k].max_remaining_tokens = b.rows[k].max_remaining_tokens + d
                            /\ c.rows[k].max_remaining_tokens \in Nat
          BY <1>1, <2>1, <2>3
      <2> HIDE DEF d
      <2>5. Largest(o + d, c.rows, "max_remaining_tokens")
          BY <1>1, <1>7, <2>4, LargestMoves
      <2>6. o + d = o - 1
          BY <1>1 DEF d
      <2>. QED  BY <2>5, <2>6
  <1>12. CausalFits(c, n, x + 1, 1)
      <2>1. x + 1 \in Nat /\ 1 \in 1 .. x + 1 /\ M + 1 <= x + 1
          BY <1>1, <1>5
      <2>. QED  BY <1>1, <1>6, <1>7, <1>9, <1>10, <1>11, <2>1 DEF CausalFits
  <1>13. Started(c)
      BY <1>7, <1>9 DEF Started
  <1>. QED  BY <1>6, <1>12, <1>13 DEF c, x, M

\* The rows of a batch in a longer one.
LEMMA CausalRepads ==
  ASSUME NEW b, NEW n, NEW w, CausalFits(b, n, w, 1), Started(b),
         NEW M \in Nat, NEW o \in Nat, b.max_sequence_length <= M, b.padding_right_offset <= o, o # 0,
         b.padding_right_offset # 0
  PROVE  LET s == Causal!Repadded(b, M, o) IN
         /\ List(s, n)
         /\ \A k \in 1 .. n : /\ CausalRowFits(s[k], M, o, M, 1)
                              /\ s[k].input_length = b.rows[k].input_length
                              /\ s[k].max_remaining_tokens = b.rows[k].max_remaining_tokens
                              /\ s[k].request = b.rows[k].request
  <1> DEFINE s == Causal!Repadded(b, M, o)
             m == b.max_sequence_length  p == b.padding_right_offset  h == m - 1
             left == M - m
  <1>1. /\ n \in Nat \ {0} /\ w \in Nat /\ 1 \in 1 .. w /\ m <= w /\ List(b.rows, n)
        /\ m \in Nat /\ p \in Nat /\ DOMAIN b.rows = 1 .. n
        /\ \A k \in 1 .. n : b.rows[k].input_length <= m
      BY DEF CausalFits, Largest, List
  <1>2. \A k \in 1 .. n : CausalRowFits(b.rows[k], m, p, w, 1)
      BY DEF CausalFits
  <1>3. List(s, n) /\ DOMAIN s = 1 .. n
      BY <1>1 DEF Causal!Repadded, List
  <1>4. ASSUME NEW k \in 1 .. n PROVE b.rows[k].input_length >= 2
      <2> DEFINE row == b.rows[k]  r == row.request
      <2>1. CausalRowFits(row, m, p, w, 1) /\ row.max_remaining_tokens < r.output
          BY <1>1, <1>2 DEF Started
      <2>2. KnownRequest(r) /\ row.max_remaining_tokens \in 0 .. r.output
            /\ row.input_length = r.input + r.prefix + r.output - row.max_remaining_tokens
          BY <2>1 DEF CausalRowFits
      <2>3. r.input \in Nat /\ r.input >= 1 /\ r.prefix \in Nat /\ r.output \in Nat
          BY <2>2 DEF KnownRequest
      <2> HIDE DEF r, row
      <2>4. row.input_length >= 2
          BY <2>1, <2>2, <2>3
      <2>. QED  BY <2>4 DEF row
  <1>5. m >= 2
      <2>1. 1 \in 1 .. n /\ b.rows[1].input_length >= 2 /\ b.rows[1].input_length <= m
          BY <1>1, <1>4
      <2>2. b.rows[1].input_length \in Nat
          BY <1>1, SMTT(30) DEF CausalFits, Largest
      <2>. QED  BY <1>1, <2>1, <2>2
  <1>6. ASSUME NEW k \in 1 .. n
        PROVE  LET row == b.rows[k]  new == s[k] IN
               /\ DOMAIN new = DOMAIN row /\ new.request = row.request /\ new.input_length = row.input_length
               /\ new.max_remaining_tokens = row.max_remaining_tokens /\ new.input_ids = row.input_ids
               /\ new.attention_mask = Put(Fill(M + o, <<0, 0>>), left, -o, Slice(row.attention_mask, -m - p, -p))
               /\ new.all_input_ids = Put(Fill(M + o, Pad), left, -o, Slice(row.all_input_ids, 0, -p))
               /\ new.past = Put(Fill(M - 1, Pad), -h, M - 1, Slice(row.past, -h, Len(row.past)))
      <2>1. CausalFields \subseteq DOMAIN b.rows[k]
          BY <1>2 DEF CausalRowFits
      <2>. QED  BY <1>1, <2>1, CausalSlices DEF Causal!Repadded, Causal!LeftOffset, CausalFields, Causal!Pad, Pad
  <1> HIDE DEF s, m, p, h, left
  <1>7. /\ left \in Int /\ -o \in Int /\ M + o \in Nat /\ M - 1 \in Nat /\ -h \in Int /\ M - 1 \in Int
        /\ h \in Nat /\ h >= 1 /\ p # 0 /\ m <= M
      BY <1>1, <1>5 DEF left, h, m, p
  <1>8. ASSUME NEW k \in 1 .. n PROVE CausalRowFits(s[k], M, o, M, 1)
      <2> DEFINE row == b.rows[k]  new == s[k]
      <2>1. CausalRowFits(row, m, p, w, 1)
          BY <1>2
      <2>2. List(new.attention_mask, M + o)
          <3> DEFINE W == w + p  lo == -m - p  hi == -p  l == w - m  v == Slice(row.attention_mask, lo, hi)
          <3>1. W \in Nat /\ List(row.attention_mask, W) /\ lo \in Int /\ hi \in Int
                /\ l = At(W, lo) /\ m = At(W, hi) - l /\ 0 <= l /\ 0 <= m /\ At(W, hi) <= W
              BY <1>1, <1>5, <1>7, <2>1 DEF CausalRowFits, At
          <3> HIDE DEF W, lo, hi, l
          <3>2. List(v, m)
              BY <3>1, SliceAt
          <3> HIDE DEF v
          <3>3. List(Fill(M + o, <<0, 0>>), M + o)
              BY <1>7, FillIs
          <3>4. List(Put(Fill(M + o, <<0, 0>>), left, -o, v), M + o)
              BY <1>1, <1>7, <3>2, <3>3, PutLength
          <3>. QED  BY <1>6, <3>4 DEF v, lo, hi
      <2>3. List(new.all_input_ids, M + o)
          <3> DEFINE W == m + p  v == Slice(row.all_input_ids, 0, -p)
          <3>1. W \in Nat /\ List(row.all_input_ids, W) /\ p \in 1 .. W /\ W - p = m
              BY <1>1, <1>7, <2>1, SMTT(30) DEF CausalRowFits
          <3> HIDE DEF W
          <3>2. List(v, m)
              BY <3>1, SliceFront
          <3> HIDE DEF v
          <3>3. List(Fill(M + o, Pad), M + o)
              BY <1>7, FillIs
          <3>4. List(Put(Fill(M + o, Pad), left, -o, v), M + o)
              BY <1>1, <1>7, <3>2, <3>3, PutLength
          <3>. QED  BY <1>6, <3>4 DEF v
      <2>4. List(new.past, M - 1)
          <3> DEFINE W == w - 1  v == Slice(row.past, -h, Len(row.past))
          <3>1. W \in Nat /\ List(row.past, W) /\ h \in 1 .. W
              BY <1>1, <1>5, <2>1 DEF CausalRowFits, h
          <3> HIDE DEF W
          <3>2. List(v, h)
              BY <3>1, SliceLast
          <3> HIDE DEF v
          <3>3. List(Fill(M - 1, Pad), M - 1)
              BY <1>7, FillIs
          <3>4. List(Put(Fill(M - 1, Pad), -h, M - 1, v), M - 1)
              BY <1>7, <3>2, <3>3, PutLength
          <3>. QED  BY <1>6, <3>4 DEF v
      <2>5. /\ DOMAIN new = DOMAIN row /\ new.request = row.request /\ new.input_length = row.input_length
            /\ new.max_remaining_tokens = row.max_remaining_tokens /\ new.input_ids = row.input_ids
          BY <1>6
      <2> HIDE DEF row, new
      <2>6. CausalRowFits(new, M, o, M, 1)
          BY <2>1, <2>2, <2>3, <2>4, <2>5 DEF CausalRowFits
      <2>. QED  BY <2>6 DEF new
  <1>. QED  BY <1>3, <1>6, <1>8 DEF s

\* The rows of two batches.
LEMMA CausalMergeFits ==
  ASSUME NEW a, NEW n, NEW v, CausalFits(a, n, v, 1), Started(a),
         NEW b, NEW m, NEW w, CausalFits(b, m, w, 1), Started(b),
         a.padding_right_offset # 0, b.padding_right_offset # 0
  PROVE  LET c == Causal!concatenate(a, b) IN
         CausalFits(c, n + m, c.max_sequence_length, 1) /\ Started(c)
  <1> DEFINE c == Causal!concatenate(a, b)
             M == Max({a.max_sequence_length, b.max_sequence_length})
             o == Max({a.padding_right_offset, b.padding_right_offset})
             s == Causal!Repadded(a, M, o)
             t == Causal!Repadded(b, M, o)
  <1>1. /\ n \in Nat \ {0} /\ m \in Nat \ {0} /\ DOMAIN a.rows = 1 .. n /\ DOMAIN b.rows = 1 .. m
        /\ a.max_sequence_length \in Nat /\ b.max_sequence_length \in Nat
        /\ a.padding_right_offset \in Nat /\ b.padding_right_offset \in Nat
        /\ Largest(a.max_sequence_length, a.rows, "input_length")
        /\ Largest(a.padding_right_offset, a.rows, "max_remaining_tokens")
        /\ Largest(b.max_sequence_length, b.rows, "input_length")
        /\ Largest(b.padding_right_offset, b.rows, "max_remaining_tokens")
      BY DEF CausalFits, List, Largest
  <1>2. c.rows = s \o t /\ c.max_sequence_length = M /\ c.padding_right_offset = o
      BY CausalSlices DEF Causal!concatenate
  <1>3. /\ M \in Nat /\ a.max_sequence_length <= M /\ b.max_sequence_length <= M
        /\ o \in Nat /\ a.padding_right_offset <= o /\ b.padding_right_offset <= o /\ o # 0
      BY <1>1, MaxOfTwo
  <1> HIDE DEF c, M, o
  <1>4. /\ List(s, n)
        /\ \A k \in 1 .. n : /\ CausalRowFits(s[k], M, o, M, 1)
                             /\ s[k].input_length = a.rows[k].input_length
                             /\ s[k].max_remaining_tokens = a.rows[k].max_remaining_tokens
                             /\ s[k].request = a.rows[k].request
      BY <1>3, CausalRepads
  <1>5. /\ List(t, m)
        /\ \A k \in 1 .. m : /\ CausalRowFits(t[k], M, o, M, 1)
                             /\ t[k].input_length = b.rows[k].input_length
                             /\ t[k].max_remaining_tokens = b.rows[k].max_remaining_tokens
                             /\ t[k].request = b.rows[k].request
      BY <1>3, CausalRepads
  <1> HIDE DEF s, t
  <1>6. c.rows = Joined(s, n, t, m) /\ List(c.rows, n + m) /\ DOMAIN c.rows = 1 .. n + m
      <2>0. n \in Nat /\ m \in Nat /\ List(s, n) /\ List(t, m)
          BY <1>1, <1>4, <1>5
      <2>1. c.rows = Joined(s, n, t, m) /\ List(c.rows, n + m)
          BY <1>2, <2>0, JoinedIs
      <2>. QED  BY <2>1 DEF Joined
  <1>7. ASSUME NEW k \in 1 .. n + m
        PROVE  /\ CausalRowFits(c.rows[k], M, o, M, 1)
               /\ c.rows[k].input_length = Joined(a.rows, n, b.rows, m)[k].input_length
               /\ c.rows[k].max_remaining_tokens = Joined(a.rows, n, b.rows, m)[k].max_remaining_tokens
               /\ c.rows[k].max_remaining_tokens < c.rows[k].request.output
      <2>1. CASE k <= n
          <3>1. k \in 1 .. n /\ c.rows[k] = s[k] /\ Joined(a.rows, n, b.rows, m)[k] = a.rows[k]
              BY <1>6, <2>1 DEF Joined
          <3>. QED  BY <1>1, <1>4, <3>1 DEF Started
      <2>2. CASE ~(k <= n)
          <3>1. k - n \in 1 .. m /\ c.rows[k] = t[k - n] /\ Joined(a.rows, n, b.rows, m)[k] = b.rows[k - n]
              BY <1>1, <1>6, <2>2 DEF Joined
          <3>. QED  BY <1>1, <1>5, <3>1 DEF Started
      <2>. QED  BY <2>1, <2>2
  <1>8. Largest(M, c.rows, "input_length")
      BY <1>1, <1>6, <1>7, LargestJoins DEF M
  <1>9. Largest(o, c.rows, "max_remaining_tokens")
      BY <1>1, <1>6, <1>7, LargestJoins DEF o
  <1>10. n + m \in Nat \ {0} /\ 1 \in 1 .. M
      <2>1. PICK k \in 1 .. n : a.rows[k].input_length = a.max_sequence_length
          BY <1>1 DEF Largest
      <2>2. CausalRowFits(s[k], M, o, M, 1) /\ s[k].input_length = a.max_sequence_length
            /\ s[k].max_remaining_tokens < s[k].request.output
          BY <1>1, <1>4, <2>1 DEF Started
      <2> DEFINE r == s[k].request
      <2>3. KnownRequest(r) /\ s[k].input_length = r.input + r.prefix + r.output - s[k].max_remaining_tokens
            /\ s[k].max_remaining_tokens \in 0 .. r.output
          BY <2>2 DEF CausalRowFits
      <2>4. r.input \in Nat /\ r.input >= 1 /\ r.prefix \in Nat /\ r.output \in Nat
          BY <2>3 DEF KnownRequest
      <2>5. s[k].input_length >= 1
          <3> HIDE DEF r
          <3>. QED  BY <2>3, <2>4
      <2>. QED  BY <1>1, <1>3, <2>2, <2>5
  <1>11. CausalFits(c, n + m, M, 1)
      BY <1>2, <1>3, <1>6, <1>7, <1>8, <1>9, <1>10 DEF CausalFits
  <1>12. Started(c)
      BY <1>6, <1>7 DEF Started
  <1>. QED  BY <1>2, <1>11, <1>12 DEF c

\* The rows that are left.
LEMMA CausalPruneFits ==
  ASSUME NEW b, NEW n, NEW w, CausalFits(b, n, w, 1), Started(b), NEW done, done # {},
         NEW m \in Nat \ {0}, NEW indices \in [1 .. m -> 1 .. n], indices = KeepIndices(b, done)
  PROVE  LET c == Causal!prune(b, done) IN
         CausalFits(c, m, c.max_sequence_length, 1) /\ Started(c)
  <1> DEFINE c == Causal!prune(b, done)  kept == Pick(b.rows, indices)
             M0 == b.max_sequence_length  o0 == b.padding_right_offset
             M == Max({kept[k].input_length : k \in DOMAIN kept})
             o == Max({kept[k].max_remaining_tokens : k \in DOMAIN kept})
             h == M - 1
  <1>1. /\ n \in Nat \ {0} /\ w \in Nat /\ 1 \in 1 .. w /\ M0 <= w /\ List(b.rows, n)
        /\ M0 \in Nat /\ o0 \in Nat /\ DOMAIN b.rows = 1 .. n
        /\ \A k \in 1 .. n : /\ b.rows[k].input_length \in Nat /\ b.rows[k].input_length <= M0
                             /\ b.rows[k].max_remaining_tokens \in Nat /\ b.rows[k].max_remaining_tokens <= o0
      BY DEF CausalFits, Largest, List
  <1>2. Causal!KeepIndices(b, done) = indices /\ Causal!Pick(b.rows, indices) = kept
      BY CausalNames
  <1>3. DOMAIN kept = 1 .. m /\ \A k \in 1 .. m : kept[k] = b.rows[indices[k]]
      BY DEF Pick
  <1>4. ASSUME NEW k \in 1 .. m
        PROVE  /\ CausalRowFits(kept[k], M0, o0, w, 1) /\ kept[k].max_remaining_tokens < kept[k].request.output
               /\ kept[k].input_length \in Nat /\ kept[k].input_length <= M0
               /\ kept[k].max_remaining_tokens \in Nat /\ kept[k].max_remaining_tokens <= o0
      BY <1>1, <1>3 DEF CausalFits, Started
  <1> HIDE DEF kept
  <1>5. /\ c.max_sequence_length = M /\ c.padding_right_offset = o /\ c.rows = [k \in DOMAIN kept |-> c.rows[k]]
        /\ DOMAIN c.rows = DOMAIN kept
      BY <1>2, CausalSlices DEF Causal!prune, Causal!NewOffset, Causal!MaxOf
  <1>6. ASSUME NEW k \in 1 .. m
        PROVE  LET row == kept[k]  new == c.rows[k] IN
               /\ DOMAIN new = DOMAIN row /\ new.request = row.request /\ new.input_length = row.input_length
               /\ new.max_remaining_tokens = row.max_remaining_tokens /\ new.input_ids = row.input_ids
               /\ new.past = Slice(row.past, -h, Len(row.past))
               /\ new.attention_mask = Slice(row.attention_mask, -o0 - M, Len(row.attention_mask) - o0 + o)
               /\ new.all_input_ids = Slice(row.all_input_ids, -o0 - M, Len(row.all_input_ids) - o0 + o)
      <2>1. CausalFields \subseteq DOMAIN kept[k]
          BY <1>4 DEF CausalRowFits
      <2>. QED  BY <1>2, <1>3, <2>1, CausalSlices DEF Causal!prune, Causal!NewOffset, Causal!MaxOf, CausalFields
  <1>7. Largest(M, kept, "input_length")
      <2>1. DOMAIN kept = 1 .. m /\ \A k \in 1 .. m : kept[k].input_length \in Nat
          BY <1>3, <1>4
      <2>. QED  BY <2>1, LongestInput
  <1>8. Largest(o, kept, "max_remaining_tokens")
      <2>1. DOMAIN kept = 1 .. m /\ \A k \in 1 .. m : kept[k].max_remaining_tokens \in Nat
          BY <1>3, <1>4
      <2>. QED  BY <2>1, MostRemaining
  <1> HIDE DEF c, M, o, M0, o0
  <1>9. ASSUME NEW k \in 1 .. m PROVE kept[k].input_length >= 2
      <2> DEFINE row == kept[k]  r == row.request
      <2>2. KnownRequest(r) /\ row.max_remaining_tokens \in 0 .. r.output /\ row.max_remaining_tokens < r.output
            /\ row.input_length = r.input + r.prefix + r.output - row.max_remaining_tokens
          BY <1>4 DEF CausalRowFits
      <2>3. r.input \in Nat /\ r.input >= 1 /\ r.prefix \in Nat /\ r.output \in Nat
          BY <2>2, SMTT(30) DEF KnownRequest
      <2> HIDE DEF r, row
      <2>4. row.input_length >= 2
          BY <2>2, <2>3
      <2>. QED  BY <2>4 DEF row
  <1>10. M \in Nat /\ M <= M0 /\ M >= 2 /\ o \in Nat /\ o <= o0
      <2>1. PICK k \in 1 .. m : kept[k].input_length = M
          BY <1>3, <1>7 DEF Largest
      <2>2. PICK j \in 1 .. m : kept[j].max_remaining_tokens = o
          BY <1>3, <1>8 DEF Largest
      <2>3. M \in Nat /\ o \in Nat
          BY <1>7, <1>8 DEF Largest
      <2>. QED  BY <1>4, <1>9, <2>1, <2>2, <2>3
  <1>11. ASSUME NEW k \in 1 .. m PROVE CausalRowFits(c.rows[k], M, o, M, 1)
      <2> DEFINE row == kept[k]  new == c.rows[k]
      <2>1. CausalRowFits(row, M0, o0, w, 1)
          BY <1>4
      <2>2. List(new.attention_mask, M + o)
          <3> DEFINE W == w + o0  lo == -o0 - M  hi == W - o0 + o  l == w - M  e == M + o
          <3>1. W \in Nat /\ List(row.attention_mask, W) /\ lo \in Int /\ hi \in Int
                /\ l = At(W, lo) /\ e = At(W, hi) - l /\ 0 <= l /\ 0 <= e /\ At(W, hi) <= W
              BY <1>1, <1>10, <2>1 DEF CausalRowFits, At
          <3> HIDE DEF W, lo, hi, l, e
          <3>2. List(Slice(row.attention_mask, lo, hi), e)
              BY <3>1, SliceAt
          <3>3. Len(row.attention_mask) = W
              BY <3>1, Lists
          <3>. QED  BY <1>6, <3>2, <3>3 DEF lo, hi, e
      <2>3. List(new.all_input_ids, M + o)
          <3> DEFINE W == M0 + o0  lo == -o0 - M  hi == W - o0 + o  l == M0 - M  e == M + o
          <3>1. W \in Nat /\ List(row.all_input_ids, W) /\ lo \in Int /\ hi \in Int
                /\ l = At(W, lo) /\ e = At(W, hi) - l /\ 0 <= l /\ 0 <= e /\ At(W, hi) <= W
              BY <1>1, <1>10, <2>1 DEF CausalRowFits, At
          <3> HIDE DEF W, lo, hi, l, e
          <3>2. List(Slice(row.all_input_ids, lo, hi), e)
              BY <3>1, SliceAt
          <3>3. Len(row.all_input_ids) = W
              BY <3>1, Lists
          <3>. QED  BY <1>6, <3>2, <3>3 DEF lo, hi, e
      <2>4. List(new.past, M - 1)
          <3> DEFINE W == w - 1
          <3>1. W \in Nat /\ List(row.past, W) /\ h \in 1 .. W
              BY <1>1, <1>10, <2>1 DEF CausalRowFits
          <3> HIDE DEF W, h
          <3>2. List(Slice(row.past, -h, Len(row.past)), h)
              BY <3>1, SliceLast
          <3>. QED  BY <1>6, <3>2 DEF h
      <2>5. /\ DOMAIN new = DOMAIN row /\ new.request = row.request /\ new.input_length = row.input_length
            /\ new.max_remaining_tokens = row.max_remaining_tokens /\ new.input_ids = row.input_ids
          BY <1>6
      <2> HIDE DEF row, new
      <2>6. CausalRowFits(new, M, o, M, 1)
          BY <2>1, <2>2, <2>3, <2>4, <2>5 DEF CausalRowFits
      <2>. QED  BY <2>6 DEF new
  <1>12. DOMAIN c.rows = 1 .. m /\ List(c.rows, m)
      BY <1>3, <1>5 DEF List
  <1>13. Largest(M, c.rows, "input_length") /\ Largest(o, c.rows, "max_remaining_tokens")
      <2>1. \A k \in 1 .. m : /\ c.rows[k].input_length = kept[k].input_length
                              /\ c.rows[k].max_remaining_tokens = kept[k].max_remaining_tokens
          BY <1>6
      <2>. QED  BY <1>3, <1>7, <1>8, <1>12, <2>1 DEF Largest
  <1>14. CausalFits(c, m, M, 1)
      BY <1>5, <1>10, <1>11, <1>12, <1>13 DEF CausalFits
  <1>15. Started(c)
      <2>1. \A k \in 1 .. m : c.rows[k].max_remaining_tokens < c.rows[k].request.output
          BY <1>4, <1>6
      <2>. QED  BY <1>12, <2>1 DEF Started
  <1>. QED  BY <1>5, <1>14, <1>15 DEF c

\* Inputs are padded to a multiple of PadMultiple.
LEMMA TokenizeLengthIs ==
  ASSUME NEW n \in Nat
  PROVE  TokenizeLength(n) \in Nat /\ n <= TokenizeLength(n)
  <1> DEFINE p == PadMultiple  x == n + p - 1  d == x \div p  e == x % p
  <1>1. p \in Nat /\ p > 0
      BY ShapesAssumption
  <1>2. x \in Nat
      BY <1>1
  <1> HIDE DEF x, p
  <1>3. d \in Nat /\ e \in 0 .. p - 1 /\ x = p * d + e
      BY <1>1, <1>2
  <1>4. TokenizeLength(n) = d * p
      BY DEF TokenizeLength, x, p
  <1> HIDE DEF d, e
  <1>5. d * p \in Nat /\ d * p = p * d
      BY <1>1, <1>3
  <1>6. x = n + p - 1
      BY DEF x
  <1>. QED  BY <1>1, <1>3, <1>4, <1>5, <1>6

\* The tokenizer's output for one request, and its mask.
Text0(r, T) == LET n == Min({r.text, T}) IN Fill(T - n, Pad) \o Cells(r.id, r.text - n + 1, r.text)
Mask0(r, T) == LET n == Min({r.text, T}) IN Fill(T - n, <<0, 0>>) \o Fill(n, <<1, 1>>)

LEMMA PaddedIs ==
  ASSUME NEW r, KnownRequest(r), NEW T \in Nat, r.input <= T
  PROVE  \E n \in r.input .. T :
            /\ n <= r.text /\ (r.text <= T => n = r.text)
            /\ List(Text0(r, T), T) /\ List(Mask0(r, T), T)
            /\ \A i \in 1 .. T : Text0(r, T)[i] = IF i <= T - n THEN Pad ELSE <<r.id, r.text - T + i>>
            /\ \A i \in 1 .. T : Mask0(r, T)[i] = IF i <= T - n THEN <<0, 0>> ELSE <<1, 1>>
  <1> DEFINE n == Min({r.text, T})  s == Fill(T - n, Pad)  t == Cells(r.id, r.text - n + 1, r.text)
             u == Fill(T - n, <<0, 0>>)  v == Fill(n, <<1, 1>>)  m == T - n
  <1>1. r.text \in Nat /\ r.input \in 1 .. r.text
      BY DEF KnownRequest
  <1>2. n = IF r.text <= T THEN r.text ELSE T
      BY <1>1 DEF Min
  <1>3. n \in r.input .. T /\ n <= r.text /\ n \in Nat /\ m \in Nat /\ m + n = T /\ (r.text <= T => n = r.text)
      BY <1>1, <1>2
  <1>4. Text0(r, T) = s \o t /\ Mask0(r, T) = u \o v
      BY DEF Text0, Mask0
  <1> HIDE DEF n
  <1>5. List(s, m) /\ List(u, m) /\ List(v, n) /\ (\A i \in 1 .. m : s[i] = Pad /\ u[i] = <<0, 0>>)
        /\ \A i \in 1 .. n : v[i] = <<1, 1>>
      BY <1>3, FillIs
  <1>6. List(t, n) /\ \A i \in 1 .. n : t[i] = <<r.id, r.text - n + i>>
      <2> DEFINE lo == r.text - n + 1
      <2>1. lo \in Int /\ r.text \in Int /\ lo <= r.text + 1 /\ r.text - lo + 1 = n
            /\ \A i \in 1 .. n : lo + i - 1 = r.text - n + i
          BY <1>1, <1>3
      <2> HIDE DEF lo
      <2>2. /\ List(Cells(r.id, lo, r.text), r.text - lo + 1)
            /\ \A i \in 1 .. r.text - lo + 1 : Cells(r.id, lo, r.text)[i] = <<r.id, lo + i - 1>>
          BY <2>1, CellsIs
      <2>3. t = Cells(r.id, lo, r.text)
          BY DEF lo
      <2>. QED  BY <2>1, <2>2, <2>3
  <1> HIDE DEF s, t, u, v, m
  <1>7. /\ s \o t = Joined(s, m, t, n) /\ List(s \o t, m + n)
        /\ u \o v = Joined(u, m, v, n) /\ List(u \o v, m + n)
      <2>1. m \in Nat /\ n \in Nat /\ List(s, m) /\ List(t, n) /\ List(u, m) /\ List(v, n)
          BY <1>3, <1>5, <1>6
      <2>2. s \o t = Joined(s, m, t, n) /\ List(s \o t, m + n)
          BY <2>1, JoinedIs
      <2>3. u \o v = Joined(u, m, v, n) /\ List(u \o v, m + n)
          BY <2>1, JoinedIs
      <2>. QED  BY <2>2, <2>3
  <1>8. m = T - n
      BY DEF m
  <1>9. ASSUME NEW i \in 1 .. T
        PROVE  /\ Joined(s, m, t, n)[i] = IF i <= T - n THEN Pad ELSE <<r.id, r.text - T + i>>
               /\ Joined(u, m, v, n)[i] = IF i <= T - n THEN <<0, 0>> ELSE <<1, 1>>
      <2>1. CASE i <= m
          BY <1>3, <1>5, <1>8, <2>1 DEF Joined
      <2>2. CASE ~(i <= m)
          <3>1. i - m \in 1 .. n /\ r.text - n + (i - m) = r.text - T + i /\ ~(i <= T - n)
              BY <1>1, <1>3, <1>8, <2>2
          <3>. QED  BY <1>3, <1>5, <1>6, <2>2, <3>1 DEF Joined
      <2>. QED  BY <2>1, <2>2
  <1>10. /\ n \in r.input .. T /\ n <= r.text /\ (r.text <= T => n = r.text)
         /\ List(Text0(r, T), T) /\ List(Mask0(r, T), T)
      BY <1>3, <1>4, <1>7
  <1>11. /\ \A i \in 1 .. T : Text0(r, T)[i] = IF i <= T - n THEN Pad ELSE <<r.id, r.text - T + i>>
         /\ \A i \in 1 .. T : Mask0(r, T)[i] = IF i <= T - n THEN <<0, 0>> ELSE <<1, 1>>
      BY <1>4, <1>7, <1>9
  <1>. QED  BY <1>10, <1>11

\* The virtual tokens of a request.
LEMMA PrefixCellsAre ==
  ASSUME NEW r, r.prefix \in Nat
  PROVE  /\ List(PrefixCells(r), r.prefix)
         /\ \A k \in 1 .. r.prefix : PrefixCells(r)[k] = <<r.id, k - r.prefix - 1>>
  <1> DEFINE lo == -r.prefix  hi == -1
  <1>1. lo \in Int /\ hi \in Int /\ lo <= hi + 1 /\ hi - lo + 1 = r.prefix
        /\ \A k \in 1 .. r.prefix : lo + k - 1 = k - r.prefix - 1
      OBVIOUS
  <1> HIDE DEF lo, hi
  <1>2. /\ List(Cells(r.id, lo, hi), hi - lo + 1)
        /\ \A k \in 1 .. hi - lo + 1 : Cells(r.id, lo, hi)[k] = <<r.id, lo + k - 1>>
      BY <1>1, CellsIs
  <1>3. PrefixCells(r) = Cells(r.id, lo, hi)
      BY DEF PrefixCells, lo, hi
  <1>. QED  BY <1>1, <1>2, <1>3

\* The tensors of row k of a new batch, for the positions that are truncated or have a
\* prefix.
CausalText(r, T, truncated) ==
    IF truncated THEN Put(Text0(r, T), 0, -r.input, Fill(T - r.input, Pad)) ELSE Text0(r, T)
CausalEmbeds(r, T, truncated, prefixed, p) ==
    IF prefixed THEN Put(CausalText(r, T, truncated), -(r.input + r.prefix), Len(p) - (r.input + r.prefix), p)
    ELSE CausalText(r, T, truncated)
CausalMask1(r, T, offset, truncated) ==
    IF truncated THEN Put(Mask0(r, T) \o Fill(offset, <<0, 0>>), 0, -r.input - offset, Fill(T - r.input, <<0, 0>>))
    ELSE Mask0(r, T) \o Fill(offset, <<0, 0>>)
CausalMask(r, T, offset, truncated, prefixed) ==
    IF prefixed THEN Put(CausalMask1(r, T, offset, truncated), -(r.input + r.prefix) - offset, -offset,
                         Fill(r.input + r.prefix, <<1, 1>>))
    ELSE CausalMask1(r, T, offset, truncated)

\* The rows that from_pb builds.
CausalBuilt(b, pb, failed, m, T, truncate, prefixes) ==
    LET M == b.max_sequence_length  o == b.padding_right_offset  requests == Accepted(pb, failed) IN
    /\ T = TokenizeLength(M) /\ List(b.rows, m)
    /\ Largest(M, b.rows, "input_length") /\ Largest(o, b.rows, "max_remaining_tokens")
    /\ truncate = {k \in DOMAIN pb : pb[k] \notin failed /\ Truncated(pb[k])}
    /\ prefixes = {k \in DOMAIN pb : pb[k] \notin failed /\ pb[k].prefix > 0}
    /\ \A k \in 1 .. m :
         LET row == b.rows[k]  r == requests[k] IN
         /\ DOMAIN row = CausalFields /\ row.request = r /\ row.input_length = r.input + r.prefix
         /\ row.max_remaining_tokens = r.output /\ row.past = <<>>
         /\ row.input_ids = CausalEmbeds(r, T, k \in truncate, k \in prefixes, PrefixCells(pb[k]))
         /\ row.attention_mask = CausalMask(r, T, o, k \in truncate, k \in prefixes)
         /\ row.all_input_ids = Slice(CausalText(r, T, k \in truncate), T - M, T) \o Fill(o, Pad)

\* What from_pb computes.
LEMMA CausalBuildIs ==
  ASSUME NEW pb, NEW failed, NEW m \in Nat \ {0}, List(Accepted(pb, failed), m),
         \A k \in 1 .. m : KnownRequest(Accepted(pb, failed)[k])
  PROVE  LET b == Causal!from_pb(pb, failed).batch IN
         \E T, truncate, prefixes : CausalBuilt(b, pb, failed, m, T, truncate, prefixes)
  <1> DEFINE b == Causal!from_pb(pb, failed).batch  requests == Accepted(pb, failed)
             length == [k \in DOMAIN requests |-> requests[k].input + requests[k].prefix]
             M == Max({requests[k].input + requests[k].prefix : k \in DOMAIN requests})
             o == Max({requests[k].output : k \in DOMAIN requests})
             T == TokenizeLength(M)
             truncate == {k \in DOMAIN pb : pb[k] \notin failed /\ Truncated(pb[k])}
             prefixes == {k \in DOMAIN pb : pb[k] \notin failed /\ pb[k].prefix > 0}
  <1>1. Causal!Accepted(pb, failed) = requests
      BY CausalNames
  <1>2. DOMAIN requests = 1 .. m /\ \A k \in 1 .. m : KnownRequest(requests[k])
      <2>1. List(requests, m) /\ \A k \in 1 .. m : KnownRequest(requests[k])
          OBVIOUS
      <2> HIDE DEF requests
      <2>. QED  BY <2>1 DEF List
  <1>3. b.max_sequence_length = M /\ b.padding_right_offset = o /\ List(b.rows, m) /\ DOMAIN b.rows = 1 .. m
      <2> HIDE DEF requests
      <2>1. b.max_sequence_length = M /\ b.padding_right_offset = o
          BY <1>1, CausalSlices DEF Causal!from_pb, Causal!MaxOf
      <2>2. DOMAIN b.rows = 1 .. m
          BY <1>1, <1>2 DEF Causal!from_pb
      <2>3. b.rows = [k \in 1 .. m |-> b.rows[k]]
          BY <1>1, <1>2, ZenonT(60) DEF Causal!from_pb
      <2> HIDE DEF b, M, o
      <2>. QED  BY <2>1, <2>2, <2>3, SMTT(30) DEF List
  <1>4. ASSUME NEW k \in 1 .. m
        PROVE  LET row == b.rows[k]  r == requests[k] IN
               /\ DOMAIN row = CausalFields /\ row.request = r /\ row.input_length = r.input + r.prefix
               /\ row.max_remaining_tokens = r.output /\ row.past = <<>>
               /\ row.input_ids = CausalEmbeds(r, T, k \in truncate, k \in prefixes, PrefixCells(pb[k]))
               /\ row.attention_mask = CausalMask(r, T, o, k \in truncate, k \in prefixes)
               /\ row.all_input_ids = Slice(CausalText(r, T, k \in truncate), T - M, T) \o Fill(o, Pad)
      <2> HIDE DEF requests
      <2> DEFINE row == b.rows[k]  r == requests[k]
      <2>1. DOMAIN row = CausalFields /\ row.request = r /\ row.max_remaining_tokens = r.output /\ row.past = <<>>
            /\ row.input_length = r.input + r.prefix
          BY <1>1, <1>2 DEF Causal!from_pb, CausalFields
      <2>2. row.input_ids = CausalEmbeds(r, T, k \in truncate, k \in prefixes, PrefixCells(pb[k]))
          BY <1>1, <1>2, CausalSlices, ZenonT(60)
          DEF Causal!from_pb, Causal!MaxOf, CausalEmbeds, CausalText, Text0, Causal!Truncated, Truncated, Causal!Pad, Pad
      <2>3. row.attention_mask = CausalMask(r, T, o, k \in truncate, k \in prefixes)
          BY <1>1, <1>2, CausalSlices, ZenonT(60)
          DEF Causal!from_pb, Causal!MaxOf, CausalMask, CausalMask1, Mask0, Causal!Truncated, Truncated
      <2>4. row.all_input_ids = Slice(CausalText(r, T, k \in truncate), T - M, T) \o Fill(o, Pad)
          BY <1>1, <1>2, CausalSlices, ZenonT(60)
          DEF Causal!from_pb, Causal!MaxOf, CausalText, Text0, Causal!Truncated, Truncated, Causal!Pad, Pad
      <2> HIDE DEF row, T, M, o, truncate, prefixes
      <2>. QED  BY <2>1, <2>2, <2>3, <2>4 DEF row
  <1>5. \A k \in 1 .. m : /\ b.rows[k].input_length \in Nat /\ b.rows[k].max_remaining_tokens \in Nat
                          /\ b.rows[k].input_length = requests[k].input + requests[k].prefix
                          /\ b.rows[k].max_remaining_tokens = requests[k].output
      <2> HIDE DEF b, requests
      <2> SUFFICES ASSUME NEW k \in 1 .. m
                   PROVE  /\ b.rows[k].input_length \in Nat /\ b.rows[k].max_remaining_tokens \in Nat
                          /\ b.rows[k].input_length = requests[k].input + requests[k].prefix
                          /\ b.rows[k].max_remaining_tokens = requests[k].output
          OBVIOUS
      <2> DEFINE r == requests[k]
      <2>1. r.input \in Nat /\ r.prefix \in Nat /\ r.output \in Nat
          <3>1. KnownRequest(r)
              BY <1>2
          <3> HIDE DEF r
          <3>. QED  BY <3>1 DEF KnownRequest
      <2>2. b.rows[k].input_length = r.input + r.prefix /\ b.rows[k].max_remaining_tokens = r.output
          BY <1>4
      <2> HIDE DEF r
      <2>3. r.input + r.prefix \in Nat
          BY <2>1
      <2>. QED  BY <2>1, <2>2, <2>3 DEF r
  <1> HIDE DEF b
  <1>6. M = Max({b.rows[k].input_length : k \in DOMAIN b.rows})
      <2>1. {b.rows[k].input_length : k \in DOMAIN b.rows} = {requests[k].input + requests[k].prefix : k \in DOMAIN requests}
          BY <1>2, <1>3, <1>5
      <2>. QED  BY <2>1
  <1>7. o = Max({b.rows[k].max_remaining_tokens : k \in DOMAIN b.rows})
      <2>1. {b.rows[k].max_remaining_tokens : k \in DOMAIN b.rows} = {requests[k].output : k \in DOMAIN requests}
          BY <1>2, <1>3, <1>5
      <2>. QED  BY <2>1
  <1> HIDE DEF M, o
  <1>8. Largest(M, b.rows, "input_length")
      <2>1. DOMAIN b.rows = 1 .. m /\ \A k \in 1 .. m : b.rows[k].input_length \in Nat
          BY <1>3, <1>5
      <2>. QED  BY <1>6, <2>1, LongestInput
  <1>9. Largest(o, b.rows, "max_remaining_tokens")
      <2>1. DOMAIN b.rows = 1 .. m /\ \A k \in 1 .. m : b.rows[k].max_remaining_tokens \in Nat
          BY <1>3, <1>5
      <2>. QED  BY <1>7, <2>1, MostRemaining
  <1>10. CausalBuilt(b, pb, failed, m, T, truncate, prefixes)
      BY <1>3, <1>4, <1>8, <1>9 DEF CausalBuilt
  <1>. QED  BY <1>10 DEF b

\* The lengths of the tensors that from_pb fills.
LEMMA CausalRowLengths ==
  ASSUME NEW r, KnownRequest(r), NEW T \in Nat, r.input + r.prefix <= T, NEW o \in Nat, NEW M \in 0 .. T,
         NEW t \in BOOLEAN, NEW x \in BOOLEAN, NEW e \in Nat, NEW p, List(p, e)
  PROVE  /\ List(CausalText(r, T, t), T) /\ List(CausalEmbeds(r, T, t, x, p), T)
         /\ List(CausalMask(r, T, o, t, x), T + o)
         /\ List(Slice(CausalText(r, T, t), T - M, T) \o Fill(o, Pad), M + o)
  <1>1. r.input \in Nat /\ r.prefix \in Nat /\ r.input <= T
      <2>1. r.input \in Nat /\ r.prefix \in Nat
          BY DEF KnownRequest
      <2>. QED  BY <2>1
  <1>2. List(Text0(r, T), T) /\ List(Mask0(r, T), T)
      BY <1>1, PaddedIs
  <1> DEFINE i == r.input  f == r.prefix  d == T - r.input  text == CausalText(r, T, t)
             W == T + o  mask0 == Mask0(r, T) \o Fill(o, <<0, 0>>)  mask1 == CausalMask1(r, T, o, t)
  <1>3. d \in Nat /\ -i \in Int /\ -i - o \in Int /\ -(i + f) \in Int /\ e - (i + f) \in Int /\ -(i + f) - o \in Int
        /\ -o \in Int /\ i + f \in Nat /\ W \in Nat /\ 0 \in Int
      BY <1>1
  <1>4. /\ List(Fill(d, Pad), d) /\ List(Fill(d, <<0, 0>>), d) /\ List(Fill(o, <<0, 0>>), o)
        /\ List(Fill(i + f, <<1, 1>>), i + f) /\ List(Fill(o, Pad), o)
      <2> HIDE DEF d, i, f
      <2>. QED  BY <1>3, FillIs
  <1>5. List(text, T)
      <2>1. text = IF t THEN Put(Text0(r, T), 0, -i, Fill(d, Pad)) ELSE Text0(r, T)
          BY DEF CausalText
      <2> HIDE DEF text, d, i
      <2>2. List(Put(Text0(r, T), 0, -i, Fill(d, Pad)), T)
          BY <1>2, <1>3, <1>4, PutLength
      <2>. QED  BY <1>2, <2>1, <2>2
  <1>6. List(CausalEmbeds(r, T, t, x, p), T)
      <2>1. Len(p) = e
          BY Lists
      <2>2. CausalEmbeds(r, T, t, x, p) = IF x THEN Put(text, -(i + f), e - (i + f), p) ELSE text
          BY <2>1 DEF CausalEmbeds
      <2> HIDE DEF text, i, f
      <2>3. List(Put(text, -(i + f), e - (i + f), p), T)
          BY <1>3, <1>5, PutLength
      <2>. QED  BY <1>5, <2>2, <2>3
  <1>7. List(mask0, W)
      <2>. HIDE DEF d
      <2>. QED  BY <1>2, <1>4, JoinedIs
  <1>8. List(mask1, W)
      <2>1. mask1 = IF t THEN Put(mask0, 0, -i - o, Fill(d, <<0, 0>>)) ELSE mask0
          BY DEF CausalMask1
      <2> HIDE DEF mask1, mask0, d, i, W
      <2>2. List(Put(mask0, 0, -i - o, Fill(d, <<0, 0>>)), W)
          BY <1>3, <1>4, <1>7, PutLength
      <2>. QED  BY <1>7, <2>1, <2>2
  <1>9. List(CausalMask(r, T, o, t, x), W)
      <2>1. CausalMask(r, T, o, t, x) = IF x THEN Put(mask1, -(i + f) - o, -o, Fill(i + f, <<1, 1>>)) ELSE mask1
          BY DEF CausalMask
      <2> DEFINE q == i + f  lo == -(i + f) - o
      <2>2. q \in Nat /\ lo \in Int /\ List(Fill(q, <<1, 1>>), q)
          BY <1>3, <1>4
      <2> HIDE DEF mask1, q, lo, W
      <2>3. List(Put(mask1, lo, -o, Fill(q, <<1, 1>>)), W)
          BY <1>3, <1>8, <2>2, PutLength
      <2>. QED  BY <1>8, <2>1, <2>3 DEF q, lo
  <1>10. List(Slice(text, T - M, T) \o Fill(o, Pad), M + o)
      <2> DEFINE lo == T - M  u == Slice(text, lo, T)
      <2>1. lo \in Int /\ T \in Int /\ lo = At(T, lo) /\ M = At(T, T) - lo /\ 0 <= lo /\ 0 <= M /\ At(T, T) <= T
          BY DEF At
      <2> HIDE DEF lo, text
      <2>2. List(u, M) /\ M \in Nat
          BY <1>5, <2>1, SliceAt
      <2>3. List(Fill(o, Pad), o)
          BY <1>4
      <2> HIDE DEF u
      <2>4. List(u \o Fill(o, Pad), M + o)
          BY <2>2, <2>3, JoinedIs
      <2>. QED  BY <2>4 DEF u, lo
  <1>. QED  BY <1>5, <1>6, <1>9, <1>10

\* A new batch.
LEMMA CausalBuildFits ==
  ASSUME NEW pb, NEW failed, NEW m \in Nat \ {0}, List(Accepted(pb, failed), m),
         \A k \in 1 .. m : KnownRequest(Accepted(pb, failed)[k]), \A k \in DOMAIN pb : KnownRequest(pb[k])
  PROVE  \E T : CausalFits(Causal!from_pb(pb, failed).batch, m, T, T)
  <1> DEFINE b == Causal!from_pb(pb, failed).batch  requests == Accepted(pb, failed)
             M == b.max_sequence_length  o == b.padding_right_offset
  <1>1. PICK T, truncate, prefixes : CausalBuilt(b, pb, failed, m, T, truncate, prefixes)
      BY CausalBuildIs
  <1> HIDE DEF b, requests
  <1>2. /\ T = TokenizeLength(M) /\ List(b.rows, m) /\ DOMAIN b.rows = 1 .. m
        /\ Largest(M, b.rows, "input_length") /\ Largest(o, b.rows, "max_remaining_tokens")
        /\ M \in Nat /\ o \in Nat /\ prefixes \subseteq DOMAIN pb
      BY <1>1 DEF CausalBuilt, Largest, List
  <1>3. T \in Nat /\ M <= T
      BY <1>2, TokenizeLengthIs
  <1>4. ASSUME NEW k \in 1 .. m
        PROVE  LET row == b.rows[k]  r == requests[k] IN
               /\ DOMAIN row = CausalFields /\ row.request = r /\ row.input_length = r.input + r.prefix
               /\ row.max_remaining_tokens = r.output /\ row.past = <<>>
               /\ row.input_ids = CausalEmbeds(r, T, k \in truncate, k \in prefixes, PrefixCells(pb[k]))
               /\ row.attention_mask = CausalMask(r, T, o, k \in truncate, k \in prefixes)
               /\ row.all_input_ids = Slice(CausalText(r, T, k \in truncate), T - M, T) \o Fill(o, Pad)
      BY <1>1 DEF CausalBuilt, requests
  <1> HIDE DEF M, o
  <1>5. ASSUME NEW k \in 1 .. m PROVE CausalRowFits(b.rows[k], M, o, T, T) /\ b.rows[k].input_length >= 1
      <2> DEFINE row == b.rows[k]  r == requests[k]  p == IF k \in prefixes THEN PrefixCells(pb[k]) ELSE <<>>
                 e == IF k \in prefixes THEN pb[k].prefix ELSE 0
      <2>1. KnownRequest(r) /\ row.input_length <= M
          BY <1>2 DEF requests, Largest
      <2>2. r.input \in Nat /\ r.input >= 1 /\ r.prefix \in Nat /\ r.output \in Nat
          BY <2>1 DEF KnownRequest
      <2>3. /\ DOMAIN row = CausalFields /\ row.request = r /\ row.input_length = r.input + r.prefix
            /\ row.max_remaining_tokens = r.output /\ row.past = <<>>
            /\ row.input_ids = CausalEmbeds(r, T, k \in truncate, k \in prefixes, PrefixCells(pb[k]))
            /\ row.attention_mask = CausalMask(r, T, o, k \in truncate, k \in prefixes)
            /\ row.all_input_ids = Slice(CausalText(r, T, k \in truncate), T - M, T) \o Fill(o, Pad)
          BY <1>4
      <2>4. e \in Nat /\ List(p, e)
          <3>1. CASE k \in prefixes
              <4>1. pb[k].prefix \in Nat
                  BY <1>2, <3>1 DEF KnownRequest
              <4>. QED  BY <3>1, <4>1, PrefixCellsAre
          <3>2. CASE k \notin prefixes
              BY <3>2 DEF List
          <3>. QED  BY <3>1, <3>2
      <2>5. CausalEmbeds(r, T, k \in truncate, k \in prefixes, PrefixCells(pb[k]))
                = CausalEmbeds(r, T, k \in truncate, k \in prefixes, p)
          BY DEF CausalEmbeds
      <2> HIDE DEF row, r, p, e
      <2>6. r.input + r.prefix <= T /\ M \in 0 .. T /\ row.input_length >= 1
          BY <1>2, <1>3, <2>1, <2>2, <2>3
      <2> DEFINE t == k \in truncate  x == k \in prefixes
      <2>7. t \in BOOLEAN /\ x \in BOOLEAN
          OBVIOUS
      <2>8. row.input_ids = CausalEmbeds(r, T, t, x, p) /\ row.attention_mask = CausalMask(r, T, o, t, x)
            /\ row.all_input_ids = Slice(CausalText(r, T, t), T - M, T) \o Fill(o, Pad)
          BY <2>3, <2>5
      <2> HIDE DEF t, x
      <2>9. List(row.input_ids, T) /\ List(row.attention_mask, T + o) /\ List(row.all_input_ids, M + o)
          <3>1. T \in Nat /\ o \in Nat /\ KnownRequest(r)
              BY <1>2, <1>3, <2>1
          <3>2. /\ List(CausalEmbeds(r, T, t, x, p), T) /\ List(CausalMask(r, T, o, t, x), T + o)
                /\ List(Slice(CausalText(r, T, t), T - M, T) \o Fill(o, Pad), M + o)
              BY <2>4, <2>6, <2>7, <3>1, CausalRowLengths
          <3>. QED  BY <2>8, <3>2
      <2>10. List(row.past, T - T)
          BY <1>3, <2>3 DEF List
      <2>11. row.max_remaining_tokens \in 0 .. r.output
             /\ row.input_length = r.input + r.prefix + r.output - row.max_remaining_tokens
          BY <2>2, <2>3
      <2>12. CausalRowFits(row, M, o, T, T)
          BY <2>1, <2>3, <2>9, <2>10, <2>11 DEF CausalRowFits
      <2>. QED  BY <2>6, <2>12 DEF row
  <1>6. T \in 1 .. T
      <2>1. b.rows[1].input_length \in Nat /\ b.rows[1].input_length <= M /\ b.rows[1].input_length >= 1
          BY <1>2, <1>5 DEF Largest
      <2>. QED  BY <1>2, <1>3, <2>1
  <1>7. CausalFits(b, m, T, T)
      BY <1>2, <1>3, <1>5, <1>6 DEF CausalFits, M, o
  <1>. QED  BY <1>7 DEF b

-----------------------------------------------------------------------------
(* The lengths of a paged batch.                                            *)

PagedFields == {"request", "input_length", "total_length", "sequence_id", "input_id", "all_input_ids"}

PagedRowFits(row, L) ==
    /\ PagedFields \subseteq DOMAIN row /\ KnownRequest(row.request)
    /\ row.input_length \in Nat /\ row.total_length \in Nat /\ row.input_length <= row.total_length
    /\ List(row.all_input_ids, L)

PagedFits(b, n) ==
    /\ n \in Nat \ {0} /\ List(b.rows, n) /\ Largest(b.max_seqlen, b.rows, "input_length")
    /\ \E L : /\ Largest(L, b.rows, "total_length")
              /\ \A k \in 1 .. n : PagedRowFits(b.rows[k], L)

\* The tokens chosen for the rows.
LEMMA PagedUpdateFits ==
  ASSUME NEW b, NEW n, PagedFits(b, n), NEW next_tokens, NEW ids,
         \A k \in 1 .. n : /\ b.rows[k].input_length < b.rows[k].total_length
                           /\ \E q \in Nat \ {0} : List(next_tokens[k], q)
  PROVE  PagedFits(Paged!Updated(b, next_tokens, ids), n)
  <1> DEFINE c == Paged!Updated(b, next_tokens, ids)
             M == Max({c.rows[k].input_length : k \in DOMAIN c.rows})
             more(k) == Min({Len(next_tokens[k]), b.rows[k].total_length - b.rows[k].input_length})
  <1>1. PICK L : /\ Largest(L, b.rows, "total_length") /\ L \in Nat
                 /\ \A k \in 1 .. n : PagedRowFits(b.rows[k], L)
      BY DEF PagedFits, Largest
  <1>2. n \in Nat \ {0} /\ List(b.rows, n) /\ DOMAIN b.rows = 1 .. n
      BY DEF PagedFits, List
  <1>3. DOMAIN c.rows = 1 .. n /\ List(c.rows, n) /\ c.max_seqlen = M
      BY <1>2, PagedSlices DEF Paged!Updated, Paged!MaxOf, List
  <1>4. ASSUME NEW k \in 1 .. n
        PROVE  LET row == b.rows[k]  new == c.rows[k] IN
               /\ DOMAIN new = DOMAIN row /\ new.request = row.request
               /\ new.total_length = row.total_length /\ new.input_length = row.input_length + more(k)
               /\ new.all_input_ids = Put(row.all_input_ids, row.input_length, row.input_length + more(k),
                                          SubSeq(next_tokens[k], 1, more(k)))
      <2>1. PagedFields \subseteq DOMAIN b.rows[k]
          BY <1>1 DEF PagedRowFits
      <2>. QED  BY <1>2, <2>1, PagedSlices DEF Paged!Updated, Paged!ProcessTokens, PagedFields
  <1>5. ASSUME NEW k \in 1 .. n
        PROVE  /\ more(k) \in Nat \ {0} /\ more(k) <= b.rows[k].total_length - b.rows[k].input_length
               /\ List(SubSeq(next_tokens[k], 1, more(k)), more(k))
      <2>1. PICK x \in Nat \ {0} : List(next_tokens[k], x)
          OBVIOUS
      <2> DEFINE y == b.rows[k].total_length - b.rows[k].input_length  e == more(k)
      <2>2. Len(next_tokens[k]) = x
          BY <2>1, Lists
      <2>3. y \in Nat \ {0}
          <3>1. PagedRowFits(b.rows[k], L) /\ b.rows[k].input_length < b.rows[k].total_length
              BY <1>1
          <3>. QED  BY <3>1 DEF PagedRowFits
      <2>4. e = Min({x, y})
          BY <2>2
      <2> HIDE DEF y, e, more
      <2>5. Min({x, y}) = IF x <= y THEN x ELSE y
          BY <2>3 DEF Min
      <2>6. e \in Nat \ {0} /\ e <= y /\ e <= x
          BY <2>3, <2>4, <2>5
      <2>7. List(SubSeq(next_tokens[k], 1, e), e - 1 + 1)
          BY <2>1, <2>6, SubSeqIs
      <2>8. e - 1 + 1 = e
          BY <2>6
      <2>. QED  BY <2>6, <2>7, <2>8 DEF y, e
  <1> HIDE DEF c, more
  <1>6. ASSUME NEW k \in 1 .. n PROVE PagedRowFits(c.rows[k], L) /\ c.rows[k].input_length \in Nat
      <2> DEFINE row == b.rows[k]  new == c.rows[k]  e == more(k)  v == SubSeq(next_tokens[k], 1, e)
      <2>1. PagedRowFits(row, L)
          BY <1>1
      <2>2. /\ DOMAIN new = DOMAIN row /\ new.request = row.request /\ new.total_length = row.total_length
            /\ new.input_length = row.input_length + e
            /\ new.all_input_ids = Put(row.all_input_ids, row.input_length, row.input_length + e, v)
          BY <1>4
      <2>3. e \in Nat /\ e <= row.total_length - row.input_length /\ List(v, e)
          BY <1>5
      <2> HIDE DEF row, new, e, v
      <2>4. row.input_length \in Int /\ row.input_length + e \in Int /\ List(row.all_input_ids, L)
          BY <2>1, <2>3 DEF PagedRowFits
      <2>5. List(new.all_input_ids, L)
          <3> DEFINE lo == row.input_length  hi == row.input_length + e  s == row.all_input_ids
          <3>1. L \in Nat /\ List(s, L) /\ lo \in Int /\ hi \in Int /\ e \in Nat /\ List(v, e)
              BY <1>1, <2>3, <2>4
          <3>2. new.all_input_ids = Put(s, lo, hi, v)
              BY <2>2
          <3> HIDE DEF lo, hi, s
          <3>. QED  BY <3>1, <3>2, PutLength
      <2>6. new.input_length \in Nat /\ new.input_length <= new.total_length
          BY <2>1, <2>2, <2>3 DEF PagedRowFits
      <2>7. PagedRowFits(new, L)
          BY <2>1, <2>2, <2>5, <2>6 DEF PagedRowFits
      <2>. QED  BY <2>6, <2>7 DEF new
  <1>7. Largest(M, c.rows, "input_length")
      BY <1>2, <1>3, <1>6, LargestIs
  <1>8. Largest(L, c.rows, "total_length")
      <2>1. \A k \in 1 .. n : c.rows[k].total_length = b.rows[k].total_length
          BY <1>4
      <2>. QED  BY <1>1, <1>2, <1>3, <2>1 DEF Largest
  <1> HIDE DEF M
  <1>. QED  BY <1>2, <1>3, <1>6, <1>7, <1>8 DEF PagedFits, c

\* All outcomes of a step.
LEMMA PagedStepFits ==
  ASSUME NEW b, NEW n, PagedFits(b, n), NEW first \in BOOLEAN, NEW cache0,
         \A k \in 1 .. n : b.rows[k].input_length < b.rows[k].total_length,
         NEW result \in Paged!generate_token(b, cache0, first)
  PROVE  PagedFits(result.batch, n)
  <1>1. n \in Nat \ {0} /\ DOMAIN b.rows = 1 .. n
      BY DEF PagedFits, List
  <1>2. ASSUME NEW next_tokens, NEW ids, result.batch = Paged!Updated(b, next_tokens, ids),
               \A k \in 1 .. n : \E q \in Nat \ {0} : List(next_tokens[k], q)
        PROVE  PagedFits(result.batch, n)
      BY <1>2, PagedUpdateFits
  <1>3. \A k \in 1 .. n : \E q \in Nat \ {0} : List(Paged!OneToken(b)[k], q)
      <2> SUFFICES ASSUME NEW k \in 1 .. n PROVE List(Paged!OneToken(b)[k], 1)
          OBVIOUS
      <2> DEFINE x == Paged!NextCell(b.rows[k], 1)
      <2>1. Paged!OneToken(b)[k] = <<x>>
          BY <1>1 DEF Paged!OneToken, Paged!Column
      <2> HIDE DEF x
      <2>2. List(<<x>>, 1)
          BY DEF List
      <2>. QED  BY <2>1, <2>2
  <1>4. CASE first
      <2>1. result = Paged!_prefill(b, cache0)
          BY <1>4 DEF Paged!generate_token
      <2>2. result.batch = Paged!Updated(b, Paged!OneToken(b), Paged!NextIds(cache0, Len(b.rows)))
          BY <2>1 DEF Paged!_prefill
      <2> DEFINE next_tokens == Paged!OneToken(b)
      <2>3. \A k \in 1 .. n : \E q \in Nat \ {0} : List(next_tokens[k], q)
          BY <1>3
      <2> HIDE DEF next_tokens
      <2>. QED  BY <1>2, <2>2, <2>3 DEF next_tokens
  <1>5. CASE ~first /\ ~Paged!Speculates(b, cache0)
      <2>1. result = Paged!_next_token_without_speculation(b, cache0)
          BY <1>5 DEF Paged!generate_token
      <2>2. result.batch = Paged!Updated(b, Paged!OneToken(b), Paged!SequenceIds(b))
          BY <2>1 DEF Paged!_next_token_without_speculation
      <2> DEFINE next_tokens == Paged!OneToken(b)
      <2>3. \A k \in 1 .. n : \E q \in Nat \ {0} : List(next_tokens[k], q)
          BY <1>3
      <2> HIDE DEF next_tokens
      <2>. QED  BY <1>2, <2>2, <2>3 DEF next_tokens
  <1>6. CASE ~first /\ Paged!Speculates(b, cache0)
      <2>1. PICK n_correct \in [DOMAIN b.rows -> 0 .. NPredict] :
                 \E best_guess \in Paged!BestGuesses(Paged!SpecInd(b), n_correct) :
                     result = Paged!_next_token_with_speculation(b, cache0, Paged!SpecInd(b), n_correct, best_guess)
          BY <1>6 DEF Paged!generate_token
      <2> DEFINE next_tokens == [k \in DOMAIN b.rows |->
                     IF k \notin Paged!SpecInd(b) THEN <<Paged!NextCell(b.rows[k], 1)>>
                     ELSE [j \in 1 .. n_correct[k] + 1 |-> Paged!NextCell(b.rows[k], j)]]
      <2>2. \E ids : result.batch = Paged!Updated(b, next_tokens, ids)
          <3>1. PICK best_guess \in Paged!BestGuesses(Paged!SpecInd(b), n_correct) :
                    result = Paged!_next_token_with_speculation(b, cache0, Paged!SpecInd(b), n_correct, best_guess)
              BY <2>1
          <3> DEFINE children == Paged!ChildIds(cache0, Len(b.rows), CandidateCount)
                     ids == [k \in DOMAIN b.rows |-> children[k][best_guess[k]]]
          <3>2. result.batch = Paged!Updated(b, next_tokens, ids)
              BY <3>1 DEF Paged!_next_token_with_speculation
          <3>. QED  BY <3>2
      <2>3. ASSUME NEW k \in 1 .. n
            PROVE  \E q \in Nat \ {0} : List(next_tokens[k], q)
          <3>1. CASE k \notin Paged!SpecInd(b)
              <4> DEFINE x == Paged!NextCell(b.rows[k], 1)
              <4>1. next_tokens[k] = <<x>>
                  BY <1>1, <3>1
              <4> HIDE DEF x, next_tokens
              <4>2. List(<<x>>, 1)
                  BY DEF List
              <4>. QED  BY <4>1, <4>2
          <3>2. CASE k \in Paged!SpecInd(b)
              <4> DEFINE N == n_correct[k] + 1  s == [j \in 1 .. N |-> Paged!NextCell(b.rows[k], j)]
              <4>1. N \in Nat \ {0}
                  BY <1>1
              <4>2. next_tokens[k] = s
                  BY <1>1, <3>2
              <4>3. List(s, N)
                  BY DEF List
              <4> HIDE DEF s, N, next_tokens
              <4>. QED  BY <4>1, <4>2, <4>3
          <3>. QED  BY <3>1, <3>2
      <2> HIDE DEF next_tokens
      <2>. QED  BY <1>2, <2>2, <2>3
  <1>. QED  BY <1>4, <1>5, <1>6

\* The lists of all tokens in a batch with a longer one ...
LEMMA Lengthened ==
  ASSUME NEW L \in Nat, NEW l \in 0 .. L, NEW s, List(s, l)
  PROVE  /\ List(Put(Fill(L, Pad), 0, Len(s), s), L)
         /\ \A k \in 1 .. L : Put(Fill(L, Pad), 0, Len(s), s)[k] = IF k <= l THEN s[k] ELSE Pad
  <1> DEFINE t == Fill(L, Pad)  z == 0
  <1>1. Len(s) = l /\ List(t, L) /\ \A k \in 1 .. L : t[k] = Pad
      BY Lists, FillIs
  <1>2. z \in Int /\ z \in Nat /\ l \in Nat /\ l \in Int /\ z = At(L, z) /\ l = At(L, l) /\ z <= l /\ l <= L /\ l - z = l
        /\ List(s, l - z)
      BY DEF At
  <1> HIDE DEF t, z
  <1>3. /\ List(Put(t, z, l, s), L)
        /\ \A k \in 1 .. L : Put(t, z, l, s)[k] = IF z < k /\ k <= l THEN s[k - z] ELSE t[k]
      BY <1>1, <1>2, PutFits
  <1>4. z = 0
      BY DEF z
  <1>5. \A k \in 1 .. L : Put(t, z, l, s)[k] = IF k <= l THEN s[k] ELSE Pad
      BY <1>1, <1>3, <1>4
  <1>. QED  BY <1>1, <1>3, <1>4, <1>5 DEF t

\* Two batches ...
LEMMA PagedMergeFits ==
  ASSUME NEW a, NEW n, PagedFits(a, n), NEW b, NEW m, PagedFits(b, m)
  PROVE  PagedFits(Paged!concatenate(a, b), n + m)
  <1> DEFINE c == Paged!concatenate(a, b)  rows == a.rows \o b.rows
             L == Max({rows[k].total_length : k \in DOMAIN rows})
             M == Max({a.max_seqlen, b.max_seqlen})
  <1>1. /\ n \in Nat \ {0} /\ List(a.rows, n) /\ DOMAIN a.rows = 1 .. n
        /\ m \in Nat \ {0} /\ List(b.rows, m) /\ DOMAIN b.rows = 1 .. m
        /\ Largest(a.max_seqlen, a.rows, "input_length") /\ Largest(b.max_seqlen, b.rows, "input_length")
      BY DEF PagedFits, List
  <1>2. PICK x : Largest(x, a.rows, "total_length") /\ \A k \in 1 .. n : PagedRowFits(a.rows[k], x)
      BY DEF PagedFits
  <1>3. PICK y : Largest(y, b.rows, "total_length") /\ \A k \in 1 .. m : PagedRowFits(b.rows[k], y)
      BY DEF PagedFits
  <1>4. rows = Joined(a.rows, n, b.rows, m) /\ DOMAIN rows = 1 .. n + m
      <2>1. rows = Joined(a.rows, n, b.rows, m)
          BY <1>1, JoinedIs
      <2>. QED  BY <2>1 DEF Joined
  <1>5. x \in Nat /\ y \in Nat
      BY <1>2, <1>3 DEF Largest
  <1>6. ASSUME NEW k \in 1 .. n + m
        PROVE  \E l \in {x, y} : PagedRowFits(rows[k], l)
      <2>1. CASE k <= n
          <3>1. k \in 1 .. n /\ rows[k] = a.rows[k]
              BY <1>1, <1>4, <2>1 DEF Joined
          <3>. QED  BY <1>2, <3>1
      <2>2. CASE ~(k <= n)
          <3>1. k - n \in 1 .. m /\ rows[k] = b.rows[k - n]
              BY <1>1, <1>4, <2>2 DEF Joined
          <3>. QED  BY <1>3, <3>1
      <2>. QED  BY <2>1, <2>2
  <1> HIDE DEF rows
  <1>7. /\ List(c.rows, n + m) /\ DOMAIN c.rows = 1 .. n + m /\ c.max_seqlen = M
      BY <1>4, PagedSlices DEF Paged!concatenate, Paged!Column, List, rows
  <1>8. ASSUME NEW k \in 1 .. n + m
        PROVE  LET row == rows[k]  new == c.rows[k] IN
               /\ DOMAIN new = DOMAIN row /\ new.request = row.request
               /\ new.total_length = row.total_length /\ new.input_length = row.input_length
               /\ new.all_input_ids = Put(Fill(L, Pad), 0, Len(row.all_input_ids), row.all_input_ids)
      <2>1. PagedFields \subseteq DOMAIN rows[k]
          BY <1>6 DEF PagedRowFits
      <2>2. Paged!Pad = Pad
          BY DEF Paged!Pad, Pad
      <2>. QED  BY <1>4, <2>1, <2>2, PagedSlices DEF Paged!concatenate, Paged!Column, Paged!MaxOf, PagedFields, rows
  <1> HIDE DEF c
  <1>9. n + m \in Nat \ {0} /\ n \in Nat /\ m \in Nat
      BY <1>1
  <1>10. Largest(M, c.rows, "input_length")
      <2>1. \A k \in 1 .. n + m : c.rows[k].input_length = Joined(a.rows, n, b.rows, m)[k].input_length
          BY <1>4, <1>8
      <2>. QED  BY <1>1, <1>7, <1>9, <2>1, InputsJoin
  <1> DEFINE N == Max({x, y})
  <1>11. Largest(N, c.rows, "total_length") /\ Largest(N, rows, "total_length")
      <2>1. \A k \in 1 .. n + m : c.rows[k].total_length = Joined(a.rows, n, b.rows, m)[k].total_length
          BY <1>4, <1>8
      <2>2. Largest(N, c.rows, "total_length")
          <3> DEFINE f == a.rows  g == b.rows  h == c.rows
          <3>1. /\ n \in Nat /\ m \in Nat /\ DOMAIN f = 1 .. n /\ DOMAIN g = 1 .. m /\ DOMAIN h = 1 .. n + m
                /\ Largest(x, f, "total_length") /\ Largest(y, g, "total_length")
                /\ \A k \in 1 .. n + m : h[k].total_length = Joined(f, n, g, m)[k].total_length
              BY <1>1, <1>2, <1>3, <1>7, <1>9, <2>1
          <3> HIDE DEF f, g, h
          <3>2. Largest(Max({x, y}), h, "total_length")
              BY <3>1, TotalsJoin
          <3>. QED  BY <3>2 DEF h
      <2>3. Largest(N, rows, "total_length")
          BY <1>1, <1>2, <1>3, <1>4, <1>9, TotalsJoin
      <2>. QED  BY <2>2, <2>3
  <1>12. L = N
      <2> HIDE DEF N
      <2>. QED  BY <1>11, LargestOnly
  <1>13. N \in Nat /\ x <= N /\ y <= N
      BY <1>5, MaxOfTwo
  <1> HIDE DEF L, N, M
  <1>14. ASSUME NEW k \in 1 .. n + m PROVE PagedRowFits(c.rows[k], N)
      <2> DEFINE row == rows[k]  new == c.rows[k]  s == row.all_input_ids
      <2>1. PICK l \in {x, y} : PagedRowFits(row, l)
          BY <1>6
      <2>2. /\ DOMAIN new = DOMAIN row /\ new.request = row.request /\ new.total_length = row.total_length
            /\ new.input_length = row.input_length /\ new.all_input_ids = Put(Fill(L, Pad), 0, Len(s), s)
          BY <1>8
      <2>3. List(s, l) /\ l \in 0 .. N
          BY <1>5, <1>13, <2>1 DEF PagedRowFits
      <2> HIDE DEF s
      <2>4. List(new.all_input_ids, N)
          BY <1>12, <1>13, <2>2, <2>3, Lengthened
      <2> HIDE DEF row, new
      <2>5. PagedRowFits(new, N)
          BY <2>1, <2>2, <2>4 DEF PagedRowFits
      <2>. QED  BY <2>5 DEF new
  <1>. QED  BY <1>7, <1>9, <1>10, <1>11, <1>14 DEF PagedFits, c

\* ... the rows that are left ...
LEMMA PagedPruneFits ==
  ASSUME NEW b, NEW n, PagedFits(b, n), NEW done, done # {}, NEW m \in Nat \ {0},
         NEW indices \in [1 .. m -> 1 .. n], indices = KeepIndices(b, done)
  PROVE  PagedFits(Paged!prune(b, done), m)
  <1> DEFINE c == Paged!prune(b, done)  kept == Pick(b.rows, indices)
             L == Max({kept[k].total_length : k \in DOMAIN kept})
             M == Max({kept[k].input_length : k \in DOMAIN kept})
  <1>1. n \in Nat \ {0} /\ List(b.rows, n) /\ DOMAIN b.rows = 1 .. n
      BY DEF PagedFits, List
  <1>2. PICK l : Largest(l, b.rows, "total_length") /\ \A k \in 1 .. n : PagedRowFits(b.rows[k], l)
      BY DEF PagedFits
  <1>3. Paged!KeepIndices(b, done) = indices /\ Paged!Pick(b.rows, indices) = kept
      BY PagedNames
  <1>4. DOMAIN kept = 1 .. m /\ \A k \in 1 .. m : kept[k] = b.rows[indices[k]] /\ indices[k] \in 1 .. n
      BY DEF Pick
  <1>5. l \in Nat /\ \A k \in 1 .. m : /\ PagedRowFits(kept[k], l) /\ kept[k].total_length <= l
                                       /\ kept[k].total_length \in Nat /\ kept[k].input_length \in Nat
      <2>1. l \in Nat /\ \A k \in 1 .. n : b.rows[k].total_length <= l
          BY <1>1, <1>2 DEF Largest
      <2> SUFFICES ASSUME NEW k \in 1 .. m
                   PROVE  /\ PagedRowFits(kept[k], l) /\ kept[k].total_length <= l
                          /\ kept[k].total_length \in Nat /\ kept[k].input_length \in Nat
          BY <2>1
      <2> DEFINE j == indices[k]  row == b.rows[j]
      <2>2. j \in 1 .. n /\ kept[k] = row
          BY <1>4
      <2> HIDE DEF kept, j
      <2>3. PagedRowFits(row, l) /\ row.total_length <= l
          BY <1>2, <2>1, <2>2
      <2> HIDE DEF row
      <2>4. row.total_length \in Nat /\ row.input_length \in Nat
          BY <2>3 DEF PagedRowFits
      <2>. QED  BY <2>2, <2>3, <2>4
  <1> HIDE DEF kept
  <1>6. DOMAIN c.rows = 1 .. m /\ List(c.rows, m) /\ c.max_seqlen = M
      <2>1. DOMAIN c.rows = 1 .. m /\ List(c.rows, m)
          BY <1>3, <1>4 DEF Paged!prune, Paged!Column, List
      <2>2. c.max_seqlen = M
          BY <1>3, PagedSlices DEF Paged!prune, Paged!MaxOf
      <2>. QED  BY <2>1, <2>2
  <1>7. ASSUME NEW k \in 1 .. m
        PROVE  LET row == kept[k]  new == c.rows[k] IN
               /\ DOMAIN new = DOMAIN row /\ new.request = row.request
               /\ new.total_length = row.total_length /\ new.input_length = row.input_length
               /\ new.all_input_ids = Slice(row.all_input_ids, 0, L)
      <2>1. PagedFields \subseteq DOMAIN kept[k]
          BY <1>5 DEF PagedRowFits
      <2>. QED  BY <1>3, <1>4, <2>1, PagedSlices DEF Paged!prune, Paged!Column, Paged!MaxOf, PagedFields
  <1> HIDE DEF c
  <1>8. Largest(M, kept, "input_length") /\ Largest(L, kept, "total_length")
      <2>1. Largest(M, kept, "input_length")
          <3>1. DOMAIN kept = 1 .. m /\ \A k \in 1 .. m : kept[k].input_length \in Nat
              BY <1>4, <1>5
          <3>. QED  BY <3>1, LongestInput
      <2>2. Largest(L, kept, "total_length")
          <3>1. DOMAIN kept = 1 .. m /\ \A k \in 1 .. m : kept[k].total_length \in Nat
              BY <1>4, <1>5
          <3>. QED  BY <3>1, LongestTotal
      <2>. QED  BY <2>1, <2>2
  <1> HIDE DEF M, L
  <1>9. Largest(M, c.rows, "input_length") /\ Largest(L, c.rows, "total_length")
      <2>1. \A k \in 1 .. m : /\ c.rows[k].input_length = kept[k].input_length
                              /\ c.rows[k].total_length = kept[k].total_length
          BY <1>7
      <2>. QED  BY <1>4, <1>6, <1>8, <2>1 DEF Largest
  <1>10. L \in 0 .. l
      BY <1>4, <1>5, <1>8 DEF Largest
  <1>11. ASSUME NEW k \in 1 .. m PROVE PagedRowFits(c.rows[k], L)
      <2> DEFINE row == kept[k]  new == c.rows[k]
      <2>1. PagedRowFits(row, l)
          BY <1>5
      <2>2. /\ DOMAIN new = DOMAIN row /\ new.request = row.request /\ new.total_length = row.total_length
            /\ new.input_length = row.input_length /\ new.all_input_ids = Slice(row.all_input_ids, 0, L)
          BY <1>7
      <2> HIDE DEF row, new
      <2>3. List(row.all_input_ids, l)
          BY <2>1 DEF PagedRowFits
      <2>4. List(new.all_input_ids, L)
          BY <1>5, <1>10, <2>2, <2>3, SliceFirst
      <2>5. PagedRowFits(new, L)
          BY <2>1, <2>2, <2>4 DEF PagedRowFits
      <2>. QED  BY <2>5 DEF new
  <1>. QED  BY <1>6, <1>9, <1>11 DEF PagedFits, c

\* ... and a new batch.
LEMMA PagedBuildFits ==
  ASSUME NEW pb, NEW m \in Nat \ {0}, List(pb, m), \A k \in 1 .. m : KnownRequest(pb[k])
  PROVE  PagedFits(Paged!from_pb(pb), m)
  <1> DEFINE b == Paged!from_pb(pb)
             L == Max({pb[k].input + pb[k].output : k \in DOMAIN pb})
             M == Max({pb[k].input : k \in DOMAIN pb})
  <1>1. DOMAIN pb = 1 .. m
      BY DEF List
  <1>2. DOMAIN b.rows = 1 .. m /\ List(b.rows, m) /\ b.max_seqlen = M
      BY <1>1, PagedSlices DEF Paged!from_pb, Paged!MaxOf, List
  <1>3. ASSUME NEW k \in 1 .. m
        PROVE  LET row == b.rows[k]  r == pb[k] IN
               /\ DOMAIN row = PagedFields /\ row.request = r /\ row.input_length = r.input
               /\ row.total_length = r.input + r.output
               /\ row.all_input_ids = Put(Fill(L, Pad), 0, r.input, Cells(r.id, r.text - r.input + 1, r.text))
      <2>1. Paged!Pad = Pad
          BY DEF Paged!Pad, Pad
      <2>. QED  BY <1>1, <2>1, PagedSlices DEF Paged!from_pb, Paged!MaxOf, PagedFields
  <1> HIDE DEF b
  <1>4. ASSUME NEW k \in 1 .. m
        PROVE  /\ pb[k].input \in Nat /\ pb[k].output \in Nat /\ pb[k].text \in Nat /\ pb[k].input <= pb[k].text
               /\ b.rows[k].input_length \in Nat /\ b.rows[k].total_length \in Nat
               /\ b.rows[k].input_length <= b.rows[k].total_length
      <2> DEFINE r == pb[k]  i == r.input  p == r.output
      <2>1. KnownRequest(r) /\ b.rows[k].input_length = i /\ b.rows[k].total_length = i + p
          BY <1>3
      <2>2. i \in Nat /\ p \in Nat /\ r.text \in Nat /\ i <= r.text
          <3> HIDE DEF r
          <3>. QED  BY <2>1 DEF KnownRequest
      <2> HIDE DEF i, p
      <2>3. i + p \in Nat /\ i <= i + p
          BY <2>2
      <2>. QED  BY <2>1, <2>2, <2>3 DEF i, p
  <1>5. M = Max({b.rows[k].input_length : k \in DOMAIN b.rows})
      <2>1. {b.rows[k].input_length : k \in DOMAIN b.rows} = {pb[k].input : k \in DOMAIN pb}
          <3>1. DOMAIN b.rows = DOMAIN pb /\ \A k \in DOMAIN pb : b.rows[k].input_length = pb[k].input
              BY <1>1, <1>2, <1>3
          <3>. QED  BY <3>1
      <2>. QED  BY <2>1
  <1>6. L = Max({b.rows[k].total_length : k \in DOMAIN b.rows})
      <2>1. {b.rows[k].total_length : k \in DOMAIN b.rows} = {pb[k].input + pb[k].output : k \in DOMAIN pb}
          <3> DEFINE x == [k \in 1 .. m |-> pb[k].input + pb[k].output]
          <3>1. \A k \in 1 .. m : b.rows[k].total_length = x[k]
              BY <1>3
          <3>2. {pb[k].input + pb[k].output : k \in DOMAIN pb} = {x[k] : k \in 1 .. m}
              BY <1>1
          <3> HIDE DEF x
          <3>. QED  BY <1>2, <3>1, <3>2
      <2>. QED  BY <2>1
  <1> HIDE DEF M, L
  <1>7. Largest(M, b.rows, "input_length")
      BY <1>2, <1>4, <1>5, LargestIs
  <1>8. Largest(L, b.rows, "total_length") /\ L \in Nat
      <2>1. Largest(L, b.rows, "total_length")
          BY <1>2, <1>4, <1>6, LargestIs
      <2>. QED  BY <2>1 DEF Largest
  <1>9. ASSUME NEW k \in 1 .. m PROVE PagedRowFits(b.rows[k], L)
      <2> DEFINE row == b.rows[k]  r == pb[k]  i == r.input  lo == r.text - r.input + 1  z == 0
                 v == Cells(r.id, lo, r.text)  t == Fill(L, Pad)
      <2>1. /\ DOMAIN row = PagedFields /\ row.request = r /\ KnownRequest(r)
            /\ row.all_input_ids = Put(t, z, i, v)
          BY <1>3
      <2>2. i \in Nat /\ i \in Int /\ z \in Int /\ r.text \in Int /\ lo \in Int /\ lo <= r.text + 1 /\ r.text - lo + 1 = i
          BY <1>4
      <2>3. row.input_length \in Nat /\ row.total_length \in Nat /\ row.input_length <= row.total_length
          BY <1>4
      <2>4. List(t, L)
          BY <1>8, FillIs
      <2> HIDE DEF row, r, i, lo, z, t
      <2>5. List(v, i)
          <3>1. List(v, r.text - lo + 1)
              BY <2>2, CellsIs
          <3>. QED  BY <2>2, <3>1
      <2> HIDE DEF v
      <2>6. List(row.all_input_ids, L)
          BY <1>8, <2>1, <2>2, <2>4, <2>5, PutLength
      <2>7. PagedRowFits(row, L)
          BY <2>1, <2>3, <2>6 DEF PagedRowFits
      <2>. QED  BY <2>7 DEF row
  <1>. QED  BY <1>2, <1>7, <1>8, <1>9 DEF PagedFits, b

-----------------------------------------------------------------------------
(* The lengths of a batch with an encoder.                                  *)

Seq2SeqFields ==
    {"request", "input_length", "decoder_input_length", "max_remaining_tokens", "input_ids", "attention_mask",
     "encoder_last_hidden_state", "encoder_past", "decoder_past", "decoder_input_ids", "decoder_attention_mask",
     "all_decoder_input_ids"}

Seq2SeqBatchFields ==
    {"max_input_length", "max_decoder_input_length", "padding_right_offset", "next_token_chooser", "rows"}

Seq2SeqRowFits(row, W) ==
    /\ Seq2SeqFields \subseteq DOMAIN row /\ KnownRequest(row.request)
    /\ row.decoder_input_length \in Nat \ {0} /\ List(row.all_decoder_input_ids, W)

Seq2SeqFits(b, n) ==
    LET M == b.max_input_length  D == b.max_decoder_input_length  o == b.padding_right_offset IN
    /\ n \in Nat \ {0} /\ Seq2SeqBatchFields \subseteq DOMAIN b /\ List(b.rows, n)
    /\ Largest(M, b.rows, "input_length") /\ Largest(D, b.rows, "decoder_input_length")
    /\ Largest(o, b.rows, "max_remaining_tokens")
    /\ \A k \in 1 .. n : Seq2SeqRowFits(b.rows[k], D + o)

\* A step ...
LEMMA Seq2SeqStepFits ==
  ASSUME NEW b, NEW n, Seq2SeqFits(b, n), NEW first, NEW for_concat,
         \A k \in DOMAIN b.rows : b.rows[k].max_remaining_tokens # 0
  PROVE  Seq2SeqFits(Seq2Seq!generate_token(b, first, for_concat), n)
  <1> DEFINE M == b.max_input_length  D == b.max_decoder_input_length  o == b.padding_right_offset
             c == Seq2Seq!generate_token(b, first, for_concat)
  <1>1. /\ n \in Nat \ {0} /\ Seq2SeqBatchFields \subseteq DOMAIN b /\ List(b.rows, n) /\ DOMAIN b.rows = 1 .. n
        /\ Largest(M, b.rows, "input_length") /\ Largest(D, b.rows, "decoder_input_length")
        /\ Largest(o, b.rows, "max_remaining_tokens") /\ D \in Nat /\ o \in Nat
      BY DEF Seq2SeqFits, Largest, List
  <1>2. \A k \in 1 .. n : Seq2SeqRowFits(b.rows[k], D + o)
      BY DEF Seq2SeqFits
  <1>3. o # 0
      BY <1>1 DEF Largest
  <1>4. /\ c.max_input_length = M /\ c.max_decoder_input_length = D + 1 /\ c.padding_right_offset = o - 1
        /\ DOMAIN c = DOMAIN b
      BY <1>1 DEF Seq2Seq!generate_token, Seq2SeqBatchFields
  <1>5. DOMAIN c.rows = 1 .. n /\ List(c.rows, n)
      BY <1>1 DEF Seq2Seq!generate_token, Seq2SeqBatchFields, List
  <1>6. ASSUME NEW k \in 1 .. n
        PROVE  LET row == b.rows[k]  new == c.rows[k] IN
               /\ DOMAIN new = DOMAIN row /\ new.request = row.request /\ new.input_length = row.input_length
               /\ new.decoder_input_length = row.decoder_input_length + 1
               /\ new.max_remaining_tokens = row.max_remaining_tokens - 1
               /\ new.all_decoder_input_ids = PutAt(row.all_decoder_input_ids, -o, Seq2Seq!NextCell(row))
      <2>1. Seq2SeqFields \subseteq DOMAIN b.rows[k]
          BY <1>2 DEF Seq2SeqRowFits
      <2>. QED  BY <1>1, <2>1, Seq2SeqSlices DEF Seq2Seq!generate_token, Seq2SeqBatchFields, Seq2SeqFields
  <1> HIDE DEF c, M, D, o
  <1> DEFINE W == D + o
  <1>7. W \in Nat /\ o \in 1 .. W /\ (D + 1) + (o - 1) = W
      BY <1>1, <1>3
  <1>8. ASSUME NEW k \in 1 .. n PROVE Seq2SeqRowFits(c.rows[k], W)
      <2> DEFINE row == b.rows[k]  new == c.rows[k]
      <2>1. Seq2SeqRowFits(row, W)
          BY <1>2
      <2>2. /\ DOMAIN new = DOMAIN row /\ new.request = row.request
            /\ new.decoder_input_length = row.decoder_input_length + 1
            /\ new.all_decoder_input_ids = PutAt(row.all_decoder_input_ids, -o, Seq2Seq!NextCell(row))
          BY <1>6
      <2> HIDE DEF row, new, W
      <2>3. List(row.all_decoder_input_ids, W)
          BY <2>1 DEF Seq2SeqRowFits
      <2>4. List(new.all_decoder_input_ids, W)
          <3> DEFINE s == row.all_decoder_input_ids  v == Seq2Seq!NextCell(row)
          <3>1. W \in Nat /\ o \in 1 .. W /\ List(s, W) /\ new.all_decoder_input_ids = PutAt(s, -o, v)
              BY <1>7, <2>2, <2>3
          <3> HIDE DEF s, v
          <3>2. List(PutAt(s, -o, v), W)
              BY <3>1, PutFromEnd
          <3>. QED  BY <3>1, <3>2
      <2>5. new.decoder_input_length \in Nat \ {0}
          BY <2>1, <2>2 DEF Seq2SeqRowFits
      <2>6. Seq2SeqRowFits(new, W)
          BY <2>1, <2>2, <2>4, <2>5 DEF Seq2SeqRowFits
      <2>. QED  BY <2>6 DEF new
  <1>9. \A k \in 1 .. n : /\ b.rows[k].max_remaining_tokens \in Nat \ {0} /\ b.rows[k].input_length \in Nat
                          /\ b.rows[k].decoder_input_length \in Nat
      BY <1>1 DEF Largest
  <1>10. Largest(M, c.rows, "input_length")
      <2>1. \A k \in 1 .. n : c.rows[k].input_length = b.rows[k].input_length
          BY <1>6
      <2>. QED  BY <1>1, <1>5, <2>1 DEF Largest
  <1>11. Largest(D + 1, c.rows, "decoder_input_length")
      <2> DEFINE d == 1
      <2>1. \A k \in 1 .. n : /\ c.rows[k].decoder_input_length = b.rows[k].decoder_input_length + d
                              /\ c.rows[k].decoder_input_length \in Nat
          BY <1>6, <1>9
      <2>2. d \in Int
          OBVIOUS
      <2> HIDE DEF d
      <2>3. Largest(D + d, c.rows, "decoder_input_length")
          BY <1>1, <1>5, <2>1, <2>2, LargestMoves
      <2>. QED  BY <2>3 DEF d
  <1>12. Largest(o - 1, c.rows, "max_remaining_tokens")
      <2> DEFINE d == -1
      <2>1. \A k \in 1 .. n : /\ c.rows[k].max_remaining_tokens = b.rows[k].max_remaining_tokens + d
                              /\ c.rows[k].max_remaining_tokens \in Nat
          BY <1>6, <1>9
      <2>2. d \in Int /\ o + d = o - 1
          BY <1>1
      <2> HIDE DEF d
      <2>3. Largest(o + d, c.rows, "max_remaining_tokens")
          BY <1>1, <1>5, <2>1, <2>2, LargestMoves
      <2>. QED  BY <2>2, <2>3
  <1>13. Seq2SeqBatchFields \subseteq DOMAIN c
      BY <1>1, <1>4
  <1>14. \A k \in 1 .. n : Seq2SeqRowFits(c.rows[k], (D + 1) + (o - 1))
      BY <1>7, <1>8
  <1>. QED  BY <1>1, <1>4, <1>5, <1>10, <1>11, <1>12, <1>13, <1>14 DEF Seq2SeqFits, c

\* The rows of a batch in a longer one.
LEMMA Seq2SeqRepads ==
  ASSUME NEW b, NEW n, Seq2SeqFits(b, n), NEW M \in Nat, NEW D \in Nat, NEW o \in Nat
  PROVE  LET s == Seq2Seq!Repadded(b, M, D, o) IN
         /\ List(s, n)
         /\ \A k \in 1 .. n : /\ Seq2SeqRowFits(s[k], D + o)
                              /\ s[k].input_length = b.rows[k].input_length
                              /\ s[k].decoder_input_length = b.rows[k].decoder_input_length
                              /\ s[k].max_remaining_tokens = b.rows[k].max_remaining_tokens
  <1> DEFINE s == Seq2Seq!Repadded(b, M, D, o)  W == D + o  d == o - b.padding_right_offset
             V == b.max_decoder_input_length + b.padding_right_offset
  <1>1. /\ n \in Nat \ {0} /\ List(b.rows, n) /\ DOMAIN b.rows = 1 .. n
        /\ b.max_decoder_input_length \in Nat /\ b.padding_right_offset \in Nat
      BY DEF Seq2SeqFits, Largest, List
  <1>2. \A k \in 1 .. n : Seq2SeqRowFits(b.rows[k], V)
      BY DEF Seq2SeqFits
  <1>3. List(s, n) /\ DOMAIN s = 1 .. n
      BY <1>1 DEF Seq2Seq!Repadded, List
  <1>4. ASSUME NEW k \in 1 .. n
        PROVE  LET row == b.rows[k]  new == s[k]  ids == row.all_decoder_input_ids IN
               /\ DOMAIN new = DOMAIN row /\ new.request = row.request /\ new.input_length = row.input_length
               /\ new.decoder_input_length = row.decoder_input_length
               /\ new.max_remaining_tokens = row.max_remaining_tokens
               /\ new.all_decoder_input_ids = Put(Fill(W, Pad), -(Len(ids) + d), W - d, ids)
      <2>1. Seq2SeqFields \subseteq DOMAIN b.rows[k]
          BY <1>2 DEF Seq2SeqRowFits
      <2>2. Seq2Seq!Pad = Pad
          BY DEF Seq2Seq!Pad, Pad
      <2>. QED  BY <1>1, <2>1, <2>2, Seq2SeqSlices DEF Seq2Seq!Repadded, Seq2Seq!PadDiff, Seq2SeqFields
  <1>5. V \in Nat /\ W \in Nat /\ d \in Int
      BY <1>1
  <1> HIDE DEF s, d, W, V
  <1>6. ASSUME NEW k \in 1 .. n PROVE Seq2SeqRowFits(s[k], W)
      <2> DEFINE row == b.rows[k]  new == s[k]  ids == row.all_decoder_input_ids
                 lo == -(Len(ids) + d)  hi == W - d
      <2>1. Seq2SeqRowFits(row, V)
          BY <1>2
      <2>2. /\ DOMAIN new = DOMAIN row /\ new.request = row.request
            /\ new.decoder_input_length = row.decoder_input_length
            /\ new.all_decoder_input_ids = Put(Fill(W, Pad), lo, hi, ids)
          BY <1>4
      <2>3. List(ids, V) /\ Len(ids) = V
          BY <1>5, <2>1, Lists DEF Seq2SeqRowFits
      <2>4. lo \in Int /\ hi \in Int /\ List(Fill(W, Pad), W)
          BY <1>5, <2>3, FillIs
      <2> HIDE DEF ids, lo, hi
      <2>5. List(new.all_decoder_input_ids, W)
          BY <1>5, <2>2, <2>3, <2>4, PutLength
      <2> HIDE DEF row, new
      <2>6. Seq2SeqRowFits(new, W)
          BY <2>1, <2>2, <2>5 DEF Seq2SeqRowFits
      <2>. QED  BY <2>6 DEF new
  <1>7. \A k \in 1 .. n : /\ s[k].input_length = b.rows[k].input_length
                          /\ s[k].decoder_input_length = b.rows[k].decoder_input_length
                          /\ s[k].max_remaining_tokens = b.rows[k].max_remaining_tokens
      BY <1>4
  <1>. QED  BY <1>3, <1>6, <1>7 DEF s, W

\* Two batches ...
LEMMA Seq2SeqMergeFits ==
  ASSUME NEW a, NEW n, Seq2SeqFits(a, n), NEW b, NEW m, Seq2SeqFits(b, m)
  PROVE  Seq2SeqFits(Seq2Seq!concatenate(a, b), n + m)
  <1> DEFINE c == Seq2Seq!concatenate(a, b)
             M == Max({a.max_input_length, b.max_input_length})
             D == Max({a.max_decoder_input_length, b.max_decoder_input_length})
             o == Max({a.padding_right_offset, b.padding_right_offset})
             s == Seq2Seq!Repadded(a, M, D, o)
             t == Seq2Seq!Repadded(b, M, D, o)
  <1>1. /\ n \in Nat \ {0} /\ m \in Nat \ {0} /\ DOMAIN a.rows = 1 .. n /\ DOMAIN b.rows = 1 .. m
        /\ Largest(a.max_input_length, a.rows, "input_length")
        /\ Largest(b.max_input_length, b.rows, "input_length")
        /\ Largest(a.max_decoder_input_length, a.rows, "decoder_input_length")
        /\ Largest(b.max_decoder_input_length, b.rows, "decoder_input_length")
        /\ Largest(a.padding_right_offset, a.rows, "max_remaining_tokens")
        /\ Largest(b.padding_right_offset, b.rows, "max_remaining_tokens")
      BY DEF Seq2SeqFits, List
  <1>2. /\ c.rows = s \o t /\ c.max_input_length = M /\ c.max_decoder_input_length = D
        /\ c.padding_right_offset = o /\ Seq2SeqBatchFields \subseteq DOMAIN c
      BY Seq2SeqSlices DEF Seq2Seq!concatenate, Seq2SeqBatchFields
  <1>3. M \in Nat /\ D \in Nat /\ o \in Nat
      <2>1. /\ a.max_input_length \in Nat /\ b.max_input_length \in Nat
            /\ a.max_decoder_input_length \in Nat /\ b.max_decoder_input_length \in Nat
            /\ a.padding_right_offset \in Nat /\ b.padding_right_offset \in Nat
          BY <1>1 DEF Largest
      <2>. QED  BY <2>1, MaxOfTwo
  <1> HIDE DEF c, M, D, o
  <1>4. /\ List(s, n)
        /\ \A k \in 1 .. n : /\ Seq2SeqRowFits(s[k], D + o)
                             /\ s[k].input_length = a.rows[k].input_length
                             /\ s[k].decoder_input_length = a.rows[k].decoder_input_length
                             /\ s[k].max_remaining_tokens = a.rows[k].max_remaining_tokens
      BY <1>3, Seq2SeqRepads
  <1>5. /\ List(t, m)
        /\ \A k \in 1 .. m : /\ Seq2SeqRowFits(t[k], D + o)
                             /\ t[k].input_length = b.rows[k].input_length
                             /\ t[k].decoder_input_length = b.rows[k].decoder_input_length
                             /\ t[k].max_remaining_tokens = b.rows[k].max_remaining_tokens
      BY <1>3, Seq2SeqRepads
  <1> HIDE DEF s, t
  <1>6. c.rows = Joined(s, n, t, m) /\ List(c.rows, n + m) /\ DOMAIN c.rows = 1 .. n + m
      <2>0. n \in Nat /\ m \in Nat /\ List(s, n) /\ List(t, m)
          BY <1>1, <1>4, <1>5
      <2>1. c.rows = Joined(s, n, t, m) /\ List(c.rows, n + m)
          BY <1>2, <2>0, JoinedIs
      <2>. QED  BY <2>1 DEF Joined
  <1>7. ASSUME NEW k \in 1 .. n + m
        PROVE  LET old == Joined(a.rows, n, b.rows, m)[k] IN
               /\ Seq2SeqRowFits(c.rows[k], D + o)
               /\ c.rows[k].input_length = old.input_length
               /\ c.rows[k].decoder_input_length = old.decoder_input_length
               /\ c.rows[k].max_remaining_tokens = old.max_remaining_tokens
      <2>1. CASE k <= n
          <3>1. k \in 1 .. n /\ c.rows[k] = s[k] /\ Joined(a.rows, n, b.rows, m)[k] = a.rows[k]
              BY <1>6, <2>1 DEF Joined
          <3>. QED  BY <1>4, <3>1
      <2>2. CASE ~(k <= n)
          <3>1. k - n \in 1 .. m /\ c.rows[k] = t[k - n] /\ Joined(a.rows, n, b.rows, m)[k] = b.rows[k - n]
              BY <1>1, <1>6, <2>2 DEF Joined
          <3>. QED  BY <1>5, <3>1
      <2>. QED  BY <2>1, <2>2
  <1>8. Largest(M, c.rows, "input_length")
      BY <1>1, <1>6, <1>7, LargestJoins DEF M
  <1>9. Largest(D, c.rows, "decoder_input_length")
      BY <1>1, <1>6, <1>7, LargestJoins DEF D
  <1>10. Largest(o, c.rows, "max_remaining_tokens")
      BY <1>1, <1>6, <1>7, LargestJoins DEF o
  <1>11. n + m \in Nat \ {0}
      BY <1>1
  <1>. QED  BY <1>2, <1>6, <1>7, <1>8, <1>9, <1>10, <1>11 DEF Seq2SeqFits, c

\* ... the rows that are left ...
LEMMA Seq2SeqPruneFits ==
  ASSUME NEW b, NEW n, Seq2SeqFits(b, n), NEW done, done # {}, NEW m \in Nat \ {0},
         NEW indices \in [1 .. m -> 1 .. n], indices = KeepIndices(b, done)
  PROVE  Seq2SeqFits(Seq2Seq!prune(b, done), m)
  <1> DEFINE c == Seq2Seq!prune(b, done)  kept == Pick(b.rows, indices)
             D0 == b.max_decoder_input_length  o0 == b.padding_right_offset  V == D0 + o0
             M == Max({kept[k].input_length : k \in DOMAIN kept})
             D == Max({kept[k].decoder_input_length : k \in DOMAIN kept})
             o == Max({kept[k].max_remaining_tokens : k \in DOMAIN kept})
  <1>1. /\ n \in Nat \ {0} /\ List(b.rows, n) /\ DOMAIN b.rows = 1 .. n
        /\ D0 \in Nat /\ o0 \in Nat /\ Seq2SeqBatchFields \subseteq DOMAIN b
        /\ \A k \in 1 .. n :
             /\ b.rows[k].input_length \in Nat
             /\ b.rows[k].decoder_input_length \in Nat /\ b.rows[k].decoder_input_length <= D0
             /\ b.rows[k].max_remaining_tokens \in Nat /\ b.rows[k].max_remaining_tokens <= o0
             /\ Seq2SeqRowFits(b.rows[k], V)
      BY DEF Seq2SeqFits, Largest, List
  <1>2. Seq2Seq!KeepIndices(b, done) = indices /\ Seq2Seq!Pick(b.rows, indices) = kept
      BY Seq2SeqNames
  <1>3. DOMAIN kept = 1 .. m /\ \A k \in 1 .. m : kept[k] = b.rows[indices[k]] /\ indices[k] \in 1 .. n
      BY DEF Pick
  <1>4. ASSUME NEW k \in 1 .. m
        PROVE  /\ kept[k].input_length \in Nat
               /\ kept[k].decoder_input_length \in Nat \ {0} /\ kept[k].decoder_input_length <= D0
               /\ kept[k].max_remaining_tokens \in Nat /\ kept[k].max_remaining_tokens <= o0
               /\ Seq2SeqRowFits(kept[k], V)
      BY <1>1, <1>3 DEF Seq2SeqRowFits
  <1> HIDE DEF kept
  <1>5. /\ c.max_input_length = M /\ c.max_decoder_input_length = D /\ c.padding_right_offset = o
        /\ DOMAIN c = DOMAIN b
      BY <1>1, <1>2, Seq2SeqSlices DEF Seq2Seq!prune, Seq2Seq!MaxOf, Seq2SeqBatchFields
  <1>6. DOMAIN c.rows = 1 .. m /\ List(c.rows, m)
      BY <1>1, <1>2, <1>3 DEF Seq2Seq!prune, Seq2SeqBatchFields, List
  <1>7. ASSUME NEW k \in 1 .. m
        PROVE  LET row == kept[k]  new == c.rows[k]  ids == row.all_decoder_input_ids IN
               /\ DOMAIN new = DOMAIN row /\ new.request = row.request /\ new.input_length = row.input_length
               /\ new.decoder_input_length = row.decoder_input_length
               /\ new.max_remaining_tokens = row.max_remaining_tokens
               /\ new.all_decoder_input_ids = Slice(ids, -(o0 + D), Len(ids) - o0 + o)
      <2>1. Seq2SeqFields \subseteq DOMAIN kept[k]
          BY <1>4 DEF Seq2SeqRowFits
      <2>. QED  BY <1>1, <1>2, <1>3, <2>1, Seq2SeqSlices
                DEF Seq2Seq!prune, Seq2Seq!MaxOf, Seq2SeqBatchFields, Seq2SeqFields
  <1> HIDE DEF c
  <1>8. Largest(M, kept, "input_length")
      <2>1. DOMAIN kept = 1 .. m /\ \A k \in 1 .. m : kept[k].input_length \in Nat
          BY <1>3, <1>4
      <2>. QED  BY <2>1, LargestIs
  <1>9. Largest(D, kept, "decoder_input_length")
      <2>1. DOMAIN kept = 1 .. m /\ \A k \in 1 .. m : kept[k].decoder_input_length \in Nat
          BY <1>3, <1>4
      <2>. QED  BY <2>1, LargestIs
  <1>10. Largest(o, kept, "max_remaining_tokens")
      <2>1. DOMAIN kept = 1 .. m /\ \A k \in 1 .. m : kept[k].max_remaining_tokens \in Nat
          BY <1>3, <1>4
      <2>. QED  BY <2>1, LargestIs
  <1> HIDE DEF M, D, o
  <1>11. D \in Nat \ {0} /\ D <= D0 /\ o \in Nat /\ o <= o0
      BY <1>3, <1>4, <1>9, <1>10 DEF Largest
  <1>12. /\ Largest(M, c.rows, "input_length") /\ Largest(D, c.rows, "decoder_input_length")
         /\ Largest(o, c.rows, "max_remaining_tokens")
      <2>1. \A k \in 1 .. m : /\ c.rows[k].input_length = kept[k].input_length
                              /\ c.rows[k].decoder_input_length = kept[k].decoder_input_length
                              /\ c.rows[k].max_remaining_tokens = kept[k].max_remaining_tokens
          BY <1>7
      <2>. QED  BY <1>3, <1>6, <1>8, <1>9, <1>10, <2>1 DEF Largest
  <1> HIDE DEF D0, o0
  <1>13. ASSUME NEW k \in 1 .. m PROVE Seq2SeqRowFits(c.rows[k], D + o)
      <2> DEFINE row == kept[k]  new == c.rows[k]  ids == row.all_decoder_input_ids
                 lo == -(o0 + D)  hi == V - o0 + o  l == D0 - D  e == D + o
      <2>1. Seq2SeqRowFits(row, V) /\ V \in Nat
          BY <1>1, <1>4
      <2>2. List(ids, V) /\ Len(ids) = V
          <3>1. List(ids, V)
              BY <2>1 DEF Seq2SeqRowFits
          <3> HIDE DEF ids, V
          <3>. QED  BY <2>1, <3>1, Lists
      <2>3. /\ DOMAIN new = DOMAIN row /\ new.request = row.request
            /\ new.decoder_input_length = row.decoder_input_length
            /\ new.all_decoder_input_ids = Slice(ids, lo, hi)
          BY <1>7, <2>2
      <2>4. /\ lo \in Int /\ hi \in Int /\ l = At(V, lo) /\ e = At(V, hi) - l /\ 0 <= l /\ 0 <= e
            /\ At(V, hi) <= V
          BY <1>1, <1>11 DEF At
      <2> HIDE DEF ids, lo, hi, l, e, V
      <2>5. List(new.all_decoder_input_ids, e)
          BY <2>1, <2>2, <2>3, <2>4, SliceAt
      <2> HIDE DEF row, new
      <2>6. Seq2SeqRowFits(new, e)
          BY <2>1, <2>3, <2>5 DEF Seq2SeqRowFits
      <2>. QED  BY <2>6 DEF new, e
  <1>14. Seq2SeqBatchFields \subseteq DOMAIN c
      BY <1>1, <1>5
  <1>. QED  BY <1>5, <1>6, <1>12, <1>13, <1>14 DEF Seq2SeqFits, c

\* ... and a new batch.
LEMMA Seq2SeqBuildFits ==
  ASSUME NEW pb, NEW failed, NEW m \in Nat \ {0}, List(Accepted(pb, failed), m),
         \A k \in 1 .. m : KnownRequest(Accepted(pb, failed)[k])
  PROVE  Seq2SeqFits(Seq2Seq!from_pb(pb, failed).batch, m)
  <1> DEFINE b == Seq2Seq!from_pb(pb, failed).batch  requests == Accepted(pb, failed)
             length == [k \in 1 .. m |-> requests[k].input + requests[k].prefix]
             decoder == [k \in 1 .. m |-> Max({1, requests[k].decoder_prefix})]
             output == [k \in 1 .. m |-> requests[k].output]
             M == Max({length[k] : k \in 1 .. m})
             D == Max({decoder[k] : k \in 1 .. m})
             o == Max({output[k] : k \in 1 .. m})
  <1>1. Seq2Seq!Accepted(pb, failed) = requests
      BY Seq2SeqNames
  <1>2. DOMAIN requests = 1 .. m /\ \A k \in 1 .. m : KnownRequest(requests[k])
      BY DEF List
  <1> HIDE DEF requests
  <1>3. /\ {requests[k].input + requests[k].prefix : k \in DOMAIN requests} = {length[k] : k \in 1 .. m}
        /\ {Max({1, requests[k].decoder_prefix}) : k \in DOMAIN requests} = {decoder[k] : k \in 1 .. m}
        /\ {requests[k].output : k \in DOMAIN requests} = {output[k] : k \in 1 .. m}
      BY <1>2
  <1>4. /\ b.max_input_length = M /\ b.max_decoder_input_length = D /\ b.padding_right_offset = o
        /\ Seq2SeqBatchFields \subseteq DOMAIN b
      <2> HIDE DEF length, decoder, output
      <2>. QED  BY <1>1, <1>3, Seq2SeqSlices DEF Seq2Seq!from_pb, Seq2Seq!MaxOf, Seq2SeqBatchFields
  <1>5. DOMAIN b.rows = 1 .. m /\ List(b.rows, m)
      <2>1. DOMAIN b.rows = 1 .. m
          BY <1>1, <1>2 DEF Seq2Seq!from_pb
      <2>2. b.rows = [k \in 1 .. m |-> b.rows[k]]
          BY <1>1, <1>2, ZenonT(60) DEF Seq2Seq!from_pb
      <2> HIDE DEF b
      <2>. QED  BY <2>1, <2>2 DEF List
  <1>6. ASSUME NEW k \in 1 .. m
        PROVE  LET row == b.rows[k]  r == requests[k] IN
               /\ DOMAIN row = Seq2SeqFields /\ row.request = r
               /\ row.input_length = length[k] /\ row.decoder_input_length = decoder[k]
               /\ row.max_remaining_tokens = output[k]
               /\ row.all_decoder_input_ids
                      = PutAt(Fill(b.max_decoder_input_length + b.padding_right_offset, Pad),
                              -1 - b.padding_right_offset, Seq2Seq!StartCell(r))
      <2>1. Seq2Seq!Pad = Pad
          BY DEF Seq2Seq!Pad, Pad
      <2>. QED  BY <1>1, <1>2, <2>1, Seq2SeqSlices, Zenon DEF Seq2Seq!from_pb, Seq2Seq!MaxOf, Seq2SeqFields
  <1> HIDE DEF b
  <1>7. ASSUME NEW k \in 1 .. m
        PROVE  length[k] \in Nat /\ decoder[k] \in Nat \ {0} /\ output[k] \in Nat
      <2> DEFINE r == requests[k]
      <2>1. KnownRequest(r) /\ length[k] = r.input + r.prefix /\ decoder[k] = Max({1, r.decoder_prefix})
            /\ output[k] = r.output
          BY <1>2
      <2> HIDE DEF r, length, decoder, output
      <2>2. r.input \in Nat /\ r.prefix \in Nat /\ r.decoder_prefix \in Nat /\ r.output \in Nat
          BY <2>1 DEF KnownRequest
      <2>3. Max({1, r.decoder_prefix}) = IF 1 >= r.decoder_prefix THEN 1 ELSE r.decoder_prefix
          BY <2>2, MaxOfTwo
      <2>. QED  BY <2>1, <2>2, <2>3
  <1> HIDE DEF length, decoder, output
  <1>8. Largest(M, b.rows, "input_length")
      <2>1. \A k \in 1 .. m : b.rows[k].input_length = length[k] /\ b.rows[k].input_length \in Nat
          BY <1>6, <1>7
      <2>2. M = Max({b.rows[k].input_length : k \in DOMAIN b.rows})
          BY <1>5, <2>1
      <2> HIDE DEF M
      <2>. QED  BY <1>5, <2>1, <2>2, LargestIs
  <1>9. Largest(D, b.rows, "decoder_input_length")
      <2>1. \A k \in 1 .. m : b.rows[k].decoder_input_length = decoder[k] /\ b.rows[k].decoder_input_length \in Nat
          BY <1>6, <1>7
      <2>2. D = Max({b.rows[k].decoder_input_length : k \in DOMAIN b.rows})
          BY <1>5, <2>1
      <2> HIDE DEF D
      <2>. QED  BY <1>5, <2>1, <2>2, LargestIs
  <1>10. Largest(o, b.rows, "max_remaining_tokens")
      <2>1. \A k \in 1 .. m : b.rows[k].max_remaining_tokens = output[k] /\ b.rows[k].max_remaining_tokens \in Nat
          BY <1>6, <1>7
      <2>2. o = Max({b.rows[k].max_remaining_tokens : k \in DOMAIN b.rows})
          BY <1>5, <2>1
      <2> HIDE DEF o
      <2>. QED  BY <1>5, <2>1, <2>2, LargestIs
  <1> HIDE DEF M, D, o
  <1>11. D \in Nat \ {0} /\ o \in Nat
      <2>1. b.rows[1].decoder_input_length \in Nat \ {0}
          BY <1>6, <1>7
      <2>. QED  BY <1>5, <1>9, <1>10, <2>1 DEF Largest
  <1>12. ASSUME NEW k \in 1 .. m PROVE Seq2SeqRowFits(b.rows[k], D + o)
      <2> DEFINE row == b.rows[k]  r == requests[k]  W == D + o  e == o + 1  s == Fill(W, Pad)
                 v == Seq2Seq!StartCell(r)
      <2>1. /\ DOMAIN row = Seq2SeqFields /\ row.request = r /\ row.decoder_input_length = decoder[k]
            /\ row.all_decoder_input_ids = PutAt(s, -1 - o, v)
          BY <1>4, <1>6
      <2>2. W \in Nat /\ e \in 1 .. W /\ -1 - o = -e
          BY <1>11
      <2>3. decoder[k] \in Nat \ {0} /\ KnownRequest(r)
          BY <1>2, <1>7
      <2> HIDE DEF row, r, W, e, v
      <2>4. List(s, W)
          BY <2>2, FillIs
      <2> HIDE DEF s
      <2>5. List(PutAt(s, -e, v), W)
          BY <2>2, <2>4, PutFromEnd
      <2>6. List(row.all_decoder_input_ids, W)
          BY <2>1, <2>2, <2>5
      <2>7. Seq2SeqRowFits(row, W)
          BY <2>1, <2>3, <2>6 DEF Seq2SeqRowFits
      <2>. QED  BY <2>7 DEF row, W
  <1>. QED  BY <1>4, <1>5, <1>8, <1>9, <1>10, <1>12 DEF Seq2SeqFits, b

-----------------------------------------------------------------------------
(* The lengths of an unpadded batch.                                        *)

\* Each list grows by one.
LEMMA CumulativeSteps ==
  ASSUME NEW n \in Nat, NEW c, NEW s, Cumulative(c, s, n), NEW t, \A k \in 1 .. n : t[k] = s[k] + 1
  PROVE  Cumulative([k \in 1 .. n + 1 |-> c[k] + k - 1], t, n)
  <1> DEFINE d == [k \in 1 .. n + 1 |-> c[k] + k - 1]
  <1>1. \A k \in 1 .. n + 1 : c[k] \in Nat
      BY DEF Cumulative
  <1>2. \A k \in 1 .. n : s[k] \in Nat /\ c[k + 1] = c[k] + s[k]
      BY DEF Cumulative
  <1>3. d \in [1 .. n + 1 -> Nat]
      <2>1. \A k \in 1 .. n + 1 : c[k] + k - 1 \in Nat
          BY <1>1
      <2>. QED  BY <2>1
  <1>4. d[1] = 0
      BY DEF Cumulative
  <1>5. ASSUME NEW k \in 1 .. n PROVE t[k] \in Nat /\ d[k + 1] = d[k] + t[k]
      <2> DEFINE x == c[k]  y == s[k]
      <2>1. k + 1 \in 1 .. n + 1 /\ k \in 1 .. n + 1
          OBVIOUS
      <2>2. x \in Nat /\ y \in Nat /\ c[k + 1] = x + y /\ t[k] = y + 1
          BY <1>1, <1>2, <2>1
      <2>3. d[k + 1] = (x + y) + (k + 1) - 1 /\ d[k] = x + k - 1
          BY <2>1, <2>2
      <2> HIDE DEF x, y, d
      <2>. QED  BY <2>2, <2>3
  <1> HIDE DEF d
  <1>6. Cumulative(d, t, n)
      BY <1>3, <1>4, <1>5 DEF Cumulative
  <1>. QED  BY <1>6 DEF d

\* All but the first element.
LEMMA TailIs ==
  ASSUME NEW n \in Nat, NEW s, List(s, n + 1)
  PROVE  List(Tail(s), n) /\ \A k \in 1 .. n : Tail(s)[k] = s[k + 1]
  <1> DEFINE S == {s[k] : k \in 1 .. n + 1}  t == Tail(s)
  <1>1. DOMAIN s = 1 .. n + 1 /\ s \in [1 .. n + 1 -> S]
      BY DEF List
  <1> HIDE DEF S
  <1>2. s \in Seq(S) /\ Len(s) = n + 1 /\ s # <<>>
      BY <1>1
  <1>3. t \in Seq(S) /\ Len(t) = n /\ \A k \in 1 .. n : t[k] = s[k + 1]
      BY <1>2, HeadTailProperties
  <1> HIDE DEF t
  <1>4. t \in [1 .. n -> S]
      BY <1>3, LenProperties
  <1>. QED  BY <1>3, <1>4 DEF List, t

\* The lists of two batches, one after the other.
LEMMA CumulativeJoins ==
  ASSUME NEW n \in Nat, NEW c, NEW s, Cumulative(c, s, n), NEW m \in Nat, NEW d, NEW t, Cumulative(d, t, m),
         NEW e, List(e, m), \A k \in 1 .. m : e[k] = d[k + 1] + c[n + 1]
  PROVE  /\ Cumulative(c \o e, Joined(s, n, t, m), n + m) /\ (c \o e)[n + m + 1] = c[n + 1] + d[m + 1]
         /\ List(c \o e, n + m + 1)
  <1> DEFINE x == c[n + 1]  u == c \o e  N == n + 1
  <1>1. List(c, N) /\ List(d, m + 1) /\ N \in Nat /\ m + 1 \in Nat
        /\ \A k \in 1 .. N : c[k] \in Nat
      BY DEF Cumulative, List
  <1>4. List(e, m) /\ \A k \in 1 .. m : e[k] = d[k + 1] + x
      OBVIOUS
  <1>5. x \in Nat /\ \A k \in 1 .. m + 1 : d[k] \in Nat
      BY DEF Cumulative
  <1> HIDE DEF N, x
  <1>6. u = Joined(c, N, e, m) /\ List(u, N + m)
      BY <1>1, <1>4, JoinedIs
  <1>7. N = n + 1 /\ N + m = n + m + 1 /\ N \in 1 .. N /\ x = c[N]
      BY DEF N, x
  <1> HIDE DEF u
  <1>8. \A k \in 1 .. n + m + 1 : u[k] = IF k <= N THEN c[k] ELSE d[k - N + 1] + x
      <2> SUFFICES ASSUME NEW k \in 1 .. n + m + 1 PROVE u[k] = IF k <= N THEN c[k] ELSE d[k - N + 1] + x
          OBVIOUS
      <2>1. CASE k <= N
          BY <1>6, <1>7, <2>1 DEF Joined
      <2>2. CASE ~(k <= N)
          <3>1. k - N \in 1 .. m /\ u[k] = e[k - N]
              <4>1. k - N \in 1 .. m /\ k \in 1 .. N + m
                  BY <1>1, <1>7, <2>2
              <4>2. Joined(c, N, e, m)[k] = e[k - N]
                  BY <2>2, <4>1 DEF Joined
              <4>. QED  BY <1>6, <4>1, <4>2
          <3>. QED  BY <1>4, <2>2, <3>1
      <2>. QED  BY <2>1, <2>2
  <1>9. u \in [1 .. n + m + 1 -> Nat]
      <2>1. \A k \in 1 .. n + m + 1 : u[k] \in Nat
          <3> SUFFICES ASSUME NEW k \in 1 .. n + m + 1 PROVE u[k] \in Nat
              OBVIOUS
          <3>1. CASE k <= N
              BY <1>1, <1>8, <3>1
          <3>2. CASE ~(k <= N)
              <4>1. k - N + 1 \in 1 .. m + 1
                  BY <1>7, <3>2
              <4>2. u[k] = d[k - N + 1] + x
                  BY <1>8, <3>2
              <4>. QED  BY <1>5, <4>1, <4>2
          <3>. QED  BY <3>1, <3>2
      <2>. QED  BY <1>6, <1>7, <2>1 DEF List
  <1>10. u[1] = 0
      <2>1. u[1] = c[1]
          BY <1>7, <1>8
      <2>. QED  BY <2>1 DEF Cumulative
  <1>11. ASSUME NEW k \in 1 .. n + m
         PROVE  Joined(s, n, t, m)[k] \in Nat /\ u[k + 1] = u[k] + Joined(s, n, t, m)[k]
      <2>1. CASE k <= n
          <3>1. k \in 1 .. n /\ Joined(s, n, t, m)[k] = s[k] /\ u[k] = c[k] /\ u[k + 1] = c[k + 1]
              BY <1>7, <1>8, <2>1 DEF Joined
          <3>. QED  BY <3>1 DEF Cumulative
      <2>2. CASE ~(k <= n)
          <3> DEFINE j == k - n
          <3>1. j \in 1 .. m /\ Joined(s, n, t, m)[k] = t[j]
              BY <2>2 DEF Joined
          <3>2. t[j] \in Nat /\ d[j + 1] = d[j] + t[j] /\ d[1] = 0
              BY <3>1 DEF Cumulative
          <3>3. ~(k + 1 <= N) /\ (k + 1) - N + 1 = j + 1
              BY <1>7, <2>2
          <3>4. k + 1 \in 1 .. n + m + 1 /\ k \in 1 .. n + m + 1
              OBVIOUS
          <3>5. u[k + 1] = d[j + 1] + x
              BY <1>8, <3>3, <3>4
          <3>6. u[k] = d[j] + x
              <4>1. CASE k <= N
                  <5>1. k = N /\ j = 1
                      BY <1>7, <2>2, <4>1
                  <5>2. u[k] = x
                      BY <1>7, <1>8, <3>4, <4>1, <5>1
                  <5>. QED  BY <1>5, <3>2, <5>1, <5>2
              <4>2. CASE ~(k <= N)
                  <5>1. k - N + 1 = j
                      BY <1>7
                  <5>. QED  BY <1>8, <3>4, <4>2, <5>1
              <4>. QED  BY <4>1, <4>2
          <3>7. d[j] \in Nat
              BY <1>5, <3>1
          <3> HIDE DEF j
          <3>. QED  BY <1>5, <3>1, <3>2, <3>5, <3>6, <3>7
      <2>. QED  BY <2>1, <2>2
  <1>12. u[n + m + 1] = x + d[m + 1]
      <2>1. CASE m = 0
          <3>1. n + m + 1 = N /\ d[m + 1] = 0
              BY <1>7, <2>1 DEF Cumulative
          <3>. QED  BY <1>5, <1>7, <1>8, <3>1
      <2>2. CASE m # 0
          <3>1. ~(n + m + 1 <= N) /\ n + m + 1 - N + 1 = m + 1 /\ n + m + 1 \in 1 .. n + m + 1 /\ m + 1 \in 1 .. m + 1
              BY <1>7, <2>2
          <3> DEFINE h == n + m + 1  y == d[m + 1]
          <3>2. u[h] = d[h - N + 1] + x
              BY <1>8, <3>1
          <3>3. u[h] = y + x
              <4> DEFINE g == h - N + 1  i == m + 1
              <4>1. g = i
                  BY <1>1, <1>7
              <4>2. u[h] = d[g] + x
                  BY <3>2
              <4> HIDE DEF g, i
              <4>3. u[h] = d[i] + x
                  BY <4>1, <4>2
              <4>. QED  BY <4>3 DEF i
          <3>4. y \in Nat
              BY <1>5, <3>1
          <3> HIDE DEF h, y
          <3>5. u[h] = x + y
              BY <1>5, <3>3, <3>4
          <3>. QED  BY <3>5 DEF h, y
      <2>. QED  BY <2>1, <2>2
  <1>13. Cumulative(u, Joined(s, n, t, m), n + m)
      BY <1>9, <1>10, <1>11 DEF Cumulative
  <1>14. List(u, n + m + 1)
      BY <1>6, <1>7
  <1>. QED  BY <1>12, <1>13, <1>14 DEF u, x

\* The slots of one list.
LEMMA SlotsAre ==
  ASSUME NEW n \in Nat, NEW c, NEW s, Cumulative(c, s, n), NEW p \in Nat, NEW past, List(past, p),
         c[n + 1] <= p, NEW k \in 1 .. n
  PROVE  /\ List(Slice(past, c[k], c[k + 1]), s[k]) /\ s[k] \in Nat
         /\ \A j \in 1 .. s[k] : Slice(past, c[k], c[k + 1])[j] = past[c[k] + j]
  <1> DEFINE lo == c[k]  hi == c[k + 1]  m == s[k]  top == c[n + 1]
  <1>1. lo \in Nat /\ hi \in Nat /\ m \in Nat /\ hi = lo + m /\ top \in Nat
      BY DEF Cumulative
  <1>2. hi <= top
      <2>1. k + 1 \in 1 .. n + 1 /\ n + 1 \in k + 1 .. n + 1
          OBVIOUS
      <2>. QED  BY <2>1, CumulativeGrows
  <1>3. lo \in Int /\ hi \in Int /\ lo = At(p, lo) /\ m = At(p, hi) - lo /\ 0 <= lo /\ 0 <= m /\ At(p, hi) <= p
      <2> HIDE DEF lo, hi, m
      <2>1. hi <= p
          BY <1>1, <1>2
      <2>. QED  BY <1>1, <2>1 DEF At
  <1> HIDE DEF lo, hi, m
  <1>4. List(Slice(past, lo, hi), m) /\ \A j \in 1 .. m : Slice(past, lo, hi)[j] = past[lo + j]
      BY <1>3, SliceAt
  <1>. QED  BY <1>1, <1>4 DEF lo, hi, m

\* The last slots of lists that are not empty are different.
LEMMA LastSlots ==
  ASSUME NEW n \in Nat, NEW c, NEW s, Cumulative(c, s, n), \A k \in 1 .. n : s[k] # 0,
         NEW p \in Nat, c[n + 1] <= p
  PROVE  /\ \A k \in 1 .. n : c[k + 1] - 1 \in 0 .. p - 1
         /\ \A j, k \in 1 .. n : c[j + 1] - 1 = c[k + 1] - 1 => j = k
  <1>1. \A k \in 1 .. n + 1 : c[k] \in Nat
      BY DEF Cumulative
  <1>2. \A k \in 1 .. n : s[k] \in Nat \ {0} /\ c[k + 1] = c[k] + s[k]
      BY DEF Cumulative
  <1>3. ASSUME NEW k \in 1 .. n PROVE c[k + 1] - 1 \in 0 .. p - 1
      <2> DEFINE x == c[k]  y == c[k + 1]  z == c[n + 1]
      <2>1. k + 1 \in 1 .. n + 1 /\ n + 1 \in k + 1 .. n + 1 /\ k \in 1 .. n + 1 /\ n + 1 \in 1 .. n + 1
          OBVIOUS
      <2>2. y <= z
          BY <2>1, CumulativeGrows
      <2>3. x \in Nat /\ y \in Nat /\ z \in Nat /\ y > x
          BY <1>1, <1>2, <2>1
      <2>4. z <= p
          OBVIOUS
      <2> HIDE DEF x, y, z
      <2>5. y - 1 \in 0 .. p - 1
          BY <2>2, <2>3, <2>4
      <2>. QED  BY <2>5 DEF y
  <1>4. ASSUME NEW j \in 1 .. n, NEW k \in 1 .. n, j < k PROVE c[j + 1] < c[k + 1]
      <2> DEFINE x == c[j + 1]  y == c[k]  z == c[k + 1]
      <2>1. j + 1 \in 1 .. n + 1 /\ k \in j + 1 .. n + 1 /\ k \in 1 .. n + 1 /\ k + 1 \in 1 .. n + 1
          BY <1>4
      <2>2. x <= y
          BY <2>1, CumulativeGrows
      <2>3. x \in Nat /\ y \in Nat /\ z \in Nat /\ z > y
          BY <1>1, <1>2, <2>1
      <2> HIDE DEF x, y, z
      <2>4. x < z
          BY <2>2, <2>3
      <2>. QED  BY <2>4 DEF x, z
  <1>5. ASSUME NEW j \in 1 .. n, NEW k \in 1 .. n, c[j + 1] - 1 = c[k + 1] - 1 PROVE j = k
      <2>1. c[j + 1] \in Nat /\ c[k + 1] \in Nat
          BY <1>1
      <2>2. c[j + 1] = c[k + 1]
          BY <1>5, <2>1
      <2>3. ~(c[j + 1] < c[k + 1]) /\ ~(c[k + 1] < c[j + 1])
          BY <2>1, <2>2
      <2>. QED  BY <1>4, <2>3
  <1>. QED  BY <1>3, <1>5

FlashFields == {"request", "input_length", "total_length", "position_id", "input_id", "all_input_ids"}
FlashBatchFields == {"cu_seqlens", "max_seqlen", "input_ids", "past", "next_token_chooser", "rows"}

FlashRowFits(row, L) ==
    LET r == row.request IN
    /\ FlashFields \subseteq DOMAIN row /\ KnownRequest(r)
    /\ row.input_length \in Nat \ {0} /\ row.total_length = r.input + r.prefix + r.output
    /\ row.total_length \in Nat /\ row.input_length <= row.total_length /\ List(row.all_input_ids, L)

Lengths(rows) == [k \in DOMAIN rows |-> rows[k].input_length]

FlashFits(b, n) ==
    /\ n \in Nat \ {0} /\ FlashBatchFields \subseteq DOMAIN b /\ List(b.rows, n)
    /\ Largest(b.max_seqlen, b.rows, "input_length") /\ Cumulative(b.cu_seqlens, Lengths(b.rows), n)
    /\ \E L : /\ Largest(L, b.rows, "total_length")
              /\ \A k \in 1 .. n : FlashRowFits(b.rows[k], L)

\* The inputs of a new batch.
FlashNew(b, n) == FlashFits(b, n) /\ List(b.input_ids, b.cu_seqlens[n + 1])

\* A batch with p slots.
FlashCached(b, n, p) ==
    /\ FlashFits(b, n) /\ \A k \in 1 .. n : b.rows[k].position_id = b.rows[k].input_length - 1
    /\ p \in Nat /\ List(b.past, p)
    /\ b.cu_seqlens[n + 1] <= p /\ (n > 1 => p = b.cu_seqlens[n + 1])

\* A request alone is allocated ahead.
FlashAhead(b, n, p) == n = 1 => p >= b.rows[1].total_length

\* The keys and values after a call of the model: those of new inputs ...
LEMMA FlashPrefillPresent ==
  ASSUME NEW b, NEW n, FlashNew(b, n), NEW first \in BOOLEAN, first, NEW for_concat \in BOOLEAN,
         \A k \in 1 .. n : b.rows[k].input_length = b.rows[k].request.input + b.rows[k].request.prefix
  PROVE  \E p \in Nat : /\ List(Flash!Present(b, first, for_concat), p)
                        /\ n > 1 => p = b.cu_seqlens[n + 1]
                        /\ n = 1 => /\ p >= b.cu_seqlens[2] + 1
                                    /\ ~for_concat => p = b.rows[1].total_length
  <1> DEFINE c == b.cu_seqlens  present == Flash!Present(b, first, for_concat)  s == b.input_ids
  <1>1. n \in Nat \ {0} /\ List(b.rows, n) /\ Cumulative(c, Lengths(b.rows), n) /\ List(s, c[n + 1])
        /\ DOMAIN b.rows = 1 .. n
      BY DEF FlashNew, FlashFits, List
  <1>2. Len(b.rows) = n /\ c[n + 1] \in Nat
      BY <1>1, Lists DEF Cumulative
  <1>3. CASE n > 1
      <2>1. present = s
          BY <1>2, <1>3 DEF Flash!Present
      <2>2. ~(n = 1)
          BY <1>3
      <2> HIDE DEF s, present, c
      <2>. QED  BY <1>1, <1>2, <2>1, <2>2 DEF c, present
  <1>4. CASE n = 1
      <2> DEFINE row == b.rows[1]  x == row.input_length  y == IF for_concat THEN 1 ELSE row.request.output
                 d == Flash!PreallocLength(b, for_concat) - Len(s)
      <2>1. c[2] = x /\ x \in Nat
          <3>1. c[1] = 0 /\ c[1 + 1] = c[1] + Lengths(b.rows)[1] /\ Lengths(b.rows)[1] \in Nat
              BY <1>1, <1>4 DEF Cumulative
          <3>2. Lengths(b.rows)[1] = x
              BY <1>1, <1>4 DEF Lengths
          <3>. QED  BY <3>1, <3>2
      <2>2. List(s, x) /\ Len(s) = x
          <3>1. List(s, x)
              BY <1>1, <1>4, <2>1
          <3>. QED  BY <2>1, <3>1, Lists
      <2>3. PICK L : FlashRowFits(row, L)
          BY <1>1 DEF FlashNew, FlashFits
      <2>4. KnownRequest(row.request)
          BY <2>3 DEF FlashRowFits
      <2>5. row.request.output \in Nat \ {0}
          BY <2>4 DEF KnownRequest
      <2>6. y \in Nat \ {0} /\ Flash!PreallocLength(b, for_concat) = x + y
          BY <2>5 DEF Flash!PreallocLength
      <2>7. present = s \o Fill(d, Pad)
          BY <1>2, <1>4, FlashSlices DEF Flash!Present, Flash!Pad, Pad
      <2>8. d = y
          <3> HIDE DEF y, s, x
          <3>. QED  BY <2>1, <2>2, <2>6
      <2>9. row.total_length = row.request.input + row.request.prefix + row.request.output
          BY <2>3 DEF FlashRowFits
      <2>10. x = row.request.input + row.request.prefix
          BY <1>1
      <2>11. ~for_concat => x + y = row.total_length
          BY <2>9, <2>10
      <2> HIDE DEF s, x, y, d, row
      <2>12. List(Fill(y, Pad), y)
          BY <2>6, FillIs
      <2>13. List(s \o Fill(y, Pad), x + y)
          BY <2>1, <2>2, <2>6, <2>12, JoinedIs
      <2>14. x + y \in Nat /\ x + y >= x + 1 /\ ~(n > 1)
          BY <1>4, <2>1, <2>6
      <2> HIDE DEF present
      <2>15. List(present, x + y)
          BY <2>7, <2>8, <2>13
      <2> DEFINE p == x + y
      <2>16. p \in Nat /\ List(present, p) /\ p >= c[2] + 1 /\ (~for_concat => p = b.rows[1].total_length)
          BY <2>1, <2>11, <2>14, <2>15 DEF row
      <2> HIDE DEF p
      <2>. QED  BY <2>14, <2>16 DEF present
  <1>5. n > 1 \/ n = 1
      BY <1>1
  <1>. QED  BY <1>3, <1>4, <1>5

\* ... or those there were, with one more in the last slot of each request.
LEMMA FlashDecodePresent ==
  ASSUME NEW b, NEW n, NEW p, FlashCached(b, n, p), NEW first \in BOOLEAN, ~first, NEW for_concat
  PROVE  List(Flash!Present(b, first, for_concat), p)
  <1> DEFINE c == b.cu_seqlens  s == Lengths(b.rows)  slots == [k \in DOMAIN b.rows |-> c[k + 1] - 1]
  <1>1. /\ n \in Nat \ {0} /\ List(b.rows, n) /\ Cumulative(c, s, n) /\ DOMAIN b.rows = 1 .. n
        /\ p \in Nat /\ List(b.past, p) /\ c[n + 1] <= p
      BY DEF FlashCached, FlashFits, List
  <1>2. \A k \in 1 .. n : s[k] # 0
      BY <1>1 DEF FlashCached, FlashFits, FlashRowFits, Lengths
  <1>3. PICK v : Flash!Present(b, first, for_concat) = PutEach(b.past, slots, v)
      BY FlashSlices DEF Flash!Present
  <1>4. List(slots, n) /\ \A k \in 1 .. n : slots[k] = c[k + 1] - 1
      BY <1>1 DEF List
  <1> HIDE DEF s
  <1>5. /\ \A k \in 1 .. n : c[k + 1] - 1 \in 0 .. p - 1
        /\ \A j, k \in 1 .. n : c[j + 1] - 1 = c[k + 1] - 1 => j = k
      BY <1>1, <1>2, LastSlots
  <1> HIDE DEF slots
  <1>6. /\ \A k \in 1 .. n : slots[k] \in 0 .. p - 1
        /\ \A j, k \in 1 .. n : slots[j] = slots[k] => j = k
      BY <1>4, <1>5
  <1>7. n \in Nat
      BY <1>1
  <1>8. List(PutEach(b.past, slots, v), p)
      BY <1>1, <1>4, <1>6, <1>7, PutEachIs
  <1>. QED  BY <1>3, <1>8

\* A step, for what the model returned.
LEMMA FlashStepFits ==
  ASSUME NEW b, NEW n, FlashFits(b, n), NEW first \in BOOLEAN, NEW for_concat,
         \A k \in 1 .. n : b.rows[k].input_length < b.rows[k].total_length,
         ~first => \A k \in 1 .. n : b.rows[k].position_id = b.rows[k].input_length - 1,
         NEW p \in Nat, List(Flash!Present(b, first, for_concat), p),
         n > 1 => p = b.cu_seqlens[n + 1], n = 1 => p >= b.cu_seqlens[2] + 1
  PROVE  LET c == Flash!generate_token(b, first, for_concat) IN
         \E q : /\ FlashCached(c, n, q) /\ (n = 1 => q = p)
                /\ \A k \in 1 .. n : c.rows[k].total_length = b.rows[k].total_length
  <1> DEFINE c == Flash!generate_token(b, first, for_concat)  cu == b.cu_seqlens  s == Lengths(b.rows)
             present == Flash!Present(b, first, for_concat)  t == Lengths(c.rows)
             new_cu == [k \in 1 .. n + 1 |-> cu[k] + k - 1]
  <1>1. /\ n \in Nat \ {0} /\ n \in Nat /\ FlashBatchFields \subseteq DOMAIN b /\ List(b.rows, n) /\ DOMAIN b.rows = 1 .. n
        /\ Largest(b.max_seqlen, b.rows, "input_length") /\ Cumulative(cu, s, n)
      BY DEF FlashFits, List
  <1>2. PICK L : Largest(L, b.rows, "total_length") /\ \A k \in 1 .. n : FlashRowFits(b.rows[k], L)
      BY DEF FlashFits
  <1>3. Len(b.rows) = n /\ DOMAIN cu = 1 .. n + 1
      BY <1>1, Lists DEF Cumulative
  <1>4. /\ DOMAIN c = DOMAIN b /\ c.max_seqlen = b.max_seqlen + 1 /\ c.cu_seqlens = new_cu
        /\ c.past = IF n > 1 THEN Flash!WithFreeSlots(b, present) ELSE present
      BY <1>1, <1>3 DEF Flash!generate_token, FlashBatchFields
  <1>5. DOMAIN c.rows = 1 .. n /\ List(c.rows, n)
      BY <1>1 DEF Flash!generate_token, FlashBatchFields, List
  <1>6. ASSUME NEW k \in 1 .. n
        PROVE  LET row == b.rows[k]  new == c.rows[k]
                   i == IF first THEN row.input_length ELSE row.position_id + 1 IN
               /\ DOMAIN new = DOMAIN row /\ new.request = row.request
               /\ new.input_length = row.input_length + 1 /\ new.total_length = row.total_length
               /\ new.position_id = i
               /\ new.all_input_ids = PutAt(row.all_input_ids, i, Flash!NextCell(row))
      <2>1. FlashFields \subseteq DOMAIN b.rows[k]
          BY <1>2 DEF FlashRowFits
      <2>. QED  BY <1>1, <2>1, FlashSlices DEF Flash!generate_token, FlashBatchFields, FlashFields
  <1> HIDE DEF c
  <1>7. ASSUME NEW k \in 1 .. n
        PROVE  /\ FlashRowFits(c.rows[k], L) /\ c.rows[k].position_id = c.rows[k].input_length - 1
               /\ c.rows[k].input_length = b.rows[k].input_length + 1 /\ c.rows[k].input_length \in Nat
               /\ c.rows[k].total_length = b.rows[k].total_length
      <2> DEFINE row == b.rows[k]  new == c.rows[k]  x == row.input_length  v == Flash!NextCell(row)
      <2>1. FlashRowFits(row, L) /\ x < row.total_length /\ row.total_length <= L /\ L \in Nat
            /\ (~first => row.position_id = x - 1)
          BY <1>1, <1>2 DEF Largest
      <2>2. x \in Nat \ {0} /\ row.total_length \in Nat
          BY <2>1 DEF FlashRowFits
      <2>3. (IF first THEN x ELSE row.position_id + 1) = x
          <3> HIDE DEF x, row
          <3>. QED  BY <2>1, <2>2
      <2>4. /\ DOMAIN new = DOMAIN row /\ new.request = row.request
            /\ new.input_length = x + 1 /\ new.total_length = row.total_length
            /\ new.position_id = x /\ new.all_input_ids = PutAt(row.all_input_ids, x, v)
          BY <1>6, <2>3
      <2> HIDE DEF row, new, x, v
      <2>5. List(new.all_input_ids, L)
          <3> DEFINE h == x + 1
          <3>1. x \in Int /\ h \in 1 .. L /\ h = (IF x < 0 THEN L + x + 1 ELSE x + 1) /\ List(row.all_input_ids, L)
              BY <2>1, <2>2 DEF FlashRowFits
          <3> HIDE DEF h
          <3>2. List(PutAt(row.all_input_ids, x, v), L)
              BY <2>1, <3>1, PutAtIs
          <3>. QED  BY <2>4, <3>2
      <2>6. new.position_id = new.input_length - 1 /\ new.input_length \in Nat \ {0}
            /\ new.input_length <= new.total_length
          BY <2>1, <2>2, <2>4
      <2>7. FlashRowFits(new, L)
          BY <2>1, <2>4, <2>5, <2>6 DEF FlashRowFits
      <2>. QED  BY <2>4, <2>6, <2>7 DEF new, row, x
  <1>8. Largest(L, c.rows, "total_length")
      BY <1>1, <1>2, <1>5, <1>7 DEF Largest
  <1>9. Largest(b.max_seqlen + 1, c.rows, "input_length")
      <2> DEFINE d == 1
      <2>1. \A k \in 1 .. n : /\ c.rows[k].input_length = b.rows[k].input_length + d
                              /\ c.rows[k].input_length \in Nat
          BY <1>7
      <2>2. d \in Int
          OBVIOUS
      <2> HIDE DEF d
      <2>3. Largest(b.max_seqlen + d, c.rows, "input_length")
          BY <1>1, <1>5, <2>1, <2>2, LargestMoves
      <2>. QED  BY <2>3 DEF d
  <1>10. \A k \in 1 .. n : t[k] = s[k] + 1
      BY <1>1, <1>5, <1>7 DEF Lengths
  <1> HIDE DEF s, t, new_cu
  <1>11. Cumulative(new_cu, t, n)
      BY <1>1, <1>10, CumulativeSteps DEF new_cu
  <1>12. FlashFits(c, n)
      BY <1>1, <1>4, <1>5, <1>7, <1>8, <1>9, <1>11 DEF FlashFits, t
  <1>13. n > 1 => List(c.past, new_cu[n + 1])
      <2> SUFFICES ASSUME n > 1 PROVE List(c.past, new_cu[n + 1])
          OBVIOUS
      <2> DEFINE slots == [k \in DOMAIN b.rows |-> Slice(present, cu[k], cu[k + 1]) \o <<Pad>>]
      <2>1. c.past = FlattenSeq(slots)
          BY <1>4, FlashSlices DEF Flash!WithFreeSlots, Flash!Slots, Flash!Pad, Pad
      <2>2. List(slots, n)
          BY <1>1 DEF List
      <2> HIDE DEF present
      <2>3. ASSUME NEW k \in 1 .. n PROVE List(slots[k], t[k])
          <3> DEFINE u == Slice(present, cu[k], cu[k + 1])  z == <<Pad>>  one == 1
          <3>1. cu[n + 1] <= p /\ List(present, p)
              BY DEF present
          <3>2. List(u, s[k]) /\ s[k] \in Nat
              BY <1>1, <3>1, SlotsAre
          <3>3. List(z, one) /\ one \in Nat
              BY DEF List
          <3>4. slots[k] = u \o z
              BY <1>1
          <3> HIDE DEF u, z, one, slots
          <3>5. List(u \o z, s[k] + one)
              BY <3>2, <3>3, JoinedIs
          <3>. QED  BY <1>10, <3>4, <3>5 DEF one
      <2> HIDE DEF slots
      <2>4. List(FlattenSeq(slots), new_cu[n + 1])
          BY <1>1, <1>11, <2>2, <2>3, FlattenIs
      <2>. QED  BY <2>1, <2>4
  <1>14. n = 1 => List(c.past, p) /\ new_cu[n + 1] <= p
      <2> SUFFICES ASSUME n = 1 PROVE List(c.past, p) /\ new_cu[n + 1] <= p
          OBVIOUS
      <2>1. c.past = present
          BY <1>4
      <2>2. new_cu[2] = cu[2] + 2 - 1 /\ cu[2] \in Nat
          BY <1>1 DEF new_cu, Cumulative
      <2>. QED  BY <2>1, <2>2
  <1> DEFINE q == IF n > 1 THEN new_cu[n + 1] ELSE p
  <1>15. new_cu[n + 1] \in Nat /\ (n > 1 \/ n = 1) /\ ~(n > 1 /\ n = 1)
      BY <1>1, <1>11 DEF Cumulative
  <1>16. q \in Nat /\ List(c.past, q) /\ new_cu[n + 1] <= q /\ (n > 1 => q = new_cu[n + 1]) /\ (n = 1 => q = p)
      BY <1>13, <1>14, <1>15
  <1> HIDE DEF q
  <1>17. FlashCached(c, n, q)
      BY <1>4, <1>7, <1>12, <1>16 DEF FlashCached
  <1>. QED  BY <1>7, <1>16, <1>17 DEF c

\* What a batch of one request allocated ahead is given up.
LEMMA FlashTrims ==
  ASSUME NEW b, NEW n, NEW p, FlashCached(b, n, p)
  PROVE  List(Flash!Trimmed(b), b.cu_seqlens[n + 1]) /\ b.cu_seqlens[n + 1] \in Nat
  <1> DEFINE c == b.cu_seqlens  x == c[n + 1]
  <1>1. /\ n \in Nat \ {0} /\ List(b.rows, n) /\ Cumulative(c, Lengths(b.rows), n)
        /\ p \in Nat /\ List(b.past, p) /\ x <= p /\ (n > 1 => p = x)
      BY DEF FlashCached, FlashFits
  <1>2. Len(b.rows) = n
      BY <1>1, Lists
  <1>3. x \in Nat
      BY <1>1 DEF Cumulative
  <1>4. Len(c) = n + 1
      <2>1. List(c, n + 1)
          BY <1>1 DEF Cumulative, List
      <2>. QED  BY <1>1, <2>1, Lists
  <1>5. Flash!Trimmed(b) = IF n # 1 THEN b.past ELSE Slice(b.past, 0, x)
      BY <1>2, <1>4, FlashSlices DEF Flash!Trimmed
  <1> HIDE DEF x
  <1>6. x \in 0 .. p
      BY <1>1, <1>3
  <1>7. List(Slice(b.past, 0, x), x)
      BY <1>1, <1>6, SliceFirst
  <1>8. n # 1 => p = x
      BY <1>1
  <1>. QED  BY <1>1, <1>3, <1>5, <1>7, <1>8 DEF x

\* The second batch's cumulative lengths, less their leading 0 and each moved past the first batch's
\* total, continue the first batch's (flash_causal_lm.py 216-236).
LEMMA CumulativeFollows ==
  ASSUME NEW n \in Nat, NEW c, NEW s, Cumulative(c, s, n), NEW m \in Nat, NEW d, NEW t, Cumulative(d, t, m)
  PROVE  LET u == c \o [k \in DOMAIN Tail(d) |-> Tail(d)[k] + c[n + 1]] IN
         Cumulative(u, Joined(s, n, t, m), n + m)
  <1> DEFINE e == [k \in DOMAIN Tail(d) |-> Tail(d)[k] + c[n + 1]]
  <1>1. List(d, m + 1)
      BY DEF Cumulative, List
  <1>2. List(Tail(d), m) /\ \A k \in 1 .. m : Tail(d)[k] = d[k + 1]
      BY <1>1, TailIs
  <1>3. DOMAIN Tail(d) = 1 .. m
      BY <1>2, Lists
  <1>4. List(e, m) /\ \A k \in 1 .. m : e[k] = d[k + 1] + c[n + 1]
      BY <1>2, <1>3 DEF List
  <1> HIDE DEF e
  <1>5. Cumulative(c \o e, Joined(s, n, t, m), n + m)
      BY <1>4, CumulativeJoins
  <1>. QED  BY <1>5 DEF e

\* Two batches ...
LEMMA FlashMergeFits ==
  ASSUME NEW a, NEW n, NEW v, FlashCached(a, n, v), NEW b, NEW m, NEW w, FlashCached(b, m, w)
  PROVE  LET c == Flash!concatenate(a, b) IN
         \E p : FlashCached(c, n + m, p) /\ FlashAhead(c, n + m, p)
  <1> DEFINE c == Flash!concatenate(a, b)  rows == a.rows \o b.rows
             L == Max({rows[k].total_length : k \in DOMAIN rows})
             M == Max({a.max_seqlen, b.max_seqlen})
             s == Lengths(a.rows)  t == Lengths(b.rows)  ca == a.cu_seqlens  cb == b.cu_seqlens
             e == [k \in DOMAIN Tail(cb) |-> Tail(cb)[k] + ca[n + 1]]
  <1>1. /\ n \in Nat \ {0} /\ List(a.rows, n) /\ DOMAIN a.rows = 1 .. n /\ Cumulative(ca, s, n)
        /\ m \in Nat \ {0} /\ List(b.rows, m) /\ DOMAIN b.rows = 1 .. m /\ Cumulative(cb, t, m)
        /\ Largest(a.max_seqlen, a.rows, "input_length") /\ Largest(b.max_seqlen, b.rows, "input_length")
      BY DEF FlashCached, FlashFits, List
  <1>2. PICK x : Largest(x, a.rows, "total_length") /\ \A k \in 1 .. n : FlashRowFits(a.rows[k], x)
      BY DEF FlashCached, FlashFits
  <1>3. PICK y : Largest(y, b.rows, "total_length") /\ \A k \in 1 .. m : FlashRowFits(b.rows[k], y)
      BY DEF FlashCached, FlashFits
  <1>4. rows = Joined(a.rows, n, b.rows, m) /\ DOMAIN rows = 1 .. n + m
      <2>1. rows = Joined(a.rows, n, b.rows, m)
          BY <1>1, JoinedIs
      <2>. QED  BY <2>1 DEF Joined
  <1>5. x \in Nat /\ y \in Nat
      BY <1>2, <1>3 DEF Largest
  <1>6. ASSUME NEW k \in 1 .. n + m
        PROVE  /\ \E l \in {x, y} : FlashRowFits(rows[k], l)
               /\ rows[k].position_id = rows[k].input_length - 1
               /\ Joined(s, n, t, m)[k] = rows[k].input_length
      <2>1. CASE k <= n
          <3>1. k \in 1 .. n /\ rows[k] = a.rows[k] /\ Joined(s, n, t, m)[k] = s[k]
              BY <1>1, <1>4, <2>1 DEF Joined
          <3>. QED  BY <1>1, <1>2, <3>1 DEF FlashCached, Lengths
      <2>2. CASE ~(k <= n)
          <3>1. k - n \in 1 .. m /\ rows[k] = b.rows[k - n] /\ Joined(s, n, t, m)[k] = t[k - n]
              BY <1>1, <1>4, <2>2 DEF Joined
          <3>. QED  BY <1>1, <1>3, <3>1 DEF FlashCached, Lengths
      <2>. QED  BY <2>1, <2>2
  <1> HIDE DEF rows
  <1>7. /\ List(c.rows, n + m) /\ DOMAIN c.rows = 1 .. n + m /\ c.max_seqlen = M
        /\ FlashBatchFields \subseteq DOMAIN c /\ c.past = Flash!Trimmed(a) \o Flash!Trimmed(b)
      BY <1>4, FlashSlices DEF Flash!concatenate, Flash!Column, List, rows, FlashBatchFields
  <1>8. c.cu_seqlens = ca \o e
      <2>1. Len(ca) = n + 1
          <3>1. List(ca, n + 1)
              BY <1>1 DEF Cumulative, List
          <3>. QED  BY <1>1, <3>1, Lists
      <2>. QED  BY <2>1, FlashSlices DEF Flash!concatenate, Flash!Column
  <1>9. ASSUME NEW k \in 1 .. n + m
        PROVE  LET row == rows[k]  new == c.rows[k] IN
               /\ DOMAIN new = DOMAIN row /\ new.request = row.request
               /\ new.total_length = row.total_length /\ new.input_length = row.input_length
               /\ new.position_id = row.position_id
               /\ new.all_input_ids = Put(Fill(L, Pad), 0, Len(row.all_input_ids), row.all_input_ids)
      <2>1. FlashFields \subseteq DOMAIN rows[k]
          BY <1>6 DEF FlashRowFits
      <2>2. Flash!Pad = Pad
          BY DEF Flash!Pad, Pad
      <2>. QED  BY <1>4, <2>1, <2>2, FlashSlices DEF Flash!concatenate, Flash!Column, Flash!MaxOf, FlashFields, rows
  <1> HIDE DEF c
  <1>10. n + m \in Nat \ {0} /\ n \in Nat /\ m \in Nat /\ n + m > 1
      BY <1>1
  <1>11. Largest(M, c.rows, "input_length")
      <2>1. \A k \in 1 .. n + m : c.rows[k].input_length = Joined(a.rows, n, b.rows, m)[k].input_length
          BY <1>4, <1>9
      <2>2. /\ DOMAIN a.rows = 1 .. n /\ DOMAIN b.rows = 1 .. m /\ n \in Nat /\ m \in Nat
            /\ Largest(a.max_seqlen, a.rows, "input_length") /\ Largest(b.max_seqlen, b.rows, "input_length")
            /\ DOMAIN c.rows = 1 .. n + m
          BY <1>1, <1>7
      <2> DEFINE i == a.max_seqlen  j == b.max_seqlen  f == a.rows  g == b.rows  h == c.rows
      <2>3. /\ DOMAIN f = 1 .. n /\ DOMAIN g = 1 .. m /\ n \in Nat /\ m \in Nat
            /\ Largest(i, f, "input_length") /\ Largest(j, g, "input_length") /\ DOMAIN h = 1 .. n + m
            /\ \A k \in 1 .. n + m : h[k].input_length = Joined(f, n, g, m)[k].input_length
          BY <2>1, <2>2
      <2> HIDE DEF i, j, f, g, h
      <2>4. Largest(Max({i, j}), h, "input_length")
          BY <2>3, InputsJoin
      <2>. QED  BY <2>4 DEF i, j, h
  <1> DEFINE N == Max({x, y})
  <1>12. Largest(N, c.rows, "total_length") /\ Largest(N, rows, "total_length")
      <2>1. \A k \in 1 .. n + m : c.rows[k].total_length = Joined(a.rows, n, b.rows, m)[k].total_length
          BY <1>4, <1>9
      <2>2. Largest(N, c.rows, "total_length")
          <3> DEFINE f == a.rows  g == b.rows  h == c.rows
          <3>1. /\ n \in Nat /\ m \in Nat /\ DOMAIN f = 1 .. n /\ DOMAIN g = 1 .. m /\ DOMAIN h = 1 .. n + m
                /\ Largest(x, f, "total_length") /\ Largest(y, g, "total_length")
                /\ \A k \in 1 .. n + m : h[k].total_length = Joined(f, n, g, m)[k].total_length
              BY <1>1, <1>2, <1>3, <1>7, <1>10, <2>1
          <3> HIDE DEF f, g, h
          <3>2. Largest(Max({x, y}), h, "total_length")
              BY <3>1, TotalsJoin
          <3>. QED  BY <3>2 DEF h
      <2>3. Largest(N, rows, "total_length")
          BY <1>1, <1>2, <1>3, <1>4, <1>10, TotalsJoin
      <2>. QED  BY <2>2, <2>3
  <1>13. L = N
      <2> HIDE DEF N
      <2>. QED  BY <1>12, LargestOnly
  <1>14. N \in Nat /\ x <= N /\ y <= N
      BY <1>5, MaxOfTwo
  <1> HIDE DEF L, N, M
  <1>15. ASSUME NEW k \in 1 .. n + m
         PROVE  FlashRowFits(c.rows[k], N) /\ c.rows[k].position_id = c.rows[k].input_length - 1
      <2> DEFINE row == rows[k]  new == c.rows[k]  ids == row.all_input_ids
      <2>1. PICK l \in {x, y} : FlashRowFits(row, l)
          BY <1>6
      <2>2. /\ DOMAIN new = DOMAIN row /\ new.request = row.request /\ new.total_length = row.total_length
            /\ new.input_length = row.input_length /\ new.all_input_ids = Put(Fill(L, Pad), 0, Len(ids), ids)
            /\ new.position_id = new.input_length - 1
          BY <1>6, <1>9
      <2>3. List(ids, l) /\ l \in 0 .. N
          BY <1>5, <1>14, <2>1 DEF FlashRowFits
      <2> HIDE DEF ids
      <2>4. List(new.all_input_ids, N)
          BY <1>13, <1>14, <2>2, <2>3, Lengthened
      <2> HIDE DEF row, new
      <2>5. FlashRowFits(new, N)
          BY <2>1, <2>2, <2>4 DEF FlashRowFits
      <2>. QED  BY <2>2, <2>5 DEF new
  <1>16. Cumulative(ca \o e, Joined(s, n, t, m), n + m) /\ (ca \o e)[n + m + 1] = ca[n + 1] + cb[m + 1]
      <2>1. Cumulative(ca, s, n) /\ Cumulative(cb, t, m) /\ n \in Nat /\ m \in Nat \ {0} /\ m \in Nat
          BY <1>1
      <2> DEFINE Q == n + m + 1  P == n + 1
      <2>2. Q = P + m /\ P \in Nat
          BY <2>1
      <2>3. List(cb, m + 1) /\ List(ca, P) /\ ca[n + 1] \in Nat /\ cb[m + 1] \in Nat
          BY <2>1, SMTT(30) DEF Cumulative, List
      <2>4. List(Tail(cb), m) /\ \A k \in 1 .. m : Tail(cb)[k] = cb[k + 1]
          BY <2>1, <2>3, TailIs
      <2>5. DOMAIN Tail(cb) = 1 .. m
          BY <2>1, <2>4, Lists
      <2>6. List(e, m) /\ e[m] = cb[m + 1] + ca[n + 1]
          BY <2>1, <2>4, <2>5 DEF List
      <2> HIDE DEF s, t, ca, cb, Q, P
      <2>7. Cumulative(ca \o e, Joined(s, n, t, m), n + m)
          BY <2>1, CumulativeFollows
      <2> HIDE DEF e
      <2> DEFINE u == ca \o e
      <2>8. u[Q] = e[m]
          <3>1. u = Joined(ca, P, e, m)
              <4>1. P \in Nat /\ m \in Nat /\ List(ca, P) /\ List(e, m)
                  BY <2>1, <2>2, <2>3, <2>6
              <4>. QED  BY <4>1, JoinedIs
          <3>2. Joined(ca, P, e, m)[Q] = e[m]
              BY <2>1, <2>2 DEF Joined
          <3> HIDE DEF u
          <3>. QED  BY <3>1, <3>2
      <2>9. u[Q] = ca[n + 1] + cb[m + 1]
          <3> HIDE DEF u
          <3>. QED  BY <2>3, <2>6, <2>8
      <2>. QED  BY <2>7, <2>9 DEF Q
  <1> HIDE DEF e
  <1>17. Cumulative(c.cu_seqlens, Lengths(c.rows), n + m)
      <2>1. \A k \in 1 .. n + m : Lengths(c.rows)[k] = Joined(s, n, t, m)[k]
          BY <1>6, <1>7, <1>9 DEF Lengths
      <2> HIDE DEF s, t
      <2>. QED  BY <1>8, <1>16, <2>1 DEF Cumulative
  <1>18. FlashFits(c, n + m)
      BY <1>7, <1>10, <1>11, <1>12, <1>15, <1>17 DEF FlashFits
  <1>19. /\ List(Flash!Trimmed(a), ca[n + 1]) /\ ca[n + 1] \in Nat
         /\ List(Flash!Trimmed(b), cb[m + 1]) /\ cb[m + 1] \in Nat
      BY FlashTrims
  <1> DEFINE p == ca[n + 1] + cb[m + 1]
  <1>20. List(c.past, p) /\ p \in Nat /\ p = c.cu_seqlens[n + m + 1]
      <2> DEFINE i == ca[n + 1]  j == cb[m + 1]
      <2>1. i \in Nat /\ j \in Nat /\ List(Flash!Trimmed(a), i) /\ List(Flash!Trimmed(b), j)
          BY <1>19
      <2> HIDE DEF i, j
      <2>2. List(Flash!Trimmed(a) \o Flash!Trimmed(b), i + j) /\ i + j \in Nat
          BY <2>1, JoinedIs
      <2>. QED  BY <1>7, <1>8, <1>16, <2>2 DEF i, j
  <1> HIDE DEF p
  <1>21. p <= p
      BY <1>20
  <1>22. FlashCached(c, n + m, p)
      BY <1>10, <1>15, <1>18, <1>20, <1>21 DEF FlashCached
  <1>23. FlashAhead(c, n + m, p)
      BY <1>10 DEF FlashAhead
  <1>. QED  BY <1>22, <1>23 DEF c

\* One row's cumulative lengths.
LEMMA CumulativeOne ==
  ASSUME NEW x \in Nat, NEW s, s[1] = x
  PROVE  Cumulative(<<0, x>>, s, 1)
  <1>1. <<0, x>> \in [1 .. 1 + 1 -> Nat]
      OBVIOUS
  <1>2. \A k \in 1 .. 1 : k = 1
      OBVIOUS
  <1>. QED  BY <1>1, <1>2 DEF Cumulative

\* ... the rows that are left ...
LEMMA FlashPruneFits ==
  ASSUME NEW b, NEW n, NEW v, FlashCached(b, n, v), NEW done, done # {}, NEW m \in Nat \ {0},
         NEW indices \in [1 .. m -> 1 .. n], indices = KeepIndices(b, done)
  PROVE  LET c == Flash!prune(b, done) IN
         \E p : FlashCached(c, m, p) /\ FlashAhead(c, m, p)
  <1> DEFINE c == Flash!prune(b, done)  kept == Pick(b.rows, indices)  cu == b.cu_seqlens
             L == Max({kept[k].total_length : k \in DOMAIN kept})
             M == Max({kept[k].input_length : k \in DOMAIN kept})
             s == [k \in 1 .. m |-> Slice(b.past, cu[indices[k]], cu[indices[k] + 1])]
             sliced == FlattenSeq(s)  len == Lengths(kept)  d == CumSum(len)
  <1>1. /\ n \in Nat \ {0} /\ n \in Nat /\ List(b.rows, n) /\ DOMAIN b.rows = 1 .. n /\ v \in Nat
        /\ Cumulative(cu, Lengths(b.rows), n) /\ List(b.past, v) /\ cu[n + 1] <= v
        /\ FlashBatchFields \subseteq DOMAIN b
      BY DEF FlashCached, FlashFits, List
  <1>2. PICK l : Largest(l, b.rows, "total_length") /\ \A k \in 1 .. n : FlashRowFits(b.rows[k], l)
      BY DEF FlashCached, FlashFits
  <1>3. Flash!KeepIndices(b, done) = indices /\ Flash!Pick(b.rows, indices) = kept
      BY FlashNames
  <1>4. DOMAIN kept = 1 .. m /\ \A k \in 1 .. m : kept[k] = b.rows[indices[k]] /\ indices[k] \in 1 .. n
      BY DEF Pick
  <1>5. l \in Nat /\ \A k \in 1 .. m : /\ FlashRowFits(kept[k], l) /\ kept[k].total_length <= l
                                       /\ kept[k].total_length \in Nat /\ kept[k].input_length \in Nat
                                       /\ kept[k].position_id = kept[k].input_length - 1
      <2>1. l \in Nat /\ \A k \in 1 .. n : b.rows[k].total_length <= l
          BY <1>1, <1>2 DEF Largest
      <2>2. \A k \in 1 .. n : b.rows[k].position_id = b.rows[k].input_length - 1
          BY DEF FlashCached
      <2> SUFFICES ASSUME NEW k \in 1 .. m
                   PROVE  /\ FlashRowFits(kept[k], l) /\ kept[k].total_length <= l
                          /\ kept[k].total_length \in Nat /\ kept[k].input_length \in Nat
                          /\ kept[k].position_id = kept[k].input_length - 1
          BY <2>1
      <2> DEFINE j == indices[k]  row == b.rows[j]
      <2>3. j \in 1 .. n /\ kept[k] = row
          BY <1>4
      <2> HIDE DEF kept, j
      <2>4. FlashRowFits(row, l) /\ row.total_length <= l /\ row.position_id = row.input_length - 1
          BY <1>2, <2>1, <2>2, <2>3
      <2> HIDE DEF row
      <2>5. row.total_length \in Nat /\ row.input_length \in Nat
          BY <2>4 DEF FlashRowFits
      <2>. QED  BY <2>3, <2>4, <2>5
  <1>6. List(kept, m) /\ Len(kept) = m
      <2>1. List(kept, m)
          BY <1>4 DEF List, Pick
      <2>. QED  BY <2>1, Lists
  <1>7. \A k \in 1 .. m : List(s[k], len[k])
      <2> SUFFICES ASSUME NEW k \in 1 .. m PROVE List(s[k], len[k])
          OBVIOUS
      <2> DEFINE i == indices[k]  ls == Lengths(b.rows)
      <2>1. i \in 1 .. n /\ len[k] = ls[i]
          BY <1>1, <1>4 DEF Lengths
      <2>2. s[k] = Slice(b.past, cu[i], cu[i + 1])
          OBVIOUS
      <2> HIDE DEF i, ls, len, s, cu
      <2>3. List(Slice(b.past, cu[i], cu[i + 1]), ls[i])
          BY <1>1, <2>1, SlotsAre DEF ls
      <2>. QED  BY <2>1, <2>2, <2>3
  <1>8. List(len, m) /\ \A k \in 1 .. m : len[k] \in Nat /\ len[k] = kept[k].input_length
      BY <1>4, <1>5 DEF Lengths, List
  <1>9. Cumulative(d, len, m)
      <2> HIDE DEF len
      <2>. QED  BY <1>8, CumSumIs
  <1>10. List(s, m)
      BY DEF List
  <1> HIDE DEF len, d, s
  <1>11. List(sliced, d[m + 1]) /\ d[m + 1] \in Nat
      <2>1. List(sliced, d[m + 1])
          BY <1>7, <1>9, <1>10, FlattenIs
      <2>. QED  BY <1>9, <2>1 DEF Cumulative
  <1> HIDE DEF kept
  <1>12. /\ DOMAIN c.rows = 1 .. m /\ List(c.rows, m) /\ c.max_seqlen = M
         /\ FlashBatchFields \subseteq DOMAIN c
      <2>1. DOMAIN c.rows = 1 .. m /\ List(c.rows, m)
          BY <1>1, <1>3, <1>4 DEF Flash!prune, Flash!Column, List, FlashBatchFields
      <2>2. c.max_seqlen = M
          BY <1>1, <1>3, FlashSlices DEF Flash!prune, Flash!MaxOf, FlashBatchFields
      <2>3. DOMAIN c = DOMAIN b
          BY DEF Flash!prune
      <2>. QED  BY <1>1, <2>1, <2>2, <2>3
  <1>13. ASSUME NEW k \in 1 .. m
        PROVE  LET row == kept[k]  new == c.rows[k] IN
               /\ DOMAIN new = DOMAIN row /\ new.request = row.request
               /\ new.total_length = row.total_length /\ new.input_length = row.input_length
               /\ new.position_id = row.position_id
               /\ new.all_input_ids = Slice(row.all_input_ids, 0, L)
      <2>1. FlashFields \subseteq DOMAIN kept[k]
          BY <1>5 DEF FlashRowFits
      <2>2. c.rows[k] = [kept[k] EXCEPT !.all_input_ids = Slice(kept[k].all_input_ids, 0, L)]
          <3>1. Flash!MaxOf(kept, LAMBDA row : row.total_length) = L
              BY FlashSlices DEF Flash!MaxOf
          <3> HIDE DEF L
          <3>2. c.rows[k] = [kept[k] EXCEPT !.all_input_ids = Flash!Slice(kept[k].all_input_ids, 0, L)]
              BY <1>1, <1>3, <1>4, <3>1 DEF Flash!prune, Flash!Column, FlashBatchFields
          <3> HIDE DEF c
          <3>. QED  BY <3>2, FlashSlices
      <2> HIDE DEF c, L
      <2>. QED  BY <2>1, <2>2 DEF FlashFields
  <1>14. Flash!FlattenSeq(Flash!Column(indices, LAMBDA k : Flash!Slots(b, b.past, k))) = sliced
      <2>1. Flash!Column(indices, LAMBDA k : Flash!Slots(b, b.past, k)) = s
          BY FlashSlices DEF Flash!Column, Flash!Slots, s
      <2>. QED  BY <2>1, FlashSlices
  <1> HIDE DEF sliced
  <1>15. m > 1 => c.past = sliced /\ c.cu_seqlens = d
      <2> SUFFICES ASSUME m > 1 PROVE c.past = sliced /\ c.cu_seqlens = d
          OBVIOUS
      <2>1. Len(kept) > 1
          BY <1>6
      <2>2. c.past = sliced
          BY <1>1, <1>3, <1>14, <2>1 DEF Flash!prune, FlashBatchFields
      <2>3. Flash!Column(kept, LAMBDA row : row.position_id + 1) = len
          <3>1. ASSUME NEW k \in 1 .. m PROVE kept[k].position_id + 1 = kept[k].input_length
              <4> DEFINE x == kept[k].input_length  y == kept[k].position_id
              <4>1. x \in Nat /\ y = x - 1
                  BY <1>5
              <4> HIDE DEF x, y
              <4>2. y + 1 = x
                  BY <4>1
              <4>. QED  BY <4>2 DEF x, y
          <3>2. [k \in 1 .. m |-> kept[k].position_id + 1] = [k \in 1 .. m |-> kept[k].input_length]
              BY <3>1
          <3>. QED  BY <1>4, <3>2 DEF Flash!Column, len, Lengths
      <2>4. c.cu_seqlens = d
          BY <1>1, <1>3, <2>1, <2>3, FlashSlices DEF Flash!prune, FlashBatchFields, d
      <2>. QED  BY <2>2, <2>4
  <1>16. m = 1 => /\ c.past = Put(Fill(kept[1].total_length, Pad), 0, Len(sliced), sliced)
                  /\ c.cu_seqlens = <<0, kept[1].input_length>>
      <2> SUFFICES ASSUME m = 1 PROVE /\ c.past = Put(Fill(kept[1].total_length, Pad), 0, Len(sliced), sliced)
                                      /\ c.cu_seqlens = <<0, kept[1].input_length>>
          OBVIOUS
      <2>1. ~(Len(kept) > 1)
          BY <1>6
      <2>2. c.cu_seqlens = <<0, kept[1].input_length>>
          BY <1>1, <1>3, <2>1 DEF Flash!prune, FlashBatchFields
      <2>3. Flash!Pad = Pad
          BY DEF Flash!Pad, Pad
      <2>4. c.past = Put(Fill(kept[1].total_length, Pad), 0, Len(sliced), sliced)
          BY <1>1, <1>3, <1>14, <2>1, <2>3, FlashSlices DEF Flash!prune, FlashBatchFields
      <2>. QED  BY <2>2, <2>4
  <1> HIDE DEF c
  <1>17. Largest(M, kept, "input_length") /\ Largest(L, kept, "total_length")
      <2>1. Largest(M, kept, "input_length")
          <3>1. DOMAIN kept = 1 .. m /\ \A k \in 1 .. m : kept[k].input_length \in Nat
              BY <1>4, <1>5
          <3>. QED  BY <3>1, LongestInput
      <2>2. Largest(L, kept, "total_length")
          <3>1. DOMAIN kept = 1 .. m /\ \A k \in 1 .. m : kept[k].total_length \in Nat
              BY <1>4, <1>5
          <3>. QED  BY <3>1, LongestTotal
      <2>. QED  BY <2>1, <2>2
  <1> HIDE DEF M, L
  <1>18. Largest(M, c.rows, "input_length") /\ Largest(L, c.rows, "total_length")
      <2>1. \A k \in 1 .. m : /\ c.rows[k].input_length = kept[k].input_length
                              /\ c.rows[k].total_length = kept[k].total_length
          BY <1>13
      <2>. QED  BY <1>4, <1>12, <1>17, <2>1 DEF Largest
  <1>19. L \in 0 .. l
      BY <1>4, <1>5, <1>17 DEF Largest
  <1>20. ASSUME NEW k \in 1 .. m
         PROVE  FlashRowFits(c.rows[k], L) /\ c.rows[k].position_id = c.rows[k].input_length - 1
      <2> DEFINE row == kept[k]  new == c.rows[k]
      <2>1. FlashRowFits(row, l)
          BY <1>5
      <2>2. /\ DOMAIN new = DOMAIN row /\ new.request = row.request /\ new.total_length = row.total_length
            /\ new.input_length = row.input_length /\ new.all_input_ids = Slice(row.all_input_ids, 0, L)
            /\ new.position_id = new.input_length - 1
          BY <1>5, <1>13
      <2> HIDE DEF row, new
      <2>3. List(row.all_input_ids, l)
          BY <2>1 DEF FlashRowFits
      <2>4. List(new.all_input_ids, L)
          BY <1>5, <1>19, <2>2, <2>3, SliceFirst
      <2>5. FlashRowFits(new, L)
          BY <2>1, <2>2, <2>4 DEF FlashRowFits
      <2>. QED  BY <2>2, <2>5 DEF new
  <1>21. \A k \in 1 .. m : Lengths(c.rows)[k] = len[k]
      BY <1>8, <1>12, <1>13 DEF Lengths
  <1>22. CASE m > 1
      <2>1. Cumulative(c.cu_seqlens, Lengths(c.rows), m)
          BY <1>9, <1>15, <1>21, <1>22 DEF Cumulative
      <2> DEFINE p == d[m + 1]
      <2>2. p \in Nat /\ List(c.past, p) /\ p = c.cu_seqlens[m + 1] /\ p <= p
          BY <1>11, <1>15, <1>22
      <2> HIDE DEF p
      <2>3. FlashCached(c, m, p)
          BY <1>12, <1>18, <1>20, <2>1, <2>2 DEF FlashCached, FlashFits
      <2>4. FlashAhead(c, m, p)
          BY <1>22 DEF FlashAhead
      <2>. QED  BY <2>3, <2>4 DEF c
  <1>23. CASE m = 1
      <2> DEFINE x == kept[1].input_length  p == kept[1].total_length
      <2>1. x \in Nat /\ p \in Nat /\ x <= p /\ c.cu_seqlens = <<0, x>>
          BY <1>5, <1>16, <1>23 DEF FlashRowFits
      <2>2. Lengths(c.rows)[1] = x /\ c.rows[1].total_length = p
          BY <1>8, <1>13, <1>21, <1>23
      <2>3. c.past = Put(Fill(p, Pad), 0, Len(sliced), sliced)
          BY <1>16, <1>23
      <2> HIDE DEF x, p
      <2>4. Cumulative(c.cu_seqlens, Lengths(c.rows), m) /\ c.cu_seqlens[m + 1] = x
          BY <1>23, <2>1, <2>2, CumulativeOne
      <2> DEFINE q == d[m + 1]  z == 0  t == Fill(p, Pad)
      <2>5. q \in Nat /\ List(sliced, q) /\ Len(sliced) = q
          BY <1>11, Lists
      <2>6. z \in Int /\ q \in Int /\ List(t, p)
          BY <2>1, <2>5, FillIs
      <2> HIDE DEF q, z, t
      <2>7. List(Put(t, z, q, sliced), p)
          BY <2>1, <2>5, <2>6, PutLength
      <2>8. List(c.past, p)
          BY <2>3, <2>5, <2>7 DEF t, z
      <2>9. FlashCached(c, m, p)
          BY <1>12, <1>18, <1>20, <1>23, <2>1, <2>4, <2>8 DEF FlashCached, FlashFits
      <2>10. FlashAhead(c, m, p)
          BY <2>1, <2>2 DEF FlashAhead
      <2>. QED  BY <2>9, <2>10 DEF c
  <1>. QED  BY <1>22, <1>23

\* The tokens of a request that are used.
LEMMA TokenizedInputIs ==
  ASSUME NEW r, KnownRequest(r), NEW M \in Nat, r.input <= M
  PROVE  List(Flash!TokenizedInput(r, M), r.input)
  <1> DEFINE n == Min({r.text, M})  lo == r.text - n + 1  t == Cells(r.id, lo, r.text)  i == r.input
  <1>1. r.text \in Nat /\ i \in Nat \ {0} /\ i <= r.text
      BY DEF KnownRequest
  <1>2. n = IF r.text <= M THEN r.text ELSE M
      BY <1>1 DEF Min
  <1>3. Flash!TokenizedInput(r, M) = IF i < r.text THEN Slice(t, -i, Len(t)) ELSE t
      BY FlashSlices DEF Flash!TokenizedInput, Flash!Truncated
  <1>4. /\ lo \in Int /\ r.text \in Int /\ lo <= r.text + 1 /\ r.text - lo + 1 = n /\ n \in Nat
        /\ i \in 1 .. n /\ (~(i < r.text) => n = i)
      BY <1>1, <1>2
  <1> HIDE DEF n, lo
  <1>5. List(t, n)
      <2>1. List(t, r.text - lo + 1)
          BY <1>4, CellsIs
      <2>. QED  BY <1>4, <2>1
  <1> HIDE DEF t, i
  <1>6. CASE i < r.text
      BY <1>3, <1>4, <1>5, <1>6, SliceLast DEF i
  <1>7. CASE ~(i < r.text)
      BY <1>3, <1>4, <1>5, <1>7 DEF i
  <1>. QED  BY <1>6, <1>7

\* What a request adds to the batch, in its row and in the input.
LEMMA FlashInputIs ==
  ASSUME NEW r, KnownRequest(r), NEW M \in Nat, r.input + r.prefix <= M, NEW L \in Nat, r.input + r.prefix <= L
  PROVE  /\ List(Flash!AllInputIds(r, M, L), L)
         /\ List(Flash!InputIds(r, M, L), r.input + r.prefix)
  <1> DEFINE i == r.input  f == r.prefix  h == r.input + r.prefix  t == Fill(L, Pad)
             v == Flash!TokenizedInput(r, M)  a == Flash!AllInputIds(r, M, L)
  <1>1. /\ i \in Nat /\ f \in Nat /\ f \in Int /\ h \in Int /\ h \in 0 .. L /\ i <= M
        /\ (f = 0 => h = i) /\ f = r.prefix
      BY DEF KnownRequest
  <1>2. List(v, i)
      BY <1>1, TokenizedInputIs
  <1>3. a = Put(t, f, h, v)
      BY FlashSlices DEF Flash!AllInputIds, Flash!Pad, Pad
  <1>4. Flash!InputIds(r, M, L) = IF f = 0 THEN v ELSE Slice(a, 0, h)
      BY FlashSlices DEF Flash!InputIds
  <1>5. List(t, L)
      BY FillIs
  <1> HIDE DEF a, t, v, i, f, h
  <1>6. List(a, L)
      BY <1>1, <1>2, <1>3, <1>5, PutLength
  <1>7. List(Slice(a, 0, h), h)
      BY <1>1, <1>6, SliceFirst
  <1>8. List(Flash!InputIds(r, M, L), h)
      BY <1>1, <1>2, <1>4, <1>7
  <1>. QED  BY <1>6, <1>8 DEF a, h

\* The prefixes change no length.
LEMMA InsertedIs ==
  ASSUME NEW n \in Nat, NEW e, List(e, n), NEW requests, NEW c
  PROVE  List(Flash!InsertPrefixes(e, requests, c), n)
  <1>1. DOMAIN e = 1 .. n
      BY DEF List
  <1>. QED  BY <1>1 DEF Flash!InsertPrefixes, List

\* A new batch.
LEMMA FlashBuildFits ==
  ASSUME NEW pb, NEW failed, NEW m \in Nat \ {0}, List(Accepted(pb, failed), m),
         \A k \in 1 .. m : KnownRequest(Accepted(pb, failed)[k])
  PROVE  LET b == Flash!from_pb(pb, failed).batch IN
         /\ FlashNew(b, m)
         /\ \A k \in 1 .. m : b.rows[k].input_length = b.rows[k].request.input + b.rows[k].request.prefix
  <1> DEFINE b == Flash!from_pb(pb, failed).batch  requests == Accepted(pb, failed)
             i == [k \in 1 .. m |-> requests[k].input + requests[k].prefix]
             x == [k \in 1 .. m |-> requests[k].input + requests[k].prefix + requests[k].output]
             L == Max({x[k] : k \in 1 .. m})  M == Max({i[k] : k \in 1 .. m})
             s == [k \in 1 .. m |-> Flash!InputIds(requests[k], M, L)]
  <1>1. Flash!Accepted(pb, failed) = requests
      BY FlashNames
  <1>2. DOMAIN requests = 1 .. m /\ \A k \in 1 .. m : KnownRequest(requests[k])
      BY DEF List
  <1>3. ASSUME NEW k \in 1 .. m
        PROVE  i[k] \in Nat \ {0} /\ x[k] \in Nat /\ i[k] <= x[k]
      <2> DEFINE r == requests[k]
      <2>1. r.input \in Nat \ {0} /\ r.prefix \in Nat /\ r.output \in Nat
          BY <1>2 DEF KnownRequest
      <2>. QED  BY <2>1
  <1> HIDE DEF requests
  <1>4. b.cu_seqlens = CumSum(i)
      <2>1. Flash!Column(requests, LAMBDA r : r.input + r.prefix) = i
          BY <1>2 DEF Flash!Column
      <2> HIDE DEF i
      <2>. QED  BY <1>1, <2>1, FlashSlices DEF Flash!from_pb
  <1>20. Flash!MaxOf(requests, LAMBDA r : r.input + r.prefix) = M
      BY <1>2, FlashSlices DEF Flash!MaxOf
  <1>21. Flash!MaxOf(requests, LAMBDA r : r.input + r.prefix + r.output) = L
      BY <1>2, FlashSlices DEF Flash!MaxOf
  <1> HIDE DEF M, L
  <1>5. b.input_ids = Flash!InsertPrefixes(FlattenSeq(s), requests, CumSum(i))
      <2> DEFINE embeds == [k \in DOMAIN requests |-> Flash!InputIds(requests[k], M, L)]
                 lengths == [k \in DOMAIN requests |-> requests[k].input + requests[k].prefix]
      <2>1. embeds = s /\ lengths = i
          BY <1>2
      <2>2. Flash!FlattenSeq(s) = FlattenSeq(s) /\ Flash!CumSum(i) = CumSum(i)
          BY FlashSlices
      <2>3. /\ Flash!Max({requests[k].input + requests[k].prefix : k \in DOMAIN requests}) = M
            /\ Flash!Max({requests[k].input + requests[k].prefix + requests[k].output : k \in DOMAIN requests}) = L
          BY <1>20, <1>21 DEF Flash!MaxOf
      <2>4. b.input_ids = Flash!InsertPrefixes(Flash!FlattenSeq(embeds), requests, Flash!CumSum(lengths))
          BY <1>1, <2>3 DEF Flash!from_pb, Flash!Column, Flash!MaxOf
      <2> HIDE DEF s, i, b, embeds, lengths
      <2>. QED  BY <2>1, <2>2, <2>4
  <1>6. b.max_seqlen = M
      BY <1>1, <1>20 DEF Flash!from_pb
  <1>7. FlashBatchFields \subseteq DOMAIN b
      BY DEF Flash!from_pb, FlashBatchFields
  <1>8. DOMAIN b.rows = 1 .. m /\ List(b.rows, m)
      BY <1>1, <1>2 DEF Flash!from_pb, List
  <1>9. ASSUME NEW k \in 1 .. m
        PROVE  LET row == b.rows[k]  r == requests[k] IN
               /\ DOMAIN row = FlashFields /\ row.request = r /\ row.input_length = i[k] /\ row.total_length = x[k]
               /\ row.all_input_ids = Flash!AllInputIds(r, M, L)
      BY <1>1, <1>2, <1>20, <1>21 DEF Flash!from_pb, FlashFields
  <1> HIDE DEF b
  <1>10. Cumulative(b.cu_seqlens, i, m)
      <2>1. List(i, m) /\ \A k \in 1 .. m : i[k] \in Nat
          BY <1>3 DEF List
      <2> HIDE DEF i
      <2>. QED  BY <1>4, <2>1, CumSumIs
  <1>11. List(s, m)
      BY DEF List
  <1>12. {i[k] : k \in 1 .. m} = {b.rows[k].input_length : k \in DOMAIN b.rows}
         /\ {x[k] : k \in 1 .. m} = {b.rows[k].total_length : k \in DOMAIN b.rows}
      <2>1. DOMAIN b.rows = 1 .. m /\ \A k \in 1 .. m : i[k] = b.rows[k].input_length /\ x[k] = b.rows[k].total_length
          BY <1>8, <1>9
      <2> HIDE DEF i, x
      <2>2. {i[k] : k \in 1 .. m} = {b.rows[k].input_length : k \in DOMAIN b.rows}
          BY <2>1
      <2>3. {x[k] : k \in 1 .. m} = {b.rows[k].total_length : k \in DOMAIN b.rows}
          BY <2>1
      <2>. QED  BY <2>2, <2>3
  <1> HIDE DEF i, x, s
  <1>14. Largest(M, b.rows, "input_length")
      <2>1. \A k \in 1 .. m : b.rows[k].input_length \in Nat
          BY <1>3, <1>9
      <2>2. M = Max({b.rows[k].input_length : k \in DOMAIN b.rows})
          BY <1>12 DEF M, L
      <2>. QED  BY <1>8, <2>1, <2>2, LargestIs
  <1>15. Largest(L, b.rows, "total_length") /\ L \in Nat
      <2>1. \A k \in 1 .. m : b.rows[k].total_length \in Nat
          BY <1>3, <1>9
      <2>2. L = Max({b.rows[k].total_length : k \in DOMAIN b.rows})
          BY <1>12 DEF M, L
      <2>3. Largest(L, b.rows, "total_length")
          BY <1>8, <2>1, <2>2, LargestIs
      <2>. QED  BY <2>3 DEF Largest
  <1>19. \A k \in 1 .. m : i[k] <= M /\ M \in Nat /\ i[k] <= L /\ L \in Nat
      <2> SUFFICES ASSUME NEW k \in 1 .. m PROVE i[k] <= M /\ M \in Nat /\ i[k] <= L /\ L \in Nat
          OBVIOUS
      <2>1. k \in DOMAIN b.rows /\ b.rows[k].input_length = i[k] /\ b.rows[k].total_length = x[k]
          BY <1>8, <1>9
      <2>2. i[k] <= M /\ M \in Nat /\ x[k] <= L /\ L \in Nat
          BY <1>14, <1>15, <2>1 DEF Largest
      <2>. QED  BY <1>3, <2>2
  <1>13. List(b.input_ids, b.cu_seqlens[m + 1])
      <2>1. \A k \in 1 .. m : List(s[k], i[k])
          <3> SUFFICES ASSUME NEW k \in 1 .. m PROVE List(s[k], i[k])
              OBVIOUS
          <3>1. KnownRequest(requests[k]) /\ i[k] = requests[k].input + requests[k].prefix
                /\ s[k] = Flash!InputIds(requests[k], M, L)
              BY <1>2 DEF i, s
          <3>2. i[k] <= M /\ M \in Nat /\ i[k] <= L /\ L \in Nat
              BY <1>19
          <3>. QED  BY <3>1, <3>2, FlashInputIs
      <2>2. List(FlattenSeq(s), b.cu_seqlens[m + 1])
          BY <1>10, <1>11, <2>1, FlattenIs
      <2>3. b.cu_seqlens[m + 1] \in Nat
          BY <1>10 DEF Cumulative
      <2>. QED  BY <1>5, <2>2, <2>3, InsertedIs
  <1>16. ASSUME NEW k \in 1 .. m
         PROVE  /\ FlashRowFits(b.rows[k], L)
                /\ b.rows[k].input_length = b.rows[k].request.input + b.rows[k].request.prefix
      <2> DEFINE row == b.rows[k]  r == requests[k]
      <2>1. /\ DOMAIN row = FlashFields /\ row.request = r /\ row.input_length = i[k] /\ row.total_length = x[k]
            /\ row.all_input_ids = Flash!AllInputIds(r, M, L)
          BY <1>9
      <2>2. KnownRequest(r)
          BY <1>2
      <2>3. i[k] = r.input + r.prefix /\ x[k] = r.input + r.prefix + r.output
          BY DEF i, x
      <2>4. /\ i[k] \in Nat \ {0} /\ x[k] \in Nat /\ i[k] <= x[k] /\ L \in Nat /\ M \in Nat /\ i[k] <= M /\ i[k] <= L
          BY <1>3, <1>19
      <2> HIDE DEF r, row
      <2>8. List(row.all_input_ids, L)
          BY <2>1, <2>2, <2>3, <2>4, FlashInputIs
      <2>9. FlashRowFits(row, L)
          BY <2>1, <2>2, <2>3, <2>4, <2>8 DEF FlashRowFits
      <2>10. row.input_length = row.request.input + row.request.prefix
          BY <2>1, <2>3
      <2>. QED  BY <2>9, <2>10 DEF row
  <1>17. Cumulative(b.cu_seqlens, Lengths(b.rows), m)
      <2>1. \A k \in 1 .. m : Lengths(b.rows)[k] = i[k]
          BY <1>8, <1>9 DEF Lengths
      <2>. QED  BY <1>10, <2>1 DEF Cumulative
  <1>18. FlashNew(b, m)
      BY <1>6, <1>7, <1>8, <1>13, <1>14, <1>15, <1>16, <1>17 DEF FlashNew, FlashFits
  <1>. QED  BY <1>16, <1>18 DEF b

-----------------------------------------------------------------------------
(* The steps of the service.                                                *)

Kinds == {"causal", "seq2seq", "flash", "paged"}

NoneAtLimit(b) == \A k \in DOMAIN b.rows : ~AtLimit(b.rows[k])

\* Pruning a batch of which some request is left.
LEMMA PruneOk ==
  ASSUME kind \in Kinds, NEW b, BatchOk(b), NEW done \in Completions(b), ~(RequestsOf(b) \subseteq done)
  PROVE  BatchOk(prune(b, done)) /\ NoneAtLimit(prune(b, done))
  <1>1. PICK n \in Nat \ {0} : OfRows(b, n) /\ \E G \in [1 .. n -> Nat] : Follows(b, G)
      BY DEF BatchOk
  <1>2. PICK G \in [1 .. n -> Nat] : Follows(b, G)
      BY <1>1
  <1>3. DOMAIN b.rows = 1 .. n /\ n \in Nat /\ OfRows(b, n)
      BY <1>1 DEF OfRows, List
  <1>4. \A k \in 1 .. n : AtLimit(b.rows[k]) => b.rows[k].request.id \in done
      BY <1>3 DEF Completions
  <1>5. CASE done = {}
      <2>1. prune(b, done) = b
          BY <1>5 DEF Kinds, prune, Causal!prune, Seq2Seq!prune, Flash!prune, Paged!prune
      <2>2. NoneAtLimit(b)
          BY <1>3, <1>4, <1>5 DEF NoneAtLimit
      <2>. QED  BY <2>1, <2>2
  <1>6. CASE done # {}
      <2> DEFINE o == KeepIndices(b, done)  c == prune(b, done)
      <2>1. Staying(b, done) # {}
          BY <1>3 DEF RequestsOf, Staying
      <2>2. PICK m \in Nat :
                /\ m = 0 <=> Staying(b, done) = {}
                /\ o \in [1 .. m -> 1 .. n] /\ \A k \in 1 .. m : o[k] \in Staying(b, done)
          BY <1>3, KeepIndicesAre
      <2>3. /\ m # 0 /\ o = KeepIndices(b, done)
            /\ \A k \in 1 .. m : o[k] \in 1 .. n /\ b.rows[o[k]].request.id \notin done
          BY <1>3, <2>1, <2>2 DEF Staying
      <2> HIDE DEF o
      <2>4. Kept(c, b, m, o)
          <3>1. CASE kind = "causal"
              <4>1. c = Causal!prune(b, done)
                  BY <3>1 DEF prune
              <4>2. Kept(Causal!prune(b, done), b, m, o)
                  BY <1>3, <1>6, <2>2, <2>3, <3>1, CausalKeeps
              <4>. QED  BY <4>1, <4>2
          <3>2. CASE kind = "seq2seq"
              <4>1. c = Seq2Seq!prune(b, done)
                  BY <3>2 DEF prune
              <4>2. Kept(Seq2Seq!prune(b, done), b, m, o)
                  BY <1>3, <1>6, <2>2, <2>3, <3>2, Seq2SeqKeeps
              <4>. QED  BY <4>1, <4>2
          <3>3. CASE kind = "flash"
              <4>1. c = Flash!prune(b, done)
                  BY <3>3 DEF prune
              <4>2. Kept(Flash!prune(b, done), b, m, o)
                  BY <1>3, <1>6, <2>2, <2>3, <3>3, FlashKeeps
              <4>. QED  BY <4>1, <4>2
          <3>4. CASE kind = "paged"
              <4>1. c = Paged!prune(b, done)
                  BY <3>4 DEF prune
              <4>2. Kept(Paged!prune(b, done), b, m, o)
                  BY <1>3, <1>6, <2>2, <2>3, <3>4, PagedKeeps
              <4>. QED  BY <4>1, <4>2
          <3>. QED  BY <3>1, <3>2, <3>3, <3>4 DEF Kinds
      <2> HIDE DEF c
      <2>5. BatchOk(c)
          BY <1>1, <1>2, <2>2, <2>3, <2>4, KeptOk
      <2>6. DOMAIN c.rows = 1 .. m
          BY <2>4 DEF Kept, OfRows, List
      <2>7. ASSUME NEW k \in 1 .. m PROVE ~AtLimit(c.rows[k])
          <3>1. Same(c.rows[k], b.rows[o[k]]) /\ o[k] \in 1 .. n
              BY <2>3, <2>4 DEF Kept
          <3>2. ~AtLimit(b.rows[o[k]])
              BY <1>4, <2>3
          <3>. QED  BY <3>1, <3>2 DEF AtLimit, Same
      <2>. QED  BY <2>5, <2>6, <2>7 DEF NoneAtLimit, c
  <1>. QED  BY <1>5, <1>6

\* Concatenating two batches, none of whose requests is at its limit.
LEMMA ConcatenateOk ==
  ASSUME kind \in Kinds, NEW a, BatchOk(a), NoneAtLimit(a), NEW b, BatchOk(b), NoneAtLimit(b)
  PROVE  BatchOk(concatenate(a, b)) /\ NoneAtLimit(concatenate(a, b))
  <1>1. PICK n \in Nat \ {0} : OfRows(a, n) /\ \E G \in [1 .. n -> Nat] : Follows(a, G)
      BY DEF BatchOk
  <1>2. PICK G \in [1 .. n -> Nat] : Follows(a, G)
      BY <1>1
  <1>3. PICK m \in Nat \ {0} : OfRows(b, m) /\ \E G1 \in [1 .. m -> Nat] : Follows(b, G1)
      BY DEF BatchOk
  <1>4. PICK H \in [1 .. m -> Nat] : Follows(b, H)
      BY <1>3
  <1> DEFINE c == concatenate(a, b)
  <1>5. Merged(c, a, n, b, m)
      <2>1. CASE kind = "causal"
          <3>1. c = Causal!concatenate(a, b)
              BY <2>1 DEF concatenate
          <3>. QED  BY <1>1, <1>3, <2>1, <3>1, CausalMerges
      <2>2. CASE kind = "seq2seq"
          <3>1. c = Seq2Seq!concatenate(a, b)
              BY <2>2 DEF concatenate
          <3>. QED  BY <1>1, <1>3, <2>2, <3>1, Seq2SeqMerges
      <2>3. CASE kind = "flash"
          <3>1. c = Flash!concatenate(a, b)
              BY <2>3 DEF concatenate
          <3>. QED  BY <1>1, <1>3, <2>3, <3>1, FlashMerges
      <2>4. CASE kind = "paged"
          <3>1. c = Paged!concatenate(a, b)
              BY <2>4 DEF concatenate
          <3>. QED  BY <1>1, <1>3, <2>4, <3>1, PagedMerges
      <2>. QED  BY <2>1, <2>2, <2>3, <2>4 DEF Kinds
  <1> HIDE DEF c
  <1>6. BatchOk(c)
      BY <1>1, <1>2, <1>3, <1>4, <1>5, MergedOk
  <1>7. DOMAIN c.rows = 1 .. n + m /\ DOMAIN a.rows = 1 .. n /\ DOMAIN b.rows = 1 .. m
      BY <1>1, <1>3, <1>5 DEF Merged, OfRows, List
  <1>8. ASSUME NEW k \in 1 .. n + m PROVE ~AtLimit(c.rows[k])
      <2>1. Same(c.rows[k], Joined(a.rows, n, b.rows, m)[k])
          BY <1>5 DEF Merged
      <2>2. ~AtLimit(Joined(a.rows, n, b.rows, m)[k])
          <3>1. CASE k <= n
              <4>1. k \in 1 .. n /\ Joined(a.rows, n, b.rows, m)[k] = a.rows[k]
                  BY <3>1 DEF Joined
              <4>. QED  BY <1>7, <4>1 DEF NoneAtLimit
          <3>2. CASE ~(k <= n)
              <4>1. k - n \in 1 .. m /\ Joined(a.rows, n, b.rows, m)[k] = b.rows[k - n]
                  BY <3>2 DEF Joined
              <4>. QED  BY <1>7, <4>1 DEF NoneAtLimit
          <3>. QED  BY <3>1, <3>2
      <2>. QED  BY <2>1, <2>2 DEF AtLimit, Same
  <1>. QED  BY <1>6, <1>7, <1>8 DEF NoneAtLimit, c

\* A paged request that is not at its limit has a token to generate.
LEMMA PagedLeft ==
  ASSUME kind = "paged", NEW b, NEW n, OfRows(b, n), NoneAtLimit(b), NEW k \in 1 .. n
  PROVE  b.rows[k].input_length < b.rows[k].total_length
  <1> DEFINE row == b.rows[k]  r == row.request  x == row.input_length  y == row.total_length
             i == r.input  o == r.output
  <1>1. RowOk(row) /\ ~AtLimit(row)
      BY DEF OfRows, List, NoneAtLimit
  <1>2. KnownRequest(r)
      BY <1>1 DEF RowOk
  <1>3. x \in Int /\ x <= y /\ y = i + o
      BY <1>1, <1>2, CountupRow
  <1>4. i \in Nat /\ o \in Nat
      BY <1>2 DEF KnownRequest
  <1>5. x - i # o
      BY <1>1, <1>2, CountupRow DEF AtLimit
  <1> HIDE DEF x, y, i, o
  <1>6. x < y
      BY <1>3, <1>4, <1>5
  <1>. QED  BY <1>6 DEF x, y

\* A token more for each request.
LEMMA GenerateOk ==
  ASSUME kind \in Kinds, NEW b, BatchOk(b), NoneAtLimit(b), NEW kv0, NEW first \in BOOLEAN,
         NEW for_concat, NEW result \in generate_token(b, kv0, first, for_concat)
  PROVE  BatchOk(result.batch)
  <1>1. PICK n \in Nat \ {0} : OfRows(b, n) /\ \E G \in [1 .. n -> Nat] : Follows(b, G)
      BY DEF BatchOk
  <1>2. PICK G \in [1 .. n -> Nat] : Follows(b, G)
      BY <1>1
  <1>3. DOMAIN b.rows = 1 .. n
      BY <1>1 DEF OfRows, List
  <1>4. Stepped(result.batch, b, n)
      <2>1. CASE kind = "causal"
          <3>1. result.batch = Causal!generate_token(b, first, for_concat)
              BY <2>1 DEF generate_token
          <3>. QED  BY <1>1, <2>1, <3>1, CausalSteps
      <2>2. CASE kind = "seq2seq"
          <3>1. result.batch = Seq2Seq!generate_token(b, first, for_concat)
              BY <2>2 DEF generate_token
          <3>. QED  BY <1>1, <2>2, <3>1, Seq2SeqSteps
      <2>3. CASE kind = "flash"
          <3>1. result.batch = Flash!generate_token(b, first, for_concat)
              BY <2>3 DEF generate_token
          <3>. QED  BY <1>1, <2>3, <3>1, FlashSteps
      <2>4. CASE kind = "paged"
          <3>1. result \in Paged!generate_token(b, kv0, first)
              BY <2>4 DEF generate_token
          <3>2. \A k \in 1 .. n : b.rows[k].input_length < b.rows[k].total_length
              BY <1>1, <2>4, PagedLeft
          <3>3. ASSUME NEW k \in 1 .. n, Exact(b.rows[k]) PROVE b.next_token_chooser.do_sample[k]
              <4>1. DOMAIN Parameters(b) = 1 .. n /\ Parameters(b)[k] = b.rows[k].request.parameters
                  BY <1>1, ParametersAre
              <4>2. b.next_token_chooser.do_sample = [h \in 1 .. n |-> Parameters(b)[h].temperature # 0]
                  BY <1>2, <4>1 DEF Follows, Carries
              <4>3. b.next_token_chooser.do_sample[k] = (Parameters(b)[k].temperature # 0)
                  BY <4>2
              <4>. QED  BY <2>4, <3>3, <4>1, <4>3 DEF Exact
          <3>. QED  BY <1>1, <2>4, <3>1, <3>2, <3>3, PagedSteps
      <2>. QED  BY <2>1, <2>2, <2>3, <2>4 DEF Kinds
  <1>. QED  BY <1>1, <1>2, <1>4, SteppedOk

\* The requests of a call.
LEMMA NewRequestsAre ==
  ASSUME NEW n \in Nat, NEW shapes \in [1 .. n -> Shapes]
  PROVE  List(NewRequests(shapes), n) /\ \A k \in 1 .. n : KnownRequest(NewRequests(shapes)[k])
  <1>1. List(NewRequests(shapes), n)
      BY DEF NewRequests, List
  <1>2. ASSUME NEW k \in 1 .. n PROVE KnownRequest(NewRequests(shapes)[k])
      <2> DEFINE r == NewRequests(shapes)[k]  s == shapes[k]
      <2>1. /\ r.text = s.text /\ r.input = s.input /\ r.output = s.output
            /\ r.prefix = (IF kind = "paged" THEN 0 ELSE s.prefix)
            /\ r.decoder_prefix = s.decoder_prefix /\ r.parameters = s.parameters
          BY DEF NewRequests
      <2>2. s \in Shapes
          OBVIOUS
      <2> HIDE DEF r, s
      <2>3. Legal(s.parameters)
          BY <2>2, ShapesAssumption DEF Legal
      <2>4. r.prefix \in Nat
          BY <2>1, <2>2, ShapesAssumption
      <2>5. KnownRequest(r)
          BY <2>1, <2>2, <2>3, <2>4, ShapesAssumption DEF KnownRequest
      <2>. QED  BY <2>5 DEF r
  <1>. QED  BY <1>1, <1>2

\* A new batch.
LEMMA BuildOk ==
  ASSUME kind \in Kinds, NEW n \in Nat, NEW pb, List(pb, n), \A k \in 1 .. n : KnownRequest(pb[k]),
         NEW failed, \E k \in 1 .. n : pb[k] \notin failed
  PROVE  BatchOk(from_pb(pb, failed).batch) /\ NoneAtLimit(from_pb(pb, failed).batch)
  <1> DEFINE b == from_pb(pb, failed).batch
  <1>1. PICK m \in Nat \ {0} : /\ List(Accepted(pb, failed), m)
                               /\ \A k \in 1 .. m : KnownRequest(Accepted(pb, failed)[k])
      BY AcceptedAre
  <1>2. \E l \in Nat \ {0} : Fresh(b, l)
      <2>1. CASE kind = "causal"
          <3>1. b = Causal!from_pb(pb, failed).batch
              BY <2>1 DEF from_pb
          <3>. QED  BY <1>1, <2>1, <3>1, CausalBuilds
      <2>2. CASE kind = "seq2seq"
          <3>1. b = Seq2Seq!from_pb(pb, failed).batch
              BY <2>2 DEF from_pb
          <3>. QED  BY <1>1, <2>2, <3>1, Seq2SeqBuilds
      <2>3. CASE kind = "flash"
          <3>1. b = Flash!from_pb(pb, failed).batch
              BY <2>3 DEF from_pb
          <3>. QED  BY <1>1, <2>3, <3>1, FlashBuilds
      <2>4. CASE kind = "paged"
          <3>1. b = Paged!from_pb(pb)
              BY <2>4 DEF from_pb
          <3>2. n # 0
              OBVIOUS
          <3>3. Fresh(Paged!from_pb(pb), n)
              BY <2>4, PagedBuilds
          <3>. QED  BY <3>1, <3>2, <3>3
      <2>. QED  BY <2>1, <2>2, <2>3, <2>4 DEF Kinds
  <1> HIDE DEF b
  <1>3. PICK l \in Nat \ {0} : Fresh(b, l)
      BY <1>2
  <1>4. BatchOk(b)
      BY <1>3, FreshOk
  <1>5. ASSUME NEW k \in DOMAIN b.rows PROVE ~AtLimit(b.rows[k])
      <2>1. Generated(b.rows[k]) = 0 /\ RowOk(b.rows[k])
          BY <1>3 DEF Fresh, OfRows, List
      <2>2. b.rows[k].request.output # 0
          BY <2>1 DEF RowOk, KnownRequest
      <2>. QED  BY <2>1, <2>2 DEF AtLimit
  <1>. QED  BY <1>4, <1>5 DEF NoneAtLimit, b

-----------------------------------------------------------------------------
(* The room in the cached batches of a shard.                               *)

\* A cached batch of any type.
Fits(b) ==
    /\ kind = "causal"  => Started(b) /\ \E n, w : CausalFits(b, n, w, 1)
    /\ kind = "seq2seq" => \E n : Seq2SeqFits(b, n)
    /\ kind = "flash"   => \E n, p : FlashCached(b, n, p)
    /\ kind = "paged"   => \E n : PagedFits(b, n)

\* One that is not to be concatenated to another before its next token: the causal one has no
\* more padding than its longest row needs, a request alone in the flash one is allocated ahead.
Alone(b) ==
    /\ kind = "causal"  => Started(b) /\ \E n : CausalFits(b, n, b.max_sequence_length, 1)
    /\ kind = "seq2seq" => \E n : Seq2SeqFits(b, n)
    /\ kind = "flash"   => \E n, p : FlashCached(b, n, p) /\ FlashAhead(b, n, p)
    /\ kind = "paged"   => \E n : PagedFits(b, n)

\* A new batch.
NewFits(b) ==
    /\ kind = "causal"  => \E n, w : CausalFits(b, n, w, w)
    /\ kind = "seq2seq" => \E n : Seq2SeqFits(b, n)
    /\ kind = "flash"   => \E n : /\ FlashNew(b, n)
                                  /\ \A k \in 1 .. n : b.rows[k].input_length =
                                         b.rows[k].request.input + b.rows[k].request.prefix
    /\ kind = "paged"   => \E n : PagedFits(b, n)

\* A batch alone fits as one that is added does.
LEMMA AloneFits ==
  ASSUME NEW b, Alone(b)
  PROVE  Fits(b)
  BY DEF Alone, Fits

\* A request that is not at its limit has a token to generate ...
LEMMA CountdownLeft ==
  ASSUME kind \in {"causal", "seq2seq"}, NEW b, BatchOk(b), NoneAtLimit(b), NEW k \in DOMAIN b.rows
  PROVE  b.rows[k].max_remaining_tokens # 0
  <1>1. PICK n \in Nat \ {0} : OfRows(b, n)
      BY DEF BatchOk
  <1> DEFINE row == b.rows[k]
  <1>2. RowOk(row) /\ ~AtLimit(row)
      BY <1>1 DEF OfRows, List, NoneAtLimit
  <1>3. KnownRequest(row.request)
      BY <1>2 DEF RowOk
  <1>4. Generated(row) = row.request.output - row.max_remaining_tokens
      BY <1>3, CountdownRow
  <1>5. row.request.output \in Nat /\ row.request.output - row.max_remaining_tokens # row.request.output
      BY <1>2, <1>3, <1>4 DEF AtLimit, KnownRequest
  <1>. QED  BY <1>5

\* ... and so in a flash batch.
LEMMA FlashLeft ==
  ASSUME kind = "flash", NEW b, NEW n, FlashFits(b, n), NoneAtLimit(b), NEW k \in 1 .. n
  PROVE  b.rows[k].input_length < b.rows[k].total_length
  <1> DEFINE row == b.rows[k]  r == row.request  x == row.input_length  y == row.total_length
             i == r.input  f == r.prefix  o == r.output
  <1>1. PICK L : FlashRowFits(row, L)
      BY DEF FlashFits
  <1>2. ~AtLimit(row)
      BY DEF FlashFits, List, NoneAtLimit
  <1>3. KnownRequest(r) /\ x \in Nat /\ x <= y /\ y = i + f + o
      BY <1>1 DEF FlashRowFits
  <1>4. i \in Nat /\ f \in Nat /\ o \in Nat
      BY <1>3 DEF KnownRequest
  <1>5. x - i - f # o
      BY <1>2, <1>3, CountupRow DEF AtLimit
  <1> HIDE DEF x, y, i, f, o
  <1>6. x < y
      BY <1>3, <1>4, <1>5
  <1>. QED  BY <1>6 DEF x, y

\* The rows that are left.
LEMMA IndicesLeft ==
  ASSUME NEW b, NEW n \in Nat \ {0}, List(b.rows, n), NEW done, ~(RequestsOf(b) \subseteq done)
  PROVE  \E m \in Nat \ {0} : KeepIndices(b, done) \in [1 .. m -> 1 .. n]
  <1>1. DOMAIN b.rows = 1 .. n
      BY DEF List
  <1>2. Staying(b, done) # {}
      BY <1>1 DEF RequestsOf, Staying
  <1>. QED  BY <1>1, <1>2, KeepIndicesAre

\* Pruning removes the padding that is no longer needed, and allocates a request left alone ahead.
LEMMA PruneFits ==
  ASSUME kind \in Kinds, NEW b, Fits(b), NEW done, done # {}, ~(RequestsOf(b) \subseteq done)
  PROVE  Alone(prune(b, done))
  <1>1. CASE kind = "causal"
      <2>1. PICK n, w : CausalFits(b, n, w, 1)
          BY <1>1 DEF Fits
      <2>2. Started(b) /\ n \in Nat \ {0} /\ List(b.rows, n)
          BY <1>1, <2>1 DEF Fits, CausalFits
      <2>3. PICK m \in Nat \ {0} : KeepIndices(b, done) \in [1 .. m -> 1 .. n]
          BY <2>2, IndicesLeft
      <2>4. prune(b, done) = Causal!prune(b, done)
          BY <1>1 DEF prune
      <2> DEFINE c == Causal!prune(b, done)
      <2>5. CausalFits(c, m, c.max_sequence_length, 1) /\ Started(c)
          BY <2>1, <2>2, <2>3, CausalPruneFits
      <2> HIDE DEF c
      <2>6. Alone(c)
          BY <1>1, <2>5 DEF Alone
      <2>. QED  BY <2>4, <2>6 DEF c
  <1>2. CASE kind = "seq2seq"
      <2>1. PICK n : Seq2SeqFits(b, n)
          BY <1>2 DEF Fits
      <2>2. n \in Nat \ {0} /\ List(b.rows, n)
          BY <2>1 DEF Seq2SeqFits
      <2>3. PICK m \in Nat \ {0} : KeepIndices(b, done) \in [1 .. m -> 1 .. n]
          BY <2>2, IndicesLeft
      <2>4. prune(b, done) = Seq2Seq!prune(b, done)
          BY <1>2 DEF prune
      <2>5. Seq2SeqFits(Seq2Seq!prune(b, done), m)
          BY <2>1, <2>3, Seq2SeqPruneFits
      <2>. QED  BY <1>2, <2>4, <2>5 DEF Alone
  <1>3. CASE kind = "flash"
      <2>1. PICK n, p : FlashCached(b, n, p)
          BY <1>3 DEF Fits
      <2>2. n \in Nat \ {0} /\ List(b.rows, n)
          BY <2>1 DEF FlashCached, FlashFits
      <2>3. PICK m \in Nat \ {0} : KeepIndices(b, done) \in [1 .. m -> 1 .. n]
          BY <2>2, IndicesLeft
      <2>4. prune(b, done) = Flash!prune(b, done)
          BY <1>3 DEF prune
      <2> DEFINE c == Flash!prune(b, done)
      <2>5. \E q : FlashCached(c, m, q) /\ FlashAhead(c, m, q)
          BY <2>1, <2>3, FlashPruneFits
      <2> HIDE DEF c
      <2>6. Alone(c)
          BY <1>3, <2>5 DEF Alone
      <2>. QED  BY <2>4, <2>6 DEF c
  <1>4. CASE kind = "paged"
      <2>1. PICK n : PagedFits(b, n)
          BY <1>4 DEF Fits
      <2>2. n \in Nat \ {0} /\ List(b.rows, n)
          BY <2>1 DEF PagedFits
      <2>3. PICK m \in Nat \ {0} : KeepIndices(b, done) \in [1 .. m -> 1 .. n]
          BY <2>2, IndicesLeft
      <2>4. prune(b, done) = Paged!prune(b, done)
          BY <1>4 DEF prune
      <2>5. PagedFits(Paged!prune(b, done), m)
          BY <2>1, <2>3, PagedPruneFits
      <2>. QED  BY <1>4, <2>4, <2>5 DEF Alone
  <1>. QED  BY <1>1, <1>2, <1>3, <1>4 DEF Kinds

\* Concatenation makes the same room for the rows of both batches.
LEMMA ConcatenateFits ==
  ASSUME kind \in Kinds, NEW a, BatchOk(a), NoneAtLimit(a), Fits(a), NEW b, BatchOk(b), NoneAtLimit(b), Fits(b)
  PROVE  Alone(concatenate(a, b))
  <1>1. CASE kind = "causal"
      <2>1. PICK n, v : CausalFits(a, n, v, 1)
          BY <1>1 DEF Fits
      <2>2. PICK m, w : CausalFits(b, m, w, 1)
          BY <1>1 DEF Fits
      <2>3. ASSUME NEW d, NEW l, NEW u, BatchOk(d), NoneAtLimit(d), CausalFits(d, l, u, 1)
            PROVE  d.padding_right_offset # 0
          <3>1. 1 \in DOMAIN d.rows /\ Largest(d.padding_right_offset, d.rows, "max_remaining_tokens")
              BY <2>3 DEF CausalFits, List
          <3>2. d.rows[1].max_remaining_tokens # 0
              BY <1>1, <2>3, <3>1, CountdownLeft
          <3>. QED  BY <3>1, <3>2 DEF Largest
      <2>4. Started(a) /\ Started(b) /\ a.padding_right_offset # 0 /\ b.padding_right_offset # 0
          BY <1>1, <2>1, <2>2, <2>3 DEF Fits
      <2>5. concatenate(a, b) = Causal!concatenate(a, b)
          BY <1>1 DEF concatenate
      <2> DEFINE c == Causal!concatenate(a, b)
      <2>6. CausalFits(c, n + m, c.max_sequence_length, 1) /\ Started(c)
          BY <2>1, <2>2, <2>4, CausalMergeFits
      <2> HIDE DEF c
      <2>7. Alone(c)
          BY <1>1, <2>6 DEF Alone
      <2>. QED  BY <2>5, <2>7 DEF c
  <1>2. CASE kind = "seq2seq"
      <2>1. PICK n : Seq2SeqFits(a, n)
          BY <1>2 DEF Fits
      <2>2. PICK m : Seq2SeqFits(b, m)
          BY <1>2 DEF Fits
      <2>3. concatenate(a, b) = Seq2Seq!concatenate(a, b)
          BY <1>2 DEF concatenate
      <2>4. Seq2SeqFits(Seq2Seq!concatenate(a, b), n + m)
          BY <2>1, <2>2, Seq2SeqMergeFits
      <2>. QED  BY <1>2, <2>3, <2>4 DEF Alone
  <1>3. CASE kind = "flash"
      <2>1. PICK n, v : FlashCached(a, n, v)
          BY <1>3 DEF Fits
      <2>2. PICK m, w : FlashCached(b, m, w)
          BY <1>3 DEF Fits
      <2>3. concatenate(a, b) = Flash!concatenate(a, b)
          BY <1>3 DEF concatenate
      <2> DEFINE c == Flash!concatenate(a, b)
      <2>4. \E p : FlashCached(c, n + m, p) /\ FlashAhead(c, n + m, p)
          BY <2>1, <2>2, FlashMergeFits
      <2> HIDE DEF c
      <2>5. Alone(c)
          BY <1>3, <2>4 DEF Alone
      <2>. QED  BY <2>3, <2>5 DEF c
  <1>4. CASE kind = "paged"
      <2>1. PICK n : PagedFits(a, n)
          BY <1>4 DEF Fits
      <2>2. PICK m : PagedFits(b, m)
          BY <1>4 DEF Fits
      <2>3. concatenate(a, b) = Paged!concatenate(a, b)
          BY <1>4 DEF concatenate
      <2>4. PagedFits(Paged!concatenate(a, b), n + m)
          BY <2>1, <2>2, PagedMergeFits
      <2>. QED  BY <1>4, <2>3, <2>4 DEF Alone
  <1>. QED  BY <1>1, <1>2, <1>3, <1>4 DEF Kinds

\* The batch after a call of the model.
LEMMA ResultIs ==
  ASSUME NEW b, NEW kv0, NEW first, NEW for_concat, NEW result \in generate_token(b, kv0, first, for_concat)
  PROVE  /\ kind = "causal" => result.batch = Causal!generate_token(b, first, for_concat)
         /\ kind = "seq2seq" => result.batch = Seq2Seq!generate_token(b, first, for_concat)
         /\ kind = "flash" => result.batch = Flash!generate_token(b, first, for_concat)
         /\ kind = "paged" => result \in Paged!generate_token(b, kv0, first)
  BY DEF generate_token

\* A decode step keeps the room of a batch alone ...
LEMMA DecodeFits ==
  ASSUME kind \in Kinds, NEW b, BatchOk(b), NoneAtLimit(b), Alone(b), NEW kv0, NEW first \in BOOLEAN, ~first,
         NEW for_concat \in BOOLEAN, NEW result \in generate_token(b, kv0, first, for_concat)
  PROVE  Alone(result.batch)
  <1>1. CASE kind = "causal"
      <2>1. PICK n : CausalFits(b, n, b.max_sequence_length, 1)
          BY <1>1 DEF Alone
      <2> DEFINE c == Causal!generate_token(b, first, for_concat)  M == b.max_sequence_length
      <2>2. result.batch = c
          BY <1>1, ResultIs
      <2>3. \A k \in DOMAIN b.rows : b.rows[k].max_remaining_tokens # 0
          BY <1>1, CountdownLeft
      <2>4. CausalFits(c, n, M + 1, 1) /\ Started(c)
          BY <2>1, <2>3, CausalStepFits
      <2>5. c.max_sequence_length = M + 1
          BY <2>1, <2>3, CausalStepFits
      <2> HIDE DEF c
      <2>. QED  BY <1>1, <2>2, <2>4, <2>5 DEF Alone
  <1>2. CASE kind = "seq2seq"
      <2>1. PICK n : Seq2SeqFits(b, n)
          BY <1>2 DEF Alone
      <2>2. result.batch = Seq2Seq!generate_token(b, first, for_concat)
          BY <1>2, ResultIs
      <2>3. \A k \in DOMAIN b.rows : b.rows[k].max_remaining_tokens # 0
          BY <1>2, CountdownLeft
      <2>4. Seq2SeqFits(Seq2Seq!generate_token(b, first, for_concat), n)
          BY <2>1, <2>3, Seq2SeqStepFits
      <2>. QED  BY <1>2, <2>2, <2>4 DEF Alone
  <1>3. CASE kind = "flash"
      <2>1. PICK n, p : FlashCached(b, n, p) /\ FlashAhead(b, n, p)
          BY <1>3 DEF Alone
      <2> DEFINE c == Flash!generate_token(b, first, for_concat)  cu == b.cu_seqlens
      <2>2. result.batch = c
          BY <1>3, ResultIs
      <2>3. /\ FlashFits(b, n) /\ p \in Nat /\ n \in Nat \ {0} /\ (n > 1 => p = cu[n + 1])
            /\ Cumulative(cu, Lengths(b.rows), n) /\ DOMAIN b.rows = 1 .. n
            /\ \A k \in 1 .. n : b.rows[k].position_id = b.rows[k].input_length - 1
          BY <2>1 DEF FlashCached, FlashFits, List
      <2>4. \A k \in 1 .. n : b.rows[k].input_length < b.rows[k].total_length
          BY <1>3, <2>3, FlashLeft
      <2>5. List(Flash!Present(b, first, for_concat), p)
          BY <2>1, FlashDecodePresent
      <2>6. n = 1 => p >= cu[2] + 1
          <3> SUFFICES ASSUME n = 1 PROVE p >= cu[2] + 1
              OBVIOUS
          <3> DEFINE x == b.rows[1].input_length  y == b.rows[1].total_length
          <3>1. cu[1] = 0 /\ cu[1 + 1] = cu[1] + Lengths(b.rows)[1] /\ Lengths(b.rows)[1] \in Nat
              BY <2>3 DEF Cumulative
          <3>2. Lengths(b.rows)[1] = x
              BY <2>3 DEF Lengths
          <3>3. PICK L : FlashRowFits(b.rows[1], L)
              BY <2>3 DEF FlashFits
          <3>4. x \in Nat /\ y \in Nat /\ x < y /\ p >= y
              BY <2>1, <2>3, <2>4, <3>3 DEF FlashRowFits, FlashAhead
          <3>5. cu[2] = x
              BY <3>1, <3>2
          <3> HIDE DEF x, y
          <3>. QED  BY <2>3, <3>4, <3>5
      <2>7. PICK q : /\ FlashCached(c, n, q) /\ (n = 1 => q = p)
                     /\ \A k \in 1 .. n : c.rows[k].total_length = b.rows[k].total_length
          BY <2>3, <2>4, <2>5, <2>6, FlashStepFits
      <2> HIDE DEF c
      <2>8. FlashAhead(c, n, q)
          BY <2>1, <2>7 DEF FlashAhead
      <2>. QED  BY <1>3, <2>2, <2>7, <2>8 DEF Alone
  <1>4. CASE kind = "paged"
      <2>1. PICK n : PagedFits(b, n)
          BY <1>4 DEF Alone
      <2>2. result \in Paged!generate_token(b, kv0, first)
          BY <1>4, ResultIs
      <2>3. PICK m \in Nat \ {0} : OfRows(b, m)
          BY DEF BatchOk
      <2>4. DOMAIN b.rows = 1 .. n /\ DOMAIN b.rows = 1 .. m
          BY <2>1, <2>3 DEF PagedFits, OfRows, List
      <2>5. \A k \in 1 .. n : b.rows[k].input_length < b.rows[k].total_length
          BY <1>4, <2>3, <2>4, PagedLeft
      <2>6. PagedFits(result.batch, n)
          BY <2>1, <2>2, <2>5, PagedStepFits
      <2>. QED  BY <1>4, <2>6 DEF Alone
  <1>. QED  BY <1>1, <1>2, <1>3, <1>4 DEF Kinds

\* ... and the first step of a new batch makes it.  Only one that is not to be concatenated is
\* trimmed or allocated ahead.
LEMMA FirstFits ==
  ASSUME kind \in Kinds, NEW b, BatchOk(b), NoneAtLimit(b), NewFits(b), NEW kv0, NEW first \in BOOLEAN,
         NEW for_concat \in BOOLEAN, NEW result \in generate_token(b, kv0, first, for_concat)
  PROVE  first => Fits(result.batch) /\ (~for_concat => Alone(result.batch))
  <1>1. ASSUME first PROVE Fits(result.batch) /\ (~for_concat => Alone(result.batch))
      <2>1. CASE kind = "causal"
          <3>1. PICK n, w : CausalFits(b, n, w, w)
              BY <2>1 DEF NewFits
          <3> DEFINE c == Causal!generate_token(b, first, for_concat)  M == b.max_sequence_length
                     x == IF first /\ ~for_concat THEN M ELSE w
          <3>2. result.batch = c
              BY <2>1, ResultIs
          <3>3. \A k \in DOMAIN b.rows : b.rows[k].max_remaining_tokens # 0
              BY <2>1, CountdownLeft
          <3>4. CausalFits(c, n, x + 1, 1) /\ Started(c)
              BY <3>1, <3>3, CausalStepFits
          <3>5. c.max_sequence_length = M + 1
              BY <3>1, <3>3, CausalStepFits
          <3>6. ~for_concat => CausalFits(c, n, c.max_sequence_length, 1)
              <4> HIDE DEF c
              <4>. QED  BY <1>1, <3>4, <3>5
          <3> HIDE DEF c, x
          <3>. QED  BY <2>1, <3>2, <3>4, <3>6 DEF Alone, Fits
      <2>2. CASE kind = "seq2seq"
          <3>1. PICK n : Seq2SeqFits(b, n)
              BY <2>2 DEF NewFits
          <3>2. result.batch = Seq2Seq!generate_token(b, first, for_concat)
              BY <2>2, ResultIs
          <3>3. \A k \in DOMAIN b.rows : b.rows[k].max_remaining_tokens # 0
              BY <2>2, CountdownLeft
          <3>4. Seq2SeqFits(Seq2Seq!generate_token(b, first, for_concat), n)
              BY <3>1, <3>3, Seq2SeqStepFits
          <3>. QED  BY <2>2, <3>2, <3>4 DEF Alone, Fits
      <2>3. CASE kind = "flash"
          <3>1. PICK n : /\ FlashNew(b, n)
                         /\ \A k \in 1 .. n : b.rows[k].input_length =
                                b.rows[k].request.input + b.rows[k].request.prefix
              BY <2>3 DEF NewFits
          <3> DEFINE c == Flash!generate_token(b, first, for_concat)  cu == b.cu_seqlens
          <3>2. result.batch = c
              BY <2>3, ResultIs
          <3>3. FlashFits(b, n) /\ n \in Nat \ {0} /\ DOMAIN b.rows = 1 .. n
              BY <3>1 DEF FlashNew, FlashFits, List
          <3>4. \A k \in 1 .. n : b.rows[k].input_length < b.rows[k].total_length
              BY <2>3, <3>3, FlashLeft
          <3>5. PICK p \in Nat : /\ List(Flash!Present(b, first, for_concat), p)
                                 /\ n > 1 => p = cu[n + 1]
                                 /\ n = 1 => p >= cu[2] + 1 /\ (~for_concat => p = b.rows[1].total_length)
              BY <1>1, <3>1, FlashPrefillPresent
          <3>6. PICK q : /\ FlashCached(c, n, q) /\ (n = 1 => q = p)
                         /\ \A k \in 1 .. n : c.rows[k].total_length = b.rows[k].total_length
              <4>1. ~first => \A k \in 1 .. n : b.rows[k].position_id = b.rows[k].input_length - 1
                  BY <1>1
              <4>. QED  BY <3>3, <3>4, <3>5, <4>1, FlashStepFits
          <3> HIDE DEF c
          <3>7. ~for_concat => FlashAhead(c, n, q)
              BY <3>5, <3>6 DEF FlashAhead
          <3>. QED  BY <2>3, <3>2, <3>6, <3>7 DEF Alone, Fits
      <2>4. CASE kind = "paged"
          <3>1. PICK n : PagedFits(b, n)
              BY <2>4 DEF NewFits
          <3>2. result \in Paged!generate_token(b, kv0, first)
              BY <2>4, ResultIs
          <3>3. PICK m \in Nat \ {0} : OfRows(b, m)
              BY DEF BatchOk
          <3>4. DOMAIN b.rows = 1 .. n /\ DOMAIN b.rows = 1 .. m
              BY <3>1, <3>3 DEF PagedFits, OfRows, List
          <3>5. \A k \in 1 .. n : b.rows[k].input_length < b.rows[k].total_length
              BY <2>4, <3>3, <3>4, PagedLeft
          <3>6. PagedFits(result.batch, n)
              BY <3>1, <3>2, <3>5, PagedStepFits
          <3>. QED  BY <2>4, <3>6 DEF Alone, Fits
      <2>. QED  BY <2>1, <2>2, <2>3, <2>4 DEF Kinds
  <1>. QED  BY <1>1

\* What from_pb builds.
LEMMA BuildFits ==
  ASSUME kind \in Kinds, NEW n \in Nat, NEW pb, List(pb, n), \A k \in 1 .. n : KnownRequest(pb[k]),
         NEW failed, \E k \in 1 .. n : pb[k] \notin failed
  PROVE  NewFits(from_pb(pb, failed).batch)
  <1>1. PICK m \in Nat \ {0} : /\ List(Accepted(pb, failed), m)
                               /\ \A k \in 1 .. m : KnownRequest(Accepted(pb, failed)[k])
      BY AcceptedAre
  <1>2. DOMAIN pb = 1 .. n /\ n # 0
      BY DEF List
  <1>3. CASE kind = "causal"
      <2>1. from_pb(pb, failed) = Causal!from_pb(pb, failed)
          BY <1>3 DEF from_pb
      <2> DEFINE b == Causal!from_pb(pb, failed).batch
      <2>2. \E w : CausalFits(b, m, w, w)
          BY <1>1, <1>2, CausalBuildFits
      <2> HIDE DEF b
      <2>3. NewFits(b)
          BY <1>3, <2>2 DEF NewFits
      <2>. QED  BY <2>1, <2>3 DEF b
  <1>4. CASE kind = "seq2seq"
      <2>1. from_pb(pb, failed) = Seq2Seq!from_pb(pb, failed)
          BY <1>4 DEF from_pb
      <2>2. Seq2SeqFits(Seq2Seq!from_pb(pb, failed).batch, m)
          BY <1>1, Seq2SeqBuildFits
      <2>. QED  BY <1>4, <2>1, <2>2 DEF NewFits
  <1>5. CASE kind = "flash"
      <2>1. from_pb(pb, failed) = Flash!from_pb(pb, failed)
          BY <1>5 DEF from_pb
      <2> DEFINE b == Flash!from_pb(pb, failed).batch
      <2>2. /\ FlashNew(b, m)
            /\ \A k \in 1 .. m : b.rows[k].input_length = b.rows[k].request.input + b.rows[k].request.prefix
          BY <1>1, FlashBuildFits
      <2> HIDE DEF b
      <2>3. NewFits(b)
          BY <1>5, <2>2 DEF NewFits
      <2>. QED  BY <2>1, <2>3 DEF b
  <1>6. CASE kind = "paged"
      <2>1. from_pb(pb, failed).batch = Paged!from_pb(pb)
          BY <1>6 DEF from_pb
      <2>2. PagedFits(Paged!from_pb(pb), n)
          BY <1>2, PagedBuildFits
      <2>. QED  BY <1>6, <2>1, <2>2 DEF NewFits
  <1>. QED  BY <1>3, <1>4, <1>5, <1>6 DEF Kinds

-----------------------------------------------------------------------------
(* The steps of the service keep the choosers and the room of its batches.  *)

\* A batch alone, and one that is to be concatenated to another.
Settled(b) == BatchOk(b) /\ Alone(b)
Added(b) == BatchOk(b) /\ Fits(b)

\* The batches in the cache after a step: at most two, the first of them pruned.
CacheOk(c) ==
    \/ c = <<>>
    \/ \E a : c = <<a>> /\ Settled(a)
    \/ \E a, b : c = <<a, b>> /\ Settled(a) /\ NoneAtLimit(a) /\ Added(b)

\* The kind of the batches does not change.
LEMMA KindStays ==
  ASSUME kind' = kind, NEW b
  PROVE  (Settled(b)' <=> Settled(b)) /\ (Added(b)' <=> Added(b)) /\ (NoneAtLimit(b)' <=> NoneAtLimit(b))
  <1>1. \A row : Generated(row)' = Generated(row)
      BY DEF Generated, Causal!Generated, Seq2Seq!Generated, Flash!Generated, Paged!Generated
  <1>2. RowFields' = RowFields
      BY DEF RowFields
  <1>3. \A row : RowOk(row)' <=> RowOk(row)
      BY <1>1, <1>2 DEF RowOk
  <1>4. \A row : Exact(row)' <=> Exact(row)
      BY DEF Exact
  <1>5. \A n : OfRows(b, n)' <=> OfRows(b, n)
      BY <1>3 DEF OfRows
  <1>6. \A G : Follows(b, G)' <=> Follows(b, G)
      BY <1>1, <1>4 DEF Follows
  <1>7. BatchOk(b)' <=> BatchOk(b)
      BY <1>5, <1>6 DEF BatchOk
  <1>8. \A row : AtLimit(row)' <=> AtLimit(row)
      BY <1>1 DEF AtLimit
  <1>9. NoneAtLimit(b)' <=> NoneAtLimit(b)
      BY <1>8 DEF NoneAtLimit
  <1>10. (Fits(b)' <=> Fits(b)) /\ (Alone(b)' <=> Alone(b))
      BY DEF Fits, Alone
  <1>. QED  BY <1>7, <1>9, <1>10 DEF Settled, Added

\* What is left of a batch.
LEMMA RemainingOk ==
  ASSUME kind \in Kinds, NEW b, Added(b), NEW done \in Completions(b)
  PROVE  \/ Remaining(b, done) = <<>> /\ RequestsOf(b) \subseteq done
         \/ \E c : Remaining(b, done) = <<c>> /\ Added(c) /\ NoneAtLimit(c) /\ (Settled(b) => Settled(c))
  <1>1. CASE RequestsOf(b) \subseteq done
      BY <1>1 DEF Remaining
  <1>2. CASE ~(RequestsOf(b) \subseteq done)
      <2> DEFINE c == prune(b, done)
      <2>1. Remaining(b, done) = <<c>>
          BY <1>2 DEF Remaining
      <2>2. BatchOk(c) /\ NoneAtLimit(c)
          BY <1>2, PruneOk DEF Added
      <2>3. CASE done = {}
          <3>1. c = b
              BY <2>3 DEF Kinds, prune, Causal!prune, Seq2Seq!prune, Flash!prune, Paged!prune
          <3> HIDE DEF c
          <3>. QED  BY <2>1, <2>2, <3>1
      <2>4. CASE done # {}
          <3>1. Alone(c)
              BY <1>2, <2>4, PruneFits DEF Added
          <3> HIDE DEF c
          <3>2. Fits(c)
              BY <3>1, AloneFits
          <3>. QED  BY <2>1, <2>2, <3>1, <3>2 DEF Settled, Added
      <2>. QED  BY <2>3, <2>4
  <1>. QED  BY <1>1, <1>2

\* Of a batch of which no request has completed, all is.
LEMMA AllRemains ==
  ASSUME kind \in Kinds, NEW b, Settled(b), {} \in Completions(b)
  PROVE  \E c : Remaining(b, {}) = <<c>> /\ Settled(c) /\ NoneAtLimit(c)
  <1>1. PICK n \in Nat \ {0} : OfRows(b, n)
      BY DEF Settled, BatchOk
  <1>2. RequestsOf(b) # {}
      <2>1. 1 \in DOMAIN b.rows
          BY <1>1 DEF OfRows, List
      <2>. QED  BY <2>1 DEF RequestsOf
  <1>3. Added(b)
      BY AloneFits DEF Settled, Added
  <1>. QED  BY <1>2, <1>3, RemainingOk

\* A list of two.
LEMMA PairIs ==
  ASSUME NEW x, NEW y
  PROVE  Append(<<x>>, y) = <<x, y>> /\ <<x>> \o <<y>> = <<x, y>>
  <1> DEFINE S == {x, y}  s == Append(<<x>>, y)  u == <<x>> \o <<y>>  v == <<x, y>>
  <1>1. <<x>> \in Seq(S) /\ <<y>> \in Seq(S) /\ v \in Seq(S) /\ Len(<<x>>) = 1 /\ Len(<<y>>) = 1
        /\ x \in S /\ y \in S /\ <<x>>[1] = x /\ <<y>>[1] = y
      OBVIOUS
  <1>2. Len(v) = 2 /\ v[1] = x /\ v[2] = y
      OBVIOUS
  <1> HIDE DEF S
  <1>3. s \in Seq(S) /\ Len(s) = 2 /\ s[1] = x /\ s[2] = y
      BY <1>1, AppendProperties
  <1>4. u \in Seq(S) /\ Len(u) = 2 /\ u[1] = x /\ u[2] = y
      BY <1>1, ConcatProperties
  <1> HIDE DEF s, u, v
  <1>5. s = v
      BY <1>1, <1>2, <1>3, SeqEqual
  <1>6. u = v
      BY <1>1, <1>2, <1>4, SeqEqual
  <1>. QED  BY <1>5, <1>6 DEF s, u, v

\* Prefill keeps this ...
LEMMA PrefillOk ==
  ASSUME kind \in Kinds, arrived \in Nat, CacheOk(cache), Prefill
  PROVE  CacheOk(cache') /\ kind' = kind /\ arrived' \in Nat
  <1>1. PICK n \in 1 .. NumRequests - arrived, done \in SUBSET (1 .. arrived) :
            \E shapes \in [1 .. n -> Shapes] :
              LET pb    == NewRequests(shapes)
                  kept  == IF cache = <<>> THEN <<>> ELSE Remaining(cache[1], done)
                  freed == IF cache = <<>> THEN kv ELSE Freed(kv, cache[1], done)
              IN  /\ Len(cache) < 2
                  /\ IF cache = <<>> THEN done = {} ELSE done \in Completions(cache[1])
                  /\ arrived' = arrived + n /\ UNCHANGED kind
                  /\ \E failed \in SUBSET {pb[k] : k \in {j \in 1 .. n : pb[j].prefix > 0}} :
                        LET built == from_pb(pb, failed) IN
                        /\ failed # Range(pb)
                        /\ shifted' = (shifted \/ Shifts(pb, failed))
                        /\ IF built.raises THEN cache' = kept /\ kv' = freed
                           ELSE \E result \in generate_token(built.batch, freed, TRUE, kept # <<>>) :
                                  cache' = Append(kept, result.batch) /\ kv' = result.kv
      BY DEF Prefill
  <1>2. PICK shapes \in [1 .. n -> Shapes] :
              LET pb    == NewRequests(shapes)
                  kept  == IF cache = <<>> THEN <<>> ELSE Remaining(cache[1], done)
                  freed == IF cache = <<>> THEN kv ELSE Freed(kv, cache[1], done)
              IN  /\ Len(cache) < 2
                  /\ IF cache = <<>> THEN done = {} ELSE done \in Completions(cache[1])
                  /\ arrived' = arrived + n /\ UNCHANGED kind
                  /\ \E failed \in SUBSET {pb[k] : k \in {j \in 1 .. n : pb[j].prefix > 0}} :
                        LET built == from_pb(pb, failed) IN
                        /\ failed # Range(pb)
                        /\ shifted' = (shifted \/ Shifts(pb, failed))
                        /\ IF built.raises THEN cache' = kept /\ kv' = freed
                           ELSE \E result \in generate_token(built.batch, freed, TRUE, kept # <<>>) :
                                  cache' = Append(kept, result.batch) /\ kv' = result.kv
      BY <1>1
  <1> DEFINE pb    == NewRequests(shapes)
             kept  == IF cache = <<>> THEN <<>> ELSE Remaining(cache[1], done)
             freed == IF cache = <<>> THEN kv ELSE Freed(kv, cache[1], done)
  <1>3. /\ Len(cache) < 2 /\ (cache # <<>> => done \in Completions(cache[1]))
        /\ arrived' = arrived + n /\ kind' = kind
      BY <1>2
  <1>4. PICK failed \in SUBSET {pb[k] : k \in {j \in 1 .. n : pb[j].prefix > 0}} :
            /\ failed # Range(pb)
            /\ IF from_pb(pb, failed).raises THEN cache' = kept /\ kv' = freed
               ELSE \E result \in generate_token(from_pb(pb, failed).batch, freed, TRUE, kept # <<>>) :
                      cache' = Append(kept, result.batch) /\ kv' = result.kv
      BY <1>2
  <1>5. n \in Nat /\ arrived' \in Nat
      <2>1. NumRequests \in Nat
          BY ShapesAssumption
      <2>. QED  BY <1>3, <2>1
  <1>6. List(pb, n) /\ \A k \in 1 .. n : KnownRequest(pb[k])
      BY <1>5, NewRequestsAre
  <1>7. \E k \in 1 .. n : pb[k] \notin failed
      <2>1. DOMAIN pb = 1 .. n
          BY <1>6 DEF List
      <2> HIDE DEF pb
      <2>2. Range(pb) = {pb[k] : k \in 1 .. n}
          BY <2>1 DEF Range
      <2>. QED  BY <1>4, <2>2
  <1>8. kept = <<>> \/ \E c : kept = <<c>> /\ Settled(c) /\ NoneAtLimit(c)
      <2>1. CASE cache = <<>>
          BY <2>1
      <2>2. CASE cache # <<>>
          <3>1. Settled(cache[1])
              BY <1>3, <2>2 DEF CacheOk
          <3>2. Added(cache[1])
              BY <3>1, AloneFits DEF Settled, Added
          <3>. QED  BY <1>3, <2>2, <3>1, <3>2, RemainingOk
      <2>. QED  BY <2>1, <2>2
  <1>9. /\ BatchOk(from_pb(pb, failed).batch) /\ NoneAtLimit(from_pb(pb, failed).batch)
        /\ NewFits(from_pb(pb, failed).batch)
      <2> HIDE DEF pb
      <2>. QED  BY <1>5, <1>6, <1>7, BuildOk, BuildFits
  <1> HIDE DEF pb, kept, freed
  <1>10. CASE from_pb(pb, failed).raises
      <2>1. cache' = kept
          BY <1>4, <1>10
      <2>. QED  BY <1>3, <1>5, <1>8, <2>1 DEF CacheOk
  <1>11. CASE ~from_pb(pb, failed).raises
      <2> DEFINE first == TRUE  for_concat == kept # <<>>
      <2>1. first \in BOOLEAN /\ for_concat \in BOOLEAN /\ first /\ (for_concat <=> kept # <<>>)
          OBVIOUS
      <2>2. PICK result \in generate_token(from_pb(pb, failed).batch, freed, first, for_concat) :
                cache' = Append(kept, result.batch)
          BY <1>4, <1>11
      <2> HIDE DEF first, for_concat
      <2>3. BatchOk(result.batch)
          BY <1>9, <2>1, <2>2, GenerateOk
      <2>4. first => Fits(result.batch) /\ (~for_concat => Alone(result.batch))
          BY <1>9, <2>2, <2>1, FirstFits
      <2>5. CASE kept = <<>>
          <3>1. cache' = <<result.batch>>
              BY <2>2, <2>5
          <3>. QED  BY <1>3, <1>5, <2>1, <2>3, <2>4, <2>5, <3>1 DEF CacheOk, Settled
      <2>6. CASE kept # <<>>
          <3>1. PICK c : kept = <<c>> /\ Settled(c) /\ NoneAtLimit(c)
              BY <1>8, <2>6
          <3>2. cache' = <<c, result.batch>>
              BY <2>2, <3>1, PairIs
          <3>. QED  BY <1>3, <1>5, <2>1, <2>3, <2>4, <3>1, <3>2 DEF CacheOk, Added
      <2>. QED  BY <2>5, <2>6
  <1>. QED  BY <1>10, <1>11

\* ... and so does NextToken.
LEMMA NextTokenOk ==
  ASSUME kind \in Kinds, CacheOk(cache), NextToken
  PROVE  CacheOk(cache') /\ kind' = kind /\ arrived' = arrived
  <1>1. kind' = kind /\ arrived' = arrived /\ cache # <<>>
      BY DEF NextToken
  <1>2. PICK done \in [DOMAIN cache -> SUBSET (1 .. arrived)] :
          LET one   == Len(cache) = 1
              left1 == Remaining(cache[1], done[1])
              freed1 == Freed(kv, cache[1], done[1])
              left  == IF one THEN left1 ELSE left1 \o Remaining(cache[2], done[2])
              freed == IF one THEN freed1 ELSE Freed(freed1, cache[2], done[2])
              batch == IF Len(left) = 1 THEN left[1] ELSE concatenate(left[1], left[2])
          IN  /\ \A k \in DOMAIN cache : done[k] \in Completions(cache[k])
              /\ Len(cache) = 2 => done[1] = {}
              /\ IF left = <<>> THEN cache' = <<>> /\ kv' = freed
                 ELSE \E result \in generate_token(batch, freed, FALSE, FALSE) :
                        cache' = <<result.batch>> /\ kv' = result.kv
      BY DEF NextToken
  <1> DEFINE one   == Len(cache) = 1
             left1 == Remaining(cache[1], done[1])
             freed1 == Freed(kv, cache[1], done[1])
             left  == IF one THEN left1 ELSE left1 \o Remaining(cache[2], done[2])
             freed == IF one THEN freed1 ELSE Freed(freed1, cache[2], done[2])
             batch == IF Len(left) = 1 THEN left[1] ELSE concatenate(left[1], left[2])
  <1>3. /\ \A k \in DOMAIN cache : done[k] \in Completions(cache[k])
        /\ Len(cache) = 2 => done[1] = {}
        /\ IF left = <<>> THEN cache' = <<>>
           ELSE \E result \in generate_token(batch, freed, FALSE, FALSE) : cache' = <<result.batch>>
      BY <1>2
  <1>4. \/ left = <<>>
        \/ \E a : left = <<a>> /\ Settled(a) /\ NoneAtLimit(a)
        \/ \E a, b : left = <<a, b>> /\ Settled(a) /\ NoneAtLimit(a) /\ Added(b) /\ NoneAtLimit(b)
      <2>1. CASE \E a : cache = <<a>> /\ Settled(a)
          <3>1. one /\ 1 \in DOMAIN cache /\ Settled(cache[1])
              BY <2>1
          <3>2. left = left1
              BY <3>1
          <3>3. Added(cache[1])
              BY <3>1, AloneFits DEF Settled, Added
          <3> HIDE DEF left, left1
          <3>. QED  BY <1>3, <3>1, <3>2, <3>3, RemainingOk DEF left1
      <2>2. CASE \E a, b : cache = <<a, b>> /\ Settled(a) /\ NoneAtLimit(a) /\ Added(b)
          <3> DEFINE left2 == Remaining(cache[2], done[2])
          <3>1. /\ ~one /\ 1 \in DOMAIN cache /\ 2 \in DOMAIN cache /\ Len(cache) = 2
                /\ Settled(cache[1]) /\ Added(cache[2])
              BY <2>2
          <3>2. left = left1 \o left2
              BY <3>1
          <3>3. PICK a : left1 = <<a>> /\ Settled(a) /\ NoneAtLimit(a)
              <4>1. done[1] = {} /\ {} \in Completions(cache[1])
                  BY <1>3, <3>1
              <4>. QED  BY <3>1, <4>1, AllRemains
          <3>4. left2 = <<>> \/ \E b : left2 = <<b>> /\ Added(b) /\ NoneAtLimit(b)
              BY <1>3, <3>1, RemainingOk
          <3> HIDE DEF left, left1, left2
          <3>5. CASE left2 = <<>>
              <4>1. <<a>> \o <<>> = <<a>>
                  OBVIOUS
              <4>. QED  BY <3>2, <3>3, <3>5, <4>1
          <3>6. CASE left2 # <<>>
              <4>1. PICK b : left2 = <<b>> /\ Added(b) /\ NoneAtLimit(b)
                  BY <3>4, <3>6
              <4>2. <<a>> \o <<b>> = <<a, b>>
                  BY PairIs
              <4>. QED  BY <3>2, <3>3, <4>1, <4>2
          <3>. QED  BY <3>5, <3>6
      <2>. QED  BY <1>1, <2>1, <2>2 DEF CacheOk
  <1> HIDE DEF left, freed
  <1>5. left # <<>> => Settled(batch) /\ NoneAtLimit(batch)
      <2>1. CASE \E a : left = <<a>> /\ Settled(a) /\ NoneAtLimit(a)
          BY <2>1
      <2>2. CASE \E a, b : left = <<a, b>> /\ Settled(a) /\ NoneAtLimit(a) /\ Added(b) /\ NoneAtLimit(b)
          <3>1. PICK a, b : left = <<a, b>> /\ Settled(a) /\ NoneAtLimit(a) /\ Added(b) /\ NoneAtLimit(b)
              BY <2>2
          <3>2. batch = concatenate(a, b)
              BY <3>1
          <3>3. BatchOk(a) /\ Fits(a) /\ BatchOk(b) /\ Fits(b)
              BY <3>1, AloneFits DEF Settled, Added
          <3>4. BatchOk(concatenate(a, b)) /\ NoneAtLimit(concatenate(a, b))
              BY <3>1, <3>3, ConcatenateOk
          <3>5. Alone(concatenate(a, b))
              BY <3>1, <3>3, ConcatenateFits
          <3>. QED  BY <3>2, <3>4, <3>5 DEF Settled
      <2>. QED  BY <1>4, <2>1, <2>2
  <1> HIDE DEF batch
  <1>6. CASE left = <<>>
      BY <1>1, <1>3, <1>6 DEF CacheOk
  <1>7. CASE left # <<>>
      <2> DEFINE first == FALSE
      <2>1. first \in BOOLEAN /\ ~first
          OBVIOUS
      <2>2. PICK result \in generate_token(batch, freed, first, first) : cache' = <<result.batch>>
          BY <1>3, <1>7
      <2> HIDE DEF first
      <2>3. BatchOk(batch) /\ Alone(batch) /\ NoneAtLimit(batch)
          BY <1>5, <1>7 DEF Settled
      <2>4. BatchOk(result.batch)
          BY <2>1, <2>2, <2>3, GenerateOk
      <2>5. Alone(result.batch)
          BY <2>1, <2>2, <2>3, DecodeFits
      <2>. QED  BY <1>1, <2>2, <2>4, <2>5 DEF CacheOk, Settled
  <1>. QED  BY <1>6, <1>7

\* The chooser of each cached batch is that of its rows and its tensors have the room they
\* need, and a batch to which another was added was pruned first, so that no request in it is
\* at its limit when both are concatenated.
BatchesInv == kind \in Kinds /\ arrived \in Nat /\ CacheOk(cache)

\* It holds of an empty cache, and every step keeps it.
LEMMA BatchesAlways == Spec => []BatchesInv
  <1>1. Init => BatchesInv
      BY DEF Init, BatchesInv, CacheOk, Kinds
  <1>2. BatchesInv /\ [Next]_vars => BatchesInv'
      <2> SUFFICES ASSUME BatchesInv, [Next]_vars PROVE BatchesInv'
          OBVIOUS
      <2>1. kind' = kind /\ arrived' \in Nat /\ CacheOk(cache')
          <3>1. CASE Prefill
              BY <3>1, PrefillOk DEF BatchesInv
          <3>2. CASE NextToken
              BY <3>2, NextTokenOk DEF BatchesInv
          <3>3. CASE AllDone \/ UNCHANGED vars
              BY <3>3 DEF BatchesInv, AllDone, vars
          <3>. QED  BY <3>1, <3>2, <3>3 DEF Next
      <2>2. \A b : /\ (Settled(b)' <=> Settled(b)) /\ (Added(b)' <=> Added(b))
                   /\ (NoneAtLimit(b)' <=> NoneAtLimit(b))
          BY <2>1, KindStays
      <2>3. CacheOk(cache)'
          BY <2>1, <2>2 DEF CacheOk
      <2>. QED  BY <2>1, <2>3 DEF BatchesInv, Kinds
  <1>. QED  BY <1>1, <1>2, PTL DEF Spec

\* However requests are prefilled together, batches are concatenated and pruned, and
\* whatever the type of the batch: the processors, warpers, generators and counters
\* that next_token_chooser applies to a row are those that its own request asked for,
\* with the draws and the tokens of that request.
THEOREM ChoosersAlwaysFollowRows == Spec => []ChoosersFollowRows
  <1>1. BatchesInv => ChoosersFollowRows
      <2> SUFFICES ASSUME BatchesInv, NEW k \in DOMAIN cache, NEW j \in DOMAIN cache[k].rows,
                          kind # "paged" \/ cache[k].next_token_chooser.do_sample[j]
                   PROVE  Effect(cache[k].next_token_chooser, j)
                              = Wanted(cache[k].rows[j].request.parameters, Generated(cache[k].rows[j]))
          BY DEF ChoosersFollowRows
      <2>1. BatchOk(cache[k])
          BY DEF BatchesInv, CacheOk, Settled, Added
      <2>. QED  BY <2>1, BatchOkEffect
  <1>. QED  BY <1>1, BatchesAlways, PTL

\* The lengths that a batch keeps are those of its rows.
LEMMA FitsHasRoom ==
  ASSUME kind \in Kinds, NEW b, Fits(b)
  PROVE  CASE kind = "causal"  -> Causal!RoomFor(b)
           [] kind = "seq2seq" -> Seq2Seq!RoomFor(b)
           [] kind = "flash"   -> Flash!RoomFor(b)
           [] kind = "paged"   -> Paged!RoomFor(b)
  <1>1. CASE kind = "causal"
      <2>1. PICK n, w : CausalFits(b, n, w, 1)
          BY <1>1 DEF Fits
      <2> DEFINE M == b.max_sequence_length  o == b.padding_right_offset
      <2>2. Largest(M, b.rows, "input_length") /\ Largest(o, b.rows, "max_remaining_tokens")
          BY <2>1 DEF CausalFits
      <2>3. Max({b.rows[k].input_length : k \in DOMAIN b.rows}) = M
          BY <2>2, LargestOnly
      <2>4. Max({b.rows[k].max_remaining_tokens : k \in DOMAIN b.rows}) = o
          BY <2>2, LargestOnly
      <2>5. Causal!RoomFor(b)
          BY <2>3, <2>4, CausalSlices DEF Causal!RoomFor, Causal!MaxOf
      <2>. QED  BY <1>1, <2>5
  <1>2. CASE kind = "seq2seq"
      <2>1. PICK n : Seq2SeqFits(b, n)
          BY <1>2 DEF Fits
      <2> DEFINE M == b.max_input_length  D == b.max_decoder_input_length  o == b.padding_right_offset  W == D + o
      <2>2. /\ Largest(M, b.rows, "input_length") /\ Largest(D, b.rows, "decoder_input_length")
            /\ Largest(o, b.rows, "max_remaining_tokens") /\ DOMAIN b.rows = 1 .. n
            /\ \A k \in 1 .. n : List(b.rows[k].all_decoder_input_ids, W)
          BY <2>1 DEF Seq2SeqFits, Seq2SeqRowFits, List
      <2>3. W \in Nat
          BY <2>2 DEF Largest
      <2>4. Max({b.rows[k].input_length : k \in DOMAIN b.rows}) = M
          <3>1. Largest(M, b.rows, "input_length")
              BY <2>2
          <3>. QED  BY <3>1, LargestOnly
      <2>5. Max({b.rows[k].decoder_input_length : k \in DOMAIN b.rows}) = D
          <3>1. Largest(D, b.rows, "decoder_input_length")
              BY <2>2
          <3>. QED  BY <3>1, LargestOnly
      <2>6. Max({b.rows[k].max_remaining_tokens : k \in DOMAIN b.rows}) = o
          <3>1. Largest(o, b.rows, "max_remaining_tokens")
              BY <2>2
          <3>. QED  BY <3>1, LargestOnly
      <2>7. \A k \in DOMAIN b.rows : Len(b.rows[k].all_decoder_input_ids) = W
          <3> HIDE DEF W
          <3>. QED  BY <2>2, <2>3, Lists
      <2>8. Seq2Seq!RoomFor(b)
          BY <2>4, <2>5, <2>6, <2>7, Seq2SeqSlices DEF Seq2Seq!RoomFor, Seq2Seq!MaxOf
      <2>. QED  BY <1>2, <2>8
  <1>3. CASE kind = "flash"
      <2>1. PICK n, p : FlashCached(b, n, p)
          BY <1>3 DEF Fits
      <2> DEFINE M == b.max_seqlen  cu == b.cu_seqlens  N == n + 1
      <2>2. PICK L : Largest(L, b.rows, "total_length") /\ \A k \in 1 .. n : FlashRowFits(b.rows[k], L)
          BY <2>1 DEF FlashCached, FlashFits
      <2>3. /\ n \in Nat \ {0} /\ n \in Nat /\ List(b.rows, n) /\ DOMAIN b.rows = 1 .. n /\ L \in Nat
            /\ Largest(M, b.rows, "input_length") /\ Cumulative(cu, Lengths(b.rows), n)
            /\ p \in Nat /\ List(b.past, p) /\ cu[N] <= p /\ (n > 1 => p = cu[N])
          BY <2>1, <2>2 DEF FlashCached, FlashFits, List, Largest
      <2>4. Max({b.rows[k].input_length : k \in DOMAIN b.rows}) = M
          BY <2>3, LargestOnly
      <2>5. Max({b.rows[k].total_length : k \in DOMAIN b.rows}) = L
          BY <2>2, LargestOnly
      <2>6. List(cu, N) /\ N \in Nat /\ cu[N] \in Nat
          BY <2>3 DEF Cumulative, List
      <2>7. Len(cu) = N /\ Len(b.past) = p /\ Len(b.rows) = n
          <3> HIDE DEF cu, N
          <3>. QED  BY <2>3, <2>6, Lists
      <2>8. ASSUME NEW k \in DOMAIN b.rows
            PROVE  cu[k + 1] - cu[k] = b.rows[k].input_length /\ Len(b.rows[k].all_input_ids) = L
          <3> DEFINE x == cu[k + 1]  y == cu[k]  z == b.rows[k].input_length
          <3>1. z = Lengths(b.rows)[k] /\ k \in 1 .. n
              BY <2>3 DEF Lengths
          <3>2. x = y + z /\ z \in Nat
              BY <2>3, <3>1 DEF Cumulative
          <3>3. y \in Nat
              BY <2>3, <3>1 DEF Cumulative
          <3> HIDE DEF x, y, z
          <3>4. x - y = z
              BY <3>2, <3>3
          <3>5. List(b.rows[k].all_input_ids, L)
              BY <2>2, <3>1 DEF FlashRowFits
          <3>6. Len(b.rows[k].all_input_ids) = L
              BY <2>3, <3>5, Lists
          <3>. QED  BY <3>4, <3>6 DEF x, y, z
      <2>9. Flash!Last(cu) = cu[N]
          BY <2>7, FlashSlices
      <2>10. IF Len(b.rows) > 1 THEN Len(b.past) = Flash!Last(cu) ELSE Len(b.past) >= Flash!Last(cu)
          <3> HIDE DEF cu, N
          <3>. QED  BY <2>3, <2>6, <2>7, <2>9
      <2>11. Flash!RoomFor(b)
          BY <2>4, <2>5, <2>8, <2>10, FlashSlices DEF Flash!RoomFor, Flash!MaxOf
      <2>. QED  BY <1>3, <2>11
  <1>4. CASE kind = "paged"
      <2>1. PICK n : PagedFits(b, n)
          BY <1>4 DEF Fits
      <2>2. PICK L : Largest(L, b.rows, "total_length") /\ \A k \in 1 .. n : PagedRowFits(b.rows[k], L)
          BY <2>1 DEF PagedFits
      <2>3. DOMAIN b.rows = 1 .. n /\ Largest(b.max_seqlen, b.rows, "input_length") /\ L \in Nat
          BY <2>1, <2>2 DEF PagedFits, List, Largest
      <2>4. Max({b.rows[k].input_length : k \in DOMAIN b.rows}) = b.max_seqlen
          <3>1. Largest(b.max_seqlen, b.rows, "input_length")
              BY <2>3
          <3>. QED  BY <3>1, LargestOnly
      <2>5. Max({b.rows[k].total_length : k \in DOMAIN b.rows}) = L
          BY <2>2, LargestOnly
      <2>6. \A k \in DOMAIN b.rows : List(b.rows[k].all_input_ids, L)
          BY <2>2, <2>3 DEF PagedRowFits
      <2>7. \A k \in DOMAIN b.rows : Len(b.rows[k].all_input_ids) = L
          BY <2>3, <2>6, Lists
      <2>8. Paged!RoomFor(b)
          BY <2>4, <2>5, <2>7, PagedSlices DEF Paged!RoomFor, Paged!MaxOf
      <2>. QED  BY <1>4, <2>8
  <1>. QED  BY <1>1, <1>2, <1>3, <1>4 DEF Kinds

\* Whatever is prefilled, pruned and concatenated: every batch knows the greatest length and
\* the most remaining tokens among its rows, and the tensors that are sized by these have
\* room for all tokens its requests may still generate, and no more (concatenate, prune
\* and generate_token of the four batch types).
THEOREM AlwaysRoomForAll == Spec => []RoomForAll
  <1>1. BatchesInv => RoomForAll
      <2> SUFFICES ASSUME BatchesInv, NEW k \in DOMAIN cache
                   PROVE  CASE kind = "causal"  -> Causal!RoomFor(cache[k])
                            [] kind = "seq2seq" -> Seq2Seq!RoomFor(cache[k])
                            [] kind = "flash"   -> Flash!RoomFor(cache[k])
                            [] kind = "paged"   -> Paged!RoomFor(cache[k])
          BY DEF RoomForAll
      <2>1. Fits(cache[k]) /\ kind \in Kinds
          BY AloneFits DEF BatchesInv, CacheOk, Settled, Added
      <2>. QED  BY <2>1, FitsHasRoom
  <1>. QED  BY <1>1, BatchesAlways, PTL

\* A causal batch that is alone in the cache has no column that only pads: what from_pb
\* padded to a multiple of 8 is trimmed by the first generate_token, or by concatenate or
\* prune if the batch was prefilled to be added to another (causal_lm.py).
THEOREM NeverExtraPadding == Spec => []NoExtraPadding
  <1>1. BatchesInv => NoExtraPadding
      <2> SUFFICES ASSUME BatchesInv, kind = "causal", Len(cache) = 1, NEW k \in DOMAIN cache[1].rows
                   PROVE  Len(cache[1].rows[k].past) < cache[1].max_sequence_length
          BY DEF NoExtraPadding
      <2> DEFINE b == cache[1]  M == b.max_sequence_length  h == M - 1  past == b.rows[k].past
      <2>1. Settled(b)
          BY DEF BatchesInv, CacheOk
      <2>2. PICK n : CausalFits(b, n, M, 1)
          BY <2>1 DEF Settled, Alone
      <2>3. M \in Nat /\ 1 \in 1 .. M /\ k \in 1 .. n /\ CausalRowFits(b.rows[k], M, b.padding_right_offset, M, 1)
          BY <2>2 DEF CausalFits, List
      <2>4. List(past, h) /\ h \in Nat /\ h < M
          BY <2>3 DEF CausalRowFits
      <2> HIDE DEF h
      <2>5. Len(past) = h
          BY <2>4, Lists
      <2>. QED  BY <2>4, <2>5
  <1>. QED  BY <1>1, BatchesAlways, PTL
=============================================================================
