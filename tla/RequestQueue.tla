---------------------------- MODULE RequestQueue ----------------------------
(***************************************************************************)
(* How the queue chooses the next batch: Queue::try_next_batch             *)
(* (router/src/queue.rs) with the weights of the two batch types           *)
(* (router/src/batch_types.rs), while the batch in progress generates.     *)
(*                                                                         *)
(* The gradients are fractions over Scale, and a weight is truncated where *)
(* the code casts it to usize.                                             *)
(***************************************************************************)
EXTENDS Integers, Sequences, FiniteSets, FiniteSetsExt, SequencesExt

CONSTANTS
    Requests,           \* in the order their entries reach the buffer
    InLengths,          \* bound: values of input_length + prefix_length
    OutLengths,         \* bound: values of max_new_tokens
    Kinds,              \* of batches: "flash", "padded"
    MaxSequenceLength,
    WeightLimit,        \* BatchingConfig::weight_limit
    SizeLimit,          \* BatchingConfig::size_limit
    PaddingLimit,       \* BatchingConfig::prefill_padding_limit, in percent
    Scale, NextTokenGradient, PrefillGradient, QuadraticCoef1, QuadraticCoef2,
    Cutoff,             \* CUTOFF_DURATION
    MaxTime             \* bound on the clock

NextTokenWeight(tokens) == (tokens * NextTokenGradient) \div Scale

\* prefill_weight, of n inputs of in_sum tokens in all, of which the longest has max_in.
PrefillWeight(kind, in_sum, max_in, n) ==
    IF kind = "flash" THEN (in_sum * PrefillGradient) \div Scale
    ELSE Max({n * max_in * PrefillGradient,
              n * max_in * QuadraticCoef1 + n * max_in * max_in * QuadraticCoef2}) \div Scale

\* The router does not start unless one request of the maximum length fits.
validate_batch_config ==
    /\ WeightLimit >= NextTokenWeight(MaxSequenceLength)
    /\ \A kind \in Kinds :
          WeightLimit >= PrefillWeight(kind, MaxSequenceLength, MaxSequenceLength, 1)

ASSUME QueueAssumption ==
    /\ Requests \subseteq Nat
    /\ InLengths \subseteq Nat \ {0} /\ OutLengths \subseteq Nat \ {0}
    /\ MaxSequenceLength \in Nat /\ WeightLimit \in Nat \ {0} /\ SizeLimit \in Nat \ {0}
    /\ Scale \in Nat \ {0} /\ NextTokenGradient \in Nat
    /\ PrefillGradient \in Nat /\ QuadraticCoef1 \in Int /\ QuadraticCoef2 \in Nat
    /\ PaddingLimit \in Nat /\ Cutoff \in Nat /\ MaxTime \in Nat
    /\ validate_batch_config

VARIABLES
    Kind,           \* batch_type, chosen when the router starts
    In, Out,        \* lengths of the requests, which never change
    clock,
    queue_time,     \* when the entry was created; NotCreated before
    buffer,         \* Queue::buffer
    entries,        \* the requests in progress
    generated,      \* generated_tokens
    prefilling      \* the new batch while its prefill is awaited

vars == <<Kind, In, Out, clock, queue_time, buffer, entries, generated, prefilling>>

NotCreated == -1

TypeOK ==
    /\ Kind \in Kinds
    /\ In \in [Requests -> InLengths] /\ Out \in [Requests -> OutLengths]
    /\ clock \in 0 .. MaxTime
    /\ queue_time \in [Requests -> 0 .. MaxTime \cup {NotCreated}]
    /\ buffer \in Seq(Requests)
    /\ entries \in SUBSET Requests
    /\ generated \in [Requests -> Nat]
    /\ prefilling \in SUBSET entries

\* validate admits only requests within max_sequence_length.
Init ==
    /\ Kind \in Kinds
    /\ In \in [Requests -> InLengths] /\ Out \in [Requests -> OutLengths]
    /\ \A r \in Requests : In[r] + Out[r] <= MaxSequenceLength
    /\ clock = 0
    /\ queue_time = [r \in Requests |-> NotCreated]
    /\ buffer = <<>>
    /\ entries = {}
    /\ generated = [r \in Requests |-> 0]
    /\ prefilling = {}

----------------------------------------------------------------------------
(* Batch statistics and weights.                                            *)

\* Both kinds of statistics: sums (FlashBatch) and maxima (PaddedBatch).
NoStats == [in_sum |-> 0, out_sum |-> 0, max_in |-> 0, max_out |-> 0]

update_stats(s, in, out) ==
    [in_sum |-> s.in_sum + in, out_sum |-> s.out_sum + out,
     max_in |-> Max({s.max_in, in}), max_out |-> Max({s.max_out, out})]

InLen(r) == In[r] + generated[r]
OutLen(r) == Out[r] - generated[r]

compute_stats(rs) ==
    [in_sum  |-> MapThenSumSet(InLen, rs), out_sum |-> MapThenSumSet(OutLen, rs),
     max_in  |-> Max({0} \cup {InLen(r) : r \in rs}),
     max_out |-> Max({0} \cup {OutLen(r) : r \in rs})]

batch_max_weight(s, n) ==
    NextTokenWeight(IF Kind = "flash" THEN s.in_sum + s.out_sum
                    ELSE (s.max_in + s.max_out) * n)

batch_initial_weight(s, n) ==
    NextTokenWeight(IF Kind = "flash" THEN s.in_sum ELSE s.max_in * n)

\* percent_padding exceeds the limit.
CountsOneMore(s, n) ==      \* mutant
    Kind = "padded" /\ (s.max_in * (n + 1) - s.in_sum) * 100 > PaddingLimit * s.max_in * (n + 1)
TooMuchPadding(s, n) ==
    Kind = "padded" /\ (s.max_in * n - s.in_sum) * 100 > PaddingLimit * s.max_in * n

\* The tree holds <<out_len, in_len, index>>, in lexicographic order.
AtLeast(e, f) ==
    \/ e[1] > f[1]
    \/ e[1] = f[1] /\ e[2] > f[2]
    \/ e[1] = f[1] /\ e[2] = f[2] /\ e[3] >= f[3]

\* exceeds_weight: the space taken when the requests that outlast e, and e, have
\* generated e's out_len further tokens; later segments were checked before.
NeverExceeds(tree, current_output_len) == FALSE     \* mutant
exceeds_weight(tree, current_output_len) ==
    \E e \in tree :
        LET alive == {f \in tree : AtLeast(f, e)}
            n     == Cardinality(alive)
            seg_max_tokens ==
                IF Kind = "flash" THEN MapThenSumSet(LAMBDA f : f[2], alive) + n * e[1]
                ELSE (Max({f[2] : f \in alive}) + e[1]) * n
        IN  /\ e[1] <= current_output_len
            /\ seg_max_tokens * NextTokenGradient > WeightLimit * Scale

----------------------------------------------------------------------------
(* try_next_batch.                                                          *)

\* The space left by the batch in progress; the floating-point product may be
\* truncated to one less (slack).  0 stands for the early return.
IgnoresInProgress(slack) == WeightLimit     \* mutant
EffectivePrefillLimit(slack) ==
    LET free == WeightLimit
                - batch_initial_weight(compute_stats(entries), Cardinality(entries))
    IN  IF entries = {} THEN WeightLimit
        ELSE IF free > slack THEN free - slack ELSE 0

NoTree == {<<-1, -1, -1>>}
NoCutoff == -1

\* The tree when it is first needed: all entries and the requests chosen so far;
\* the index only tells equal lengths apart.
InitialTree(chosen) ==
    LET rs == entries \cup Range(chosen)
    IN  {<<OutLen(r), InLen(r), Cardinality({q \in rs : q < r})>> : r \in rs}

Grow(tree, r) == tree \cup {<<OutLen(r), InLen(r), Cardinality(tree)>>}

\* A request is passed over: its tuple is removed from the tree, and the first
\* one sets the cutoff.
LatestCutoff(s, tree, r) ==     \* mutant
    [s EXCEPT !.tree = tree, !.cutoff = queue_time[r] + Cutoff]
PassOver(s, tree, r) ==
    [s EXCEPT !.tree = tree,
              !.cutoff = IF @ = NoCutoff THEN queue_time[r] + Cutoff ELSE @]

Accept(s, tree, r, stats, prefill) ==
    [s EXCEPT !.tree = tree, !.chosen = Append(@, r), !.stats = stats, !.prefill = prefill,
              !.stop = Cardinality(entries) + Len(s.chosen) + 1 >= SizeLimit]

\* One turn of the loop over the buffer.  s.none stands for `return None`.
Consider(s, index, min_size, limit) ==
    LET r       == buffer[index]
        total   == Cardinality(entries) + Len(s.chosen)
        stats   == update_stats(s.stats, In[r], Out[r])
        unsure  == batch_max_weight(stats, total + 1) > WeightLimit
        base    == IF s.tree = NoTree /\ unsure THEN InitialTree(s.chosen) ELSE s.tree
        tree    == IF base = NoTree THEN NoTree ELSE Grow(base, r)
        prefill == update_stats(s.prefill, In[r], 0)
        n       == Len(s.chosen) + 1
    IN  IF s.stop \/ (s.cutoff # NoCutoff /\ queue_time[r] > s.cutoff)
        THEN [s EXCEPT !.stop = TRUE]
        ELSE IF unsure /\ exceeds_weight(tree, Out[r])
        THEN IF Len(s.chosen) + Len(buffer) < min_size + index
             THEN [s EXCEPT !.stop = TRUE, !.none = TRUE]
             ELSE PassOver(s, base, r)
        ELSE IF PrefillWeight(Kind, prefill.in_sum, prefill.max_in, n) > limit
                \/ TooMuchPadding(prefill, n)
        THEN PassOver(s, base, r)
        ELSE Accept(s, tree, r, stats, prefill)

Start ==
    [chosen |-> <<>>, stats |-> compute_stats(entries), prefill |-> NoStats,
     tree |-> NoTree, cutoff |-> NoCutoff, stop |-> FALSE, none |-> FALSE]

\* The state of the loop after each turn.
Turns(min_size, limit) ==
    LET turn[k \in 0 .. Len(buffer)] ==
            IF k = 0 THEN Start ELSE Consider(turn[k - 1], k, min_size, limit)
    IN  turn

\* The requests chosen, in queue order.
Chosen(min_size, limit) ==
    LET s == Turns(min_size, limit)[Len(buffer)]
    IN  IF \/ Len(buffer) < min_size
           \/ Cardinality(entries) + min_size > SizeLimit
           \/ limit = 0 \/ s.none
        THEN <<>> ELSE s.chosen

\* The chosen entries are removed one by one, and the others keep their order.
Remaining(chosen) ==
    LET left[k \in 0 .. Len(buffer)] ==
            IF k = 0 THEN <<>>
            ELSE IF buffer[k] \in Range(chosen) THEN left[k - 1] ELSE Append(left[k - 1], buffer[k])
    IN  left[Len(buffer)]

\* The batching task asks for a batch, of at least min_size requests when one is
\* in progress, and sends it to the shard.
TryNextBatch(min_size, slack) ==
    LET chosen == Chosen(min_size, EffectivePrefillLimit(slack)) IN
    /\ prefilling = {}
    /\ chosen # <<>>
    /\ buffer' = Remaining(chosen)
    /\ entries' = entries \cup Range(chosen)
    /\ prefilling' = Range(chosen)
    /\ UNCHANGED <<Kind, In, Out, clock, queue_time, generated>>

NextBatch ==
    \E min_size \in 1 .. Max({1, Cardinality(entries)}), slack \in {0, 1} :
        TryNextBatch(min_size, slack)

----------------------------------------------------------------------------
(* The surroundings.                                                        *)

\* Only the creation of an entry reads the clock.
Tick ==
    /\ clock < MaxTime /\ \E r \in Requests : queue_time[r] = NotCreated
    /\ clock' = clock + 1
    /\ UNCHANGED <<Kind, In, Out, queue_time, buffer, entries, generated, prefilling>>

\* Entry::new in the caller's task ...
Create(r) ==
    /\ queue_time[r] = NotCreated
    /\ queue_time' = [queue_time EXCEPT ![r] = clock]
    /\ UNCHANGED <<Kind, In, Out, clock, buffer, entries, generated, prefilling>>

Queued == {r \in Requests : r \in Range(buffer) \/ r \in entries \/ generated[r] > 0}

\* ... which reaches the buffer some time later; requests may overtake each other.
AddToBuffer(r) ==
    /\ queue_time[r] # NotCreated /\ r \notin Queued
    /\ \A q \in Requests : q < r => q \in Queued
    /\ buffer' = Append(buffer, r)
    /\ UNCHANGED <<Kind, In, Out, clock, queue_time, entries, generated, prefilling>>

\* A call returned one token for each of rs, and the requests in done, which
\* include those at their limit, are completed.
Generated(rs, done) ==
    /\ done \subseteq rs
    /\ \A r \in rs : OutLen(r) = 1 => r \in done
    /\ generated' = [r \in Requests |-> IF r \in rs THEN generated[r] + 1 ELSE generated[r]]
    /\ entries' = entries \ done
    /\ UNCHANGED <<Kind, In, Out, clock, queue_time, buffer>>

PrefillDone ==
    /\ prefilling # {}
    /\ prefilling' = {}
    /\ \E done \in SUBSET prefilling : Generated(prefilling, done)

NextTokenDone ==
    /\ prefilling = {} /\ entries # {}
    /\ UNCHANGED prefilling
    /\ \E done \in SUBSET entries : Generated(entries, done)

AllServed == entries = {} /\ Queued = Requests /\ buffer = <<>> /\ UNCHANGED vars

Next ==
    \/ Tick
    \/ \E r \in Requests : Create(r) \/ AddToBuffer(r)
    \/ NextBatch
    \/ PrefillDone
    \/ NextTokenDone
    \/ AllServed

Spec == Init /\ [][Next]_vars

----------------------------------------------------------------------------
(* Properties.                                                              *)

\* Weight of what the shard keeps while it computes the next token: all inputs
\* and generated tokens of the batch, padded to the longest one.
CacheWeight(rs) ==
    NextTokenWeight(IF Kind = "flash" THEN MapThenSumSet(InLen, rs)
                    ELSE Max({0} \cup {InLen(r) : r \in rs}) * Cardinality(rs))

\* "verify that the batch shape won't exceed the limit at any point": however
\* add-on batches follow each other, no step exceeds the weight limit, although
\* each decision looks only at the segments up to the new request's length.
WithinWeightLimit == prefilling = {} => CacheWeight(entries) <= WeightLimit

\* The prefill of a batch fits beside what the batch in progress holds.
PrefillFits ==
    LET new == compute_stats(prefilling) IN
    prefilling # {} =>
        PrefillWeight(Kind, new.in_sum, new.max_in, Cardinality(prefilling))
            + CacheWeight(entries \ prefilling) <= WeightLimit

\* With nothing in progress the loop of next_batch gets a batch at once: it would
\* otherwise spin without ever awaiting.
NextBatchProgress ==
    entries = {} /\ buffer # <<>> => Chosen(1, EffectivePrefillLimit(0)) # <<>>

\* "Requests that fit into the next batch can overtake others that don't as long
\* as they arrive within this amount of time after": who is chosen behind a request
\* that is passed over was created at most Cutoff after the first of those.
CutoffRespected ==
    [][ \A j \in DOMAIN buffer, k \in DOMAIN buffer :
          /\ j < k
          /\ buffer[j] \notin entries' /\ buffer[k] \in entries'
          /\ \A h \in 1 .. j - 1 : buffer[h] \in entries'
          => queue_time[buffer[k]] <= queue_time[buffer[j]] + Cutoff ]_vars
=============================================================================
