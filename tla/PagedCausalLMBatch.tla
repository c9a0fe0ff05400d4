------------------------- MODULE PagedCausalLMBatch -------------------------
(***************************************************************************)
(* The batch of the models with a paged KV cache                           *)
(* (models/paged_causal_lm.py, utils/paged.py): a row names a sequence of  *)
(* the cache manager.  A speculative step gives each row CandidateCount    *)
(* child sequences with NPredict guessed tokens and keeps the best one.    *)
(*                                                                         *)
(* The manager (fms_extras) is external: kv maps the id of a sequence to   *)
(* its tokens, the number of those it shares with its parent, and the      *)
(* parent, 0 for none.  A block holds one token.                           *)
(***************************************************************************)
EXTENDS TensorSlices, TokenChoosers, FiniteSets, SequencesExt, TLC

CONSTANTS
    Speculator,                 \* whether SPECULATOR_NAME is set
    SPECULATOR_MAX_BATCH_SIZE,
    CandidateCount,             \* n_candidates of the speculator
    NPredict,                   \* n_predict of the speculator
    TotalBlocks                 \* blocks of the cache manager

----------------------------------------------------------------------------
(* The cache manager.                                                       *)

FreeBlocks(kv) ==
    TotalBlocks - MapThenSumSet(LAMBDA s : Len(kv[s].tokens) - kv[s].shared, DOMAIN kv)

NextIds(kv, n) == LET top == Max({0} \cup DOMAIN kv) IN [k \in 1 .. n |-> top + k]

\* Add the tokens to the sequences.
allocate_tokens(kv, ids, tokens) ==
    LET At(s) == {k \in DOMAIN ids : ids[k] = s} IN
    [s \in DOMAIN kv |->
        IF At(s) # {} THEN [kv[s] EXCEPT !.tokens = @ \o tokens[CHOOSE k \in At(s) : TRUE]]
        ELSE kv[s]]

Sequence(tokens, parent) == [tokens |-> tokens, shared |-> Len(tokens), parent |-> parent]

\* count children for each of the parents; they get the next ids.
ChildIds(kv, n, count) ==
    LET ids == NextIds(kv, n * count) IN
    [k \in 1 .. n |-> [j \in 1 .. count |-> ids[(k - 1) * count + j]]]
ParentOf(s, children) == CHOOSE k \in DOMAIN children : s \in Range(children[k])
add_child_sequences(kv, parents, children) ==
    kv @@ [s \in UNION {Range(children[k]) : k \in DOMAIN children} |->
              LET parent == parents[ParentOf(s, children)] IN Sequence(kv[parent].tokens, parent)]

\* Remove n[k] tokens of sequence ids[k].
remove_tokens(kv, ids, n) ==
    LET At(s) == {k \in DOMAIN ids : ids[k] = s} IN
    [s \in DOMAIN kv |->
        IF At(s) # {}
        THEN [kv[s] EXCEPT !.tokens = SubSeq(@, 1, Len(@) - n[CHOOSE k \in At(s) : TRUE])]
        ELSE kv[s]]

Without(kv, ids) == [s \in DOMAIN kv \ ids |-> kv[s]]
Ancestors(kv, s) ==
    LET up[t \in DOMAIN kv \cup {0}] == IF t = 0 THEN {} ELSE {t} \cup up[kv[t].parent] IN up[s]

\* Recursively: with the ancestors that no other sequence descends from.
free_sequences(kv, ids, recursive) ==
    LET others == DOMAIN kv \ UNION {Ancestors(kv, s) : s \in ids}
        shared == UNION {Ancestors(kv, s) : s \in others}
    IN  IF recursive THEN Without(kv, UNION {Ancestors(kv, s) : s \in ids} \ shared)
        ELSE Without(kv, ids)

----------------------------------------------------------------------------
(* PagedCausalLMBatch.                                                      *)

from_pb(pb) ==
    LET total_length(r) == r.input + r.output
        Row(r) == [request |-> r, input_length |-> r.input, total_length |-> total_length(r),
                   sequence_id |-> 0, input_id |-> Pad,
                   all_input_ids |-> Put(Fill(MaxOf(pb, total_length), Pad), 0, r.input,
                                         Cells(r.id, r.text - r.input + 1, r.text))]
    IN  [max_seqlen |-> MaxOf(pb, LAMBDA r : r.input),
         next_token_chooser |-> NewChooser(Column(pb, LAMBDA r : r.parameters)),
         rows |-> [k \in DOMAIN pb |-> Row(pb[k])]]

concatenate(b1, b2) ==
    LET rows == b1.rows \o b2.rows
        max_total_length == MaxOf(rows, LAMBDA row : row.total_length)
    IN  [max_seqlen |-> Max({b1.max_seqlen, b2.max_seqlen}),
         next_token_chooser |->
             CombineChoosers(Column(rows, LAMBDA row : row.request.parameters),
                             b1.next_token_chooser, b2.next_token_chooser),
         rows |-> Column(rows, LAMBDA row :
             [row EXCEPT !.all_input_ids = Put(Fill(max_total_length, Pad), 0, Len(@), @)])]

\* Unlike the other batch types, this one tests whether an id is in completed_ids.
prune(b, completed_ids) ==
    LET keep_indices == KeepIndices(b, completed_ids)
        kept == Pick(b.rows, keep_indices)
        max_total_length == MaxOf(kept, LAMBDA row : row.total_length)
    IN  IF completed_ids = {} THEN b
        ELSE [max_seqlen |-> MaxOf(kept, LAMBDA row : row.input_length),
              next_token_chooser |-> FilterChooser(b.next_token_chooser, keep_indices),
              rows |-> Column(kept, LAMBDA row :
                  [row EXCEPT !.all_input_ids = Slice(@, 0, max_total_length)])]

\* The service frees the sequences of the completed requests before it prunes.
FreesOnlyLast(kv, b, completed_ids) ==      \* mutant
    free_sequences(kv, {b.rows[k].sequence_id :
        k \in {j \in DOMAIN b.rows : b.rows[j].request.id \in completed_ids}}, FALSE)
free_paged_sequences(kv, b, completed_ids) ==
    free_sequences(kv, {b.rows[k].sequence_id :
        k \in {j \in DOMAIN b.rows : b.rows[j].request.id \in completed_ids}}, TRUE)

----------------------------------------------------------------------------
(* generate_token.                                                          *)

Generated(row) == row.input_length - row.request.input
NextCell(row, j) == <<row.request.id, row.request.text + Generated(row) + j>>

\* _process_tokens of the tokens chosen for a row, which stop at its total length.
ProcessTokens(row, tokens) ==
    LET n == Min({Len(tokens), row.total_length - row.input_length}) IN
    [row EXCEPT !.all_input_ids = Put(@, row.input_length, row.input_length + n,
                                      SubSeq(tokens, 1, n)),
                !.input_length = @ + n, !.input_id = Last(tokens)]

\* The batch after next_tokens[k], a sequence, were chosen for row k.
Updated(b, next_tokens, sequence_ids) ==
    LET rows == [k \in DOMAIN b.rows |->
                    [ProcessTokens(b.rows[k], next_tokens[k])
                        EXCEPT !.sequence_id = sequence_ids[k]]]
    IN  [max_seqlen |-> MaxOf(rows, LAMBDA row : row.input_length),
         next_token_chooser |-> Choose(b.next_token_chooser), rows |-> rows]

OneToken(b) == Column(b.rows, LAMBDA row : <<NextCell(row, 1)>>)
SequenceIds(b) == Column(b.rows, LAMBDA row : row.sequence_id)

\* The cache with new sequences for the inputs.
prepare_inputs_for_prefill(b, kv, ids) ==
    allocate_tokens(kv @@ [s \in {ids[k] : k \in DOMAIN ids} |-> Sequence(<<>>, 0)], ids,
                    Column(b.rows, LAMBDA row : Slice(row.all_input_ids, 0, row.input_length)))

_prefill(b, kv) ==
    LET ids == NextIds(kv, Len(b.rows))
    IN  [batch |-> Updated(b, OneToken(b), ids), kv |-> prepare_inputs_for_prefill(b, kv, ids)]

\* The cache with one more token for each sequence.
prepare_inputs_without_speculation(b, kv) ==
    allocate_tokens(kv, SequenceIds(b), Column(b.rows, LAMBDA row : <<row.input_id>>))

_next_token_without_speculation(b, kv) ==
    [batch |-> Updated(b, OneToken(b), SequenceIds(b)),
     kv    |-> prepare_inputs_without_speculation(b, kv)]

\* The cache with the candidates of each row.  n_correct[k] of the guesses for row k
\* are right; the guesses for the rows that sample are padding.
prepare_inputs_with_speculation(b, kv, children, spec_ind, n_correct) ==
    LET Guess(k, j) == IF k \notin spec_ind THEN Pad
                       ELSE IF j <= n_correct[k] THEN NextCell(b.rows[k], j) ELSE Misfit
        inputs(k) == <<b.rows[k].input_id>> \o [j \in 1 .. NPredict |-> Guess(k, j)]
        flattened == FlattenSeq(children)
    IN  allocate_tokens(add_child_sequences(kv, SequenceIds(b), children), flattened,
            Column(flattened, LAMBDA s : inputs(ParentOf(s, children))))

RemovesOneLess(n_correct) == Max({0, NPredict - n_correct - 1})     \* mutant
WrongTokens(n_correct) == NPredict - n_correct

\* The cache with the best candidate of each row only, without its wrong tokens.
process_outputs_with_speculation(b, kv, children, n_correct, best) ==
    LET worst == UNION {Range(children[k]) : k \in DOMAIN children} \ Range(best)
    IN  remove_tokens(free_sequences(kv, worst, FALSE), best,
                      [k \in DOMAIN best |-> WrongTokens(n_correct[k])])

_next_token_with_speculation(b, kv, spec_ind, n_correct, best_guess) ==
    LET children == ChildIds(kv, Len(b.rows), CandidateCount)
        prepared == prepare_inputs_with_speculation(b, kv, children, spec_ind, n_correct)
        next_tokens == [k \in DOMAIN b.rows |->
            IF k \notin spec_ind THEN <<NextCell(b.rows[k], 1)>>
            ELSE [j \in 1 .. n_correct[k] + 1 |-> NextCell(b.rows[k], j)]]
        best == [k \in DOMAIN b.rows |-> children[k][best_guess[k]]]
    IN  [batch |-> Updated(b, next_tokens, best),
         kv    |-> process_outputs_with_speculation(b, prepared, children, n_correct, best)]

SpecInd(b) == {k \in DOMAIN b.rows : ~b.next_token_chooser.do_sample[k]}
Speculates(b, kv) ==
    LET tokens_remaining ==
            FoldLeft(LAMBDA n, row : n + row.total_length - row.input_length, 0, b.rows)
    IN  /\ Speculator /\ SpecInd(b) # {} /\ Len(b.rows) <= SPECULATOR_MAX_BATCH_SIZE
        /\ b.next_token_chooser.repetition_processor = <<>>
        /\ 4 * tokens_remaining < FreeBlocks(kv)

\* The first candidate with the most right guesses is taken.
BestGuesses(spec_ind, n_correct) ==
    {best \in [DOMAIN n_correct -> 1 .. CandidateCount] :
        \A k \in DOMAIN n_correct : k \notin spec_ind \/ n_correct[k] = 0 => best[k] = 1}

\* The possible outcomes.
generate_token(b, kv, first) ==
    CASE first -> {_prefill(b, kv)}
      [] ~first /\ ~Speculates(b, kv) -> {_next_token_without_speculation(b, kv)}
      [] ~first /\ Speculates(b, kv) ->
           UNION {{_next_token_with_speculation(b, kv, SpecInd(b), n_correct, best_guess) :
                        best_guess \in BestGuesses(SpecInd(b), n_correct)} :
                  n_correct \in [DOMAIN b.rows -> 0 .. NPredict]}

----------------------------------------------------------------------------
(* What the properties say of this batch.                                   *)

\* A row with accepted padding is not looked at.
RowAligned(b, kv, k) ==
    LET row == b.rows[k]
        tokens == Context(row.request, Generated(row))
        context == kv[row.sequence_id].tokens
        padded == \E j \in DOMAIN context : context[j] = Pad
    IN  /\ ~padded => context = Front(tokens)
        /\ row.input_id = Last(tokens)
        /\ Slice(row.all_input_ids, 0, row.input_length) = tokens

RoomFor(b) ==
    /\ b.max_seqlen = MaxOf(b.rows, LAMBDA row : row.input_length)
    /\ \A k \in DOMAIN b.rows :
          Len(b.rows[k].all_input_ids) = MaxOf(b.rows, LAMBDA row : row.total_length)

\* The sequences that the rows of b use or share tokens with.
InUse(b, kv) == UNION {Ancestors(kv, b.rows[k].sequence_id) : k \in DOMAIN b.rows}
=============================================================================
