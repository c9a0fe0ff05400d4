---------------------------- MODULE CausalLMBatch ----------------------------
(***************************************************************************)
(* The padded batch of the decoder-only models (models/causal_lm.py): how  *)
(* its tensors are built, grown by a token, concatenated and pruned.       *)
(***************************************************************************)
EXTENDS TensorSlices, TokenChoosers

\* The tokens before each one that the mask shows; 1 where it hides one.
PositionIds(mask) ==
    [k \in DOMAIN mask |->
        IF mask[k] = <<0, 0>> THEN 1 ELSE Cardinality({j \in 1 .. k : mask[j] # <<0, 0>>}) - 1]

\* The requests whose prefix was not found are left out, but truncate_indices and
\* prefix_ids are positions in pb, used as rows of the batch: row k is treated as
\* if it were that of pb[k].  raises stands for the IndexError.
from_pb(pb, failed) ==
    LET requests == Accepted(pb, failed)
        length(r) == r.input + r.prefix
        max_input_length == MaxOf(requests, length)
        offset == MaxOf(requests, LAMBDA r : r.output)
        T == TokenizeLength(max_input_length)
        truncate_indices == {k \in DOMAIN pb : pb[k] \notin failed /\ Truncated(pb[k])}
        prefix_ids == {k \in DOMAIN pb : pb[k] \notin failed /\ pb[k].prefix > 0}
        Row(k) ==
            LET r     == requests[k]
                n     == Min({r.text, T})
                text0 == Fill(T - n, Pad) \o Cells(r.id, r.text - n + 1, r.text)
                mask0 == Zeros(T - n) \o Ones(n) \o Zeros(offset)
                text  == IF k \in truncate_indices
                         THEN Put(text0, 0, -r.input, Fill(T - r.input, Pad)) ELSE text0
                mask1 == IF k \in truncate_indices
                         THEN Put(mask0, 0, -r.input - offset, Zeros(T - r.input)) ELSE mask0
                p     == PrefixCells(pb[k])
                embeds == IF k \in prefix_ids
                          THEN Put(text, -length(r), Len(p) - length(r), p) ELSE text
                mask  == IF k \in prefix_ids
                         THEN Put(mask1, -length(r) - offset, -offset, Ones(length(r)))
                         ELSE mask1
            IN  [request |-> r, input_length |-> length(r), max_remaining_tokens |-> r.output,
                 attention_mask |-> mask, input_ids |-> embeds, past |-> <<>>,
                 position_ids |-> PositionIds(Slice(mask, 0, -offset)),
                 all_input_ids |-> Slice(text, T - max_input_length, T) \o Fill(offset, Pad)]
    IN  [raises |-> \E k \in truncate_indices \cup prefix_ids : k > Len(requests),
         batch  |-> [max_sequence_length |-> max_input_length, padding_right_offset |-> offset,
                     next_token_chooser |-> NewChooser(Column(requests, LAMBDA r : r.parameters)),
                     rows |-> [k \in DOMAIN requests |-> Row(k)]]]

NextCell(row) ==
    LET r == row.request IN <<r.id, r.text + r.output - row.max_remaining_tokens + 1>>

\* The model sees the past and the new input, and adds the latter to the past; a
\* batch that is not going to be concatenated loses the extra padding.
NeverTrims(b, first, for_concat) == 0   \* mutant
LeftPad(b, first, for_concat) ==
    IF first /\ ~for_concat
    THEN Len(b.rows[1].attention_mask) - b.padding_right_offset - b.max_sequence_length
    ELSE 0

generate_token(b, first, for_concat) ==
    LET offset == b.padding_right_offset
        left_pad == LeftPad(b, first, for_concat)
        Step(row) ==
            LET past == row.past \o row.input_ids
                mask == PutAt(row.attention_mask, -offset, <<1, 1>>)
            IN  [row EXCEPT
                   !.input_length = @ + 1, !.max_remaining_tokens = @ - 1,
                   !.attention_mask = Slice(mask, left_pad, Len(mask)),
                   !.all_input_ids = PutAt(@, -offset, NextCell(row)),
                   !.past = Slice(past, left_pad, Len(past)),
                   !.position_ids = <<@[Len(@)] + 1>>,
                   !.input_ids = <<NextCell(row)>>]
    IN  [max_sequence_length |-> b.max_sequence_length + 1,
         padding_right_offset |-> offset - 1,
         next_token_chooser |-> Choose(b.next_token_chooser),
         rows |-> [k \in DOMAIN b.rows |-> Step(b.rows[k])]]

\* The rows of b in a batch with longer sequences or more room; the next input and its
\* position are taken as they are.
AlignsLeft(b, max_sequence_length, offset) == 0     \* mutant
LeftOffset(b, max_sequence_length, offset) == max_sequence_length - b.max_sequence_length

Repadded(b, max_sequence_length, offset) ==
    LET width == max_sequence_length + offset
        left  == LeftOffset(b, max_sequence_length, offset)
        seen  == b.max_sequence_length - 1
        Row(row) ==
          [row EXCEPT
             !.attention_mask =
                 Put(Zeros(width), left, -offset,
                     Slice(@, -b.max_sequence_length - b.padding_right_offset,
                              -b.padding_right_offset)),
             !.all_input_ids =
                 Put(Fill(width, Pad), left, -offset, Slice(@, 0, -b.padding_right_offset)),
             !.past =
                 Put(Fill(max_sequence_length - 1, Pad), -seen, max_sequence_length - 1,
                     Slice(@, -seen, Len(@)))]
    IN  [k \in DOMAIN b.rows |-> Row(b.rows[k])]

concatenate(b1, b2) ==
    LET max_sequence_length == Max({b1.max_sequence_length, b2.max_sequence_length})
        offset == Max({b1.padding_right_offset, b2.padding_right_offset})
        requests == Column(b1.rows \o b2.rows, LAMBDA row : row.request.parameters)
    IN  [max_sequence_length |-> max_sequence_length, padding_right_offset |-> offset,
         next_token_chooser |->
             CombineChoosers(requests, b1.next_token_chooser, b2.next_token_chooser),
         rows |-> Repadded(b1, max_sequence_length, offset)
                  \o Repadded(b2, max_sequence_length, offset)]

KeepsOffset(b, kept) == b.padding_right_offset      \* mutant
NewOffset(b, kept) == MaxOf(kept, LAMBDA row : row.max_remaining_tokens)

\* completed_ids ascend here, so that get_indices_to_keep finds all of them.
prune(b, completed_ids) ==
    LET keep_indices == KeepIndices(b, completed_ids)
        kept == Pick(b.rows, keep_indices)
        offset == b.padding_right_offset
        max_sequence_length == MaxOf(kept, LAMBDA row : row.input_length)
        new_offset == NewOffset(b, kept)
        past_kv_length == max_sequence_length - 1
        Row(row) ==
          [row EXCEPT
             !.past = Slice(@, -past_kv_length, Len(@)),
             !.attention_mask = Slice(@, -offset - max_sequence_length,
                                         Len(@) - offset + new_offset),
             !.all_input_ids = Slice(@, -offset - max_sequence_length,
                                        Len(@) - offset + new_offset)]
    IN  IF completed_ids = {} THEN b
        ELSE [max_sequence_length |-> max_sequence_length, padding_right_offset |-> new_offset,
              next_token_chooser |-> FilterChooser(b.next_token_chooser, keep_indices),
              rows |-> [k \in DOMAIN kept |-> Row(kept[k])]]

----------------------------------------------------------------------------
(* What RowsAligned and RoomForAll say of this batch.                       *)

AtLimit(row) == row.max_remaining_tokens = 0
Generated(row) == row.request.output - row.max_remaining_tokens

\* The mask covers exactly the tokens of the request, up to the free space; the past
\* holds all but the last of them, the next input is the last one, at its position, and
\* all_input_ids has the ones with an id.
RowAligned(b, k) ==
    LET row    == b.rows[k]
        tokens == Context(row.request, Generated(row))
        n      == Len(tokens)
        own    == n - row.request.prefix
        width  == Len(row.attention_mask) - b.padding_right_offset
        ids    == Slice(row.all_input_ids, 0, -b.padding_right_offset)
    IN  /\ row.input_length = n
        /\ row.attention_mask = Zeros(width - n) \o Ones(n) \o Zeros(b.padding_right_offset)
        /\ Len(row.past) = width - 1
        /\ Slice(row.past, -(n - 1), Len(row.past)) \o row.input_ids = tokens
        /\ row.position_ids = <<n - 1>>
        /\ Len(ids) = b.max_sequence_length
        /\ ids = Fill(Len(ids) - own, Pad) \o Slice(tokens, row.request.prefix, n)

RoomFor(b) ==
    /\ b.max_sequence_length = MaxOf(b.rows, LAMBDA row : row.input_length)
    /\ b.padding_right_offset = MaxOf(b.rows, LAMBDA row : row.max_remaining_tokens)
=============================================================================
