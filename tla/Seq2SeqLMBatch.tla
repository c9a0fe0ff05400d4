--------------------------- MODULE Seq2SeqLMBatch ---------------------------
(***************************************************************************)
(* The batch of the encoder-decoder models (models/seq2seq_lm.py).  Cells  *)
(* of the encoder are those of TensorSlices; in the decoder <<r, 0>> is    *)
(* the start token of request r, <<r, k>> its k-th generated token, and    *)
(* negative ones are virtual tokens.  The decoder mask exists only if it   *)
(* is needed: has_decoder_mask says so.                                    *)
(***************************************************************************)
EXTENDS TensorSlices, TokenChoosers

CONSTANT PT2_COMPILE

\* The decoder's context before token g + 1; decoder_prefix counts the start token.
DecoderContext(r, g) == Cells(r.id, Min({0, 1 - r.decoder_prefix}), g)
StartCell(r) == <<r.id, 0>>

from_pb(pb, failed) ==
    LET requests == Accepted(pb, failed)
        input_length(r) == r.input + r.prefix
        decoder_input_length(r) == Max({1, r.decoder_prefix})
        max_input_length == MaxOf(requests, input_length)
        max_decoder_input_length == MaxOf(requests, decoder_input_length)
        offset == MaxOf(requests, LAMBDA r : r.output)
        T == TokenizeLength(max_input_length)
        decoder_prefixes == \E k \in DOMAIN requests : requests[k].decoder_prefix > 0
        Row(r) ==
            LET n == input_length(r)
                d == decoder_input_length(r)
                text == TokenizedRow(r, T)
                mask == TokenizedMask(r, T)
                start == Fill(max_decoder_input_length - 1, Pad) \o <<StartCell(r)>>
                prefix == Cells(r.id, 1 - d, 0)
            IN  [request |-> r, input_length |-> n, decoder_input_length |-> d,
                 max_remaining_tokens |-> r.output,
                 input_ids |-> IF r.prefix > 0
                               THEN Put(text, -n, r.prefix - n, PrefixCells(r)) ELSE text,
                 attention_mask |-> IF r.prefix > 0 THEN Put(mask, -n, T, Ones(n)) ELSE mask,
                 encoder_last_hidden_state |-> <<>>, encoder_past |-> <<>>, decoder_past |-> <<>>,
                 decoder_input_ids |-> IF r.decoder_prefix > 0
                                       THEN Put(start, -d, Len(start), prefix) ELSE start,
                 decoder_attention_mask |->
                     Put(Zeros(max_decoder_input_length + offset), -d - offset, -offset, Ones(d)),
                 all_decoder_input_ids |->
                     PutAt(Fill(max_decoder_input_length + offset, Pad), -1 - offset, StartCell(r))]
    IN  [raises |-> FALSE,
         batch  |-> [max_input_length |-> max_input_length,
                     max_decoder_input_length |-> max_decoder_input_length,
                     padding_right_offset |-> offset,
                     has_decoder_mask |-> decoder_prefixes \/ PT2_COMPILE,
                     next_token_chooser |-> NewChooser(Column(requests, LAMBDA r : r.parameters)),
                     rows |-> [k \in DOMAIN requests |-> Row(requests[k])]]]

NextCell(row) == <<row.request.id, row.request.output - row.max_remaining_tokens + 1>>

\* The first call runs the encoder; all of them add the decoder's input to its past.
generate_token(b, first, for_concat) ==
    LET offset == b.padding_right_offset
        Step(row) ==
          [row EXCEPT
             !.decoder_input_length = @ + 1, !.max_remaining_tokens = @ - 1,
             !.encoder_last_hidden_state = IF first THEN row.input_ids ELSE @,
             !.encoder_past = IF first THEN row.input_ids ELSE @,
             !.decoder_past = @ \o row.decoder_input_ids,
             !.decoder_input_ids = <<NextCell(row)>>,
             !.all_decoder_input_ids = PutAt(@, -offset, NextCell(row)),
             !.decoder_attention_mask = PutAt(@, -offset, <<1, 1>>),
             !.input_ids = <<>>]
    IN  [b EXCEPT !.rows = [k \in DOMAIN @ |-> Step(@[k])],
                  !.next_token_chooser = Choose(@),
                  !.max_decoder_input_length = @ + 1, !.padding_right_offset = @ - 1]

\* Without a mask all rows have started together and none is padded.
MaskFor(b, row, left, width, offset) ==
    LET hi == -b.padding_right_offset
        batch_left_offset == Len(row.decoder_attention_mask) - b.max_decoder_input_length
                             - b.padding_right_offset
    IN  Put(Zeros(width), left, -offset,
            IF b.has_decoder_mask THEN Slice(row.decoder_attention_mask, batch_left_offset, hi)
            ELSE Ones(b.max_decoder_input_length))

\* The rows of b in a batch of the given lengths.
IgnoresRoom(b, offset) == 0     \* mutant
PadDiff(b, offset) == offset - b.padding_right_offset

Repadded(b, max_input_length, max_decoder_input_length, offset) ==
    LET width == max_decoder_input_length + offset
        left  == max_decoder_input_length - b.max_decoder_input_length
        rhs_pad_diff == PadDiff(b, offset)
        Ends(n, cells, m) == Put(Fill(n, Pad), -m, n, Slice(cells, -m, Len(cells)))
        Row(row) ==
          [row EXCEPT
             !.attention_mask = Ends(max_input_length, @, b.max_input_length),
             !.encoder_last_hidden_state = Ends(max_input_length, @, b.max_input_length),
             !.encoder_past = Ends(max_input_length, @, b.max_input_length),
             !.decoder_past =
                 Ends(max_decoder_input_length - 1, @, b.max_decoder_input_length - 1),
             !.all_decoder_input_ids =
                 Put(Fill(width, Pad), -(Len(@) + rhs_pad_diff), width - rhs_pad_diff, @),
             !.decoder_attention_mask = MaskFor(b, row, left, width, offset)]
    IN  [k \in DOMAIN b.rows |-> Row(b.rows[k])]

concatenate(b1, b2) ==
    LET max_input_length == Max({b1.max_input_length, b2.max_input_length})
        max_decoder_input_length ==
            Max({b1.max_decoder_input_length, b2.max_decoder_input_length})
        offset == Max({b1.padding_right_offset, b2.padding_right_offset})
        requests == Column(b1.rows \o b2.rows, LAMBDA row : row.request.parameters)
        Rows(b) == Repadded(b, max_input_length, max_decoder_input_length, offset)
    IN  [max_input_length |-> max_input_length,
         max_decoder_input_length |-> max_decoder_input_length,
         padding_right_offset |-> offset, has_decoder_mask |-> TRUE,
         next_token_chooser |->
             CombineChoosers(requests, b1.next_token_chooser, b2.next_token_chooser),
         rows |-> Rows(b1) \o Rows(b2)]

prune(b, completed_ids) ==
    LET keep_indices == KeepIndices(b, completed_ids)
        kept == Pick(b.rows, keep_indices)
        offset == b.padding_right_offset
        max_input_length == MaxOf(kept, LAMBDA row : row.input_length)
        max_decoder_input_length == MaxOf(kept, LAMBDA row : row.decoder_input_length)
        new_offset == MaxOf(kept, LAMBDA row : row.max_remaining_tokens)
        End(cells, n) == Slice(cells, -n, Len(cells))
        Window(cells) == Slice(cells, -(offset + max_decoder_input_length),
                                      Len(cells) - offset + new_offset)
        Row(row) ==
          [row EXCEPT
             !.attention_mask = End(@, max_input_length),
             !.encoder_last_hidden_state = End(@, max_input_length),
             !.encoder_past = End(@, max_input_length),
             !.decoder_past = End(@, max_decoder_input_length - 1),
             !.all_decoder_input_ids = Window(@),
             !.decoder_attention_mask = Window(@)]
    IN  IF completed_ids = {} THEN b
        ELSE [b EXCEPT !.max_input_length = max_input_length,
                       !.max_decoder_input_length = max_decoder_input_length,
                       !.padding_right_offset = new_offset,
                       !.next_token_chooser = FilterChooser(@, keep_indices),
                       !.rows = [k \in DOMAIN kept |-> Row(kept[k])]]

----------------------------------------------------------------------------
(* What RowsAligned and RoomForAll say of this batch.                       *)

AtLimit(row) == row.max_remaining_tokens = 0
Generated(row) == row.request.output - row.max_remaining_tokens

RowAligned(b, k) ==
    LET row == b.rows[k]  r == row.request  g == Generated(row)
        decoder == DecoderContext(r, g)
        ids == Slice(row.all_decoder_input_ids, 0, -b.padding_right_offset)
        decoder_mask == Slice(row.decoder_attention_mask, 0, -b.padding_right_offset)
    IN  /\ Seen(row.attention_mask, row.encoder_last_hidden_state) = Context(r, 0)
        /\ Seen(row.attention_mask, row.encoder_past) = Context(r, 0)
        /\ row.decoder_input_length = Len(decoder)
        /\ IF b.has_decoder_mask
           THEN Seen(decoder_mask, row.decoder_past \o row.decoder_input_ids) = decoder
           ELSE row.decoder_past \o row.decoder_input_ids = decoder
        /\ ids = Fill(Len(ids) - g - 1, Pad) \o Cells(r.id, 0, g)

RoomFor(b) ==
    /\ b.max_input_length = MaxOf(b.rows, LAMBDA row : row.input_length)
    /\ b.max_decoder_input_length = MaxOf(b.rows, LAMBDA row : row.decoder_input_length)
    /\ b.padding_right_offset = MaxOf(b.rows, LAMBDA row : row.max_remaining_tokens)
    /\ \A k \in DOMAIN b.rows :
         Len(b.rows[k].all_decoder_input_ids) = b.max_decoder_input_length + b.padding_right_offset
=============================================================================
