------------------------- MODULE FlashCausalLMBatch -------------------------
(***************************************************************************)
(* The unpadded batch of the flash attention models                        *)
(* (models/flash_causal_lm.py).  The keys and values of all requests lie   *)
(* in one sequence, past, in which cu_seqlens marks where each begins and  *)
(* the last ends; a free slot for the next token follows each.  With a     *)
(* single request, past is allocated ahead and its rest is free.           *)
(***************************************************************************)
EXTENDS TensorSlices, TokenChoosers, SequencesExt

\* The tokenizer's output, cut to the tokens that are used.
TokenizedInput(r, max_seqlen) ==
    LET n == Min({r.text, max_seqlen})
        t == Cells(r.id, r.text - n + 1, r.text)
    IN  IF Truncated(r) THEN Slice(t, -r.input, Len(t)) ELSE t

\* The row with room for total tokens: the prefix is left as padding.
AllInputIds(r, max_seqlen, total) ==
    Put(Fill(total, Pad), r.prefix, r.input + r.prefix, TokenizedInput(r, max_seqlen))

InputIds(r, max_seqlen, total) ==
    IF r.prefix = 0 THEN TokenizedInput(r, max_seqlen)
    ELSE Slice(AllInputIds(r, max_seqlen, total), 0, r.input + r.prefix)

\* The prefix of each request goes where its input begins.
InsertPrefixes(embeds, requests, cu_seqlens) ==
    LET At(j) == {k \in DOMAIN requests : j - cu_seqlens[k] \in 1 .. requests[k].prefix}
        Prefix(j) == LET k == CHOOSE k \in At(j) : TRUE IN PrefixCells(requests[k])[j - cu_seqlens[k]]
    IN  [j \in DOMAIN embeds |-> IF At(j) = {} THEN embeds[j] ELSE Prefix(j)]

from_pb(pb, failed) ==
    LET requests == Accepted(pb, failed)
        input_length(r) == r.input + r.prefix
        total_length(r) == input_length(r) + r.output
        max_seqlen == MaxOf(requests, input_length)
        max_total == MaxOf(requests, total_length)
        cu_seqlens == CumSum(Column(requests, input_length))
        input_ids == FlattenSeq(Column(requests, LAMBDA r : InputIds(r, max_seqlen, max_total)))
        Row(r) == [request |-> r, input_length |-> input_length(r),
                   total_length |-> total_length(r), position_id |-> 0, input_id |-> Pad,
                   all_input_ids |-> AllInputIds(r, max_seqlen, max_total)]
    IN  [raises |-> FALSE,
         batch  |-> [cu_seqlens |-> cu_seqlens, max_seqlen |-> max_seqlen,
                     input_ids  |-> InsertPrefixes(input_ids, requests, cu_seqlens),
                     past |-> <<>>,
                     next_token_chooser |-> NewChooser(Column(requests, LAMBDA r : r.parameters)),
                     rows |-> [k \in DOMAIN requests |-> Row(requests[k])]]]

NextCell(row) ==
    LET r == row.request IN <<r.id, r.text + row.input_length - r.input - r.prefix + 1>>

\* Slots of request k in past.
Slots(b, past, k) == Slice(past, b.cu_seqlens[k], b.cu_seqlens[k + 1])

\* The model: a prefill returns the keys and values of all inputs, in a tensor of
\* prealloc_length if that is given; a decode step puts that of each input into the
\* last slot of its request.
PreallocLength(b, for_concat) ==
    b.rows[1].input_length + (IF for_concat THEN 1 ELSE b.rows[1].request.output)

Present(b, first, for_concat) ==
    LET slots == [k \in DOMAIN b.rows |-> b.cu_seqlens[k + 1] - 1]
        Single == Len(b.rows) = 1
    IN  IF first
        THEN IF Single THEN b.input_ids \o Fill(PreallocLength(b, for_concat) - Len(b.input_ids), Pad)
             ELSE b.input_ids
        ELSE PutEach(b.past, slots, Column(b.rows, LAMBDA row : row.input_id))

\* A free slot after the tokens of each request.
WithFreeSlots(b, present) ==
    FlattenSeq([k \in DOMAIN b.rows |-> Slots(b, present, k) \o <<Pad>>])

generate_token(b, first, for_concat) ==
    LET present == Present(b, first, for_concat)
        Step(row) ==
          LET position_id == IF first THEN row.input_length ELSE row.position_id + 1 IN
          [row EXCEPT !.position_id = position_id, !.input_id = NextCell(row),
                      !.all_input_ids = PutAt(@, position_id, NextCell(row)),
                      !.input_length = @ + 1]
    IN  [b EXCEPT !.past = IF Len(b.rows) > 1 THEN WithFreeSlots(b, present) ELSE present,
                  !.rows = [k \in DOMAIN @ |-> Step(@[k])],
                  !.next_token_chooser = Choose(@),
                  !.cu_seqlens = [k \in DOMAIN @ |-> @[k] + k - 1],
                  !.max_seqlen = @ + 1, !.input_ids = <<>>]

\* A batch of one request gives up what was allocated ahead.
KeepsAhead(b) == b.past     \* mutant
Trimmed(b) == IF Len(b.rows) # 1 THEN b.past ELSE Slice(b.past, 0, Last(b.cu_seqlens))

concatenate(b1, b2) ==
    LET rows == b1.rows \o b2.rows
        max_total_length == MaxOf(rows, LAMBDA row : row.total_length)
        Row(row) == [row EXCEPT !.all_input_ids = Put(Fill(max_total_length, Pad), 0, Len(@), @)]
    IN  [cu_seqlens |-> b1.cu_seqlens
                        \o Column(Tail(b2.cu_seqlens), LAMBDA x : x + Last(b1.cu_seqlens)),
         max_seqlen |-> Max({b1.max_seqlen, b2.max_seqlen}),
         input_ids  |-> <<>>,
         past |-> Trimmed(b1) \o Trimmed(b2),
         next_token_chooser |->
             CombineChoosers(Column(rows, LAMBDA row : row.request.parameters),
                             b1.next_token_chooser, b2.next_token_chooser),
         rows |-> Column(rows, Row)]

\* The cumulative lengths are those of the positions; one request is allocated ahead.
prune(b, completed_ids) ==
    LET keep_indices == KeepIndices(b, completed_ids)
        kept == Pick(b.rows, keep_indices)
        sliced == FlattenSeq(Column(keep_indices, LAMBDA k : Slots(b, b.past, k)))
        max_total_length == MaxOf(kept, LAMBDA row : row.total_length)
        Row(row) == [row EXCEPT !.all_input_ids = Slice(@, 0, max_total_length)]
    IN  IF completed_ids = {} THEN b
        ELSE [b EXCEPT
                !.past = IF Len(kept) > 1 THEN sliced
                         ELSE Put(Fill(kept[1].total_length, Pad), 0, Len(sliced), sliced),
                !.rows = Column(kept, Row),
                !.next_token_chooser = FilterChooser(@, keep_indices),
                !.max_seqlen = MaxOf(kept, LAMBDA row : row.input_length),
                !.cu_seqlens = IF Len(kept) > 1 THEN CumSum(Column(kept, LAMBDA row : row.position_id + 1))
                               ELSE <<0, kept[1].input_length>>]

----------------------------------------------------------------------------
(* What RowsAligned and RoomForAll say of this batch.                       *)

Generated(row) == row.input_length - row.request.input - row.request.prefix
AtLimit(row) == row.input_length = row.total_length

RowAligned(b, k) ==
    LET row == b.rows[k]  r == row.request  n == row.input_length
        tokens == Context(r, Generated(row))
    IN  /\ Front(Slots(b, b.past, k)) = Front(tokens) /\ row.input_id = Last(tokens)
        /\ row.position_id = n - 1
        /\ Slice(row.all_input_ids, 0, n) = Fill(r.prefix, Pad) \o Slice(tokens, r.prefix, n)
        /\ \A j \in n + 1 .. Len(row.all_input_ids) : row.all_input_ids[j] = Pad

RoomFor(b) ==
    /\ b.max_seqlen = MaxOf(b.rows, LAMBDA row : row.input_length)
    /\ \A k \in DOMAIN b.rows :
          /\ b.cu_seqlens[k + 1] - b.cu_seqlens[k] = b.rows[k].input_length
          /\ Len(b.rows[k].all_input_ids) = MaxOf(b.rows, LAMBDA row : row.total_length)
    /\ IF Len(b.rows) > 1 THEN Len(b.past) = Last(b.cu_seqlens)
       ELSE Len(b.past) >= Last(b.cu_seqlens)
=============================================================================
