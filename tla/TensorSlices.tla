---------------------------- MODULE TensorSlices ----------------------------
(***************************************************************************)
(* Tensors as the batch types use them.  A tensor is a sequence of rows,   *)
(* one per request, and a row a sequence of cells.  A cell names the token *)
(* it holds: <<r, k>> is token k of request r, negative for the virtual    *)
(* tokens of its prompt prefix.                                            *)
(***************************************************************************)
EXTENDS Ordering, FiniteSetsExt

CONSTANT PadMultiple    \* 8 (CUDA_PAD_TO_MULT_OF_8)

Pad == <<0, 0>>
Misfit == <<-1, -1>>    \* torch raises: the shapes do not match

----------------------------------------------------------------------------
(* Python's slices.                                                         *)

Position(n, x) == IF x < 0 THEN Max({0, n + x}) ELSE Min({x, n})

\* s[lo:hi]
Slice(s, lo, hi) == SubSeq(s, Position(Len(s), lo) + 1, Position(Len(s), hi))

\* s[lo:hi] = v
Put(s, lo, hi, v) ==
    LET l == Position(Len(s), lo)  h == Max({l, Position(Len(s), hi)}) IN
    SubSeq(s, 1, l) \o (IF Len(v) = h - l THEN v ELSE [k \in 1 .. h - l |-> Misfit])
                    \o SubSeq(s, h + 1, Len(s))

\* s[x] = v
PutAt(s, x, v) ==
    LET k == IF x < 0 THEN Len(s) + x + 1 ELSE x + 1 IN
    IF k \in DOMAIN s THEN SubSeq(s, 1, k - 1) \o <<v>> \o SubSeq(s, k + 1, Len(s))
    ELSE Append(s, Misfit)

\* s[indices] = v, for different indices
PutEach(s, indices, v) ==
    LET At(j) == {k \in DOMAIN indices : indices[k] = j - 1} IN
    IF \A k \in DOMAIN indices : indices[k] \in 0 .. Len(s) - 1
    THEN [j \in DOMAIN s |-> IF At(j) # {} THEN v[CHOOSE k \in At(j) : TRUE] ELSE s[j]]
    ELSE Append(s, Misfit)

\* 0 and the sums of the first elements of a list of numbers
CumSum(s) ==
    LET sum[k \in 0 .. Len(s)] == IF k = 0 THEN 0 ELSE sum[k - 1] + s[k]
    IN  [k \in 1 .. Len(s) + 1 |-> sum[k - 1]]

Fill(n, v) == [k \in 1 .. n |-> v]
Cells(r, lo, hi) == [k \in 1 .. Max({0, hi - lo + 1}) |-> <<r, lo + k - 1>>]

MaxOf(s, F(_)) == Max({F(s[k]) : k \in DOMAIN s})

----------------------------------------------------------------------------
(* A request has a text, of which the last input tokens are used, a prefix *)
(* of virtual tokens, and may generate up to output tokens.                *)

Truncated(r) == r.input < r.text
PrefixCells(r) == Cells(r.id, -r.prefix, -1)

\* What the model has to see before it generates token g + 1.
Context(r, g) == PrefixCells(r) \o Cells(r.id, r.text - r.input + 1, r.text + g)

Ones(n) == Fill(n, <<1, 1>>)
Zeros(n) == Fill(n, <<0, 0>>)

\* get_indices_to_keep for the completed ids of b, which ascend here.
KeepIndices(b, completed_ids) ==
    InOrder[{k \in DOMAIN b.rows : b.rows[k].request.id \notin completed_ids}]

\* The requests of pb whose prefix was found.
Accepted(pb, failed) == Pick(pb, InOrder[{k \in DOMAIN pb : pb[k] \notin failed}])

\* The length that inputs are padded to on a GPU with tensor cores.
TokenizeLength(n) == ((n + PadMultiple - 1) \div PadMultiple) * PadMultiple

\* The tokenizer's output for r padded on the left to length T, and its mask; the
\* tokens that truncation drops are masked out afterwards.
TokenizedRow(r, T) ==
    LET n == Min({r.text, T})
        t == Fill(T - n, Pad) \o Cells(r.id, r.text - n + 1, r.text)
    IN  IF Truncated(r) THEN Put(t, 0, -r.input, Fill(T - r.input, Pad)) ELSE t

TokenizedMask(r, T) ==
    LET n == Min({r.text, T})  m == Zeros(T - n) \o Ones(n)
    IN  IF Truncated(r) THEN Put(m, 0, -r.input, Zeros(T - r.input)) ELSE m

\* The cells a mask lets the model see.
Seen(mask, cells) ==
    IF Len(mask) # Len(cells) THEN <<Misfit>>
    ELSE Pick(cells, InOrder[{k \in DOMAIN mask : mask[k] # <<0, 0>>}])
=============================================================================
