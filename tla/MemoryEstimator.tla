--------------------------- MODULE MemoryEstimator ---------------------------
(***************************************************************************)
(* utils/memory_characterizer.py: the Estimator measures the memory that   *)
(* prefills of various lengths need and fits a curve to it, and the        *)
(* MemoryScalingModel tells what fits into the memory.                     *)
(*                                                                         *)
(* The estimator is a record that each test moves on, at the point of the  *)
(* program named by its field at.  X and Y only change together and are    *)
(* one sequence here, X, of the lengths: the memory measured for length x  *)
(* is written x too.                                                       *)
(***************************************************************************)
EXTENDS Ordering, FiniteSetsExt

CONSTANTS
    start_seq_len, stop_seq_len, min_samples, new_tokens, new_token_samples,
    STOPPING_DISTANCE       \* 10

ASSUME EstimatorAssumption ==
    /\ {start_seq_len, stop_seq_len, min_samples, new_tokens, new_token_samples} \subseteq Nat
    /\ stop_seq_len > start_seq_len /\ start_seq_len > 0 /\ min_samples > 1
    /\ STOPPING_DISTANCE \in Nat

\* Next tokens are tested up to three quarters of the longest prefill.
TooLow(stop) == stop \div 8      \* mutant
NtLimit(stop) == (3 * stop) \div 4

\* The first column stands for length 0.  A range that is no wider than the stopping
\* distance is not searched at all.
Estimator ==
    [at |-> IF stop_seq_len - start_seq_len > STOPPING_DISTANCE THEN "upper_bound" ELSE "raised",
     lower |-> start_seq_len, upper |-> stop_seq_len, s |-> stop_seq_len,
     X |-> <<0>>, stop |-> stop_seq_len, longest_linear |-> 0,
     inflection_point |-> 0, index |-> 0, linear_fit |-> <<>>, quadratic_fit |-> <<>>,
     todo |-> <<>>, enable_nt_sampling |-> FALSE, remaining |-> new_token_samples,
     nt_upper_input_limit |-> NtLimit(stop_seq_len)]

Fail(e) == [e EXCEPT !.at = "raised"]
Measured(e, x) == [e EXCEPT !.X = Append(@, x)]

SortNothing(e) == e     \* mutant
sort[X \in Seq(Nat)] == Pick(X, argsort[X])
_sort_samples(e) == [e EXCEPT !.X = sort[@]]

\* X[X > x] and X[X < x]
Above(X, x) == Pick(X, InOrder[{k \in DOMAIN X : X[k] > x}])
Below(X, x) == Pick(X, InOrder[{k \in DOMAIN X : X[k] < x}])

needs_nt(e) == e.remaining > 0 /\ e.enable_nt_sampling
\* The first token comes out of the prefill.
NewTokens(e) == IF needs_nt(e) THEN Max({1, new_tokens}) ELSE 1

\* range(start, stop, int((stop - start) / n)); ValueError if the stride is 0.
Stride(n, start, stop) == (stop - start) \div n
Samples(n, start, stop) ==
    [k \in 1 .. (stop - start + Stride(n, start, stop) - 1) \div Stride(n, start, stop) |->
        start + (k - 1) * Stride(n, start, stop)]

\* sample_next_token, in which memory may run out.
sample_next_token(e, x, nt_oom) ==
    IF ~needs_nt(e) \/ x >= e.nt_upper_input_limit THEN e
    ELSE IF nt_oom THEN [e EXCEPT !.nt_upper_input_limit = x]
    ELSE [e EXCEPT !.remaining = @ - 1]

----------------------------------------------------------------------------
(* What run does next, and the length it tests for that.                    *)

\* estimate_nt.
StartNt(e) ==
    IF ~needs_nt(e) THEN [e EXCEPT !.at = "done"]
    ELSE IF e.nt_upper_input_limit - start_seq_len < e.remaining THEN Fail(e)
    ELSE [e EXCEPT !.at = "nt",
                   !.todo = Samples(e.remaining, start_seq_len, e.nt_upper_input_limit)]

\* estimate_quadratic takes the samples above the inflection point and measures
\* those that are missing: X by value, but Y by their number from the end.
FitQuadratic(e) ==
    LET start == e.inflection_point
        X == Above(e.X, start)
        Y == IF X = <<>> THEN e.X ELSE SubSeq(e.X, Len(e.X) - Len(X) + 1, Len(e.X))
        missing == min_samples - Len(X)
        fit == [e EXCEPT !.at = "quadratic", !.quadratic_fit = [X |-> X, Y |-> Y]]
    IN  IF missing <= 0 THEN StartNt(fit)
        ELSE IF Stride(missing, start + 1, e.stop) = 0 THEN Fail(e)
        ELSE [fit EXCEPT !.todo = Samples(missing, start + 1, e.stop)]

WithInflection(e, point) ==
    LET f == [e EXCEPT !.inflection_point = point] IN
    IF point # e.stop THEN FitQuadratic(f) ELSE StartNt(f)

\* find_inflection_point.
ContinueInflection(e) ==
    IF e.upper - e.lower > STOPPING_DISTANCE THEN e
    ELSE Given(_sort_samples(e), LAMBDA f :
             WithInflection(f, IF f.stop - f.s < STOPPING_DISTANCE THEN f.stop ELSE f.s))

StartInflection(e) ==
    IF start_seq_len < e.longest_linear /\ e.longest_linear < e.stop
    THEN ContinueInflection([e EXCEPT !.at = "inflection", !.lower = e.longest_linear,
                                      !.upper = e.stop, !.s = (e.longest_linear + e.stop) \div 2])
    ELSE WithInflection(e, e.longest_linear)

\* The samples above longest_linear that lie on the line too; index is the one to
\* look at.  The fit leaves out the last of the samples on the line.
ContinueExisting(e) ==
    IF e.index <= Len(e.X) THEN e
    ELSE StartInflection([e EXCEPT !.linear_fit = Below(e.X, e.longest_linear)])

StartExisting(e) ==
    Given(_sort_samples(e), LAMBDA f :
        IF f.longest_linear = 0 THEN StartInflection(f)
        ELSE ContinueExisting([f EXCEPT !.at = "existing",
               !.index = Min({Len(f.X) + 1} \cup {k \in DOMAIN f.X : f.X[k] > f.longest_linear})]))

\* find_linear_part halves the distance to the shortest length, from the first sample.
ContinueLinear(e) ==
    IF e.lower <= e.upper - 1 THEN [e EXCEPT !.s = (e.lower + e.upper) \div 2]
    ELSE StartExisting(e)

LastSample(e) == e.X[Len(e.X)]      \* mutant
FirstSample(e) == e.X[2]

StartLinear(e) ==
    ContinueLinear([e EXCEPT !.at = "linear", !.upper = FirstSample(e),
                             !.lower = Min({start_seq_len, FirstSample(e)}),
                             !.stop = e.lower, !.enable_nt_sampling = TRUE,
                             !.nt_upper_input_limit = NtLimit(e.lower)])

\* find_upper_bound.
ContinueUpper(e) ==
    IF e.upper - e.lower > STOPPING_DISTANCE THEN e
    ELSE IF Len(e.X) > 1 THEN StartLinear(e) ELSE Fail(e)

----------------------------------------------------------------------------
(* One test: whether memory runs out in the prefill or in the tokens after  *)
(* it, and whether the error is within the threshold.                       *)

TestLength(e) == IF e.at \in {"quadratic", "nt"} THEN Head(e.todo) ELSE e.s

Retries(e) == e     \* mutant
AfterOom(e) == [e EXCEPT !.upper = e.s, !.s = (e.s + e.lower) \div 2]

UpperStep(e, oom) ==
    ContinueUpper(
        IF oom THEN AfterOom(e)
        ELSE [Measured(e, e.s) EXCEPT !.lower = e.s, !.s = (e.s + e.upper) \div 2])

UpToTarget(e) == e.s    \* mutant
LinearUpTo(e) == e.upper

LinearStep(e, within) ==
    IF within THEN StartExisting([e EXCEPT !.longest_linear = LinearUpTo(e)])
    ELSE ContinueLinear([e EXCEPT !.upper = e.s])

ExistingStep(e, within) ==
    ContinueExisting(IF within THEN [e EXCEPT !.longest_linear = e.X[e.index], !.index = @ + 1]
                     ELSE [e EXCEPT !.index = Len(e.X) + 1])

InflectionStep(e, within) ==
    LET f == IF within THEN [e EXCEPT !.lower = e.s] ELSE [e EXCEPT !.upper = e.s]
    IN  ContinueInflection([f EXCEPT !.s = (f.lower + f.upper) \div 2])

\* The samples for the quadratic part are added to the fit, those for the next
\* token are not used.
TodoStep(e, x) ==
    LET f == [e EXCEPT !.todo = Tail(@)]
        g == IF e.at = "nt" THEN f
             ELSE [f EXCEPT !.quadratic_fit = [X |-> Append(@.X, x), Y |-> Append(@.Y, x)]]
    IN  IF g.todo # <<>> THEN g ELSE IF e.at = "nt" THEN [g EXCEPT !.at = "done"] ELSE StartNt(g)

\* A test other than those of find_upper_bound does not survive a lack of memory:
\* mem_allocated is None there.
Test(e, oom, nt_oom, within) ==
    LET x == TestLength(e) IN
    CASE e.at = "upper_bound" -> UpperStep(e, oom)
      [] e.at = "existing" -> ExistingStep(e, within)
      [] e.at # "existing" /\ e.at # "upper_bound" /\ oom -> Fail(e)
      [] e.at \in {"quadratic", "nt"} /\ ~oom -> TodoStep(sample_next_token(e, x, nt_oom), x)
      [] e.at = "linear" /\ ~oom ->
            LinearStep(sample_next_token(Measured(e, x), x, nt_oom), within)
      [] e.at = "inflection" /\ ~oom ->
            InflectionStep(sample_next_token(Measured(e, x), x, nt_oom), within)

Ended(e) == e.at \in {"done", "raised"}

----------------------------------------------------------------------------
(* MemoryScalingModel.  A model m has integer coefficients; Unbounded       *)
(* stands for sys.float_info.max.                                           *)

CONSTANT Unbounded

Memory(weight_limit, linear, q0, q1, n0, n1) ==
    [weight_limit |-> weight_limit, linear |-> linear, q0 |-> q0, q1 |-> q1, n0 |-> n0, n1 |-> n1]
DisabledMemory == Memory(Unbounded, 0, 0, 0, 0, 0)

prefill_memory_usage(m, batch_size, input_len) ==
    Max({batch_size * m.linear * input_len,
         input_len * batch_size * m.q0 + input_len * input_len * batch_size * m.q1})
nt_memory_usage(m, batch_size, input_len, output_len) ==
    batch_size * m.n0 * input_len + batch_size * m.n1 * output_len

\* The floors of the inverses.
inverse_linear_prefill(m, batch) ==
    IF m.linear = 0 THEN Unbounded ELSE m.weight_limit \div (m.linear * batch)
inverse_quadratic_prefill(m, batch) ==
    IF m.q1 = 0 THEN Unbounded
    ELSE Max({n \in 0 .. Unbounded : (m.q0 * n + m.q1 * n * n) * batch <= m.weight_limit})
inverse_next_token(coef, other, m, batch, seq) ==
    IF coef = 0 THEN Unbounded ELSE (m.weight_limit - other * batch * seq) \div (batch * coef)

max_input_len_for_prefill(m, batch_size, max_input_len) ==
    Min({inverse_linear_prefill(m, batch_size), inverse_quadratic_prefill(m, batch_size),
         max_input_len})
max_input_len_for_nt(m, batch_size, output_len, max_input_len) ==
    Min({Max({0, inverse_next_token(m.n0, m.n1, m, batch_size, output_len)}),
         max_input_len_for_prefill(m, batch_size, max_input_len), max_input_len})
max_output_len_for_nt(m, batch_size, input_len, max_output_len) ==
    Min({Max({0, inverse_next_token(m.n1, m.n0, m, batch_size, input_len)}), max_output_len})
=============================================================================
