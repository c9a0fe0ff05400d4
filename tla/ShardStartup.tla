---------------------------- MODULE ShardStartup ----------------------------
(***************************************************************************)
(* How the shards come up (serve in server.py): the checks of the          *)
(* settings, loading the model, estimating its memory on all ranks, and    *)
(* warming up the compiler (utils/warmup.py), until they serve.            *)
(*                                                                         *)
(* Each rank has a device of its own, estimates its own memory model and   *)
(* warms up with that.  The forward passes are collective calls: ranks     *)
(* that make different ones wait for each other.                           *)
(***************************************************************************)
EXTENDS MemoryEstimator, FiniteSets

CONSTANTS
    Ranks,          \* the shards
    Configs,        \* bound: the settings tried
    Capacities,     \* bound: the memory of the ranks' devices
    Fits,           \* bound: the memory models that may come out of the estimation
    max_batch_size,
    n_samples       \* random shapes of the warm-up

VARIABLES
    config,         \* the settings
    capacity,       \* of each rank's device
    pc,             \* what serve does
    est,            \* the estimator of each rank
    msm,            \* its memory scaling model, <<>> while it is unbound
    estimates,      \* estimations completed with the model eager and compiled
    compiled,
    shapes,         \* shapes the warm-up of each rank has still to evaluate
    shape           \* the last one it evaluated

vars == <<config, capacity, pc, est, msm, estimates, compiled, shapes, shape>>

\* loads says whether the model can be loaded at all.
Settings ==
    [ESTIMATE_MEMORY : {"auto", "manual", "off"}, PAGED_ATTENTION : BOOLEAN, PT2_COMPILE : BOOLEAN,
     cuda : BOOLEAN, quantize : {"none", "gptq", "bitsandbytes", "other"},
     dtype : {"none", "float16", "int8"}, batch_padding : BOOLEAN, loads : BOOLEAN,
     max_new_tokens : Nat, max_sequence_length : Nat]

max_new_tokens == config.max_new_tokens
max_sequence_length == config.max_sequence_length

\* The longest prefill that fits into the memory of a device, and the longest whose next
\* tokens do.
Device == [prefill : Nat, tokens : Nat]

\* curve_fit stays inside bounds that exclude negative coefficients.  inverse_prefill
\* takes a quadratic part without a quadratic coefficient for none.
ASSUME StartupAssumption ==
    /\ Configs \subseteq Settings /\ Ranks # {} /\ Capacities \subseteq [Ranks -> Device]
    /\ {max_batch_size, n_samples, Unbounded} \subseteq Nat /\ max_batch_size > 0
    /\ Fits \subseteq [weight_limit : Nat, linear : Nat, q0 : Nat, q1 : Nat, n0 : Nat, n1 : Nat]
    /\ \A m \in Fits : m.q1 = 0 => m.q0 <= m.linear

NoShape == <<0, 0, 0>>

OnAll(x) == [r \in Ranks |-> x]
Alike(f) == \A q, r \in Ranks : f[q] = f[r]

Init ==
    /\ config \in Configs /\ capacity \in Capacities
    /\ pc = "start" /\ est = OnAll(Estimator) /\ msm = OnAll(<<>>)
    /\ estimates = <<>> /\ compiled = FALSE /\ shapes = OnAll(<<>>) /\ shape = OnAll(NoShape)

run_estimate == config.PT2_COMPILE \/ config.ESTIMATE_MEMORY = "auto"
FitsOutside == config.ESTIMATE_MEMORY = "auto" /\ config.PAGED_ATTENTION

----------------------------------------------------------------------------
(* serve_inner.                                                             *)

\* A separate process fits the memory model of the flash model for the paged one.
\* It puts the model into a queue, which the parent waits for without a limit.  The
\* process loads the model itself, with the settings as they were given: get_torch_dtype
\* fails if there is no type among them, and no engine knows another quantization.
FitGetsModel == config.loads /\ config.dtype # "none" /\ config.quantize # "other"

StartFit ==
    /\ pc = "start"
    /\ pc' \in IF ~FitsOutside THEN {"load"}
               ELSE IF ~FitGetsModel THEN {"fit_failed"}
               ELSE {IF config.cuda THEN "fitting" ELSE "fitted"}
    /\ UNCHANGED <<config, capacity, est, msm, estimates, compiled, shapes, shape>>

QueueGet ==
    /\ pc = "fitted"
    /\ pc' = "load"
    /\ msm' \in [Ranks -> IF config.cuda THEN Fits ELSE {DisabledMemory}]
    /\ UNCHANGED <<config, capacity, est, estimates, compiled, shapes, shape>>

\* Settings that are refused; int8 stands for bitsandbytes.
Quantize == IF config.quantize = "none" /\ config.dtype = "int8" THEN "bitsandbytes"
            ELSE config.quantize
Refused == config.quantize = "other" \/ (Quantize # "none" /\ ~config.cuda)

\* get_model, which may fail; then how the memory is estimated.  The variable with the
\* result of the separate process is unbound if that was not started.
AfterLoad ==
    CASE run_estimate /\ config.PAGED_ATTENTION -> IF msm = OnAll(<<>>) THEN "failed" ELSE "serving"
      [] run_estimate /\ ~config.PAGED_ATTENTION -> IF config.cuda THEN "estimate" ELSE "estimated"
      [] ~run_estimate -> "serving"

MemoryWithoutEstimate ==
    IF config.ESTIMATE_MEMORY = "manual"
    THEN IF config.batch_padding THEN Memory(100, 0, 0, 1, 1, 1) ELSE Memory(100, 1, 0, 0, 1, 1)
    ELSE DisabledMemory

Load ==
    /\ pc = "load"
    /\ pc' \in IF Refused \/ ~config.loads THEN {"failed"} ELSE {"failed", AfterLoad}
    /\ msm' = IF run_estimate THEN (IF config.cuda \/ config.PAGED_ATTENTION THEN msm
                                    ELSE OnAll(DisabledMemory))
              ELSE OnAll(MemoryWithoutEstimate)
    /\ UNCHANGED <<config, capacity, est, estimates, compiled, shapes, shape>>

\* A rank runs out of memory on its own, but takes the largest of the ranks' errors.
OutOfMemory(r) == TestLength(est[r]) + NewTokens(est[r]) - 1 > capacity[r].prefill
TokensRunOut(r) == TestLength(est[r]) > capacity[r].tokens

OwnError(within, r) == within[r]    \* mutant
ReduceError(within, r) == \A q \in Ranks : within[q]

Estimating == pc \in {"estimate", "fitting"}

RunTest ==
    /\ Estimating /\ \A r \in Ranks : ~Ended(est[r])
    /\ \E within \in [Ranks -> BOOLEAN] :
         /\ \A r \in Ranks : est[r].at \notin {"linear", "existing", "inflection"} => within[r]
         /\ est' = [r \in Ranks |-> Test(est[r], OutOfMemory(r), TokensRunOut(r), ReduceError(within, r))]
    /\ UNCHANGED <<config, capacity, pc, msm, estimates, compiled, shapes, shape>>

\* If a separate process ends without a model its parent waits for ever.  The parents
\* of the others then wait in vain for that rank, in init_process_group, and fail.
FitFailed == IF \E r \in Ranks : est[r].at = "done" THEN "failed" ELSE "fit_failed"

\* An exception ends serve.
EstimateEnds ==
    /\ Estimating /\ \A r \in Ranks : Ended(est[r])
    /\ LET raised == \E r \in Ranks : est[r].at = "raised" IN
       /\ pc' = CASE raised /\ pc = "estimate" -> "failed"
                  [] raised /\ pc = "fitting"  -> FitFailed
                  [] ~raised /\ pc = "estimate" -> "estimated"
                  [] ~raised /\ pc = "fitting"  -> "fitted"
       /\ IF raised \/ pc = "fitting" THEN UNCHANGED msm ELSE msm' \in [Ranks -> Fits]
    /\ est' = OnAll(Estimator)
    /\ UNCHANGED <<config, capacity, estimates, compiled, shapes, shape>>

\* Ranks that do not make the same collective calls, because a test ran out of memory on
\* some of them only or their memory models differ, wait for each other until the
\* timeout of the process group aborts them; or the calls get through with wrong data
\* and the ranks go on.
EvenMemory == Alike(capacity)
InStep ==
    /\ Estimating => Alike(est)
    /\ pc = "warmup" => Alike(shapes) /\ Alike(shape) /\ EvenMemory

Abort ==
    /\ pc = "warmup" \/ (Estimating /\ \E r \in Ranks : ~Ended(est[r]))
    /\ ~InStep
    /\ pc' = IF pc = "fitting" THEN FitFailed ELSE "failed"
    /\ est' = OnAll(Estimator)
    /\ UNCHANGED <<config, capacity, msm, estimates, compiled, shapes, shape>>

----------------------------------------------------------------------------
(* pt2_compile_warmup.                                                      *)

\* The shapes at the limits, for one request and for a full batch.
PrefillBoundaries(m, batch_size) ==
    << <<batch_size, 1, 1>>,
       <<batch_size, max_input_len_for_prefill(m, batch_size, max_sequence_length - 1), 1>> >>

IgnoresInput(m, batch_size, output_len) == max_sequence_length      \* mutant
LongestInput(m, batch_size, output_len) ==
    max_input_len_for_nt(m, batch_size, output_len, max_sequence_length - output_len)

NextTokenBoundaries(m, batch_size) ==
    LET max_output_len == max_output_len_for_nt(m, batch_size, 1, max_new_tokens)
        output_len == IF max_output_len = max_new_tokens THEN max_new_tokens
                      ELSE max_output_len \div 2
    IN  << <<batch_size, 1, 2>>, <<batch_size, LongestInput(m, batch_size, 2), 2>>,
           <<batch_size, 1, max_output_len>>,
           <<batch_size, LongestInput(m, batch_size, output_len), output_len>> >>

Boundaries(m) ==
    PrefillBoundaries(m, 1) \o PrefillBoundaries(m, max_batch_size)
    \o NextTokenBoundaries(m, 1) \o NextTokenBoundaries(m, max_batch_size)

\* A random shape is drawn when its turn comes.
Random == <<-1, -1, -1>>

\* After an estimate: compile, estimate again with the compiled model, compile again.
AfterEstimate ==
    /\ pc = "estimated"
    /\ estimates' = Append(estimates, compiled)
    /\ IF config.PT2_COMPILE
       THEN /\ pc' = "warmup" /\ compiled' = TRUE
            /\ shapes' = [r \in Ranks |-> Boundaries(msm[r]) \o [k \in 1 .. n_samples |-> Random]]
       ELSE pc' = "serving" /\ UNCHANGED <<compiled, shapes>>
    /\ UNCHANGED <<config, capacity, est, msm, shape>>

\* A shape with a zero is skipped, and running out of memory is survived.  A negative
\* length does not fit into a request.
Skipped(t) == \E k \in 1 .. 3 : t[k] = 0
Negative(t) == ~Skipped(t) /\ t[2] < 0

EvalShape ==
    /\ pc = "warmup" /\ \A r \in Ranks : shapes[r] # <<>> /\ Head(shapes[r]) # Random
    /\ pc' = IF \E r \in Ranks : Negative(Head(shapes[r])) THEN "failed" ELSE pc
    /\ shapes' = [r \in Ranks |-> Tail(shapes[r])]
    /\ shape' = [r \in Ranks |-> IF Skipped(Head(shapes[r])) \/ Negative(Head(shapes[r])) THEN shape[r]
                                 ELSE Head(shapes[r])]
    /\ UNCHANGED <<config, capacity, est, msm, estimates, compiled>>

\* What a rank with the memory model m may draw.  randint fails if there is nothing to
\* draw from: for the input that is fatal, for the output caught.
DrawsFor(m, batch_size) ==
    LET max_input_len == max_input_len_for_prefill(m, batch_size, max_sequence_length - 1)
        max_output_len(input_len) ==
            max_output_len_for_nt(m, batch_size, input_len,
                                  Min({max_sequence_length - input_len, max_new_tokens}))
    IN  IF max_input_len < 1 THEN {NoShape}
        ELSE UNION {{<<batch_size, input_len, output_len>> :
                        output_len \in 1 .. Max({1, max_output_len(input_len)})} :
                    input_len \in 1 .. max_input_len}
Draws(m) == UNION {DrawsFor(m, batch_size) : batch_size \in 1 .. max_batch_size}

\* The ranks start from the same seed: the same model draws the same.
DrawShape ==
    /\ pc = "warmup" /\ \A r \in Ranks : shapes[r] # <<>> /\ Head(shapes[r]) = Random
    /\ LET models == {msm[r] : r \in Ranks} IN
       \E draw \in [models -> UNION {Draws(m) : m \in models}] :
         /\ \A m \in models : draw[m] \in Draws(m)
         /\ IF \E m \in models : draw[m] = NoShape THEN pc' = "failed" /\ UNCHANGED <<shapes, shape>>
            ELSE /\ shape' = [r \in Ranks |-> draw[msm[r]]]
                 /\ shapes' = [r \in Ranks |-> Tail(shapes[r])] /\ UNCHANGED pc
    /\ UNCHANGED <<config, capacity, est, msm, estimates, compiled>>

EstimateAgain == Len(estimates) < 2

WarmupEnds ==
    /\ pc = "warmup" /\ \A r \in Ranks : shapes[r] = <<>>
    /\ shape' = OnAll(NoShape)
    /\ pc' = IF ~EstimateAgain THEN "serving"
             ELSE IF config.cuda THEN "estimate" ELSE "estimated"
    /\ UNCHANGED <<config, capacity, est, msm, estimates, compiled, shapes>>

Stopped == pc \in {"serving", "failed", "fit_failed"}
Rest == Stopped /\ UNCHANGED vars

Next == StartFit \/ QueueGet \/ Load \/ RunTest \/ EstimateEnds \/ Abort \/ AfterEstimate
        \/ EvalShape \/ DrawShape \/ WarmupEnds \/ Rest

Spec == Init /\ [][Next]_vars
FairSpec == Spec /\ WF_vars(Next)

----------------------------------------------------------------------------
(* Properties.                                                              *)

\* A device with room for the longest prefill and for the tokens after it.
Roomy(d) == d.prefill >= stop_seq_len + new_tokens /\ d.tokens >= stop_seq_len

\* Every search of the estimator and the warm-up end, also on ranks that no longer make
\* the same calls: the shards serve or fail.  Only if the separate process fails do
\* they wait for ever, which it does not do for lack of memory on devices with enough.
StartupEnds ==
    <>(pc \in {"serving", "failed"} \/ (pc = "fit_failed" /\ (FitGetsModel => \E r \in Ranks : ~Roomy(capacity[r]))))

\* Ranks with the same memory run the same tests, though they measure differently: the
\* errors that decide where the searches go on are reduced over the ranks.  If they also
\* come to the same memory model they evaluate the same shapes.  So no rank waits for
\* another in a collective call unless their memory or their models differ.
RanksInStep == EvenMemory /\ (pc = "warmup" => Alike(msm)) => InStep

\* "The first sample is the lowest one that didn't cause an OOM error": of the samples of
\* find_upper_bound, which all fit into the rank's memory, none is shorter than the
\* first, and the longest, the last, is the new end of the range.  The search for the
\* linear part starts at the first and stays below it.
FirstSampleIsLowest ==
    \A r \in Ranks :
        LET e == est[r]
            n == Len(e.X)
        IN  /\ e.at \in {"upper_bound", "linear"} => \A k \in 2 .. n : e.X[k] <= capacity[r].prefill
            /\ e.at = "upper_bound" => \A k \in 2 .. n : e.X[2] <= e.X[k]
            /\ e.at = "linear" =>
                  /\ e.lower <= e.upper /\ e.upper <= e.X[2]
                  /\ \E last \in 2 .. n : /\ e.X[last] = e.stop
                                          /\ \A k \in 2 .. last : e.X[2] <= e.X[k] /\ e.X[k] <= e.stop
                                          /\ \A k \in last + 1 .. n : e.X[k] < e.X[2]

\* The quadratic curve is fitted to lengths and the memory measured for these very
\* lengths, though the two come from the samples in different ways, and the line to a
\* sample at least, not to the empty column alone.
PairsBelong ==
    \A r \in Ranks :
        /\ est[r].quadratic_fit # <<>> =>
              est[r].quadratic_fit.X = est[r].quadratic_fit.Y /\ est[r].quadratic_fit.X # <<>>
        /\ est[r].at \in {"inflection", "quadratic", "nt", "done"} /\ est[r].longest_linear > 0 =>
              Len(est[r].linear_fit) > 1

\* With memory for the longest test and its tokens, the estimator of a rank never fails:
\* no stride is zero and there is room for the samples of the next token.
NoSpuriousFailure == \A r \in Ranks : Roomy(capacity[r]) => est[r].at # "raised"

\* The warm-up evaluates no shape that is longer than a request may be, but for prompts
\* of one token if the limits leave no room for the tokens after it, which nothing checks
\* before; and apart from those prompts none that does not fit in prefill according to
\* the rank's memory model.
ShapesWithinLimits ==
    \A r \in Ranks : shape[r] # NoShape =>
        LET t == shape[r] IN
        /\ t[1] <= max_batch_size /\ t[2] > 0 /\ t[3] > 0
        /\ \/ t[2] + t[3] <= max_sequence_length
           \/ t[2] = 1 /\ (max_new_tokens >= max_sequence_length \/ max_sequence_length < 3)
        /\ t[2] > 1 => prefill_memory_usage(msm[r], t[1], t[2]) <= msm[r].weight_limit
=============================================================================
