------------------------- MODULE ShardStartupProofs -------------------------
(***************************************************************************)
(* What ShardStartup says of the estimator and of the warm-up holds for    *)
(* any number of ranks, any lengths, any memory and any fitted curve:      *)
(* RanksInStep, FirstSampleIsLowest, ShapesWithinLimits, PairsBelong       *)
(* and, if there is room for the samples, NoSpuriousFailure.               *)
(***************************************************************************)
EXTENDS ShardStartup, FiniteSums, SequenceTheorems

-----------------------------------------------------------------------------
(* The ranks.                                                               *)

\* A test gives the same result on ranks with the same memory that come from the same
\* tests: they run out of memory together and decide by the same error.
LEMMA TestsAgree ==
  ASSUME EvenMemory, Alike(est), RunTest
  PROVE  Alike(est)'
  <1>1. PICK within \in [Ranks -> BOOLEAN] :
            est' = [r \in Ranks |-> Test(est[r], OutOfMemory(r), TokensRunOut(r), ReduceError(within, r))]
      BY DEF RunTest
  <1>2. ASSUME NEW q \in Ranks, NEW r \in Ranks PROVE est'[q] = est'[r]
      <2>1. est[q] = est[r] /\ capacity[q] = capacity[r]
          BY DEF EvenMemory, Alike
      <2>2. OutOfMemory(q) = OutOfMemory(r) /\ TokensRunOut(q) = TokensRunOut(r)
          BY <2>1 DEF OutOfMemory, TokensRunOut
      <2>3. ReduceError(within, q) = ReduceError(within, r)
          BY DEF ReduceError
      <2>4. /\ est'[q] = Test(est[q], OutOfMemory(q), TokensRunOut(q), ReduceError(within, q))
            /\ est'[r] = Test(est[r], OutOfMemory(r), TokensRunOut(r), ReduceError(within, r))
          BY <1>1
      <2>. QED  BY <2>1, <2>2, <2>3, <2>4
  <1>. QED  BY <1>2 DEF Alike

\* The memory models that the ranks estimate may differ: then so may their shapes.
StepInv ==
    /\ EvenMemory => Alike(est)
    /\ pc \notin {"warmup", "failed"} => shape = OnAll(NoShape)
    /\ pc = "warmup" /\ Alike(msm) => Alike(shapes) /\ Alike(shape)

\* Ranks with the same memory, and in the warm-up with the same memory model, make the
\* same collective calls, whatever they measure: a rank that decided by its own error
\* would leave the others waiting.
THEOREM RanksStayInStep == Spec => []RanksInStep
  <1>1. Init => StepInv
      BY DEF Init, StepInv, Alike, OnAll
  <1>2. StepInv /\ [Next]_vars => StepInv'
      <2> SUFFICES ASSUME StepInv, [Next]_vars PROVE StepInv'
          OBVIOUS
      <2>0. capacity' = capacity /\ EvenMemory' = EvenMemory
          BY DEF Next, vars, StartFit, QueueGet, Load, RunTest, EstimateEnds, Abort, AfterEstimate, EvalShape,
                 DrawShape, WarmupEnds, Rest, EvenMemory, Alike
      <2>1. EvenMemory' => Alike(est)'
          <3>1. CASE RunTest
              BY <2>0, <3>1, TestsAgree DEF StepInv
          <3>2. CASE EstimateEnds \/ Abort
              BY <3>2 DEF EstimateEnds, Abort, Alike, OnAll
          <3>3. CASE UNCHANGED est
              BY <2>0, <3>3 DEF StepInv, Alike
          <3>. QED  BY <3>1, <3>2, <3>3 DEF Next, vars, StartFit, QueueGet, Load, AfterEstimate, EvalShape,
                                           DrawShape, WarmupEnds, Rest
      <2>2. /\ pc' \notin {"warmup", "failed"} => shape' = OnAll(NoShape)
            /\ pc' = "warmup" /\ Alike(msm)' => Alike(shapes)' /\ Alike(shape)'
          <3>1. CASE AfterEstimate
              <4>1. shape = OnAll(NoShape) /\ shape' = shape
                  BY <3>1 DEF AfterEstimate, StepInv
              <4>2. Alike(shape)'
                  BY <4>1 DEF Alike, OnAll
              <4>3. ASSUME pc' = "warmup", Alike(msm)' PROVE Alike(shapes)'
                  <5>1. shapes' = [r \in Ranks |-> Boundaries(msm[r]) \o [k \in 1 .. n_samples |-> Random]]
                        /\ msm' = msm
                      BY <3>1, <4>3 DEF AfterEstimate
                  <5>2. \A q, r \in Ranks : msm[q] = msm[r]
                      BY <4>3, <5>1 DEF Alike
                  <5>. QED  BY <5>1, <5>2 DEF Alike
              <4>. QED  BY <4>1, <4>2, <4>3
          <3>2. CASE EvalShape
              <4>1. pc = "warmup" /\ msm' = msm /\ pc' \in {"warmup", "failed"}
                  BY <3>2 DEF EvalShape
              <4>2. ASSUME Alike(msm)' PROVE Alike(shapes)' /\ Alike(shape)'
                  <5>1. Alike(shapes) /\ Alike(shape)
                      BY <4>1, <4>2 DEF StepInv, Alike
                  <5>. QED  BY <3>2, <5>1 DEF EvalShape, Alike
              <4>. QED  BY <4>1, <4>2
          <3>3. CASE DrawShape
              <4>1. pc = "warmup" /\ msm' = msm /\ pc' \in {"warmup", "failed"}
                  BY <3>3 DEF DrawShape
              <4>2. ASSUME Alike(msm)' PROVE Alike(shapes)' /\ Alike(shape)'
                  <5>1. Alike(shapes) /\ Alike(shape) /\ \A q, r \in Ranks : msm[q] = msm[r]
                      BY <4>1, <4>2 DEF StepInv, Alike
                  <5>2. \/ UNCHANGED <<shapes, shape>>
                        \/ \E draw : shape' = [r \in Ranks |-> draw[msm[r]]]
                                    /\ shapes' = [r \in Ranks |-> Tail(shapes[r])]
                      <6> DEFINE models == {msm[r] : r \in Ranks}
                      <6>1. PICK draw \in [models -> UNION {Draws(m) : m \in models}] :
                                IF \E m \in models : draw[m] = NoShape
                                THEN pc' = "failed" /\ UNCHANGED <<shapes, shape>>
                                ELSE /\ shape' = [r \in Ranks |-> draw[msm[r]]]
                                     /\ shapes' = [r \in Ranks |-> Tail(shapes[r])] /\ UNCHANGED pc
                          BY <3>3 DEF DrawShape
                      <6>. QED  BY <6>1
                  <5>3. CASE UNCHANGED <<shapes, shape>>
                      BY <5>1, <5>3 DEF Alike
                  <5>4. ASSUME NEW draw, shape' = [r \in Ranks |-> draw[msm[r]]],
                               shapes' = [r \in Ranks |-> Tail(shapes[r])]
                        PROVE  Alike(shapes)' /\ Alike(shape)'
                      BY <5>1, <5>4 DEF Alike
                  <5>. QED  BY <5>2, <5>3, <5>4
              <4>. QED  BY <4>1, <4>2
          <3>4. CASE WarmupEnds
              BY <3>4 DEF WarmupEnds
          <3>5. CASE Abort
              <4>1. pc' \in {"failed", "fit_failed"} /\ shape' = shape /\ (pc' = "fit_failed" => pc = "fitting")
                  BY <3>5 DEF Abort, FitFailed
              <4>. QED  BY <4>1 DEF StepInv
          <3>6. CASE UNCHANGED vars
              BY <3>6 DEF vars, StepInv, Alike
          <3>7. CASE StartFit \/ QueueGet \/ Load \/ RunTest \/ EstimateEnds
              <4>1. pc \notin {"warmup", "failed"} /\ pc' # "warmup" /\ shape' = shape
                  BY <3>7 DEF StartFit, QueueGet, Load, RunTest, EstimateEnds, Estimating, FitFailed, AfterLoad
              <4>. QED  BY <4>1 DEF StepInv
          <3>. QED  BY <3>1, <3>2, <3>3, <3>4, <3>5, <3>6, <3>7 DEF Next, Rest
      <2>. QED  BY <2>1, <2>2 DEF StepInv
  <1>3. StepInv => RanksInStep
      BY DEF StepInv, RanksInStep, InStep
  <1>. QED  BY <1>1, <1>2, <1>3, PTL DEF Spec

-----------------------------------------------------------------------------
(* The estimator.                                                           *)

Fields == DOMAIN Estimator

\* After the search for the linear part the estimator never returns to a search whose
\* bounds depend on the first sample.
Later(e) == DOMAIN e = Fields /\ e.at \in {"existing", "inflection", "quadratic", "nt", "done", "raised"}

\* The search for the longest prefill: the samples are those that did fit, the first is
\* the shortest and the last the longest.
Searching(e, c) ==
    /\ DOMAIN e = Fields /\ e.at = "upper_bound"
    /\ e.X \in Seq(Nat) /\ Len(e.X) > 0 /\ e.lower \in Nat /\ e.upper \in Nat /\ e.s \in Nat
    /\ e.lower <= e.s /\ e.s <= e.upper /\ ~e.enable_nt_sampling
    /\ \A k \in 2 .. Len(e.X) : e.X[k] <= c /\ e.X[2] <= e.X[k] /\ e.X[k] <= e.lower
    /\ Len(e.X) > 1 => e.X[Len(e.X)] = e.lower

\* The samples of that search, up to last, and those below the first of them.
Split(X, last, stop) ==
    /\ last \in 2 .. Len(X) /\ X[last] = stop
    /\ \A k \in 2 .. last : X[2] <= X[k] /\ X[k] <= stop
    /\ \A k \in last + 1 .. Len(X) : X[k] < X[2]

\* The search for the linear part, below the first sample.
Halving(e, c) ==
    /\ DOMAIN e = Fields /\ e.X \in Seq(Nat) /\ Len(e.X) > 1
    /\ e.lower \in Nat /\ e.upper \in Nat /\ e.stop \in Nat
    /\ e.lower <= e.upper /\ e.upper <= e.X[2]
    /\ \A k \in 2 .. Len(e.X) : e.X[k] <= c
    /\ \E last : Split(e.X, last, e.stop)
Linear(e, c) == Halving(e, c) /\ e.at = "linear" /\ e.s \in Nat /\ e.lower <= e.s /\ e.s < e.upper

\* Given(x, F) is F(x): what is left of the helper that lets TLC evaluate x once.
LEMMA ContinueInflectionIs ==
  ASSUME NEW e
  PROVE  ContinueInflection(e) =
           IF e.upper - e.lower > STOPPING_DISTANCE THEN e
           ELSE LET f == _sort_samples(e) IN
                WithInflection(f, IF f.stop - f.s < STOPPING_DISTANCE THEN f.stop ELSE f.s)
  <1> DEFINE f == _sort_samples(e)
             h == WithInflection(f, IF f.stop - f.s < STOPPING_DISTANCE THEN f.stop ELSE f.s)
             H == {WithInflection(z, IF z.stop - z.s < STOPPING_DISTANCE THEN z.stop ELSE z.s) : z \in {f}}
  <1>1. ContinueInflection(e) =
            IF e.upper - e.lower > STOPPING_DISTANCE THEN e ELSE CHOOSE y \in H : TRUE
      BY DEF ContinueInflection, Given
  <1>2. H = {h}
      <2> HIDE DEF f
      <2>. QED  OBVIOUS
  <1> HIDE DEF H
  <1>. QED  BY <1>1, <1>2

\* find_linear_part looks for samples above the longest linear one, once it has sorted them.
LEMMA StartExistingIs ==
  ASSUME NEW e
  PROVE  StartExisting(e) =
           LET f == _sort_samples(e) IN
           IF f.longest_linear = 0 THEN StartInflection(f)
           ELSE ContinueExisting([f EXCEPT !.at = "existing",
                  !.index = Min({Len(f.X) + 1} \cup {k \in DOMAIN f.X : f.X[k] > f.longest_linear})])
  <1> DEFINE f == _sort_samples(e)
             Go(z) == IF z.longest_linear = 0 THEN StartInflection(z)
                      ELSE ContinueExisting([z EXCEPT !.at = "existing",
                             !.index = Min({Len(z.X) + 1} \cup {k \in DOMAIN z.X : z.X[k] > z.longest_linear})])
             H == {Go(z) : z \in {f}}
  <1>1. StartExisting(e) = CHOOSE y \in H : TRUE
      BY DEF StartExisting, Given
  <1>2. H = {Go(f)}
      <2> HIDE DEF f, Go
      <2>. QED  OBVIOUS
  <1> HIDE DEF H
  <1>. QED  BY <1>1, <1>2

\* The fields of an estimator, which no step changes.
LEMMA FieldsAre ==
    Fields = {"at", "lower", "upper", "s", "X", "stop", "longest_linear", "inflection_point", "index",
              "linear_fit", "quadratic_fit", "todo", "enable_nt_sampling", "remaining",
              "nt_upper_input_limit"}
  BY DEF Fields, Estimator

\* An exception ends the estimation.
LEMMA FailIsLater ==
  ASSUME NEW e, DOMAIN e = Fields
  PROVE  Later(Fail(e))
  BY FieldsAre DEF Later, Fail

\* estimate_nt comes after the searches.
LEMMA NtIsLater ==
  ASSUME NEW e, DOMAIN e = Fields
  PROVE  Later(StartNt(e))
  BY FieldsAre, FailIsLater DEF Later, StartNt

\* ... and so does estimate_quadratic,
LEMMA QuadraticIsLater ==
  ASSUME NEW e, DOMAIN e = Fields
  PROVE  Later(FitQuadratic(e))
  <1> DEFINE start == e.inflection_point
             X == Above(e.X, start)
             Y == IF X = <<>> THEN e.X ELSE SubSeq(e.X, Len(e.X) - Len(X) + 1, Len(e.X))
             missing == min_samples - Len(X)
             fit == [e EXCEPT !.at = "quadratic", !.quadratic_fit = [X |-> X, Y |-> Y]]
             more == [fit EXCEPT !.todo = Samples(missing, start + 1, e.stop)]
  <1>1. FitQuadratic(e) \in {StartNt(fit), Fail(e), more}
      BY DEF FitQuadratic
  <1> HIDE DEF X, Y, missing
  <1>2. Later(fit)
      BY FieldsAre DEF Later
  <1>3. Later(more)
      BY <1>2, FieldsAre DEF Later
  <1>4. Later(StartNt(fit))
      <2> HIDE DEF fit
      <2>. QED  BY <1>2, NtIsLater DEF Later
  <1>5. Later(Fail(e))
      BY FailIsLater
  <1>. QED  BY <1>1, <1>3, <1>4, <1>5

\* what follows an inflection point,
LEMMA InflectionIsLater ==
  ASSUME NEW e, DOMAIN e = Fields, NEW point
  PROVE  Later(WithInflection(e, point))
  <1> DEFINE f == [e EXCEPT !.inflection_point = point]
  <1>1. DOMAIN f = Fields
      OBVIOUS
  <1>2. WithInflection(e, point) \in {FitQuadratic(f), StartNt(f)}
      BY DEF WithInflection
  <1> HIDE DEF f
  <1>. QED  BY <1>1, <1>2, QuadraticIsLater, NtIsLater

\* the search for that point,
LEMMA ContinueInflectionIsLater ==
  ASSUME NEW e, Later(e)
  PROVE  Later(ContinueInflection(e))
  <1>1. DOMAIN _sort_samples(e) = Fields
      BY DEF _sort_samples, Later
  <1>2. \E point : ContinueInflection(e) \in {e, WithInflection(_sort_samples(e), point)}
      BY ContinueInflectionIs
  <1>. QED  BY <1>1, <1>2, InflectionIsLater

\* its start,
LEMMA StartInflectionIsLater ==
  ASSUME NEW e, DOMAIN e = Fields
  PROVE  Later(StartInflection(e))
  <1> DEFINE f == [e EXCEPT !.at = "inflection", !.lower = e.longest_linear,
                            !.upper = e.stop, !.s = (e.longest_linear + e.stop) \div 2]
  <1>1. StartInflection(e) \in {ContinueInflection(f), WithInflection(e, e.longest_linear)}
      BY DEF StartInflection
  <1>2. Later(f)
      BY FieldsAre DEF Later
  <1> HIDE DEF f
  <1>. QED  BY <1>1, <1>2, ContinueInflectionIsLater, InflectionIsLater

\* the samples that lie on the line too,
LEMMA ContinueExistingIsLater ==
  ASSUME NEW e, Later(e)
  PROVE  Later(ContinueExisting(e))
  <1> DEFINE f == [e EXCEPT !.linear_fit = Below(e.X, e.longest_linear)]
  <1>1. ContinueExisting(e) \in {e, StartInflection(f)}
      BY DEF ContinueExisting
  <1>2. DOMAIN f = Fields
      BY DEF Later
  <1> HIDE DEF f
  <1>. QED  BY <1>1, <1>2, StartInflectionIsLater

\* and the way to these from find_linear_part.
LEMMA ExistingIsLater ==
  ASSUME NEW e, DOMAIN e = Fields
  PROVE  Later(StartExisting(e))
  <1> DEFINE f == _sort_samples(e)
             g == [f EXCEPT !.at = "existing",
                     !.index = Min({Len(f.X) + 1} \cup {k \in DOMAIN f.X : f.X[k] > f.longest_linear})]
  <1>1. StartExisting(e) \in {StartInflection(f), ContinueExisting(g)}
      BY StartExistingIs
  <1>2. DOMAIN f = Fields
      BY DEF _sort_samples
  <1> HIDE DEF f
  <1>3. Later(g)
      BY <1>2, FieldsAre DEF Later
  <1> HIDE DEF g
  <1>. QED  BY <1>1, <1>2, <1>3, StartInflectionIsLater, ContinueExistingIsLater

\* Sampling next tokens changes what is left to sample, and nothing else.
LEMMA SamplingKeeps ==
  ASSUME NEW e, DOMAIN e = Fields, NEW x, NEW nt_oom
  PROVE  LET f == sample_next_token(e, x, nt_oom) IN
         DOMAIN f = Fields /\ \A a \in Fields \ {"remaining", "nt_upper_input_limit"} : f[a] = e[a]
  <1> DEFINE g == [e EXCEPT !.nt_upper_input_limit = x]
             h == [e EXCEPT !.remaining = @ - 1]
  <1>1. sample_next_token(e, x, nt_oom) \in {e, g, h}
      BY DEF sample_next_token
  <1>2. DOMAIN g = Fields /\ DOMAIN h = Fields
      OBVIOUS
  <1>3. \A a \in Fields \ {"remaining", "nt_upper_input_limit"} : g[a] = e[a] /\ h[a] = e[a]
      OBVIOUS
  <1> HIDE DEF g, h
  <1>. QED  BY <1>1, <1>2, <1>3

\* A later test leaves the estimator later.
LEMMA LaterStays ==
  ASSUME NEW e, Later(e), ~Ended(e), NEW oom \in BOOLEAN, NEW nt_oom \in BOOLEAN, NEW within \in BOOLEAN
  PROVE  Later(Test(e, oom, nt_oom, within))
  <1> DEFINE x == TestLength(e)
  <1>0. DOMAIN e = Fields /\ e.at \in {"existing", "inflection", "quadratic", "nt"}
      BY DEF Later, Ended
  <1>1. CASE e.at = "existing"
      <2> DEFINE f == IF within THEN [e EXCEPT !.longest_linear = e.X[e.index], !.index = @ + 1]
                      ELSE [e EXCEPT !.index = Len(e.X) + 1]
      <2>1. Test(e, oom, nt_oom, within) = ContinueExisting(f)
          BY <1>1 DEF Test, ExistingStep
      <2>2. Later(f)
          BY <1>0, <1>1, FieldsAre DEF Later
      <2> HIDE DEF f
      <2>. QED  BY <2>1, <2>2, ContinueExistingIsLater
  <1>2. CASE e.at # "existing" /\ oom
      <2>1. Test(e, oom, nt_oom, within) = Fail(e)
          BY <1>0, <1>2 DEF Test
      <2>. QED  BY <1>0, <2>1, FailIsLater
  <1>3. CASE e.at \in {"quadratic", "nt"} /\ ~oom
      <2> DEFINE d == sample_next_token(e, x, nt_oom)
      <2>1. Test(e, oom, nt_oom, within) = TodoStep(d, x)
          BY <1>3 DEF Test
      <2>2. DOMAIN d = Fields /\ d.at = e.at
          BY <1>0, SamplingKeeps, FieldsAre
      <2> HIDE DEF d, x
      <2> DEFINE f == [d EXCEPT !.todo = Tail(@)]
                 g == IF d.at = "nt" THEN f
                      ELSE [f EXCEPT !.quadratic_fit = [X |-> Append(@.X, x), Y |-> Append(@.Y, x)]]
                 h == [g EXCEPT !.at = "done"]
      <2>3. TodoStep(d, x) \in {g, h, StartNt(g)}
          BY DEF TodoStep
      <2>4. DOMAIN f = Fields /\ f.at = d.at
          BY <2>2, FieldsAre
      <2> HIDE DEF f
      <2>5. DOMAIN g = Fields /\ g.at = d.at
          BY <2>4, FieldsAre
      <2> HIDE DEF g
      <2>6. Later(g) /\ Later(h)
          BY <1>3, <2>2, <2>5, FieldsAre DEF Later
      <2> HIDE DEF h
      <2>. QED  BY <2>1, <2>3, <2>5, <2>6, NtIsLater
  <1>4. CASE e.at = "inflection" /\ ~oom
      <2> DEFINE m == Measured(e, x)
                 d == sample_next_token(m, x, nt_oom)
                 f == IF within THEN [d EXCEPT !.lower = d.s] ELSE [d EXCEPT !.upper = d.s]
                 g == [f EXCEPT !.s = (f.lower + f.upper) \div 2]
      <2>1. Test(e, oom, nt_oom, within) = ContinueInflection(g)
          BY <1>4 DEF Test, InflectionStep
      <2> HIDE DEF x
      <2>2. DOMAIN m = Fields /\ m.at = "inflection"
          BY <1>0, <1>4, FieldsAre DEF Measured
      <2> HIDE DEF m
      <2>3. DOMAIN d = Fields /\ d.at = "inflection"
          BY <2>2, SamplingKeeps, FieldsAre
      <2> HIDE DEF d
      <2>4. DOMAIN f = Fields /\ f.at = "inflection"
          BY <2>3, FieldsAre
      <2> HIDE DEF f
      <2>5. Later(g)
          BY <2>4, FieldsAre DEF Later
      <2> HIDE DEF g
      <2>. QED  BY <2>1, <2>5, ContinueInflectionIsLater
  <1>. QED  BY <1>0, <1>1, <1>2, <1>3, <1>4

\* The smaller of two numbers.
LEMMA MinOfTwo ==
  ASSUME NEW a \in Nat, NEW b \in Nat
  PROVE  Min({a, b}) \in Nat /\ Min({a, b}) <= a /\ Min({a, b}) <= b /\ Min({a, b}) \in {a, b}
  <1>1. \E m \in {a, b} : \A y \in {a, b} : m <= y
      OBVIOUS
  <1>2. Min({a, b}) \in {a, b} /\ \A y \in {a, b} : Min({a, b}) <= y
      BY <1>1 DEF Min
  <1>. QED  BY <1>2

\* ContinueLinear goes on halving or leaves the search.
LEMMA ContinueLinearKeeps ==
  ASSUME NEW c, NEW e, Halving(e, c), e.at = "linear"
  PROVE  Linear(ContinueLinear(e), c) \/ Later(ContinueLinear(e))
  <1>1. CASE e.lower <= e.upper - 1
      <2> DEFINE f == [e EXCEPT !.s = (e.lower + e.upper) \div 2]
      <2>1. ContinueLinear(e) = f
          BY <1>1 DEF ContinueLinear
      <2>2. DOMAIN f = Fields /\ f.s = (e.lower + e.upper) \div 2
            /\ \A a \in Fields \ {"s"} : f[a] = e[a]
          BY FieldsAre DEF Halving
      <2>3. e.lower <= (e.lower + e.upper) \div 2 /\ (e.lower + e.upper) \div 2 < e.upper
            /\ (e.lower + e.upper) \div 2 \in Nat
          BY <1>1 DEF Halving
      <2> HIDE DEF f
      <2>4. Halving(f, c)
          BY <2>2, FieldsAre DEF Halving
      <2>5. Linear(f, c)
          BY <2>2, <2>3, <2>4, FieldsAre DEF Linear
      <2>. QED  BY <2>1, <2>5
  <1>2. CASE ~(e.lower <= e.upper - 1)
      BY <1>2, ExistingIsLater DEF ContinueLinear, Halving
  <1>. QED  BY <1>1, <1>2

\* The search for the linear part starts at the first sample, and below what fits.
LEMMA StartLinearKeeps ==
  ASSUME NEW c, NEW e, Searching(e, c), Len(e.X) > 1
  PROVE  Linear(StartLinear(e), c) \/ Later(StartLinear(e))
  <1> DEFINE f == [e EXCEPT !.at = "linear", !.upper = FirstSample(e),
                            !.lower = Min({start_seq_len, FirstSample(e)}),
                            !.stop = e.lower, !.enable_nt_sampling = TRUE,
                            !.nt_upper_input_limit = NtLimit(e.lower)]
  <1>1. StartLinear(e) = ContinueLinear(f)
      BY DEF StartLinear
  <1>2. e.X[2] \in Nat /\ e.X[2] <= e.lower /\ e.lower \in Nat /\ start_seq_len \in Nat
      BY EstimatorAssumption DEF Searching
  <1>3. Min({start_seq_len, e.X[2]}) \in Nat /\ Min({start_seq_len, e.X[2]}) <= e.X[2]
      BY <1>2, MinOfTwo
  <1>4. /\ DOMAIN f = Fields /\ f.at = "linear" /\ f.X = e.X /\ f.upper = e.X[2] /\ f.stop = e.lower
        /\ f.lower = Min({start_seq_len, e.X[2]})
      BY FieldsAre DEF Searching, FirstSample
  <1> HIDE DEF f
  <1>5. Split(f.X, Len(f.X), f.stop)
      BY <1>4 DEF Split, Searching
  <1>6. Halving(f, c)
      BY <1>2, <1>3, <1>4, <1>5 DEF Halving, Searching
  <1>. QED  BY <1>1, <1>4, <1>6, ContinueLinearKeeps

\* find_upper_bound goes on, starts the search for the linear part, or finds nothing.
LEMMA ContinueUpperKeeps ==
  ASSUME NEW c, NEW e, Searching(e, c)
  PROVE  LET f == ContinueUpper(e) IN Searching(f, c) \/ Linear(f, c) \/ Later(f)
  <1>1. ContinueUpper(e) = e \/ (Len(e.X) > 1 /\ ContinueUpper(e) = StartLinear(e)) \/ ContinueUpper(e) = Fail(e)
      BY DEF ContinueUpper
  <1>2. Later(Fail(e))
      BY FailIsLater DEF Searching
  <1>. QED  BY <1>1, <1>2, StartLinearKeeps

\* A test of the search for the longest prefill.
LEMMA UpperStepKeeps ==
  ASSUME NEW c \in Nat, NEW e, Searching(e, c), NEW oom \in BOOLEAN, ~oom => e.s <= c
  PROVE  LET f == UpperStep(e, oom) IN Searching(f, c) \/ Linear(f, c) \/ Later(f)
  <1>0. /\ DOMAIN e = Fields /\ e.X \in Seq(Nat) /\ e.lower \in Nat /\ e.upper \in Nat /\ e.s \in Nat
        /\ e.lower <= e.s /\ e.s <= e.upper
      BY DEF Searching
  <1>1. CASE oom
      <2> DEFINE f == AfterOom(e)
      <2>1. UpperStep(e, oom) = ContinueUpper(f)
          BY <1>1 DEF UpperStep
      <2>2. /\ DOMAIN f = Fields /\ f.upper = e.s /\ f.s = (e.s + e.lower) \div 2
            /\ \A a \in Fields \ {"upper", "s"} : f[a] = e[a]
          BY <1>0, FieldsAre DEF AfterOom
      <2>3. (e.s + e.lower) \div 2 \in Nat /\ e.lower <= (e.s + e.lower) \div 2 /\ (e.s + e.lower) \div 2 <= e.s
          BY <1>0
      <2> HIDE DEF f
      <2>4. /\ f.at = e.at /\ f.X = e.X /\ f.lower = e.lower
            /\ f.enable_nt_sampling = e.enable_nt_sampling
          BY <2>2, FieldsAre
      <2>5. Searching(f, c)
          BY <1>0, <2>2, <2>3, <2>4 DEF Searching
      <2>. QED  BY <2>1, <2>5, ContinueUpperKeeps
  <1>2. CASE ~oom
      <2> DEFINE m == Measured(e, e.s)
                 f == [m EXCEPT !.lower = e.s, !.s = (e.s + e.upper) \div 2]
      <2>1. UpperStep(e, oom) = ContinueUpper(f)
          BY <1>2 DEF UpperStep
      <2>2. DOMAIN m = Fields /\ m.X = Append(e.X, e.s) /\ \A a \in Fields \ {"X"} : m[a] = e[a]
          BY <1>0, FieldsAre DEF Measured
      <2> HIDE DEF m
      <2>3. /\ DOMAIN f = Fields /\ f.lower = e.s /\ f.s = (e.s + e.upper) \div 2 /\ f.X = m.X
            /\ f.at = m.at /\ f.upper = m.upper /\ f.enable_nt_sampling = m.enable_nt_sampling
          BY <2>2, FieldsAre
      <2> HIDE DEF f
      <2>4. f.X = Append(e.X, e.s) /\ f.at = e.at /\ f.upper = e.upper
            /\ f.enable_nt_sampling = e.enable_nt_sampling
          BY <2>2, <2>3, FieldsAre
      <2>5. (e.s + e.upper) \div 2 \in Nat /\ e.s <= (e.s + e.upper) \div 2 /\ (e.s + e.upper) \div 2 <= e.upper
          BY <1>0
      <2>6. Len(e.X) \in Nat /\ Len(f.X) = Len(e.X) + 1 /\ f.X \in Seq(Nat)
            /\ f.X[Len(e.X) + 1] = e.s /\ \A k \in 1 .. Len(e.X) : f.X[k] = e.X[k]
          BY <1>0, <2>4
      <2>7. f.X[2] \in Nat /\ f.X[2] <= e.s /\ (Len(e.X) > 1 => f.X[2] = e.X[2])
          <3>1. CASE Len(e.X) = 1
              BY <1>0, <2>6, <3>1
          <3>2. CASE Len(e.X) > 1
              <4>1. e.X[2] \in Nat /\ f.X[2] = e.X[2] /\ e.X[2] <= e.lower
                  BY <1>0, <2>6, <3>2, SMTT(30) DEF Searching
              <4>. QED  BY <1>0, <4>1
          <3>. QED  BY <2>6, <3>1, <3>2 DEF Searching
      <2>8. \A k \in 2 .. Len(f.X) : f.X[k] <= c /\ f.X[2] <= f.X[k] /\ f.X[k] <= e.s
          <3>1. ASSUME NEW k \in 2 .. Len(f.X) PROVE f.X[k] <= c /\ f.X[2] <= f.X[k] /\ f.X[k] <= e.s
              <4>1. k = Len(e.X) + 1 \/ k \in 2 .. Len(e.X)
                  BY <2>6
              <4>2. CASE k = Len(e.X) + 1
                  BY <1>0, <1>2, <2>6, <2>7, <4>2
              <4>3. CASE k \in 2 .. Len(e.X)
                  <5>1. k \in 1 .. Len(e.X) /\ Len(e.X) > 1
                      BY <2>6, <4>3
                  <5>2. e.X[k] <= c /\ e.X[2] <= e.X[k] /\ e.X[k] <= e.lower
                      BY <4>3 DEF Searching
                  <5>3. e.X[k] \in Nat
                      BY <1>0, <5>1
                  <5>4. f.X[k] = e.X[k] /\ f.X[2] = e.X[2]
                      BY <2>6, <2>7, <5>1
                  <5>. QED  BY <1>0, <5>2, <5>3, <5>4
              <4>. QED  BY <4>1, <4>2, <4>3
          <3>. QED  BY <3>1
      <2>9. Searching(f, c)
          BY <1>0, <2>3, <2>4, <2>5, <2>6, <2>7, <2>8 DEF Searching
      <2>. QED  BY <2>1, <2>9, ContinueUpperKeeps
  <1>. QED  BY <1>1, <1>2

\* A test of the search for the linear part.
LEMMA LinearTestKeeps ==
  ASSUME NEW c \in Nat, NEW e, Linear(e, c), e.s <= c, NEW nt_oom \in BOOLEAN, NEW within \in BOOLEAN
  PROVE  LET f == LinearStep(sample_next_token(Measured(e, e.s), e.s, nt_oom), within)
         IN  Linear(f, c) \/ Later(f)
  <1> DEFINE m == Measured(e, e.s)
             d == sample_next_token(m, e.s, nt_oom)
  <1>0. /\ DOMAIN e = Fields /\ e.at = "linear" /\ e.X \in Seq(Nat) /\ Len(e.X) > 1 /\ e.s \in Nat
        /\ e.lower \in Nat /\ e.upper \in Nat /\ e.lower <= e.s /\ e.s < e.upper
      BY DEF Linear, Halving
  <1>1. DOMAIN m = Fields /\ m.X = Append(e.X, e.s) /\ \A a \in Fields \ {"X"} : m[a] = e[a]
      BY <1>0, FieldsAre DEF Measured
  <1> HIDE DEF m
  <1>2. DOMAIN d = Fields /\ \A a \in Fields \ {"remaining", "nt_upper_input_limit"} : d[a] = m[a]
      BY <1>1, SamplingKeeps
  <1> HIDE DEF d
  <1>3. /\ d.X = Append(e.X, e.s) /\ d.at = "linear" /\ d.lower = e.lower /\ d.upper = e.upper
        /\ d.s = e.s /\ d.stop = e.stop
      BY <1>0, <1>1, <1>2, FieldsAre
  <1>4. Len(e.X) \in Nat /\ Len(d.X) = Len(e.X) + 1 /\ d.X \in Seq(Nat)
        /\ d.X[Len(e.X) + 1] = e.s /\ \A k \in 1 .. Len(e.X) : d.X[k] = e.X[k]
      BY <1>0, <1>3
  <1>5. \A k \in 2 .. Len(d.X) : d.X[k] <= c
      <2>1. ASSUME NEW k \in 2 .. Len(d.X) PROVE d.X[k] <= c
          <3>1. k = Len(e.X) + 1 \/ k \in 2 .. Len(e.X)
              BY <1>4
          <3>2. CASE k = Len(e.X) + 1
              BY <1>4, <3>2
          <3>3. CASE k \in 2 .. Len(e.X)
              <4>1. k \in 1 .. Len(e.X) /\ e.X[k] <= c
                  BY <1>4, <3>3 DEF Linear, Halving
              <4>. QED  BY <1>4, <4>1
          <3>. QED  BY <3>1, <3>2, <3>3
      <2>. QED  BY <2>1
  <1>6. CASE within
      <2> DEFINE f == [d EXCEPT !.longest_linear = LinearUpTo(d)]
      <2>1. LinearStep(d, within) = StartExisting(f)
          BY <1>6 DEF LinearStep
      <2>2. DOMAIN f = Fields
          BY <1>2
      <2> HIDE DEF f
      <2>. QED  BY <2>1, <2>2, ExistingIsLater DEF d, m
  <1>7. CASE ~within
      <2> DEFINE f == [d EXCEPT !.upper = d.s]
      <2>1. LinearStep(d, within) = ContinueLinear(f)
          BY <1>7 DEF LinearStep
      <2>2. /\ DOMAIN f = Fields /\ f.upper = e.s /\ f.X = d.X /\ f.lower = e.lower
            /\ f.stop = e.stop /\ f.at = "linear"
          BY <1>2, <1>3, FieldsAre
      <2> HIDE DEF f
      <2>3. f.X[2] = e.X[2] /\ e.X[2] \in Nat
          BY <1>0, <1>4, <2>2, SMTT(30)
      <2>4. e.s < e.X[2] /\ e.stop \in Nat
          BY <1>0, <2>3 DEF Linear, Halving
      <2>8. \E last : Split(f.X, last, f.stop)
          <3>1. PICK last : Split(e.X, last, e.stop)
              BY DEF Linear, Halving
          <3>2. last \in 2 .. Len(f.X) /\ last \in Nat /\ f.X[last] = f.stop
              BY <1>4, <2>2, <3>1 DEF Split
          <3>3. ASSUME NEW k \in 2 .. last PROVE f.X[2] <= f.X[k] /\ f.X[k] <= f.stop
              <4>1. k \in 1 .. Len(e.X) /\ e.X[2] <= e.X[k] /\ e.X[k] <= e.stop
                  BY <1>4, <3>1 DEF Split
              <4>2. f.X[k] = e.X[k]
                  BY <1>4, <2>2, <4>1
              <4>. QED  BY <2>2, <2>3, <4>1, <4>2
          <3>4. ASSUME NEW k \in last + 1 .. Len(f.X) PROVE f.X[k] < f.X[2]
              <4>1. k = Len(e.X) + 1 \/ k \in last + 1 .. Len(e.X)
                  BY <1>4, <2>2, <3>2
              <4>2. CASE k = Len(e.X) + 1
                  BY <1>4, <2>2, <2>3, <2>4, <4>2
              <4>3. CASE k \in last + 1 .. Len(e.X)
                  <5>1. k \in 1 .. Len(e.X) /\ e.X[k] < e.X[2]
                      BY <1>4, <3>1, <3>2, <4>3 DEF Split
                  <5>2. f.X[k] = e.X[k]
                      BY <1>4, <2>2, <5>1
                  <5>. QED  BY <2>3, <5>1, <5>2
              <4>. QED  BY <4>1, <4>2, <4>3
          <3>. QED  BY <3>2, <3>3, <3>4 DEF Split
      <2>9. f.upper <= f.X[2] /\ f.lower <= f.upper
          BY <1>0, <2>2, <2>3, <2>4
      <2>5. Halving(f, c)
          BY <1>0, <1>4, <1>5, <2>2, <2>4, <2>8, <2>9 DEF Halving
      <2>6. Linear(ContinueLinear(f), c) \/ Later(ContinueLinear(f))
          BY <2>2, <2>5, ContinueLinearKeeps
      <2>. QED  BY <2>1, <2>6 DEF d, m
  <1>. QED  BY <1>6, <1>7

\* Where an estimator can be, with memory for prefills up to length c.
SamplesFit(e, c) == Searching(e, c) \/ Linear(e, c) \/ Later(e)

\* A new estimator has no samples.
LEMMA FreshFits ==
  ASSUME NEW c
  PROVE  SamplesFit(Estimator, c)
  <1> DEFINE e == Estimator
  <1>1. /\ e.at \in {"upper_bound", "raised"} /\ e.X = <<0>> /\ e.lower = start_seq_len /\ e.upper = stop_seq_len
        /\ e.s = stop_seq_len /\ e.enable_nt_sampling = FALSE
      BY DEF Estimator
  <1>2. /\ {start_seq_len, stop_seq_len} \subseteq Nat /\ stop_seq_len > start_seq_len
        /\ <<0>> \in Seq(Nat) /\ Len(<<0>>) = 1
      BY EstimatorAssumption
  <1>3. DOMAIN e = Fields
      BY DEF Fields
  <1> HIDE DEF e
  <1>4. Searching(e, c) \/ Later(e)
      BY <1>1, <1>2, <1>3 DEF Searching, Later
  <1>. QED  BY <1>4 DEF SamplesFit, e

\* A prefill that does not run out of memory is not longer than what fits, with the
\* tokens that are to follow it.
LEMMA TestedFits ==
  ASSUME NEW c \in Nat, NEW e, e.s \in Nat, e.at \in {"upper_bound", "linear"},
         ~(TestLength(e) + NewTokens(e) - 1 > c)
  PROVE  e.s <= c
  <1>1. new_tokens \in Nat
      BY EstimatorAssumption
  <1>2. \E m \in {1, new_tokens} : \A y \in {1, new_tokens} : m >= y
      BY <1>1
  <1>3. Max({1, new_tokens}) \in {1, new_tokens} /\ Max({1, new_tokens}) >= 1
      BY <1>2 DEF Max
  <1>4. NewTokens(e) \in Nat /\ NewTokens(e) >= 1
      BY <1>1, <1>3 DEF NewTokens
  <1>5. TestLength(e) = e.s
      BY DEF TestLength
  <1>. QED  BY <1>4, <1>5

\* Any test, with memory for prefills up to length c.
LEMMA TestKeeps ==
  ASSUME NEW c \in Nat, NEW e, SamplesFit(e, c), ~Ended(e), NEW nt_oom \in BOOLEAN, NEW within \in BOOLEAN
  PROVE  SamplesFit(Test(e, TestLength(e) + NewTokens(e) - 1 > c, nt_oom, within), c)
  <1> DEFINE oom == TestLength(e) + NewTokens(e) - 1 > c
  <1>0. oom \in BOOLEAN
      OBVIOUS
  <1>1. CASE Searching(e, c)
      <2>1. e.at = "upper_bound" /\ e.s \in Nat
          BY <1>1 DEF Searching
      <2>2. ~oom => e.s <= c
          BY <2>1, TestedFits
      <2> HIDE DEF oom
      <2>3. Test(e, oom, nt_oom, within) = UpperStep(e, oom)
          BY <2>1 DEF Test
      <2>4. SamplesFit(UpperStep(e, oom), c)
          BY <1>0, <1>1, <2>2, UpperStepKeeps DEF SamplesFit
      <2>. QED  BY <2>3, <2>4 DEF oom
  <1>2. CASE Linear(e, c)
      <2>1. e.at = "linear" /\ e.s \in Nat /\ DOMAIN e = Fields
          BY <1>2 DEF Linear, Halving
      <2>2. ~oom => e.s <= c
          BY <2>1, TestedFits
      <2>3. TestLength(e) = e.s
          BY <2>1 DEF TestLength
      <2> HIDE DEF oom
      <2>4. CASE oom
          <3>1. Test(e, oom, nt_oom, within) = Fail(e)
              BY <2>1, <2>4 DEF Test
          <3>2. SamplesFit(Fail(e), c)
              BY <2>1, FailIsLater DEF SamplesFit
          <3>. QED  BY <3>1, <3>2 DEF oom
      <2>5. CASE ~oom
          <3> DEFINE f == LinearStep(sample_next_token(Measured(e, e.s), e.s, nt_oom), within)
          <3>1. Test(e, oom, nt_oom, within) = f
              BY <2>1, <2>3, <2>5 DEF Test
          <3>2. SamplesFit(f, c)
              BY <1>2, <2>2, <2>5, LinearTestKeeps DEF SamplesFit
          <3> HIDE DEF f
          <3>. QED  BY <3>1, <3>2 DEF oom
      <2>. QED  BY <2>4, <2>5
  <1>3. CASE Later(e)
      <2> HIDE DEF oom
      <2>1. Later(Test(e, oom, nt_oom, within))
          BY <1>0, <1>3, LaterStays
      <2>. QED  BY <2>1 DEF SamplesFit, oom
  <1>. QED  BY <1>1, <1>2, <1>3 DEF SamplesFit

EstimatorInv == capacity \in [Ranks -> Device] /\ \A r \in Ranks : SamplesFit(est[r], capacity[r].prefill)

\* The samples of find_upper_bound begin with the shortest and end with the longest, which
\* is the new end of the range, and the search for the linear part stays below them,
\* whatever memory there is.
THEOREM FirstIsLowest == Spec => []FirstSampleIsLowest
  <1>1. Init => EstimatorInv
      <2> SUFFICES ASSUME Init PROVE EstimatorInv
          OBVIOUS
      <2>1. capacity \in [Ranks -> Device]
          BY StartupAssumption DEF Init
      <2>2. \A r \in Ranks : est[r] = Estimator
          BY DEF Init, OnAll
      <2>. QED  BY <2>1, <2>2, FreshFits DEF EstimatorInv
  <1>2. EstimatorInv /\ [Next]_vars => EstimatorInv'
      <2> SUFFICES ASSUME EstimatorInv, [Next]_vars PROVE EstimatorInv'
          OBVIOUS
      <2>1. capacity' = capacity
          BY DEF Next, vars, StartFit, QueueGet, Load, RunTest, EstimateEnds, Abort, AfterEstimate, EvalShape,
                 DrawShape, WarmupEnds, Rest
      <2>2. CASE RunTest
          <3>1. PICK within \in [Ranks -> BOOLEAN] :
                    est' = [r \in Ranks |-> Test(est[r], OutOfMemory(r), TokensRunOut(r), ReduceError(within, r))]
              BY <2>2 DEF RunTest
          <3>2. ASSUME NEW r \in Ranks PROVE SamplesFit(est'[r], capacity[r].prefill)
              <4>1. ~Ended(est[r]) /\ SamplesFit(est[r], capacity[r].prefill) /\ capacity[r].prefill \in Nat
                  BY <2>2 DEF RunTest, EstimatorInv, Device
              <4>2. est'[r] = Test(est[r], OutOfMemory(r), TokensRunOut(r), ReduceError(within, r))
                  BY <3>1
              <4>3. ReduceError(within, r) \in BOOLEAN /\ TokensRunOut(r) \in BOOLEAN
                  BY DEF ReduceError, TokensRunOut
              <4>4. SamplesFit(Test(est[r], TestLength(est[r]) + NewTokens(est[r]) - 1 > capacity[r].prefill,
                                    TokensRunOut(r), ReduceError(within, r)), capacity[r].prefill)
                  BY <4>1, <4>3, TestKeeps
              <4>. QED  BY <4>2, <4>4 DEF OutOfMemory
          <3>. QED  BY <2>1, <3>2 DEF EstimatorInv
      <2>3. CASE EstimateEnds \/ Abort
          <3>1. \A r \in Ranks : est'[r] = Estimator
              BY <2>3 DEF EstimateEnds, Abort, OnAll
          <3>. QED  BY <2>1, <3>1, FreshFits DEF EstimatorInv
      <2>4. CASE UNCHANGED est
          BY <2>1, <2>4 DEF EstimatorInv
      <2>. QED  BY <2>2, <2>3, <2>4 DEF Next, vars, StartFit, QueueGet, Load, AfterEstimate, EvalShape,
                                       DrawShape, WarmupEnds, Rest
  <1>3. EstimatorInv => FirstSampleIsLowest
      <2> SUFFICES ASSUME EstimatorInv, NEW r \in Ranks
                   PROVE  /\ est[r].at = "upper_bound" => Searching(est[r], capacity[r].prefill)
                          /\ est[r].at = "linear" => Linear(est[r], capacity[r].prefill)
          <3>1. ASSUME NEW r \in Ranks, Searching(est[r], capacity[r].prefill)
                PROVE  \A k \in 2 .. Len(est[r].X) : est[r].X[k] <= capacity[r].prefill /\ est[r].X[2] <= est[r].X[k]
              BY <3>1 DEF Searching
          <3>2. ASSUME NEW r \in Ranks, Linear(est[r], capacity[r].prefill)
                PROVE  /\ \A k \in 2 .. Len(est[r].X) : est[r].X[k] <= capacity[r].prefill
                       /\ est[r].lower <= est[r].upper /\ est[r].upper <= est[r].X[2]
                       /\ \E last \in 2 .. Len(est[r].X) : Split(est[r].X, last, est[r].stop)
              BY <3>2 DEF Linear, Halving, Split
          <3>. QED  BY <3>1, <3>2 DEF FirstSampleIsLowest, Split
      <2>. QED  BY DEF EstimatorInv, SamplesFit, Searching, Linear, Later
  <1>. QED  BY <1>1, <1>2, <1>3, PTL DEF Spec

-----------------------------------------------------------------------------
(* The warm-up.                                                             *)

IsMemory(m) ==
    /\ m \in [weight_limit : Nat, linear : Nat, q0 : Nat, q1 : Nat, n0 : Nat, n1 : Nat]
    /\ m.q1 = 0 => m.q0 <= m.linear

\* The smallest of three numbers,
LEMMA MinOfThree ==
  ASSUME NEW a \in Int, NEW b \in Int, NEW c \in Int
  PROVE  LET n == Min({a, b, c}) IN n \in {a, b, c} /\ n <= a /\ n <= b /\ n <= c
  <1>1. \E m \in {a, b, c} : \A y \in {a, b, c} : m <= y
      OBVIOUS
  <1>2. Min({a, b, c}) \in {a, b, c} /\ \A y \in {a, b, c} : Min({a, b, c}) <= y
      BY <1>1 DEF Min
  <1>. QED  BY <1>2

\* the larger of two,
LEMMA MaxOfTwo ==
  ASSUME NEW a \in Int, NEW b \in Int
  PROVE  LET n == Max({a, b}) IN n \in {a, b} /\ n >= a /\ n >= b
  <1>1. \E m \in {a, b} : \A y \in {a, b} : m >= y
      OBVIOUS
  <1>2. Max({a, b}) \in {a, b} /\ \A y \in {a, b} : Max({a, b}) >= y
      BY <1>1 DEF Max
  <1>. QED  BY <1>2

\* and products of larger numbers.
LEMMA TimesGrows ==
  ASSUME NEW a \in Nat, NEW b \in Nat, a <= b, NEW c \in Nat
  PROVE  /\ a * c <= b * c /\ a * c \in Nat /\ b * c \in Nat
         /\ c * a <= c * b /\ c * a \in Nat /\ c * b \in Nat
  <1>1. PICK d \in Nat : b = a + d
      <2>1. b - a \in Nat /\ b = a + (b - a)
          OBVIOUS
      <2>. QED  BY <2>1
  <1>2. d * c \in Nat /\ a * c \in Nat
      OBVIOUS
  <1>3. b * c = a * c + d * c /\ c * b = b * c /\ c * a = a * c
      BY <1>1
  <1>. QED  BY <1>2, <1>3

\* What is at most a quotient, times the divisor, is at most the dividend.
LEMMA QuotientFits ==
  ASSUME NEW w \in Nat, NEW d \in Nat \ {0}, NEW i \in Nat, i <= w \div d
  PROVE  d * i <= w
  <1>1. w \div d \in Nat /\ d * (w \div d) <= w
      OBVIOUS
  <1>2. d * i <= d * (w \div d) /\ d * i \in Nat /\ d * (w \div d) \in Nat
      BY <1>1, TimesGrows
  <1>. QED  BY <1>1, <1>2

\* A nonempty set of numbers below a limit has a largest one: the limit less the least
\* distance to it.
LEMMA BoundedMax ==
  ASSUME NEW u \in Nat, NEW S \in SUBSET (0 .. u), S # {}
  PROVE  Max(S) \in S
  <1> DEFINE T == {u - x : x \in S}
  <1>1. T \in SUBSET Nat /\ T # {}
      <2>1. \A x \in S : u - x \in Nat
          OBVIOUS
      <2>2. PICK x \in S : TRUE
          OBVIOUS
      <2>. QED  BY <2>1, <2>2
  <1> HIDE DEF T
  <1>2. PICK d \in T : \A h \in T : d <= h
      BY <1>1, LeastNat
  <1>3. PICK m \in S : d = u - m
      BY DEF T
  <1>4. \A y \in S : m >= y
      <2>1. ASSUME NEW y \in S PROVE m >= y
          <3>1. u - y \in T
              BY DEF T
          <3>2. u - m <= u - y /\ m \in Nat /\ y \in Nat
              BY <1>2, <1>3, <3>1
          <3>. QED  BY <3>2
      <2>. QED  BY <2>1
  <1>5. \E x \in S : \A y \in S : x >= y
      BY <1>4
  <1>. QED  BY <1>5 DEF Max

\* Up to max_input_len_for_prefill, a prefill fits: both curves are below the limit there.
LEMMA PrefillLenFits ==
  ASSUME NEW m, IsMemory(m), NEW b \in Nat \ {0}, NEW cap \in Int
  PROVE  LET n == max_input_len_for_prefill(m, b, cap)
         IN  n \in Int /\ n <= cap /\ \A i \in 0 .. n : prefill_memory_usage(m, b, i) <= m.weight_limit
  <1> DEFINE w == m.weight_limit
             il == inverse_linear_prefill(m, b)
             iq == inverse_quadratic_prefill(m, b)
             n == max_input_len_for_prefill(m, b, cap)
             S == {k \in 0 .. Unbounded : (m.q0 * k + m.q1 * k * k) * b <= m.weight_limit}
  <1>0. /\ w \in Nat /\ m.linear \in Nat /\ m.q0 \in Nat /\ m.q1 \in Nat /\ Unbounded \in Nat
        /\ m.q1 = 0 => m.q0 <= m.linear
      BY StartupAssumption DEF IsMemory
  <1>1. il \in Nat /\ \A i \in Nat : i <= il => m.linear * b * i <= w
      <2>1. CASE m.linear = 0
          BY <1>0, <2>1 DEF inverse_linear_prefill
      <2>2. CASE m.linear # 0
          <3>1. m.linear * b \in Nat \ {0}
              BY <1>0, <2>2
          <3>2. il = w \div (m.linear * b)
              BY <2>2 DEF inverse_linear_prefill
          <3>3. w \div (m.linear * b) \in Nat
              <4>1. \A d \in Nat \ {0} : w \div d \in Nat
                  BY <1>0
              <4>. QED  BY <3>1, <4>1
          <3>. QED  BY <1>0, <3>1, <3>2, <3>3, QuotientFits
      <2>. QED  BY <2>1, <2>2
  <1>2. iq \in Nat /\ (m.q1 # 0 => iq \in S)
      <2>1. CASE m.q1 = 0
          BY <1>0, <2>1 DEF inverse_quadratic_prefill
      <2>2. CASE m.q1 # 0
          <3>1. iq = Max(S)
              BY <2>2 DEF inverse_quadratic_prefill
          <3>2. 0 \in S /\ S \in SUBSET (0 .. Unbounded)
              BY <1>0
          <3>3. Max(S) \in S
              <4> HIDE DEF S
              <4>. QED  BY <1>0, <3>2, BoundedMax
          <3>. QED  BY <1>0, <3>1, <3>2, <3>3
      <2>. QED  BY <2>1, <2>2
  <1>3. n = Min({il, iq, cap})
      BY DEF max_input_len_for_prefill
  <1>4. n \in Int /\ n <= cap /\ n <= il /\ n <= iq
      <2> HIDE DEF il, iq, n, S
      <2>1. il \in Nat /\ iq \in Nat
          BY <1>1, <1>2
      <2>2. n \in {il, iq, cap} /\ n <= il /\ n <= iq /\ n <= cap
          <3>1. il \in Int /\ iq \in Int /\ cap \in Int
              BY <2>1
          <3>2. LET k == Min({il, iq, cap}) IN k \in {il, iq, cap} /\ k <= il /\ k <= iq /\ k <= cap
              BY <3>1, MinOfThree
          <3>. QED  BY <1>3, <3>2
      <2>. QED  BY <2>1, <2>2
  <1>5. ASSUME NEW i \in 0 .. n PROVE prefill_memory_usage(m, b, i) <= w
      <2> HIDE DEF il, iq, n
      <2>0. i \in Nat /\ i <= il /\ i <= iq
          BY <1>1, <1>2, <1>4
      <2> DEFINE lin == b * m.linear * i
                 quad == i * b * m.q0 + i * i * b * m.q1
      <2>1. lin \in Nat /\ lin <= w
          <3>1. m.linear * b * i <= w
              BY <1>1, <2>0
          <3>2. lin = m.linear * b * i /\ lin \in Nat
              BY <1>0, <2>0
          <3>. QED  BY <3>1, <3>2
      <2>2. quad \in Nat /\ quad <= w
          <3>1. quad \in Nat
              BY <1>0, <2>0
          <3>2. CASE m.q1 = 0
              <4>1. quad = m.q0 * (b * i) /\ lin = m.linear * (b * i) /\ b * i \in Nat
                  BY <1>0, <2>0, <3>2
              <4>2. m.q0 * (b * i) <= m.linear * (b * i)
                  BY <1>0, <3>2, <4>1, TimesGrows
              <4> HIDE DEF lin, quad
              <4>. QED  BY <1>0, <2>1, <3>1, <4>1, <4>2
          <3>3. CASE m.q1 # 0
              <4>1. iq \in Nat /\ (m.q0 * iq + m.q1 * iq * iq) * b <= w
                  BY <1>2, <3>3
              <4>2. m.q0 * i <= m.q0 * iq /\ m.q0 * i \in Nat /\ m.q0 * iq \in Nat
                  BY <1>0, <2>0, <4>1, TimesGrows
              <4> HIDE DEF S
              <4>3. m.q1 * i <= m.q1 * iq /\ m.q1 * i \in Nat /\ m.q1 * iq \in Nat
                  BY <1>0, <2>0, <4>1, TimesGrows
              <4>4. m.q1 * i * i <= m.q1 * iq * i /\ m.q1 * i * i \in Nat /\ m.q1 * iq * i \in Nat
                  BY <2>0, <4>3, TimesGrows
              <4>5. m.q1 * iq * i <= m.q1 * iq * iq /\ m.q1 * iq * iq \in Nat
                  BY <2>0, <4>1, <4>3, TimesGrows
              <4> DEFINE u == m.q0 * i + m.q1 * i * i
                         v == m.q0 * iq + m.q1 * iq * iq
              <4>6. u \in Nat /\ v \in Nat /\ u <= v
                  BY <4>2, <4>4, <4>5
              <4>7. quad = u * b
                  BY <1>0, <2>0
              <4>8. v * b <= w
                  BY <4>1
              <4> HIDE DEF u, v, quad
              <4>9. u * b <= v * b /\ u * b \in Nat /\ v * b \in Nat
                  BY <4>6, TimesGrows
              <4>. QED  BY <1>0, <3>1, <4>7, <4>8, <4>9
          <3>. QED  BY <3>2, <3>3
      <2>3. prefill_memory_usage(m, b, i) = Max({lin, quad})
          BY DEF prefill_memory_usage
      <2> HIDE DEF lin, quad, S
      <2>4. Max({lin, quad}) \in {lin, quad}
          BY <2>1, <2>2, MaxOfTwo
      <2>. QED  BY <2>1, <2>2, <2>3, <2>4
  <1>. QED  BY <1>4, <1>5

\* The floor of the inverse for next tokens is a number, maybe a negative one.
LEMMA NextTokenInverse ==
  ASSUME NEW coef \in Nat, NEW other \in Nat, NEW m, IsMemory(m), NEW b \in Nat \ {0}, NEW seq \in Nat
  PROVE  inverse_next_token(coef, other, m, b, seq) \in Int
  <1>1. m.weight_limit \in Nat /\ Unbounded \in Nat
      BY StartupAssumption DEF IsMemory
  <1>2. CASE coef = 0
      BY <1>1, <1>2 DEF inverse_next_token
  <1>3. CASE coef # 0
      <2>1. b * coef \in Nat \ {0} /\ m.weight_limit - other * b * seq \in Int
          BY <1>1, <1>3
      <2>2. (m.weight_limit - other * b * seq) \div (b * coef) \in Int
          BY <2>1
      <2>. QED  BY <1>3, <2>2 DEF inverse_next_token
  <1>. QED  BY <1>2, <1>3

\* max_input_len_for_nt is within its limit and what prefill allows.
LEMMA InputLenFits ==
  ASSUME NEW m, IsMemory(m), NEW b \in Nat \ {0}, NEW out \in Nat, NEW cap \in Int
  PROVE  LET n == max_input_len_for_nt(m, b, out, cap)
         IN  n \in Int /\ n <= cap /\ (n >= 0 => prefill_memory_usage(m, b, n) <= m.weight_limit)
  <1> DEFINE z == inverse_next_token(m.n0, m.n1, m, b, out)
             y == Max({0, z})
             p == max_input_len_for_prefill(m, b, cap)
             n == max_input_len_for_nt(m, b, out, cap)
  <1>1. z \in Int
      BY NextTokenInverse DEF IsMemory
  <1>2. p \in Int /\ p <= cap /\ \A i \in 0 .. p : prefill_memory_usage(m, b, i) <= m.weight_limit
      BY PrefillLenFits
  <1>3. n = Min({y, p, cap})
      BY DEF max_input_len_for_nt
  <1> HIDE DEF z, p, n
  <1>4. y \in Nat
      <2>1. y \in {0, z} /\ y >= 0
          BY <1>1, MaxOfTwo
      <2>. QED  BY <1>1, <2>1
  <1> HIDE DEF y
  <1>5. LET k == Min({y, p, cap}) IN k \in {y, p, cap} /\ k <= y /\ k <= p /\ k <= cap
      <2>1. y \in Int /\ p \in Int /\ cap \in Int
          BY <1>2, <1>4
      <2>. QED  BY <2>1, MinOfThree
  <1>6. n \in Int /\ n <= cap /\ (n >= 0 => n \in 0 .. p)
      BY <1>2, <1>3, <1>4, <1>5
  <1>7. n >= 0 => prefill_memory_usage(m, b, n) <= m.weight_limit
      BY <1>2, <1>6
  <1>. QED  BY <1>6, <1>7 DEF n

\* max_output_len_for_nt is within its limit.
LEMMA OutputLenFits ==
  ASSUME NEW m, IsMemory(m), NEW b \in Nat \ {0}, NEW inp \in Nat, NEW cap \in Nat
  PROVE  LET n == max_output_len_for_nt(m, b, inp, cap) IN n \in Nat /\ n <= cap
  <1> DEFINE z == inverse_next_token(m.n1, m.n0, m, b, inp)
             y == Max({0, z})
             n == max_output_len_for_nt(m, b, inp, cap)
  <1>1. z \in Int
      BY NextTokenInverse DEF IsMemory
  <1>2. n = Min({y, cap})
      BY DEF max_output_len_for_nt
  <1> HIDE DEF z, n
  <1>3. y \in Nat
      <2>1. y \in {0, z} /\ y >= 0
          BY <1>1, MaxOfTwo
      <2>. QED  BY <1>1, <2>1
  <1> HIDE DEF y
  <1>4. n \in Nat /\ n <= cap
      BY <1>2, <1>3, MinOfTwo
  <1>. QED  BY <1>4 DEF n

\* A shape that may be on the list, for the settings c and the memory model m.  The
\* length of its input may be negative, if there is no room for the output.
Within(c, m, t) ==
    /\ t \in Nat \X Int \X Nat /\ t[1] <= max_batch_size
    /\ \/ t[2] + t[3] <= c.max_sequence_length
       \/ t[2] = 1 /\ (c.max_new_tokens >= c.max_sequence_length \/ c.max_sequence_length < 3)
    /\ t[2] > 1 => prefill_memory_usage(m, t[1], t[2]) <= m.weight_limit

AllWithin(c, m, s) ==
    s \in Seq(Int \X Int \X Int) /\ \A k \in 1 .. Len(s) : s[k] = Random \/ Within(c, m, s[k])

\* Shapes that may be on the list, one list after the other.
LEMMA ConcatWithin ==
  ASSUME NEW c, NEW m, NEW s, AllWithin(c, m, s), NEW t, AllWithin(c, m, t)
  PROVE  AllWithin(c, m, s \o t)
  <1>1. /\ s \in Seq(Int \X Int \X Int) /\ t \in Seq(Int \X Int \X Int)
        /\ Len(s) \in Nat /\ Len(t) \in Nat
      BY DEF AllWithin
  <1>2. s \o t \in Seq(Int \X Int \X Int) /\ Len(s \o t) = Len(s) + Len(t)
      BY <1>1
  <1>3. ASSUME NEW k \in 1 .. Len(s \o t) PROVE (s \o t)[k] = Random \/ Within(c, m, (s \o t)[k])
      <2>1. CASE k <= Len(s)
          <3>1. k \in 1 .. Len(s) /\ (s \o t)[k] = s[k]
              BY <1>1, <1>2, <2>1
          <3>. QED  BY <3>1 DEF AllWithin
      <2>2. CASE k > Len(s)
          <3>1. k - Len(s) \in 1 .. Len(t) /\ (s \o t)[k] = t[k - Len(s)]
              BY <1>1, <1>2, <2>2
          <3>. QED  BY <3>1 DEF AllWithin
      <2>. QED  BY <1>1, <1>2, <2>1, <2>2
  <1>. QED  BY <1>2, <1>3 DEF AllWithin

\* One shape that may be.
LEMMA OneWithin ==
  ASSUME NEW c, NEW m, NEW b \in Nat, NEW i \in Int, NEW o \in Nat, b <= max_batch_size,
         \/ i + o <= c.max_sequence_length
         \/ i = 1 /\ (c.max_new_tokens >= c.max_sequence_length \/ c.max_sequence_length < 3),
         i <= 1 \/ prefill_memory_usage(m, b, i) <= m.weight_limit
  PROVE  Within(c, m, <<b, i, o>>) /\ <<b, i, o>> \in Int \X Int \X Int
  BY DEF Within

\* The limits are numbers.
LEMMA LimitsAre ==
  ASSUME config \in Settings
  PROVE  /\ max_sequence_length = config.max_sequence_length /\ max_sequence_length \in Nat
         /\ max_new_tokens = config.max_new_tokens /\ max_new_tokens \in Nat
  BY DEF Settings, max_sequence_length, max_new_tokens

\* The boundaries of prefill,
LEMMA PrefillBoundariesWithin ==
  ASSUME config \in Settings, NEW m, IsMemory(m), NEW b \in Nat \ {0}, b <= max_batch_size
  PROVE  AllWithin(config, m, PrefillBoundaries(m, b))
  <1> DEFINE n == max_input_len_for_prefill(m, b, max_sequence_length - 1)
             s1 == <<b, 1, 1>>
             s2 == <<b, n, 1>>
  <1>0. max_sequence_length \in Nat /\ max_sequence_length - 1 \in Int
        /\ max_sequence_length = config.max_sequence_length
      BY LimitsAre
  <1>1. n \in Int /\ n <= max_sequence_length - 1 /\ \A i \in 0 .. n : prefill_memory_usage(m, b, i) <= m.weight_limit
      BY <1>0, PrefillLenFits
  <1>2. PrefillBoundaries(m, b) = <<s1, s2>>
      BY DEF PrefillBoundaries
  <1> HIDE DEF n
  <1>3. Within(config, m, s1) /\ s1 \in Int \X Int \X Int
      BY <1>0, OneWithin
  <1>4. Within(config, m, s2) /\ s2 \in Int \X Int \X Int
      <2>1. n + 1 <= config.max_sequence_length
          BY <1>0, <1>1
      <2>2. n <= 1 \/ prefill_memory_usage(m, b, n) <= m.weight_limit
          BY <1>1
      <2>. QED  BY <1>1, <2>1, <2>2, OneWithin
  <1> HIDE DEF s1, s2
  <1>5. AllWithin(config, m, <<s1, s2>>)
      <2>1. <<s1, s2>> \in Seq(Int \X Int \X Int) /\ Len(<<s1, s2>>) = 2
          BY <1>3, <1>4
      <2>2. \A k \in 1 .. 2 : Within(config, m, <<s1, s2>>[k])
          BY <1>3, <1>4
      <2>. QED  BY <2>1, <2>2 DEF AllWithin
  <1>. QED  BY <1>2, <1>5

\* a longest input with its output,
LEMMA LongestInputFits ==
  ASSUME config \in Settings, NEW m, IsMemory(m), NEW b \in Nat \ {0}, b <= max_batch_size, NEW o \in Nat
  PROVE  LET s == <<b, LongestInput(m, b, o), o>> IN Within(config, m, s) /\ s \in Int \X Int \X Int
  <1> DEFINE n == LongestInput(m, b, o)
  <1>1. max_sequence_length \in Nat /\ max_sequence_length - o \in Int
        /\ max_sequence_length = config.max_sequence_length
      BY LimitsAre
  <1>2. n \in Int /\ n <= max_sequence_length - o /\ (n >= 0 => prefill_memory_usage(m, b, n) <= m.weight_limit)
      BY <1>1, InputLenFits DEF LongestInput
  <1> HIDE DEF n
  <1>3. n + o <= config.max_sequence_length
      BY <1>1, <1>2
  <1>4. n <= 1 \/ prefill_memory_usage(m, b, n) <= m.weight_limit
      BY <1>2
  <1>5. Within(config, m, <<b, n, o>>) /\ <<b, n, o>> \in Int \X Int \X Int
      BY <1>2, <1>3, <1>4, OneWithin
  <1>. QED  BY <1>5 DEF n

\* and the boundaries of next tokens.
LEMMA NextTokenBoundariesWithin ==
  ASSUME config \in Settings, NEW m, IsMemory(m), NEW b \in Nat \ {0}, b <= max_batch_size
  PROVE  AllWithin(config, m, NextTokenBoundaries(m, b))
  <1> DEFINE mo == max_output_len_for_nt(m, b, 1, max_new_tokens)
             o == IF mo = max_new_tokens THEN max_new_tokens ELSE mo \div 2
             s1 == <<b, 1, 2>>
             s2 == <<b, LongestInput(m, b, 2), 2>>
             s3 == <<b, 1, mo>>
             s4 == <<b, LongestInput(m, b, o), o>>
  <1>0. /\ max_sequence_length \in Nat /\ max_new_tokens \in Nat
        /\ max_sequence_length = config.max_sequence_length /\ max_new_tokens = config.max_new_tokens
      BY LimitsAre
  <1>1. mo \in Nat /\ mo <= max_new_tokens
      BY <1>0, OutputLenFits
  <1>2. NextTokenBoundaries(m, b) = <<s1, s2, s3, s4>>
      BY DEF NextTokenBoundaries
  <1> HIDE DEF mo
  <1>3. o \in Nat
      BY <1>0, <1>1
  <1> HIDE DEF o
  <1>4. Within(config, m, s1) /\ s1 \in Int \X Int \X Int
      BY <1>0, OneWithin
  <1>5. Within(config, m, s2) /\ s2 \in Int \X Int \X Int
      BY LongestInputFits
  <1>6. Within(config, m, s3) /\ s3 \in Int \X Int \X Int
      <2>1. CASE 1 + mo <= config.max_sequence_length
          BY <1>1, <2>1, SMTT(30) DEF Within
      <2>2. CASE config.max_new_tokens >= config.max_sequence_length
          BY <1>1, <2>2, OneWithin, SMTT(30)
      <2>. QED  BY <1>0, <1>1, <2>1, <2>2
  <1>7. Within(config, m, s4) /\ s4 \in Int \X Int \X Int
      BY <1>3, LongestInputFits
  <1> HIDE DEF s1, s2, s3, s4
  <1>8. AllWithin(config, m, <<s1, s2, s3, s4>>)
      <2> DEFINE s == <<s1, s2, s3, s4>>
      <2>1. s \in Seq(Int \X Int \X Int) /\ Len(s) = 4
          BY <1>4, <1>5, <1>6, <1>7
      <2>2. \A k \in 1 .. 4 : Within(config, m, s[k])
          BY <1>4, <1>5, <1>6, <1>7
      <2> HIDE DEF s
      <2>3. AllWithin(config, m, s)
          BY <2>1, <2>2 DEF AllWithin
      <2>. QED  BY <2>3 DEF s
  <1>. QED  BY <1>2, <1>8

\* All shapes that the warm-up starts with.
LEMMA BoundariesWithin ==
  ASSUME config \in Settings, NEW m, IsMemory(m)
  PROVE  AllWithin(config, m, Boundaries(m) \o [k \in 1 .. n_samples |-> Random])
  <1> DEFINE draws == [k \in 1 .. n_samples |-> Random]
  <1>0. max_batch_size \in Nat \ {0} /\ 1 <= max_batch_size /\ max_batch_size <= max_batch_size /\ n_samples \in Nat
      BY StartupAssumption
  <1>1. AllWithin(config, m, draws)
      <2>1. Random \in Int \X Int \X Int
          BY DEF Random
      <2>2. draws \in Seq(Int \X Int \X Int) /\ Len(draws) = n_samples
          BY <1>0, <2>1
      <2>. QED  BY <1>0, <2>2 DEF AllWithin
  <1> HIDE DEF draws
  <1>2. AllWithin(config, m, PrefillBoundaries(m, 1)) /\ AllWithin(config, m, PrefillBoundaries(m, max_batch_size))
      BY <1>0, PrefillBoundariesWithin
  <1>3. AllWithin(config, m, NextTokenBoundaries(m, 1)) /\ AllWithin(config, m, NextTokenBoundaries(m, max_batch_size))
      BY <1>0, NextTokenBoundariesWithin
  <1> DEFINE a == PrefillBoundaries(m, 1) \o PrefillBoundaries(m, max_batch_size)
             b == a \o NextTokenBoundaries(m, 1)
             c == b \o NextTokenBoundaries(m, max_batch_size)
  <1>4. AllWithin(config, m, a)
      BY <1>2, ConcatWithin
  <1> HIDE DEF a
  <1>5. AllWithin(config, m, b)
      BY <1>3, <1>4, ConcatWithin
  <1> HIDE DEF b
  <1>6. AllWithin(config, m, c)
      BY <1>3, <1>5, ConcatWithin
  <1> HIDE DEF c
  <1>7. AllWithin(config, m, c \o draws)
      BY <1>1, <1>6, ConcatWithin
  <1>8. Boundaries(m) = c
      BY DEF Boundaries, a, b, c
  <1>. QED  BY <1>7, <1>8 DEF draws

\* A shape that is evaluated.
Evaluated(c, m, t) == Within(c, m, t) /\ t[2] > 0 /\ t[3] > 0

\* A shape that is drawn, unless there is nothing to draw from.
LEMMA DrawnWithin ==
  ASSUME config \in Settings, NEW m, IsMemory(m), NEW t \in Draws(m), t # NoShape
  PROVE  Evaluated(config, m, t)
  <1> DEFINE mi(b) == max_input_len_for_prefill(m, b, max_sequence_length - 1)
             lim(i) == Min({max_sequence_length - i, max_new_tokens})
             mo(b, i) == max_output_len_for_nt(m, b, i, lim(i))
  <1>1. /\ max_batch_size \in Nat /\ max_sequence_length \in Nat /\ max_new_tokens \in Nat
        /\ max_sequence_length = config.max_sequence_length
      BY StartupAssumption, LimitsAre
  <1>2. PICK b \in 1 .. max_batch_size : t \in DrawsFor(m, b)
      BY DEF Draws
  <1>3. PICK i \in 1 .. mi(b) : \E o \in 1 .. Max({1, mo(b, i)}) : t = <<b, i, o>>
      BY <1>2 DEF DrawsFor
  <1>4. PICK o \in 1 .. Max({1, mo(b, i)}) : t = <<b, i, o>>
      BY <1>3
  <1>5. b \in Nat \ {0} /\ b <= max_batch_size /\ max_sequence_length - 1 \in Int
      BY <1>1
  <1>6. mi(b) \in Int /\ mi(b) <= max_sequence_length - 1
        /\ \A k \in 0 .. mi(b) : prefill_memory_usage(m, b, k) <= m.weight_limit
      BY <1>5, PrefillLenFits
  <1> HIDE DEF mi
  <1>7. /\ i \in Nat /\ i \in 0 .. mi(b) /\ i >= 1 /\ i <= max_sequence_length - 1
        /\ max_sequence_length - i \in Nat
      BY <1>1, <1>6
  <1>8. lim(i) \in Nat /\ lim(i) <= max_sequence_length - i
      BY <1>1, <1>7, MinOfTwo
  <1> HIDE DEF lim
  <1>9. mo(b, i) \in Nat /\ mo(b, i) <= lim(i)
      BY <1>5, <1>7, <1>8, OutputLenFits
  <1> HIDE DEF mo
  <1>10. Max({1, mo(b, i)}) \in {1, mo(b, i)}
      <2>1. 1 \in Int /\ mo(b, i) \in Int
          BY <1>9
      <2>. QED  BY <2>1, MaxOfTwo
  <1>11. o \in Nat /\ o > 0 /\ i + o <= config.max_sequence_length
      BY <1>1, <1>7, <1>8, <1>9, <1>10
  <1>12. prefill_memory_usage(m, b, i) <= m.weight_limit
      BY <1>6, <1>7
  <1>13. Within(config, m, <<b, i, o>>)
      BY <1>5, <1>7, <1>11, <1>12, OneWithin
  <1>. QED  BY <1>4, <1>7, <1>11, <1>13 DEF Evaluated

\* The memory models are known whenever the warm-up may start, the shapes to come are
\* within their limits, and so are those evaluated last.
WarmupInv ==
    /\ config \in Settings
    /\ pc \in {"estimated", "warmup"} => \A r \in Ranks : IsMemory(msm[r])
    /\ pc = "warmup" => \A r \in Ranks : AllWithin(config, msm[r], shapes[r])
    /\ pc \notin {"warmup", "failed"} => \A r \in Ranks : shape[r] = NoShape
    /\ \A r \in Ranks : shape[r] # NoShape => Evaluated(config, msm[r], shape[r])

\* The disabled model has no coefficients that could be wrong,
LEMMA DisabledIsMemory == IsMemory(DisabledMemory)
  BY StartupAssumption DEF IsMemory, DisabledMemory, Memory

\* and a fitted one is as curve_fit bounds it.
LEMMA FitIsMemory ==
  ASSUME NEW m \in Fits
  PROVE  IsMemory(m)
  BY StartupAssumption DEF IsMemory

\* What is loaded without a GPU serves with the disabled model.
LEMMA LoadKeeps ==
  ASSUME WarmupInv, Load
  PROVE  WarmupInv'
  <1>1. /\ \A r \in Ranks : shape[r] = NoShape
        /\ shape' = shape /\ config' = config /\ pc' \in {"failed", AfterLoad}
      BY DEF WarmupInv, Load
  <1>2. AfterLoad \in {"failed", "serving", "estimate", "estimated"}
      BY DEF AfterLoad, WarmupInv, Settings, run_estimate
  <1>3. ASSUME AfterLoad = "estimated", NEW r \in Ranks PROVE msm'[r] = DisabledMemory
      <2>1. run_estimate /\ ~config.PAGED_ATTENTION /\ ~config.cuda
          BY <1>3 DEF AfterLoad, WarmupInv, Settings, run_estimate
      <2>. QED  BY <2>1 DEF Load, OnAll
  <1>. QED  BY <1>1, <1>2, <1>3, DisabledIsMemory DEF WarmupInv

\* The rest of a list.
LEMMA TailWithin ==
  ASSUME NEW c, NEW m, NEW s, AllWithin(c, m, s), s # <<>>
  PROVE  AllWithin(c, m, Tail(s)) /\ (Head(s) = Random \/ Within(c, m, Head(s)))
  <1>1. s \in Seq(Int \X Int \X Int)
      BY DEF AllWithin
  <1>2. Len(s) \in Nat \ {0} /\ Head(s) = s[1] /\ Tail(s) \in Seq(Int \X Int \X Int)
        /\ Len(Tail(s)) = Len(s) - 1
        /\ \A k \in 1 .. Len(s) - 1 : Tail(s)[k] = s[k + 1] /\ k + 1 \in 1 .. Len(s)
      BY <1>1
  <1>. QED  BY <1>2 DEF AllWithin

\* A shape is taken from the list,
LEMMA EvalShapeKeeps ==
  ASSUME WarmupInv, EvalShape
  PROVE  WarmupInv'
  <1>1. /\ pc = "warmup" /\ pc' \in {"warmup", "failed"} /\ config' = config /\ msm' = msm
        /\ \A r \in Ranks : shapes[r] # <<>> /\ Head(shapes[r]) # Random /\ shapes'[r] = Tail(shapes[r])
      BY DEF EvalShape
  <1>2. \A r \in Ranks : IsMemory(msm[r]) /\ AllWithin(config, msm[r], shapes[r])
      BY <1>1 DEF WarmupInv
  <1>3. \A r \in Ranks : AllWithin(config, msm[r], Tail(shapes[r])) /\ Within(config, msm[r], Head(shapes[r]))
      BY <1>1, <1>2, TailWithin
  <1>4. ASSUME NEW r \in Ranks, shape'[r] # NoShape PROVE Evaluated(config, msm[r], shape'[r])
      <2> DEFINE t == Head(shapes[r])
      <2>1. shape'[r] = IF Skipped(t) \/ Negative(t) THEN shape[r] ELSE t
          BY DEF EvalShape
      <2>2. Within(config, msm[r], t)
          BY <1>3
      <2> HIDE DEF t
      <2>3. CASE Skipped(t) \/ Negative(t)
          BY <1>4, <2>1, <2>3 DEF WarmupInv
      <2>4. CASE ~(Skipped(t) \/ Negative(t))
          <3>1. t[2] # 0 /\ t[3] # 0 /\ ~(t[2] < 0)
              BY <2>4 DEF Skipped, Negative
          <3>2. t[2] \in Int /\ t[3] \in Nat
              BY <2>2 DEF Within
          <3>. QED  BY <2>1, <2>2, <2>4, <3>1, <3>2 DEF Evaluated
      <2>. QED  BY <2>3, <2>4
  <1>. QED  BY <1>1, <1>2, <1>3, <1>4 DEF WarmupInv

\* or drawn.
LEMMA DrawShapeKeeps ==
  ASSUME WarmupInv, DrawShape
  PROVE  WarmupInv'
  <1> DEFINE models == {msm[r] : r \in Ranks}
  <1>1. /\ pc = "warmup" /\ config' = config /\ msm' = msm /\ config \in Settings
        /\ \A r \in Ranks : shapes[r] # <<>>
      BY DEF DrawShape, WarmupInv
  <1>2. \A r \in Ranks : IsMemory(msm[r]) /\ AllWithin(config, msm[r], shapes[r])
      BY <1>1 DEF WarmupInv
  <1>3. PICK draw \in [models -> UNION {Draws(m) : m \in models}] :
            /\ \A m \in models : draw[m] \in Draws(m)
            /\ IF \E m \in models : draw[m] = NoShape THEN pc' = "failed" /\ UNCHANGED <<shapes, shape>>
               ELSE /\ shape' = [r \in Ranks |-> draw[msm[r]]]
                    /\ shapes' = [r \in Ranks |-> Tail(shapes[r])] /\ UNCHANGED pc
      BY DEF DrawShape
  <1>4. CASE \E m \in models : draw[m] = NoShape
      BY <1>1, <1>2, <1>3, <1>4 DEF WarmupInv
  <1>5. CASE ~ \E m \in models : draw[m] = NoShape
      <2>1. \A r \in Ranks : AllWithin(config, msm[r], Tail(shapes[r]))
          BY <1>1, <1>2, TailWithin
      <2>2. ASSUME NEW r \in Ranks PROVE Evaluated(config, msm[r], draw[msm[r]])
          <3>1. msm[r] \in models
              OBVIOUS
          <3>. QED  BY <1>1, <1>2, <1>3, <1>5, <3>1, DrawnWithin
      <2>. QED  BY <1>1, <1>2, <1>3, <1>5, <2>1, <2>2 DEF WarmupInv
  <1>. QED  BY <1>4, <1>5

\* The warm-up evaluates no shape that is too long or too many, and none, apart from the
\* shortest, that the rank's memory model says does not fit, whatever curve has been
\* fitted and whatever the limits are.
THEOREM ShapesFit == Spec => []ShapesWithinLimits
  <1>1. Init => WarmupInv
      BY StartupAssumption DEF Init, WarmupInv, OnAll
  <1>2. WarmupInv /\ [Next]_vars => WarmupInv'
      <2> SUFFICES ASSUME WarmupInv, [Next]_vars PROVE WarmupInv'
          OBVIOUS
      <2>1. CASE StartFit
          BY <2>1 DEF StartFit, WarmupInv
      <2>2. CASE QueueGet
          BY <2>2 DEF QueueGet, WarmupInv
      <2>3. CASE Load
          BY <2>3, LoadKeeps
      <2>4. CASE RunTest
          BY <2>4 DEF RunTest, Estimating, WarmupInv
      <2>5. CASE EstimateEnds
          <3>1. /\ pc \in {"estimate", "fitting"} /\ shape' = shape /\ config' = config
                /\ pc' \in {"failed", "fit_failed", "estimated", "fitted"}
              BY <2>5 DEF EstimateEnds, Estimating, FitFailed
          <3>2. \A r \in Ranks : shape[r] = NoShape
              BY <3>1 DEF WarmupInv
          <3>3. pc' = "estimated" => msm' \in [Ranks -> Fits]
              BY <2>5 DEF EstimateEnds, Estimating, FitFailed
          <3>. QED  BY <3>1, <3>2, <3>3, FitIsMemory DEF WarmupInv
      <2>11. CASE Abort
          <3>1. /\ pc' \in {"failed", "fit_failed"} /\ (pc' = "fit_failed" => pc = "fitting")
                /\ shape' = shape /\ config' = config /\ msm' = msm
              BY <2>11 DEF Abort, FitFailed
          <3>. QED  BY <3>1 DEF WarmupInv
      <2>6. CASE AfterEstimate
          <3>1. /\ config \in Settings /\ \A r \in Ranks : IsMemory(msm[r]) /\ shape[r] = NoShape
                /\ shape' = shape /\ config' = config /\ msm' = msm /\ pc' \in {"warmup", "serving"}
                /\ pc' = "warmup" =>
                      \A r \in Ranks : shapes'[r] = Boundaries(msm[r]) \o [k \in 1 .. n_samples |-> Random]
              BY <2>6 DEF AfterEstimate, WarmupInv
          <3>2. \A r \in Ranks : AllWithin(config, msm[r], Boundaries(msm[r]) \o [k \in 1 .. n_samples |-> Random])
              BY <3>1, BoundariesWithin
          <3>. QED  BY <3>1, <3>2 DEF WarmupInv
      <2>7. CASE EvalShape
          BY <2>7, EvalShapeKeeps
      <2>8. CASE DrawShape
          BY <2>8, DrawShapeKeeps
      <2>9. CASE WarmupEnds
          BY <2>9 DEF WarmupEnds, WarmupInv, OnAll
      <2>10. CASE UNCHANGED vars
          BY <2>10 DEF vars, WarmupInv
      <2>. QED  BY <2>1, <2>2, <2>3, <2>4, <2>5, <2>6, <2>7, <2>8, <2>9, <2>10, <2>11 DEF Next, Rest
  <1>3. WarmupInv => ShapesWithinLimits
      <2> SUFFICES ASSUME WarmupInv, NEW r \in Ranks, shape[r] # NoShape
                   PROVE  LET t == shape[r] IN
                          /\ t[1] <= max_batch_size /\ t[2] > 0 /\ t[3] > 0
                          /\ \/ t[2] + t[3] <= max_sequence_length
                             \/ t[2] = 1 /\ (max_new_tokens >= max_sequence_length \/ max_sequence_length < 3)
                          /\ t[2] > 1 => prefill_memory_usage(msm[r], t[1], t[2]) <= msm[r].weight_limit
          BY DEF ShapesWithinLimits
      <2>. QED  BY LimitsAre DEF WarmupInv, Within, Evaluated
  <1>. QED  BY <1>1, <1>2, <1>3, PTL DEF Spec
-----------------------------------------------------------------------------
(* What is fitted to what, and whether the estimator fails.  In each phase  *)
(* b stands for: memory is sufficient for every test, and the parameters    *)
(* leave room for the samples.                                              *)

\* The parameters leave room: a search ends further from the longest prefill than there
\* are samples to take, or at it, and so does the range for the next tokens.  The
\* defaults are 5, 10, 100, 1500 and 2.
RoomForSamples ==
    /\ min_samples <= STOPPING_DISTANCE
    /\ stop_seq_len - start_seq_len > STOPPING_DISTANCE
    /\ NtLimit(stop_seq_len) - start_seq_len >= new_token_samples

Sorted(X) == \A j, k \in 1 .. Len(X) : j <= k => X[j] <= X[k]
Numbers(e) ==
    /\ DOMAIN e = Fields /\ e.X \in Seq(Nat)
    /\ e.lower \in Nat /\ e.upper \in Nat /\ e.s \in Nat /\ e.stop \in Nat
    /\ e.longest_linear \in Nat /\ e.remaining \in Nat /\ e.nt_upper_input_limit \in Nat

\* Nothing has been taken away from what there is to sample.
Ample(e) ==
    /\ e.stop = stop_seq_len /\ e.nt_upper_input_limit = NtLimit(stop_seq_len)
    /\ e.remaining \in Nat /\ e.remaining <= new_token_samples

LineFits(e) == e.longest_linear > 0 => Len(e.linear_fit) > 1
CurveFits(e) ==
    e.quadratic_fit # <<>> =>
        e.quadratic_fit = [X |-> e.quadratic_fit.X, Y |-> e.quadratic_fit.X]
        /\ e.quadratic_fit.X \in Seq(Nat) /\ e.quadratic_fit.X # <<>>

\* The samples reach up to the longest prefill, and none is longer.
Based(e, b) ==
    /\ Numbers(e) /\ e.quadratic_fit = <<>> /\ e.longest_linear <= e.stop
    /\ \A k \in 1 .. Len(e.X) : e.X[k] <= e.stop
    /\ \E k \in 1 .. Len(e.X) : e.X[k] = e.stop
    /\ b => Ample(e)

\* A line has two samples below its end.
TwoBelow(e) ==
    e.longest_linear > 0 =>
        \E i, j \in 1 .. Len(e.X) : i # j /\ e.X[i] < e.longest_linear /\ e.X[j] < e.longest_linear

InUpper(e, b) ==
    /\ Numbers(e) /\ e.at = "upper_bound" /\ e.quadratic_fit = <<>> /\ e.longest_linear = 0
    /\ Len(e.X) > 0 /\ e.X[1] = 0 /\ e.lower <= e.s /\ e.s <= e.upper
    /\ \A k \in 1 .. Len(e.X) : e.X[k] <= e.lower
    /\ Len(e.X) > 1 => e.X[Len(e.X)] = e.lower
    /\ b => Ample(e) /\ e.s = stop_seq_len /\ e.upper = stop_seq_len
InHalving(e, b) ==
    /\ Based(e, b) /\ e.at = "linear" /\ e.longest_linear = 0 /\ Len(e.X) > 0 /\ e.X[1] = 0
    /\ e.lower <= e.upper /\ e.upper <= e.stop
InLinear(e, b) == InHalving(e, b) /\ e.lower <= e.s /\ e.s < e.upper
InExisting(e, b) ==
    /\ Based(e, b) /\ e.at = "existing" /\ Sorted(e.X) /\ TwoBelow(e) /\ e.longest_linear > 0
    /\ e.index \in Nat /\ e.index > 0
    /\ \A k \in 1 .. Len(e.X) : k >= e.index => e.X[k] >= e.longest_linear
InInflection(e, b) ==
    /\ Based(e, b) /\ e.at = "inflection" /\ LineFits(e)
    /\ e.lower <= e.s /\ e.s <= e.upper /\ e.upper <= e.stop
InSamples(e, b) ==
    /\ DOMAIN e = Fields /\ e.at \in {"quadratic", "nt", "done", "raised"} /\ CurveFits(e)
    /\ e.at # "raised" => LineFits(e) /\ e.remaining \in Nat /\ e.nt_upper_input_limit \in Nat
    /\ e.at \in {"quadratic", "nt"} =>
          e.todo \in Seq(Nat) /\ e.todo # <<>> /\ (b => \A k \in 1 .. Len(e.todo) : e.todo[k] <= stop_seq_len)
    /\ e.at = "quadratic" => e.quadratic_fit # <<>>
    /\ b => e.at # "raised" /\ Ample(e)

Sound(e, b) ==
    InUpper(e, b) \/ InLinear(e, b) \/ (InExisting(e, b) /\ e.index <= Len(e.X)) \/ InInflection(e, b)
    \/ InSamples(e, b)

Enough(r) == RoomForSamples /\ Roomy(capacity[r])
SoundInv == capacity \in [Ranks -> Device] /\ \A r \in Ranks : Sound(est[r], Enough(r))

-----------------------------------------------------------------------------
(* Sorting and selecting samples.                                           *)

\* Y is X in order: no sample is lost, and none comes up twice.
Reordered(Y, X) ==
    /\ Y \in Seq(Nat) /\ Len(Y) = Len(X) /\ Sorted(Y)
    /\ \A k \in 1 .. Len(X) : \E i \in 1 .. Len(X) : Y[k] = X[i]
    /\ \A i \in 1 .. Len(X) : \E k \in 1 .. Len(X) : Y[k] = X[i]
    /\ \A i, j \in 1 .. Len(X) : i # j => \E k, l \in 1 .. Len(X) : k # l /\ Y[k] = X[i] /\ Y[l] = X[j]

\* sort puts the samples in order.
LEMMA SortIs ==
  ASSUME NEW X \in Seq(Nat)
  PROVE  Reordered(sort[X], X)
  <1> DEFINE a == argsort[X]
             n == Len(X)
             Y == [k \in 1 .. n |-> X[a[k]]]
  <1>0. n \in Nat /\ \A i \in 1 .. n : X[i] \in Nat
      OBVIOUS
  <1>1. /\ a \in [1 .. n -> 1 .. n]
        /\ \A i \in 1 .. n : \E k \in 1 .. n : a[k] = i
        /\ \A j, k \in 1 .. n : j <= k => X[a[j]] <= X[a[k]]
      BY ArgsortIs
  <1> HIDE DEF a, n
  <1>2. sort[X] = Y
      <2>1. sort[X] = Pick(X, a)
          BY DEF sort, a
      <2>. QED  BY <1>1, <2>1 DEF Pick
  <1>3. \A k \in 1 .. n : Y[k] = X[a[k]] /\ a[k] \in 1 .. n
      BY <1>1
  <1>4. Y \in Seq(Nat) /\ Len(Y) = n
      <2>1. Y \in [1 .. n -> Nat]
          BY <1>0, <1>3
      <2> HIDE DEF Y
      <2>. QED  BY <1>0, <2>1
  <1> HIDE DEF Y
  <1>5. Sorted(Y)
      BY <1>1, <1>3, <1>4, ZenonT(60) DEF Sorted
  <1>6. \A k \in 1 .. n : \E i \in 1 .. n : Y[k] = X[i]
      BY <1>3
  <1>7. ASSUME NEW i \in 1 .. n PROVE \E k \in 1 .. n : Y[k] = X[i]
      <2>1. PICK k \in 1 .. n : a[k] = i
          BY <1>1
      <2>. QED  BY <1>3, <2>1
  <1>8. ASSUME NEW i \in 1 .. n, NEW j \in 1 .. n, i # j
        PROVE  \E k, l \in 1 .. n : k # l /\ Y[k] = X[i] /\ Y[l] = X[j]
      <2>1. PICK k \in 1 .. n : a[k] = i
          BY <1>1
      <2>2. PICK l \in 1 .. n : a[l] = j
          BY <1>1
      <2>3. k # l /\ Y[k] = X[i] /\ Y[l] = X[j]
          BY <1>3, <1>8, <2>1, <2>2
      <2>. QED  BY <2>3
  <1>. QED  BY <1>2, <1>4, <1>5, <1>6, <1>7, <1>8 DEF n, Reordered

\* What is above a length is at the end of sorted samples: the number of the samples
\* picked by their length counts the memory measured for them from the end.
LEMMA AboveIsEnd ==
  ASSUME NEW X \in Seq(Nat), Sorted(X), NEW x \in Nat, \E k \in 1 .. Len(X) : X[k] > x
  PROVE  LET A == Above(X, x) IN
         A \in Seq(Nat) /\ A # <<>> /\ Len(A) > 0 /\ A = SubSeq(X, Len(X) - Len(A) + 1, Len(X))
  <1> DEFINE n == Len(X)
             K == {k \in 1 .. n : X[k] > x}
             A == Above(X, x)
  <1>0. n \in Nat /\ DOMAIN X = 1 .. n /\ \A k \in 1 .. n : X[k] \in Nat
      OBVIOUS
  <1>1. PICK f \in K : \A k \in K : f <= k
      <2>1. K # {} /\ K \in SUBSET Nat
          BY <1>0
      <2> HIDE DEF K
      <2>. QED  BY <2>1, LeastNat
  <1> DEFINE m == f - 1
  <1>2. m \in Nat /\ m < n /\ m + 1 = f
      BY <1>0, <1>1
  <1>3. K = m + 1 .. n
      <2>1. \A k \in K : k \in m + 1 .. n
          BY <1>0, <1>1, <1>2
      <2>2. ASSUME NEW k \in m + 1 .. n PROVE k \in K
          <3>1. k \in 1 .. n /\ f \in 1 .. n /\ f <= k /\ X[f] > x
              BY <1>0, <1>1, <1>2
          <3>2. X[f] <= X[k] /\ X[f] \in Nat /\ X[k] \in Nat
              BY <1>0, <3>1 DEF Sorted
          <3>. QED  BY <3>1, <3>2
      <2>. QED  BY <2>1, <2>2
  <1>4. A = Pick(X, InOrder[K])
      BY <1>0 DEF Above
  <1> HIDE DEF A, K, m, n
  <1>5. InOrder[K] = [k \in 1 .. n - m |-> m + k]
      <2>1. m <= n
          BY <1>0, <1>2
      <2>. QED  BY <1>0, <1>2, <1>3, <2>1, IntervalInOrder
  <1>6. A = [k \in 1 .. n - m |-> X[m + k]]
      BY <1>4, <1>5 DEF Pick
  <1>7. \A k \in 1 .. n - m : m + k \in 1 .. n /\ X[m + k] \in Nat
      BY <1>0, <1>2
  <1>8. A \in Seq(Nat) /\ Len(A) = n - m
      <2>1. A \in [1 .. n - m -> Nat] /\ n - m \in Nat
          BY <1>0, <1>2, <1>6, <1>7
      <2>. QED  BY <2>1
  <1>9. A = SubSeq(X, m + 1, n)
      <2>1. SubSeq(X, m + 1, n) = [k \in 1 .. n - m |-> X[m + k]]
          <3>1. SubSeq(X, m + 1, n) = [k \in 1 .. (1 + n) - (m + 1) |-> X[(m + 1) + k - 1]]
              BY <1>0, <1>2 DEF SubSeq
          <3>2. (1 + n) - (m + 1) = n - m /\ \A k \in 1 .. n - m : (m + 1) + k - 1 = m + k
              BY <1>0, <1>2
          <3>. QED  BY <3>1, <3>2
      <2>. QED  BY <1>6, <2>1
  <1>10. n - Len(A) + 1 = m + 1 /\ Len(A) > 0 /\ A # <<>>
      BY <1>0, <1>2, <1>8
  <1>. QED  BY <1>8, <1>9, <1>10 DEF A, n

\* Two samples below a length make a line of two.
LEMMA TwoBelowIsLine ==
  ASSUME NEW X \in Seq(Nat), NEW x \in Nat, NEW i \in 1 .. Len(X), NEW j \in 1 .. Len(X),
         i # j, X[i] < x, X[j] < x
  PROVE  Len(Below(X, x)) > 1
  <1> DEFINE n == Len(X)
             K == {k \in 1 .. n : X[k] < x}
             o == InOrder[K]
  <1>0. n \in Nat /\ DOMAIN X = 1 .. n /\ \A k \in 1 .. n : X[k] \in Nat
      OBVIOUS
  <1>1. IsFiniteSet(K) /\ K \in SUBSET Nat
      <2>1. IsFiniteSet(1 .. n)
          BY <1>0, FS_Interval
      <2>2. K \in SUBSET (1 .. n)
          OBVIOUS
      <2>3. IsFiniteSet(K)
          BY <2>1, <2>2, FS_Subset
      <2>. QED  BY <1>0, <2>3
  <1>2. i \in K /\ j \in K
      OBVIOUS
  <1>3. Below(X, x) = Pick(X, o)
      BY <1>0 DEF Below
  <1> HIDE DEF n
  <1> HIDE DEF K
  <1>4. Cardinality(K) \in Nat /\ o \in [1 .. Cardinality(K) -> K]
        /\ \A y \in K : \E k \in 1 .. Cardinality(K) : o[k] = y
      BY <1>1, InOrderIs
  <1> HIDE DEF o
  <1>5. Cardinality(K) > 1
      <2>1. PICK k \in 1 .. Cardinality(K) : o[k] = i
          BY <1>2, <1>4
      <2>2. PICK l \in 1 .. Cardinality(K) : o[l] = j
          BY <1>2, <1>4
      <2>. QED  BY <1>4, <2>1, <2>2
  <1>6. DOMAIN Below(X, x) = 1 .. Cardinality(K) /\ Below(X, x) \in [1 .. Cardinality(K) -> {X[k] : k \in K}]
      BY <1>3, <1>4 DEF Pick
  <1>7. Len(Below(X, x)) = Cardinality(K)
      <2> DEFINE B == Below(X, x)
                 S == {X[k] : k \in K}
                 c == Cardinality(K)
      <2>1. B \in [1 .. c -> S] /\ c \in Nat
          BY <1>4, <1>6
      <2> HIDE DEF B, S, c
      <2>2. B \in Seq(S) /\ Len(B) = c
          BY <2>1
      <2>. QED  BY <2>2 DEF B, c
  <1>. QED  BY <1>5, <1>7

\* The lengths that take_n_samples tests: there is one, and they are below stop.
LEMMA SamplesAre ==
  ASSUME NEW n \in Nat, n > 0, NEW start \in Nat, NEW stop \in Nat, stop - start >= n
  PROVE  LET S == Samples(n, start, stop) IN
         /\ Stride(n, start, stop) > 0
         /\ S \in Seq(Nat) /\ S # <<>> /\ \A k \in 1 .. Len(S) : S[k] < stop
  <1> DEFINE d == stop - start
             st == Stride(n, start, stop)
             q == (d + st - 1) \div st
             S == Samples(n, start, stop)
  <1>1. d \in Nat /\ d >= n
      OBVIOUS
  <1>2. st \in Nat /\ st > 0
      <2>1. st = d \div n
          BY DEF Stride
      <2>. QED  BY <1>1, <2>1
  <1>3. S = [k \in 1 .. q |-> start + (k - 1) * st]
      BY DEF Samples
  <1> HIDE DEF st, S
  <1>4. q \in Nat /\ q * st <= d + st - 1 /\ d + st - 1 < (q + 1) * st
      <2> DEFINE z == d + st - 1
      <2>1. z \in Nat
          BY <1>1, <1>2
      <2> HIDE DEF z, d
      <2>. QED  BY <1>2, <2>1 DEF z
  <1> HIDE DEF q, d
  <1>5. q > 0
      <2>1. q = 0 => (q + 1) * st = st
          BY <1>2
      <2>2. ~(d + st - 1 < st)
          BY <1>1, <1>2
      <2>. QED  BY <1>4, <2>1, <2>2
  <1>6. ASSUME NEW k \in 1 .. q PROVE start + (k - 1) * st \in Nat /\ start + (k - 1) * st < stop
      <2>1. k \in Nat /\ k - 1 \in Nat /\ k <= q
          BY <1>4
      <2>2. k * st <= q * st /\ k * st \in Nat
          BY <1>2, <1>4, <2>1, TimesGrows
      <2>3. (k - 1) * st = k * st - st /\ (k - 1) * st \in Nat
          BY <1>2, <2>1
      <2>4. (k - 1) * st <= d - 1
          BY <1>1, <1>2, <1>4, <2>2, <2>3
      <2>. QED  BY <2>3, <2>4 DEF d
  <1>7. S \in [1 .. q -> Nat]
      BY <1>3, <1>6
  <1>8. S \in Seq(Nat) /\ Len(S) = q
      BY <1>4, <1>7
  <1>9. \A k \in 1 .. Len(S) : S[k] < stop
      BY <1>3, <1>6, <1>8
  <1>10. S # <<>>
      BY <1>5, <1>8
  <1>. QED  BY <1>2, <1>8, <1>9, <1>10 DEF st, S

-----------------------------------------------------------------------------
(* The phases of the estimation.                                            *)

\* An exception leaves the fits as they are.
LEMMA FailSound ==
  ASSUME NEW e, DOMAIN e = Fields, CurveFits(e)
  PROVE  InSamples(Fail(e), FALSE)
  <1> DEFINE f == Fail(e)
  <1>1. DOMAIN f = Fields /\ f.at = "raised" /\ f.quadratic_fit = e.quadratic_fit
      BY FieldsAre DEF Fail
  <1> HIDE DEF f
  <1>2. InSamples(f, FALSE)
      BY <1>1 DEF InSamples, CurveFits
  <1>. QED  BY <1>2 DEF f

\* estimate_nt has room for its samples if the parameters leave it.
LEMMA StartNtSound ==
  ASSUME NEW e, NEW b \in BOOLEAN, b => RoomForSamples, DOMAIN e = Fields, CurveFits(e), LineFits(e),
         e.remaining \in Nat, e.nt_upper_input_limit \in Nat, b => Ample(e)
  PROVE  InSamples(StartNt(e), b)
  <1>1. CASE ~needs_nt(e)
      <2> DEFINE f == [e EXCEPT !.at = "done"]
      <2>1. StartNt(e) = f
          BY <1>1 DEF StartNt
      <2>2. /\ DOMAIN f = Fields /\ f.at = "done" /\ f.quadratic_fit = e.quadratic_fit
            /\ f.longest_linear = e.longest_linear /\ f.linear_fit = e.linear_fit
            /\ f.remaining = e.remaining /\ f.nt_upper_input_limit = e.nt_upper_input_limit
            /\ f.stop = e.stop
          BY FieldsAre
      <2> HIDE DEF f
      <2>3. InSamples(f, b)
          BY <2>2 DEF InSamples, CurveFits, LineFits, Ample
      <2>. QED  BY <2>1, <2>3
  <1>2. CASE needs_nt(e) /\ e.nt_upper_input_limit - start_seq_len < e.remaining
      <2>1. StartNt(e) = Fail(e)
          BY <1>2 DEF StartNt
      <2>2. ~b
          <3>1. ASSUME b PROVE FALSE
              <4>1. /\ NtLimit(stop_seq_len) - start_seq_len >= new_token_samples
                    /\ e.nt_upper_input_limit = NtLimit(stop_seq_len) /\ e.remaining <= new_token_samples
                  BY <3>1 DEF RoomForSamples, Ample
              <4>2. start_seq_len \in Nat /\ new_token_samples \in Nat
                  BY EstimatorAssumption
              <4>. QED  BY <1>2, <4>1, <4>2
          <3>. QED  BY <3>1
      <2>. QED  BY <2>1, <2>2, FailSound
  <1>3. CASE needs_nt(e) /\ ~(e.nt_upper_input_limit - start_seq_len < e.remaining)
      <2> DEFINE S == Samples(e.remaining, start_seq_len, e.nt_upper_input_limit)
                 f == [e EXCEPT !.at = "nt", !.todo = S]
      <2>1. StartNt(e) = f
          BY <1>3 DEF StartNt
      <2>2. start_seq_len \in Nat /\ stop_seq_len \in Nat /\ e.remaining > 0
            /\ e.nt_upper_input_limit - start_seq_len >= e.remaining
          BY <1>3, EstimatorAssumption DEF needs_nt
      <2>3. S \in Seq(Nat) /\ S # <<>> /\ \A k \in 1 .. Len(S) : S[k] < e.nt_upper_input_limit
          BY <2>2, SamplesAre
      <2> HIDE DEF S
      <2>4. /\ DOMAIN f = Fields /\ f.at = "nt" /\ f.quadratic_fit = e.quadratic_fit /\ f.todo = S
            /\ f.longest_linear = e.longest_linear /\ f.linear_fit = e.linear_fit
            /\ f.remaining = e.remaining /\ f.nt_upper_input_limit = e.nt_upper_input_limit
            /\ f.stop = e.stop
          BY FieldsAre
      <2> HIDE DEF f
      <2>5. ASSUME b PROVE \A k \in 1 .. Len(S) : S[k] <= stop_seq_len
          <3>1. e.nt_upper_input_limit <= stop_seq_len
              BY <2>2, <2>5 DEF Ample, NtLimit
          <3>2. \A k \in 1 .. Len(S) : S[k] \in Nat
              BY <2>3
          <3>. QED  BY <2>2, <2>3, <3>1, <3>2
      <2>6. InSamples(f, b)
          BY <2>3, <2>4, <2>5 DEF InSamples, CurveFits, LineFits, Ample
      <2>. QED  BY <2>1, <2>6
  <1>. QED  BY <1>1, <1>2, <1>3

\* estimate_quadratic fits lengths to the memory measured for them, and has room for the
\* samples it lacks.
LEMMA FitQuadraticSound ==
  ASSUME NEW e, NEW b \in BOOLEAN, b => RoomForSamples, Based(e, b), Sorted(e.X), LineFits(e),
         e.inflection_point \in Nat, e.inflection_point < e.stop,
         b => e.stop - e.inflection_point >= min_samples
  PROVE  InSamples(FitQuadratic(e), b)
  <1> DEFINE start == e.inflection_point
             X == Above(e.X, start)
             Y == IF X = <<>> THEN e.X ELSE SubSeq(e.X, Len(e.X) - Len(X) + 1, Len(e.X))
             missing == min_samples - Len(X)
             fit == [e EXCEPT !.at = "quadratic", !.quadratic_fit = [X |-> X, Y |-> Y]]
             S == Samples(missing, start + 1, e.stop)
             more == [fit EXCEPT !.todo = S]
  <1>0. /\ DOMAIN e = Fields /\ e.X \in Seq(Nat) /\ e.stop \in Nat /\ min_samples \in Nat
        /\ e.remaining \in Nat /\ e.nt_upper_input_limit \in Nat /\ e.longest_linear \in Nat
        /\ stop_seq_len \in Nat
      BY EstimatorAssumption DEF Based, Numbers
  <1>1. FitQuadratic(e) = IF missing <= 0 THEN StartNt(fit)
                          ELSE IF Stride(missing, start + 1, e.stop) = 0 THEN Fail(e) ELSE more
      BY DEF FitQuadratic
  <1>2. X \in Seq(Nat) /\ X # <<>> /\ Len(X) > 0 /\ X = SubSeq(e.X, Len(e.X) - Len(X) + 1, Len(e.X))
      <2>1. PICK k \in 1 .. Len(e.X) : e.X[k] = e.stop
          BY DEF Based
      <2>2. e.X[k] > start
          BY <1>0, <2>1
      <2>3. \E j \in 1 .. Len(e.X) : e.X[j] > start
          BY <2>2
      <2>. QED  BY <1>0, <2>3, AboveIsEnd
  <1>3. Y = X
      BY <1>2
  <1> HIDE DEF X, Y
  <1>4. missing \in Int /\ missing < min_samples
      BY <1>0, <1>2
  <1> HIDE DEF missing, S
  <1>5. /\ DOMAIN fit = Fields /\ fit.at = "quadratic" /\ fit.quadratic_fit = [X |-> X, Y |-> X]
        /\ fit.longest_linear = e.longest_linear /\ fit.linear_fit = e.linear_fit
        /\ fit.remaining = e.remaining /\ fit.nt_upper_input_limit = e.nt_upper_input_limit
        /\ fit.stop = e.stop
      BY <1>0, <1>3, FieldsAre
  <1> HIDE DEF fit
  <1>6. fit.quadratic_fit # <<>> /\ fit.quadratic_fit.X = X /\ fit.quadratic_fit.Y = X /\ CurveFits(fit)
      BY <1>2, <1>5 DEF CurveFits
  <1>7. LineFits(fit) /\ (b => Ample(fit))
      BY <1>5 DEF LineFits, Based, Ample
  <1>8. CASE missing <= 0
      BY <1>0, <1>1, <1>5, <1>6, <1>7, <1>8, StartNtSound
  <1>9. CASE ~(missing <= 0) /\ Stride(missing, start + 1, e.stop) = 0
      <2>1. ~b
          <3>1. ASSUME b PROVE FALSE
              <4>1. missing \in Nat /\ missing > 0 /\ start + 1 \in Nat /\ e.stop - (start + 1) >= missing
                  BY <1>0, <1>4, <1>9, <3>1
              <4>2. Stride(missing, start + 1, e.stop) > 0
                  BY <1>0, <4>1, SamplesAre
              <4>. QED  BY <1>9, <4>2
          <3>. QED  BY <3>1
      <2>2. CurveFits(e)
          BY DEF Based, CurveFits
      <2>. QED  BY <1>0, <1>1, <1>9, <2>1, <2>2, FailSound
  <1>10. CASE ~(missing <= 0) /\ Stride(missing, start + 1, e.stop) # 0
      <2>1. missing \in Nat /\ missing > 0 /\ start + 1 \in Nat /\ start + 1 <= e.stop
          BY <1>0, <1>4, <1>10
      <2>2. e.stop - (start + 1) >= missing
          <3> DEFINE d == e.stop - (start + 1)
          <3>1. d \in Nat /\ Stride(missing, start + 1, e.stop) = d \div missing
              BY <1>0, <2>1 DEF Stride
          <3> HIDE DEF d
          <3>2. d < missing => d \div missing = 0
              BY <2>1, <3>1
          <3>3. ~(d < missing)
              BY <1>10, <3>1, <3>2
          <3>. QED  BY <2>1, <3>1, <3>3 DEF d
      <2>3. S \in Seq(Nat) /\ S # <<>> /\ \A k \in 1 .. Len(S) : S[k] < e.stop
          BY <1>0, <2>1, <2>2, SamplesAre DEF S
      <2>4. /\ DOMAIN more = Fields /\ more.at = "quadratic" /\ more.quadratic_fit = fit.quadratic_fit
            /\ more.todo = S
            /\ more.longest_linear = e.longest_linear /\ more.linear_fit = e.linear_fit
            /\ more.remaining = e.remaining /\ more.nt_upper_input_limit = e.nt_upper_input_limit
            /\ more.stop = e.stop
          BY <1>5, FieldsAre
      <2> HIDE DEF more
      <2>5. CurveFits(more) /\ more.quadratic_fit # <<>>
          BY <1>6, <2>4 DEF CurveFits
      <2>6. LineFits(more) /\ (b => Ample(more))
          BY <2>4 DEF LineFits, Based, Ample
      <2>7. b => \A k \in 1 .. Len(S) : S[k] <= stop_seq_len
          <3>1. \A k \in 1 .. Len(S) : S[k] \in Nat
              BY <2>3
          <3>2. b => e.stop = stop_seq_len
              BY DEF Based, Ample
          <3>. QED  BY <1>0, <2>3, <3>1, <3>2
      <2>8. InSamples(more, b)
          BY <1>0, <2>3, <2>4, <2>5, <2>6, <2>7 DEF InSamples
      <2>. QED  BY <1>1, <1>10, <2>8
  <1>. QED  BY <1>8, <1>9, <1>10

\* A curve is fitted unless the line reaches up to the longest prefill.
LEMMA WithInflectionSound ==
  ASSUME NEW e, NEW b \in BOOLEAN, b => RoomForSamples, Based(e, b), Sorted(e.X), LineFits(e),
         NEW point \in Nat, point <= e.stop, b => point = e.stop \/ e.stop - point >= min_samples
  PROVE  InSamples(WithInflection(e, point), b)
  <1> DEFINE f == [e EXCEPT !.inflection_point = point]
  <1>1. WithInflection(e, point) = IF point # e.stop THEN FitQuadratic(f) ELSE StartNt(f)
      BY DEF WithInflection
  <1>2. /\ DOMAIN f = Fields /\ f.inflection_point = point
        /\ \A a \in Fields \ {"inflection_point"} : f[a] = e[a]
      BY FieldsAre DEF Based, Numbers
  <1> HIDE DEF f
  <1>3. /\ f.X = e.X /\ f.lower = e.lower /\ f.upper = e.upper /\ f.s = e.s /\ f.stop = e.stop
        /\ f.longest_linear = e.longest_linear /\ f.remaining = e.remaining
        /\ f.nt_upper_input_limit = e.nt_upper_input_limit /\ f.quadratic_fit = e.quadratic_fit
        /\ f.linear_fit = e.linear_fit
      BY <1>2, FieldsAre
  <1>4. Based(f, b) /\ Sorted(f.X) /\ LineFits(f)
      BY <1>2, <1>3 DEF Based, Numbers, Ample, LineFits
  <1>5. CASE point # e.stop
      <2>1. point < e.stop /\ e.stop \in Nat
          BY <1>5 DEF Based, Numbers
      <2>. QED  BY <1>1, <1>2, <1>3, <1>4, <1>5, <2>1, FitQuadraticSound
  <1>6. CASE point = e.stop
      <2>1. CurveFits(f) /\ f.remaining \in Nat /\ f.nt_upper_input_limit \in Nat /\ (b => Ample(f))
          BY <1>4 DEF Based, CurveFits, Numbers
      <2>. QED  BY <1>1, <1>2, <1>4, <1>6, <2>1, StartNtSound
  <1>. QED  BY <1>5, <1>6

\* Sorting keeps the samples.
LEMMA SortSound ==
  ASSUME NEW e, NEW b \in BOOLEAN, Based(e, b)
  PROVE  LET f == _sort_samples(e) IN
         /\ DOMAIN f = Fields /\ \A a \in Fields \ {"X"} : f[a] = e[a]
         /\ Based(f, b) /\ Sorted(f.X) /\ (TwoBelow(e) => TwoBelow(f)) /\ Len(f.X) = Len(e.X)
  <1> DEFINE f == _sort_samples(e)
             n == Len(e.X)
  <1>0. e.X \in Seq(Nat) /\ DOMAIN e = Fields
      BY DEF Based, Numbers
  <1>1. DOMAIN f = Fields /\ f.X = sort[e.X] /\ \A a \in Fields \ {"X"} : f[a] = e[a]
      BY <1>0, FieldsAre DEF _sort_samples
  <1> HIDE DEF f
  <1>2. /\ f.X \in Seq(Nat) /\ Len(f.X) = n /\ Sorted(f.X)
        /\ \A k \in 1 .. n : \E i \in 1 .. n : f.X[k] = e.X[i]
        /\ \A i \in 1 .. n : \E k \in 1 .. n : f.X[k] = e.X[i]
        /\ \A i, j \in 1 .. n : i # j => \E k, l \in 1 .. n : k # l /\ f.X[k] = e.X[i] /\ f.X[l] = e.X[j]
      <2>1. Reordered(f.X, e.X)
          BY <1>0, <1>1, SortIs
      <2>. QED  BY <2>1 DEF Reordered
  <1>3. /\ f.lower = e.lower /\ f.upper = e.upper /\ f.s = e.s /\ f.stop = e.stop
        /\ f.longest_linear = e.longest_linear /\ f.remaining = e.remaining
        /\ f.nt_upper_input_limit = e.nt_upper_input_limit /\ f.quadratic_fit = e.quadratic_fit
      BY <1>1, FieldsAre
  <1>4. \A k \in 1 .. n : f.X[k] <= e.stop
      BY <1>2 DEF Based
  <1>5. \E k \in 1 .. n : f.X[k] = e.stop
      BY <1>2 DEF Based
  <1>6. Based(f, b)
      BY <1>1, <1>2, <1>3, <1>4, <1>5 DEF Based, Numbers, Ample
  <1>7. ASSUME TwoBelow(e) PROVE TwoBelow(f)
      <2>1. CASE e.longest_linear > 0
          <3>1. PICK i \in 1 .. n, j \in 1 .. n :
                    i # j /\ e.X[i] < e.longest_linear /\ e.X[j] < e.longest_linear
              BY <1>7, <2>1 DEF TwoBelow
          <3>2. PICK k \in 1 .. n, l \in 1 .. n : k # l /\ f.X[k] = e.X[i] /\ f.X[l] = e.X[j]
              BY <1>2, <3>1
          <3>. QED  BY <1>2, <1>3, <3>1, <3>2 DEF TwoBelow
      <2>2. CASE ~(e.longest_linear > 0)
          BY <1>3, <2>2 DEF TwoBelow
      <2>. QED  BY <2>1, <2>2
  <1>. QED  BY <1>1, <1>2, <1>6, <1>7 DEF f, n

\* find_inflection_point.
LEMMA ContinueInflectionSound ==
  ASSUME NEW e, NEW b \in BOOLEAN, b => RoomForSamples, InInflection(e, b)
  PROVE  InInflection(ContinueInflection(e), b) \/ InSamples(ContinueInflection(e), b)
  <1>1. CASE e.upper - e.lower > STOPPING_DISTANCE
      BY <1>1, ContinueInflectionIs
  <1>2. CASE ~(e.upper - e.lower > STOPPING_DISTANCE)
      <2> DEFINE f == _sort_samples(e)
                 point == IF f.stop - f.s < STOPPING_DISTANCE THEN f.stop ELSE f.s
      <2>1. ContinueInflection(e) = WithInflection(f, point)
          BY <1>2, ContinueInflectionIs
      <2>2. /\ Based(e, b) /\ LineFits(e) /\ e.s \in Nat /\ e.stop \in Nat /\ e.s <= e.stop
            /\ e.X \in Seq(Nat) /\ DOMAIN e = Fields
          BY DEF InInflection, Based, Numbers
      <2>3. /\ DOMAIN f = Fields /\ \A a \in Fields \ {"X"} : f[a] = e[a]
            /\ Based(f, b) /\ Sorted(f.X)
          BY <2>2, SortSound
      <2> HIDE DEF f
      <2>4. f.stop = e.stop /\ f.s = e.s /\ f.longest_linear = e.longest_linear /\ f.linear_fit = e.linear_fit
          BY <2>3, FieldsAre
      <2>5. LineFits(f)
          BY <2>2, <2>4 DEF LineFits
      <2>6. STOPPING_DISTANCE \in Nat /\ min_samples \in Nat
          BY EstimatorAssumption
      <2>7. point \in Nat /\ point <= f.stop
          BY <2>2, <2>4, <2>6
      <2>8. ASSUME b PROVE point = f.stop \/ f.stop - point >= min_samples
          BY <2>2, <2>4, <2>6, <2>8 DEF RoomForSamples
      <2> HIDE DEF point
      <2>. QED  BY <2>1, <2>3, <2>5, <2>7, <2>8, WithInflectionSound
  <1>. QED  BY <1>1, <1>2

\* ... or its start.
LEMMA StartInflectionSound ==
  ASSUME NEW e, NEW b \in BOOLEAN, b => RoomForSamples, Based(e, b), Sorted(e.X), LineFits(e)
  PROVE  InInflection(StartInflection(e), b) \/ InSamples(StartInflection(e), b)
  <1> DEFINE mid == (e.longest_linear + e.stop) \div 2
             f == [e EXCEPT !.at = "inflection", !.lower = e.longest_linear, !.upper = e.stop, !.s = mid]
  <1>0. /\ DOMAIN e = Fields /\ e.longest_linear \in Nat /\ e.stop \in Nat /\ e.longest_linear <= e.stop
        /\ start_seq_len \in Nat /\ stop_seq_len \in Nat /\ min_samples \in Nat /\ STOPPING_DISTANCE \in Nat
      BY EstimatorAssumption DEF Based, Numbers
  <1>1. CASE start_seq_len < e.longest_linear /\ e.longest_linear < e.stop
      <2>1. StartInflection(e) = ContinueInflection(f)
          BY <1>1 DEF StartInflection
      <2>2. mid \in Nat /\ e.longest_linear <= mid /\ mid <= e.stop
          BY <1>0
      <2> HIDE DEF mid
      <2>3. /\ DOMAIN f = Fields /\ f.at = "inflection" /\ f.lower = e.longest_linear /\ f.upper = e.stop
            /\ f.s = mid /\ f.X = e.X /\ f.stop = e.stop /\ f.longest_linear = e.longest_linear
            /\ f.remaining = e.remaining /\ f.nt_upper_input_limit = e.nt_upper_input_limit
            /\ f.quadratic_fit = e.quadratic_fit /\ f.linear_fit = e.linear_fit
          BY <1>0, FieldsAre
      <2> HIDE DEF f
      <2>4. Based(f, b)
          BY <1>0, <2>2, <2>3 DEF Based, Numbers, Ample
      <2>5. InInflection(f, b)
          BY <1>0, <2>2, <2>3, <2>4 DEF InInflection, LineFits
      <2>. QED  BY <2>1, <2>5, ContinueInflectionSound
  <1>2. CASE ~(start_seq_len < e.longest_linear /\ e.longest_linear < e.stop)
      <2>1. StartInflection(e) = WithInflection(e, e.longest_linear)
          BY <1>2 DEF StartInflection
      <2>2. ASSUME b PROVE e.longest_linear = e.stop \/ e.stop - e.longest_linear >= min_samples
          <3>1. e.stop = stop_seq_len
              BY <2>2 DEF Based, Ample
          <3>. QED  BY <1>0, <1>2, <2>2, <3>1 DEF RoomForSamples
      <2>. QED  BY <1>0, <2>1, <2>2, WithInflectionSound
  <1>. QED  BY <1>1, <1>2

\* The samples that lie on the line too; then the line is fitted to all below its end.
LEMMA ContinueExistingSound ==
  ASSUME NEW e, NEW b \in BOOLEAN, b => RoomForSamples, InExisting(e, b)
  PROVE  Sound(ContinueExisting(e), b)
  <1>1. CASE e.index <= Len(e.X)
      <2>1. ContinueExisting(e) = e
          BY <1>1 DEF ContinueExisting
      <2>. QED  BY <1>1, <2>1 DEF Sound
  <1>2. CASE ~(e.index <= Len(e.X))
      <2> DEFINE B == Below(e.X, e.longest_linear)
                 f == [e EXCEPT !.linear_fit = B]
      <2>1. ContinueExisting(e) = StartInflection(f)
          BY <1>2 DEF ContinueExisting
      <2>2. Based(e, b) /\ Sorted(e.X) /\ TwoBelow(e) /\ e.X \in Seq(Nat) /\ e.longest_linear \in Nat
            /\ DOMAIN e = Fields
          BY DEF InExisting, Based, Numbers
      <2>3. e.longest_linear > 0 => Len(B) > 1
          BY <2>2, TwoBelowIsLine DEF TwoBelow
      <2> HIDE DEF B
      <2>4. /\ DOMAIN f = Fields /\ f.linear_fit = B /\ f.lower = e.lower /\ f.upper = e.upper
            /\ f.s = e.s /\ f.X = e.X /\ f.stop = e.stop /\ f.longest_linear = e.longest_linear
            /\ f.remaining = e.remaining /\ f.nt_upper_input_limit = e.nt_upper_input_limit
            /\ f.quadratic_fit = e.quadratic_fit
          BY <2>2, FieldsAre
      <2> HIDE DEF f
      <2>5. Based(f, b) /\ Sorted(f.X) /\ LineFits(f)
          BY <2>2, <2>3, <2>4 DEF Based, Numbers, Ample, LineFits
      <2>. QED  BY <2>1, <2>5, StartInflectionSound DEF Sound
  <1>. QED  BY <1>1, <1>2

\* The least element of a set of numbers.
LEMMA MinIs ==
  ASSUME NEW S \in SUBSET Nat, S # {}
  PROVE  Min(S) \in S /\ \A x \in S : Min(S) <= x
  <1>1. \E x \in S : \A y \in S : x <= y
      BY LeastNat
  <1>. QED  BY <1>1 DEF Min

\* The way from find_linear_part to the samples that are there.
LEMMA StartExistingSound ==
  ASSUME NEW e, NEW b \in BOOLEAN, b => RoomForSamples, Based(e, b), TwoBelow(e)
  PROVE  Sound(StartExisting(e), b)
  <1> DEFINE f == _sort_samples(e)
             S == {Len(f.X) + 1} \cup {k \in DOMAIN f.X : f.X[k] > f.longest_linear}
             g == [f EXCEPT !.at = "existing", !.index = Min(S)]
  <1>1. StartExisting(e) = IF f.longest_linear = 0 THEN StartInflection(f) ELSE ContinueExisting(g)
      BY StartExistingIs
  <1>2. DOMAIN f = Fields /\ Based(f, b) /\ Sorted(f.X) /\ TwoBelow(f)
      BY SortSound
  <1> HIDE DEF f
  <1>3. f.X \in Seq(Nat) /\ Len(f.X) \in Nat /\ DOMAIN f.X = 1 .. Len(f.X) /\ f.longest_linear \in Nat
      <2>1. f.X \in Seq(Nat) /\ f.longest_linear \in Nat
          BY <1>2 DEF Based, Numbers
      <2>. QED  BY <2>1
  <1>4. CASE f.longest_linear = 0
      <2>1. LineFits(f)
          BY <1>4 DEF LineFits
      <2>. QED  BY <1>1, <1>2, <1>4, <2>1, StartInflectionSound DEF Sound
  <1>5. CASE f.longest_linear # 0
      <2> DEFINE i == Min(S)
      <2>1. i \in S /\ \A k \in S : i <= k
          <3>1. S \in SUBSET Nat /\ S # {}
              BY <1>3
          <3> HIDE DEF S
          <3>. QED  BY <3>1, MinIs
      <2>2. i \in Nat /\ i > 0
          BY <1>3, <2>1
      <2>3. ASSUME NEW k \in 1 .. Len(f.X), k >= i PROVE f.X[k] >= f.longest_linear
          <3>1. i \in 1 .. Len(f.X)
              BY <1>3, <2>2, <2>3
          <3>2. f.X[i] > f.longest_linear
              BY <1>3, <2>1, <3>1
          <3>3. f.X[i] <= f.X[k] /\ f.X[i] \in Nat /\ f.X[k] \in Nat
              <4> HIDE DEF i, S
              <4>1. i <= k /\ f.X[i] \in Nat /\ f.X[k] \in Nat
                  BY <1>3, <2>2, <2>3, <3>1
              <4>. QED  BY <1>2, <3>1, <4>1 DEF Sorted
          <3>. QED  BY <1>3, <3>2, <3>3
      <2> HIDE DEF i
      <2>4. /\ DOMAIN g = Fields /\ g.at = "existing" /\ g.index = i /\ g.lower = f.lower
            /\ g.upper = f.upper /\ g.s = f.s /\ g.X = f.X /\ g.stop = f.stop
            /\ g.longest_linear = f.longest_linear /\ g.remaining = f.remaining
            /\ g.nt_upper_input_limit = f.nt_upper_input_limit /\ g.quadratic_fit = f.quadratic_fit
          BY <1>2, FieldsAre DEF i
      <2> HIDE DEF g
      <2>5. Based(g, b)
          BY <1>2, <2>4 DEF Based, Numbers, Ample
      <2>6. InExisting(g, b)
          BY <1>2, <1>3, <1>5, <2>2, <2>3, <2>4, <2>5 DEF InExisting, TwoBelow
      <2>. QED  BY <1>1, <1>5, <2>6, ContinueExistingSound
  <1>. QED  BY <1>4, <1>5

\* find_linear_part halves on or goes to the samples that are there.
LEMMA ContinueLinearSound ==
  ASSUME NEW e, NEW b \in BOOLEAN, b => RoomForSamples, InHalving(e, b)
  PROVE  Sound(ContinueLinear(e), b)
  <1>0. /\ DOMAIN e = Fields /\ e.lower \in Nat /\ e.upper \in Nat /\ Based(e, b)
        /\ e.longest_linear = 0
      BY DEF InHalving, Based, Numbers
  <1>1. CASE e.lower <= e.upper - 1
      <2> DEFINE mid == (e.lower + e.upper) \div 2
                 f == [e EXCEPT !.s = mid]
      <2>1. ContinueLinear(e) = f
          BY <1>1 DEF ContinueLinear
      <2>2. mid \in Nat /\ e.lower <= mid /\ mid < e.upper
          BY <1>0, <1>1
      <2> HIDE DEF mid
      <2>3. /\ DOMAIN f = Fields /\ f.at = e.at /\ f.s = mid /\ f.lower = e.lower
            /\ f.upper = e.upper /\ f.X = e.X /\ f.stop = e.stop
            /\ f.longest_linear = e.longest_linear /\ f.remaining = e.remaining
            /\ f.nt_upper_input_limit = e.nt_upper_input_limit /\ f.quadratic_fit = e.quadratic_fit
          BY <1>0, FieldsAre
      <2> HIDE DEF f
      <2>4. Based(f, b)
          BY <1>0, <2>2, <2>3 DEF Based, Numbers, Ample
      <2>5. InLinear(f, b)
          BY <1>0, <2>2, <2>3, <2>4 DEF InLinear, InHalving
      <2>. QED  BY <2>1, <2>5 DEF Sound
  <1>2. CASE ~(e.lower <= e.upper - 1)
      <2>1. TwoBelow(e)
          BY <1>0 DEF TwoBelow
      <2>. QED  BY <1>0, <1>2, <2>1, StartExistingSound DEF ContinueLinear
  <1>. QED  BY <1>1, <1>2

\* find_upper_bound: what fits is the base of all that follows.
LEMMA StartLinearSound ==
  ASSUME NEW e, NEW b \in BOOLEAN, b => RoomForSamples, Numbers(e), e.quadratic_fit = <<>>,
         e.longest_linear = 0, Len(e.X) > 1, e.X[1] = 0, \A k \in 1 .. Len(e.X) : e.X[k] <= e.lower,
         e.X[Len(e.X)] = e.lower, b => Ample(e) /\ e.lower = stop_seq_len
  PROVE  Sound(StartLinear(e), b)
  <1> DEFINE f == [e EXCEPT !.at = "linear", !.upper = FirstSample(e),
                            !.lower = Min({start_seq_len, FirstSample(e)}),
                            !.stop = e.lower, !.enable_nt_sampling = TRUE,
                            !.nt_upper_input_limit = NtLimit(e.lower)]
  <1>1. StartLinear(e) = ContinueLinear(f)
      BY DEF StartLinear
  <1>2. /\ DOMAIN e = Fields /\ e.X \in Seq(Nat) /\ Len(e.X) \in Nat /\ e.X[2] \in Nat /\ e.lower \in Nat
        /\ e.X[2] <= e.lower /\ start_seq_len \in Nat
      BY EstimatorAssumption, SMTT(30) DEF Numbers
  <1>3. Min({start_seq_len, e.X[2]}) \in Nat /\ Min({start_seq_len, e.X[2]}) <= e.X[2]
      BY <1>2, MinOfTwo
  <1>4. NtLimit(e.lower) \in Nat
      BY <1>2 DEF NtLimit
  <1>5. /\ DOMAIN f = Fields /\ f.at = "linear" /\ f.X = e.X /\ f.upper = e.X[2] /\ f.stop = e.lower
        /\ f.lower = Min({start_seq_len, e.X[2]}) /\ f.nt_upper_input_limit = NtLimit(e.lower)
        /\ f.s = e.s /\ f.longest_linear = e.longest_linear /\ f.remaining = e.remaining
        /\ f.quadratic_fit = e.quadratic_fit
      BY <1>2, FieldsAre DEF FirstSample
  <1> HIDE DEF f
  <1>6. Numbers(f)
      BY <1>2, <1>3, <1>4, <1>5 DEF Numbers
  <1>7. b => Ample(f)
      BY <1>5 DEF Ample
  <1>8. Len(e.X) \in 1 .. Len(e.X)
      BY <1>2
  <1>9. Based(f, b)
      BY <1>2, <1>5, <1>6, <1>7, <1>8 DEF Based
  <1>10. InHalving(f, b)
      BY <1>2, <1>3, <1>5, <1>9 DEF InHalving
  <1>. QED  BY <1>1, <1>10, ContinueLinearSound

\* A test of find_upper_bound.
LEMMA UpperStepSound ==
  ASSUME NEW e, NEW b \in BOOLEAN, b => RoomForSamples, InUpper(e, b), NEW oom \in BOOLEAN, b => ~oom
  PROVE  Sound(UpperStep(e, oom), b)
  <1>0. /\ DOMAIN e = Fields /\ e.X \in Seq(Nat) /\ Len(e.X) \in Nat /\ Len(e.X) > 0
        /\ e.lower \in Nat /\ e.upper \in Nat /\ e.s \in Nat /\ e.stop \in Nat
        /\ e.lower <= e.s /\ e.s <= e.upper /\ CurveFits(e)
        /\ stop_seq_len \in Nat /\ STOPPING_DISTANCE \in Nat
      BY EstimatorAssumption DEF InUpper, Numbers, CurveFits
  <1>1. ASSUME NEW f, InUpper(f, b) \/ (b /\ InUpper(f, FALSE) /\ f.upper = stop_seq_len),
               b => Len(f.X) > 1 /\ f.lower = stop_seq_len /\ f.upper = stop_seq_len /\ Ample(f)
        PROVE  Sound(ContinueUpper(f), b)
      <2>0. /\ Numbers(f) /\ f.quadratic_fit = <<>> /\ f.longest_linear = 0 /\ f.X[1] = 0
            /\ \A k \in 1 .. Len(f.X) : f.X[k] <= f.lower
            /\ Len(f.X) > 1 => f.X[Len(f.X)] = f.lower
            /\ DOMAIN f = Fields /\ CurveFits(f)
          BY <1>1 DEF InUpper, Numbers, CurveFits
      <2>1. CASE f.upper - f.lower > STOPPING_DISTANCE
          <3>1. ~b
              BY <1>0, <1>1, <2>1
          <3>2. ContinueUpper(f) = f
              BY <2>1 DEF ContinueUpper
          <3>. QED  BY <1>1, <3>1, <3>2 DEF Sound
      <2>2. CASE ~(f.upper - f.lower > STOPPING_DISTANCE) /\ Len(f.X) > 1
          <3>1. ContinueUpper(f) = StartLinear(f)
              BY <2>2 DEF ContinueUpper
          <3>. QED  BY <1>1, <2>0, <2>2, <3>1, StartLinearSound
      <2>3. CASE ~(f.upper - f.lower > STOPPING_DISTANCE) /\ ~(Len(f.X) > 1)
          <3>1. ~b
              BY <1>1, <2>3
          <3>2. ContinueUpper(f) = Fail(f)
              BY <2>3 DEF ContinueUpper
          <3>. QED  BY <2>0, <3>1, <3>2, FailSound DEF Sound
      <2>. QED  BY <2>1, <2>2, <2>3
  <1>2. CASE oom
      <2> DEFINE mid == (e.s + e.lower) \div 2
                 f == AfterOom(e)
      <2>1. UpperStep(e, oom) = ContinueUpper(f) /\ ~b
          BY <1>2 DEF UpperStep
      <2>2. mid \in Nat /\ e.lower <= mid /\ mid <= e.s
          BY <1>0
      <2>3. /\ DOMAIN f = Fields /\ f.at = e.at /\ f.upper = e.s /\ f.s = mid /\ f.lower = e.lower
            /\ f.X = e.X /\ f.stop = e.stop /\ f.longest_linear = e.longest_linear
            /\ f.remaining = e.remaining /\ f.nt_upper_input_limit = e.nt_upper_input_limit
            /\ f.quadratic_fit = e.quadratic_fit
          BY <1>0, FieldsAre DEF AfterOom
      <2> HIDE DEF f, mid
      <2>4. Numbers(f)
          BY <1>0, <2>2, <2>3 DEF InUpper, Numbers
      <2>5. InUpper(f, b)
          BY <1>0, <2>1, <2>2, <2>3, <2>4 DEF InUpper
      <2>. QED  BY <1>1, <2>1, <2>5
  <1>3. CASE ~oom
      <2> DEFINE mid == (e.s + e.upper) \div 2
                 m == Measured(e, e.s)
                 f == [m EXCEPT !.lower = e.s, !.s = mid]
      <2>1. UpperStep(e, oom) = ContinueUpper(f)
          BY <1>3 DEF UpperStep
      <2>2. mid \in Nat /\ e.s <= mid /\ mid <= e.upper
          BY <1>0
      <2> HIDE DEF mid
      <2>3. DOMAIN m = Fields /\ m.X = Append(e.X, e.s) /\ \A a \in Fields \ {"X"} : m[a] = e[a]
          BY <1>0, FieldsAre DEF Measured
      <2> HIDE DEF m
      <2>4. /\ DOMAIN f = Fields /\ f.at = m.at /\ f.upper = m.upper /\ f.s = mid /\ f.lower = e.s
            /\ f.X = m.X /\ f.stop = m.stop /\ f.longest_linear = m.longest_linear
            /\ f.remaining = m.remaining /\ f.nt_upper_input_limit = m.nt_upper_input_limit
            /\ f.quadratic_fit = m.quadratic_fit
          BY <2>3, FieldsAre
      <2> HIDE DEF f
      <2>5. /\ f.at = e.at /\ f.upper = e.upper /\ f.X = Append(e.X, e.s) /\ f.stop = e.stop
            /\ f.longest_linear = e.longest_linear /\ f.remaining = e.remaining
            /\ f.nt_upper_input_limit = e.nt_upper_input_limit /\ f.quadratic_fit = e.quadratic_fit
          BY <2>3, <2>4, FieldsAre
      <2>6. Len(f.X) = Len(e.X) + 1 /\ f.X \in Seq(Nat)
            /\ f.X[Len(e.X) + 1] = e.s /\ \A k \in 1 .. Len(e.X) : f.X[k] = e.X[k] /\ e.X[k] \in Nat
          BY <1>0, <2>5
      <2>7. \A k \in 1 .. Len(f.X) : f.X[k] <= e.s
          <3>1. ASSUME NEW k \in 1 .. Len(e.X) PROVE f.X[k] <= e.s
              <4>1. e.X[k] <= e.lower
                  BY DEF InUpper
              <4>2. f.X[k] = e.X[k] /\ e.X[k] \in Nat
                  BY <2>6
              <4>. QED  BY <1>0, <4>1, <4>2
          <3>2. \A k \in 1 .. Len(f.X) : k \in 1 .. Len(e.X) \/ k = Len(e.X) + 1
              BY <1>0, <2>6
          <3>. QED  BY <1>0, <2>6, <3>1, <3>2
      <2>8. Numbers(f)
          BY <1>0, <2>2, <2>4, <2>5, <2>6 DEF InUpper, Numbers
      <2>9. InUpper(f, FALSE) /\ Len(f.X) > 1
          BY <1>0, <2>2, <2>4, <2>5, <2>6, <2>7, <2>8 DEF InUpper
      <2>10. b => f.lower = stop_seq_len /\ f.upper = stop_seq_len /\ Ample(f)
          BY <2>4, <2>5 DEF InUpper, Ample
      <2>11. InUpper(f, b) \/ (b /\ InUpper(f, FALSE) /\ f.upper = stop_seq_len)
          BY <2>9, <2>10
      <2>. QED  BY <1>1, <2>1, <2>9, <2>10, <2>11
  <1>. QED  BY <1>2, <1>3

\* Sampling next tokens, in memory or not.
LEMMA SamplingSound ==
  ASSUME NEW e, DOMAIN e = Fields, e.remaining \in Nat, e.nt_upper_input_limit \in Nat,
         NEW x \in Nat, NEW b \in BOOLEAN, NEW nt_oom \in BOOLEAN, b => ~nt_oom /\ Ample(e)
  PROVE  LET f == sample_next_token(e, x, nt_oom) IN
         /\ DOMAIN f = Fields /\ \A a \in Fields \ {"remaining", "nt_upper_input_limit"} : f[a] = e[a]
         /\ f.remaining \in Nat /\ f.nt_upper_input_limit \in Nat /\ (b => Ample(f))
  <1> DEFINE f == sample_next_token(e, x, nt_oom)
  <1>1. DOMAIN f = Fields /\ \A a \in Fields \ {"remaining", "nt_upper_input_limit"} : f[a] = e[a]
      BY SamplingKeeps
  <1>2. f.stop = e.stop
      <2> HIDE DEF f
      <2>. QED  BY <1>1, FieldsAre
  <1>3. CASE ~needs_nt(e) \/ x >= e.nt_upper_input_limit
      <2>1. f = e
          BY <1>3 DEF sample_next_token
      <2>. QED  BY <1>1, <2>1
  <1>4. CASE ~(~needs_nt(e) \/ x >= e.nt_upper_input_limit) /\ nt_oom
      <2>1. f = [e EXCEPT !.nt_upper_input_limit = x]
          BY <1>4 DEF sample_next_token
      <2>2. f.remaining = e.remaining /\ f.nt_upper_input_limit = x
          BY <2>1, FieldsAre
      <2>. QED  BY <1>1, <1>4, <2>2
  <1>5. CASE ~(~needs_nt(e) \/ x >= e.nt_upper_input_limit) /\ ~nt_oom
      <2>1. f = [e EXCEPT !.remaining = @ - 1]
          BY <1>5 DEF sample_next_token
      <2>2. f.remaining = e.remaining - 1 /\ f.nt_upper_input_limit = e.nt_upper_input_limit
          BY <2>1, FieldsAre
      <2>3. e.remaining > 0
          BY <1>5 DEF needs_nt
      <2> HIDE DEF f
      <2>4. f.remaining \in Nat /\ f.remaining <= e.remaining /\ new_token_samples \in Nat
          BY <2>2, <2>3, EstimatorAssumption
      <2>5. b => Ample(f)
          BY <1>2, <2>2, <2>4 DEF Ample
      <2>. QED  BY <1>1, <2>2, <2>4, <2>5 DEF f
  <1>. QED  BY <1>3, <1>4, <1>5

\* A sample is taken: it is added to the others, next tokens may be sampled.
LEMMA MeasuredSound ==
  ASSUME NEW e, NEW b \in BOOLEAN, Based(e, b), e.s <= e.stop, NEW nt_oom \in BOOLEAN, b => ~nt_oom
  PROVE  LET d == sample_next_token(Measured(e, e.s), e.s, nt_oom) IN
         /\ Based(d, b) /\ d.X = Append(e.X, e.s)
         /\ \A a \in Fields \ {"X", "remaining", "nt_upper_input_limit"} : d[a] = e[a]
         /\ Len(d.X) = Len(e.X) + 1 /\ d.X[Len(e.X) + 1] = e.s /\ \A k \in 1 .. Len(e.X) : d.X[k] = e.X[k]
  <1> DEFINE m == Measured(e, e.s)
             d == sample_next_token(m, e.s, nt_oom)
  <1>0. /\ DOMAIN e = Fields /\ e.X \in Seq(Nat) /\ Len(e.X) \in Nat /\ e.s \in Nat /\ e.stop \in Nat
        /\ e.remaining \in Nat /\ e.nt_upper_input_limit \in Nat
      BY DEF Based, Numbers
  <1>1. DOMAIN m = Fields /\ m.X = Append(e.X, e.s) /\ \A a \in Fields \ {"X"} : m[a] = e[a]
      BY <1>0, FieldsAre DEF Measured
  <1> HIDE DEF m
  <1>2. m.remaining = e.remaining /\ m.nt_upper_input_limit = e.nt_upper_input_limit /\ m.stop = e.stop
      BY <1>1, FieldsAre
  <1>3. b => Ample(m)
      BY <1>2 DEF Ample, Based
  <1>4. /\ DOMAIN d = Fields /\ \A a \in Fields \ {"remaining", "nt_upper_input_limit"} : d[a] = m[a]
        /\ d.remaining \in Nat /\ d.nt_upper_input_limit \in Nat /\ (b => Ample(d))
      <2>1. m.remaining \in Nat /\ m.nt_upper_input_limit \in Nat /\ (b => ~nt_oom /\ Ample(m))
          BY <1>0, <1>2, <1>3
      <2>2. DOMAIN d = Fields /\ \A a \in Fields \ {"remaining", "nt_upper_input_limit"} : d[a] = m[a]
          BY <1>1, SamplingKeeps
      <2>3. d.remaining \in Nat /\ d.nt_upper_input_limit \in Nat /\ (b => Ample(d))
          BY <1>0, <1>1, <2>1, SamplingSound
      <2> HIDE DEF d
      <2>. QED  BY <2>2, <2>3
  <1> HIDE DEF d
  <1>5. /\ d.X = Append(e.X, e.s)
        /\ \A a \in Fields \ {"X", "remaining", "nt_upper_input_limit"} : d[a] = e[a]
      BY <1>1, <1>4, FieldsAre
  <1>6. /\ d.lower = e.lower /\ d.upper = e.upper /\ d.s = e.s /\ d.stop = e.stop
        /\ d.longest_linear = e.longest_linear /\ d.quadratic_fit = e.quadratic_fit
      BY <1>5, FieldsAre
  <1>7. Len(d.X) = Len(e.X) + 1 /\ d.X \in Seq(Nat)
        /\ d.X[Len(e.X) + 1] = e.s /\ \A k \in 1 .. Len(e.X) : d.X[k] = e.X[k]
      BY <1>0, <1>5
  <1>8. \A k \in 1 .. Len(d.X) : k \in 1 .. Len(e.X) \/ k = Len(e.X) + 1
      BY <1>0, <1>7
  <1>9. \A k \in 1 .. Len(d.X) : d.X[k] <= e.stop
      BY <1>7, <1>8 DEF Based
  <1>10. \E k \in 1 .. Len(d.X) : d.X[k] = e.stop
      <2>1. PICK k \in 1 .. Len(e.X) : e.X[k] = e.stop
          BY DEF Based
      <2>2. k \in 1 .. Len(d.X)
          BY <1>0, <1>7
      <2>. QED  BY <1>7, <2>1, <2>2
  <1>11. Based(d, b)
      BY <1>4, <1>6, <1>7, <1>9, <1>10 DEF Based, Numbers
  <1>. QED  BY <1>5, <1>7, <1>11 DEF d, m

\* A test of find_linear_part: with an error within the threshold the line reaches up to
\* the last end, and the shorter length just measured is below that.
LEMMA LinearStepSound ==
  ASSUME NEW e, NEW b \in BOOLEAN, b => RoomForSamples, InLinear(e, b),
         NEW nt_oom \in BOOLEAN, b => ~nt_oom, NEW within \in BOOLEAN
  PROVE  Sound(LinearStep(sample_next_token(Measured(e, e.s), e.s, nt_oom), within), b)
  <1> DEFINE d == sample_next_token(Measured(e, e.s), e.s, nt_oom)
  <1>0. /\ Based(e, b) /\ DOMAIN e = Fields /\ e.X \in Seq(Nat) /\ Len(e.X) \in Nat /\ Len(e.X) > 0
        /\ e.X[1] = 0 /\ e.lower \in Nat /\ e.upper \in Nat /\ e.s \in Nat /\ e.stop \in Nat
        /\ e.lower <= e.s /\ e.s < e.upper /\ e.upper <= e.stop /\ e.at = "linear" /\ e.longest_linear = 0
      BY DEF InLinear, InHalving, Based, Numbers
  <1>1. e.s <= e.stop
      BY <1>0
  <1>2. /\ Based(d, b) /\ d.X = Append(e.X, e.s)
        /\ \A a \in Fields \ {"X", "remaining", "nt_upper_input_limit"} : d[a] = e[a]
        /\ Len(d.X) = Len(e.X) + 1 /\ d.X[Len(e.X) + 1] = e.s /\ \A k \in 1 .. Len(e.X) : d.X[k] = e.X[k]
      BY <1>0, <1>1, MeasuredSound, SMTT(30)
  <1> HIDE DEF d
  <1>3. /\ d.lower = e.lower /\ d.upper = e.upper /\ d.s = e.s /\ d.stop = e.stop /\ d.at = e.at
        /\ d.longest_linear = 0 /\ DOMAIN d = Fields /\ d.X[1] = 0
      BY <1>0, <1>2, FieldsAre DEF Based, Numbers
  <1>4. CASE within
      <2> DEFINE f == [d EXCEPT !.longest_linear = LinearUpTo(d)]
      <2>1. LinearStep(d, within) = StartExisting(f)
          BY <1>4 DEF LinearStep
      <2>2. /\ DOMAIN f = Fields /\ f.longest_linear = e.upper /\ f.lower = d.lower /\ f.upper = d.upper
            /\ f.s = d.s /\ f.X = d.X /\ f.stop = d.stop /\ f.remaining = d.remaining
            /\ f.nt_upper_input_limit = d.nt_upper_input_limit /\ f.quadratic_fit = d.quadratic_fit
          BY <1>3, FieldsAre DEF LinearUpTo
      <2> HIDE DEF f
      <2>3. Based(f, b)
          BY <1>0, <1>2, <1>3, <2>2 DEF Based, Numbers, Ample
      <2>4. TwoBelow(f)
          <3>1. /\ 1 \in 1 .. Len(f.X) /\ Len(e.X) + 1 \in 1 .. Len(f.X) /\ 1 # Len(e.X) + 1
                /\ f.X[1] < f.longest_linear /\ f.X[Len(e.X) + 1] < f.longest_linear
              BY <1>0, <1>2, <1>3, <2>2
          <3>. QED  BY <3>1 DEF TwoBelow
      <2>. QED  BY <2>1, <2>3, <2>4, StartExistingSound DEF d
  <1>5. CASE ~within
      <2> DEFINE f == [d EXCEPT !.upper = d.s]
      <2>1. LinearStep(d, within) = ContinueLinear(f)
          BY <1>5 DEF LinearStep
      <2>2. /\ DOMAIN f = Fields /\ f.longest_linear = 0 /\ f.lower = d.lower /\ f.upper = d.s
            /\ f.s = d.s /\ f.X = d.X /\ f.stop = d.stop /\ f.remaining = d.remaining /\ f.at = d.at
            /\ f.nt_upper_input_limit = d.nt_upper_input_limit /\ f.quadratic_fit = d.quadratic_fit
          BY <1>3, FieldsAre
      <2> HIDE DEF f
      <2>3. Based(f, b)
          BY <1>0, <1>2, <1>3, <2>2 DEF Based, Numbers, Ample
      <2>4. InHalving(f, b)
          BY <1>0, <1>1, <1>2, <1>3, <2>2, <2>3 DEF InHalving
      <2>. QED  BY <2>1, <2>4, ContinueLinearSound DEF d
  <1>. QED  BY <1>4, <1>5

\* The next of the samples that are there.
LEMMA ExistingStepSound ==
  ASSUME NEW e, NEW b \in BOOLEAN, b => RoomForSamples, InExisting(e, b), e.index <= Len(e.X),
         NEW within \in BOOLEAN
  PROVE  Sound(ExistingStep(e, within), b)
  <1>0. /\ Based(e, b) /\ DOMAIN e = Fields /\ e.X \in Seq(Nat) /\ Len(e.X) \in Nat
        /\ e.index \in 1 .. Len(e.X) /\ e.at = "existing" /\ Sorted(e.X) /\ TwoBelow(e)
        /\ e.longest_linear > 0
        /\ e.longest_linear \in Nat /\ \A k \in 1 .. Len(e.X) : k >= e.index => e.X[k] >= e.longest_linear
      <2>1. e.X \in Seq(Nat) /\ e.index \in Nat /\ e.index > 0
          BY DEF InExisting, Based, Numbers
      <2>2. Len(e.X) \in Nat /\ e.index \in 1 .. Len(e.X)
          BY <2>1
      <2>. QED  BY <2>1, <2>2 DEF InExisting, Based, Numbers
  <1>1. \A k \in 1 .. Len(e.X) : e.X[k] \in Nat
      BY <1>0
  <1>2. CASE within
      <2> DEFINE y == e.X[e.index]
                 f == [e EXCEPT !.longest_linear = y, !.index = @ + 1]
      <2>1. ExistingStep(e, within) = ContinueExisting(f)
          BY <1>2 DEF ExistingStep
      <2>2. y \in Nat /\ y >= e.longest_linear /\ y <= e.stop
            /\ \A k \in 1 .. Len(e.X) : k >= e.index => e.X[k] >= y
          <3>1. e.index >= e.index
              BY <1>0
          <3>2. y \in Nat /\ y >= e.longest_linear /\ y <= e.stop
              BY <1>0, <1>1, <3>1 DEF Based
          <3>3. ASSUME NEW k \in 1 .. Len(e.X), k >= e.index PROVE e.X[k] >= y
              <4>1. e.index <= k
                  BY <1>0, <3>3
              <4>2. e.X[e.index] <= e.X[k]
                  BY <1>0, <4>1 DEF Sorted
              <4>. QED  BY <1>0, <1>1, <4>2
          <3>. QED  BY <3>2, <3>3
      <2> HIDE DEF y
      <2>3. /\ DOMAIN f = Fields /\ f.at = "existing" /\ f.index = e.index + 1 /\ f.longest_linear = y
            /\ f.lower = e.lower /\ f.upper = e.upper /\ f.s = e.s /\ f.X = e.X /\ f.stop = e.stop
            /\ f.remaining = e.remaining /\ f.nt_upper_input_limit = e.nt_upper_input_limit
            /\ f.quadratic_fit = e.quadratic_fit
          BY <1>0, FieldsAre
      <2> HIDE DEF f
      <2>4. Based(f, b)
          BY <1>0, <2>2, <2>3 DEF Based, Numbers, Ample
      <2>5. TwoBelow(f)
          <3>1. PICK i \in 1 .. Len(e.X), j \in 1 .. Len(e.X) :
                    i # j /\ e.X[i] < e.longest_linear /\ e.X[j] < e.longest_linear
              BY <1>0 DEF TwoBelow
          <3>2. e.X[i] < y /\ e.X[j] < y
              BY <1>0, <1>1, <2>2, <3>1
          <3>. QED  BY <2>3, <3>1, <3>2 DEF TwoBelow
      <2>6. \A k \in 1 .. Len(f.X) : k >= f.index => f.X[k] >= f.longest_linear
          <3>1. \A k \in 1 .. Len(e.X) : k >= e.index + 1 => k >= e.index
              BY <1>0
          <3>. QED  BY <2>2, <2>3, <3>1
      <2>7. InExisting(f, b)
          BY <1>0, <2>2, <2>3, <2>4, <2>5, <2>6 DEF InExisting
      <2>. QED  BY <2>1, <2>7, ContinueExistingSound
  <1>3. CASE ~within
      <2> DEFINE n == Len(e.X) + 1
                 f == [e EXCEPT !.index = n]
      <2>1. ExistingStep(e, within) = ContinueExisting(f)
          BY <1>3 DEF ExistingStep
      <2>2. n \in Nat /\ n > 0 /\ \A k \in 1 .. Len(e.X) : ~(k >= n)
          BY <1>0
      <2> HIDE DEF n
      <2>3. /\ DOMAIN f = Fields /\ f.at = "existing" /\ f.index = n /\ f.longest_linear = e.longest_linear
            /\ f.lower = e.lower /\ f.upper = e.upper /\ f.s = e.s /\ f.X = e.X /\ f.stop = e.stop
            /\ f.remaining = e.remaining /\ f.nt_upper_input_limit = e.nt_upper_input_limit
            /\ f.quadratic_fit = e.quadratic_fit
          BY <1>0, FieldsAre
      <2> HIDE DEF f
      <2>4. Based(f, b)
          BY <1>0, <2>3 DEF Based, Numbers, Ample
      <2>5. InExisting(f, b)
          BY <1>0, <2>2, <2>3, <2>4 DEF InExisting, TwoBelow
      <2>. QED  BY <2>1, <2>5, ContinueExistingSound
  <1>. QED  BY <1>2, <1>3

\* A test of find_inflection_point.
LEMMA InflectionStepSound ==
  ASSUME NEW e, NEW b \in BOOLEAN, b => RoomForSamples, InInflection(e, b),
         NEW nt_oom \in BOOLEAN, b => ~nt_oom, NEW within \in BOOLEAN
  PROVE  Sound(InflectionStep(sample_next_token(Measured(e, e.s), e.s, nt_oom), within), b)
  <1> DEFINE d == sample_next_token(Measured(e, e.s), e.s, nt_oom)
             f == IF within THEN [d EXCEPT !.lower = d.s] ELSE [d EXCEPT !.upper = d.s]
             mid == (f.lower + f.upper) \div 2
             g == [f EXCEPT !.s = mid]
  <1>0. /\ Based(e, b) /\ DOMAIN e = Fields /\ LineFits(e) /\ e.lower \in Nat /\ e.upper \in Nat
        /\ e.s \in Nat /\ e.stop \in Nat
        /\ e.lower <= e.s /\ e.s <= e.upper /\ e.upper <= e.stop /\ e.at = "inflection"
      BY DEF InInflection, Based, Numbers
  <1>1. e.s <= e.stop
      BY <1>0
  <1>2. Based(d, b) /\ \A a \in Fields \ {"X", "remaining", "nt_upper_input_limit"} : d[a] = e[a]
      BY <1>0, <1>1, MeasuredSound
  <1>3. InflectionStep(d, within) = ContinueInflection(g)
      BY DEF InflectionStep
  <1> HIDE DEF d
  <1>4. /\ d.lower = e.lower /\ d.upper = e.upper /\ d.s = e.s /\ d.stop = e.stop /\ d.at = e.at
        /\ d.longest_linear = e.longest_linear /\ d.linear_fit = e.linear_fit /\ DOMAIN d = Fields
      BY <1>0, <1>2, FieldsAre DEF Based, Numbers
  <1>5. /\ DOMAIN f = Fields /\ \A a \in Fields \ {"lower", "upper"} : f[a] = d[a]
        /\ f.lower \in Nat /\ f.upper \in Nat /\ f.lower <= f.upper /\ f.upper <= e.stop
      <2>1. CASE within
          BY <1>0, <1>4, <2>1, FieldsAre
      <2>2. CASE ~within
          BY <1>0, <1>1, <1>4, <2>2, FieldsAre
      <2>. QED  BY <2>1, <2>2
  <1> HIDE DEF f
  <1>6. mid \in Nat /\ f.lower <= mid /\ mid <= f.upper
      BY <1>5
  <1> HIDE DEF mid
  <1>7. DOMAIN g = Fields /\ g.s = mid /\ \A a \in Fields \ {"s"} : g[a] = f[a]
      BY <1>5, FieldsAre
  <1> HIDE DEF g
  <1>8. /\ g.at = d.at /\ g.X = d.X /\ g.stop = d.stop /\ g.longest_linear = d.longest_linear
        /\ g.remaining = d.remaining /\ g.nt_upper_input_limit = d.nt_upper_input_limit
        /\ g.quadratic_fit = d.quadratic_fit /\ g.linear_fit = d.linear_fit
        /\ g.lower = f.lower /\ g.upper = f.upper
      BY <1>5, <1>7, FieldsAre
  <1>9. Based(g, b)
      BY <1>2, <1>5, <1>6, <1>7, <1>8 DEF Based, Numbers, Ample
  <1>10. InInflection(g, b)
      BY <1>0, <1>4, <1>5, <1>6, <1>7, <1>8, <1>9 DEF InInflection, LineFits
  <1>. QED  BY <1>3, <1>10, ContinueInflectionSound DEF Sound, d

\* A sample of estimate_quadratic or of estimate_nt: the lengths and the memory of the
\* curve grow together.
LEMMA TodoStepSound ==
  ASSUME NEW e, NEW b \in BOOLEAN, b => RoomForSamples, InSamples(e, b), e.at \in {"quadratic", "nt"},
         NEW nt_oom \in BOOLEAN, b => ~nt_oom
  PROVE  LET x == Head(e.todo) IN Sound(TodoStep(sample_next_token(e, x, nt_oom), x), b)
  <1> DEFINE x == Head(e.todo)
             d == sample_next_token(e, x, nt_oom)
             t == Tail(d.todo)
             f == [d EXCEPT !.todo = t]
             more == [f EXCEPT !.quadratic_fit = [X |-> Append(@.X, x), Y |-> Append(@.Y, x)]]
             g == IF d.at = "nt" THEN f ELSE more
             h == [g EXCEPT !.at = "done"]
  <1>0. /\ DOMAIN e = Fields /\ CurveFits(e) /\ LineFits(e) /\ e.remaining \in Nat
        /\ e.nt_upper_input_limit \in Nat /\ e.todo \in Seq(Nat) /\ e.todo # <<>> /\ (b => Ample(e))
        /\ (b => \A k \in 1 .. Len(e.todo) : e.todo[k] <= stop_seq_len)
        /\ (e.at = "quadratic" => e.quadratic_fit # <<>>)
      BY DEF InSamples
  <1>1. /\ x \in Nat /\ Tail(e.todo) \in Seq(Nat) /\ Len(e.todo) \in Nat
        /\ Len(Tail(e.todo)) = Len(e.todo) - 1
        /\ \A k \in 1 .. Len(Tail(e.todo)) : k + 1 \in 1 .. Len(e.todo) /\ Tail(e.todo)[k] = e.todo[k + 1]
      BY <1>0
  <1> HIDE DEF x
  <1>2. DOMAIN d = Fields /\ \A a \in Fields \ {"remaining", "nt_upper_input_limit"} : d[a] = e[a]
      BY <1>0, SamplingKeeps
  <1>3. d.remaining \in Nat /\ d.nt_upper_input_limit \in Nat /\ (b => Ample(d))
      <2>1. b => ~nt_oom /\ Ample(e)
          BY <1>0
      <2> HIDE DEF f, g, h, t, more
      <2>2. DOMAIN e = Fields /\ e.remaining \in Nat /\ e.nt_upper_input_limit \in Nat
          BY <1>0
      <2>. QED  BY <1>1, <2>1, <2>2, SamplingSound
  <1>4. TodoStep(d, x) = IF g.todo # <<>> THEN g ELSE IF d.at = "nt" THEN h ELSE StartNt(g)
      BY DEF TodoStep
  <1> HIDE DEF d
  <1>5. /\ d.at = e.at /\ d.todo = e.todo /\ d.quadratic_fit = e.quadratic_fit
        /\ d.longest_linear = e.longest_linear /\ d.linear_fit = e.linear_fit /\ d.stop = e.stop
      BY <1>2, FieldsAre
  <1>6. /\ t \in Seq(Nat) /\ (b => \A k \in 1 .. Len(t) : t[k] <= stop_seq_len)
      BY <1>0, <1>1, <1>5
  <1> HIDE DEF t
  <1>7. /\ DOMAIN f = Fields /\ f.todo = t /\ f.at = e.at /\ f.quadratic_fit = e.quadratic_fit
        /\ f.longest_linear = e.longest_linear /\ f.linear_fit = e.linear_fit /\ f.stop = e.stop
        /\ f.remaining = d.remaining /\ f.nt_upper_input_limit = d.nt_upper_input_limit
      BY <1>2, <1>5, FieldsAre
  <1> HIDE DEF f
  <1>8. /\ DOMAIN g = Fields /\ g.todo = t /\ g.at = e.at
        /\ g.longest_linear = e.longest_linear /\ g.linear_fit = e.linear_fit /\ g.stop = e.stop
        /\ g.remaining = d.remaining /\ g.nt_upper_input_limit = d.nt_upper_input_limit
        /\ g.quadratic_fit = IF e.at = "nt" THEN e.quadratic_fit
                             ELSE [X |-> Append(e.quadratic_fit.X, x), Y |-> Append(e.quadratic_fit.X, x)]
      <2>1. CASE d.at = "nt"
          BY <1>5, <1>7, <2>1
      <2>2. CASE d.at # "nt"
          <3> DEFINE A == e.quadratic_fit.X
                     B == Append(A, x)
          <3>1. f.quadratic_fit = [X |-> A, Y |-> A]
              BY <1>0, <1>5, <1>7, <2>2 DEF CurveFits
          <3> HIDE DEF A
          <3>2. /\ DOMAIN more = Fields /\ \A a \in Fields \ {"quadratic_fit"} : more[a] = f[a]
                /\ more.quadratic_fit = [X |-> B, Y |-> B]
              BY <1>7, <3>1, FieldsAre
          <3> HIDE DEF more, B
          <3>3. g = more
              BY <2>2
          <3>. QED  BY <1>5, <1>7, <2>2, <3>2, <3>3, FieldsAre DEF B, A
      <2>. QED  BY <2>1, <2>2
  <1> HIDE DEF g
  <1>9. CurveFits(g) /\ (e.at = "quadratic" => g.quadratic_fit # <<>>)
      <2>1. CASE e.at = "nt"
          BY <1>0, <1>8, <2>1 DEF CurveFits
      <2>2. CASE e.at = "quadratic"
          <3> DEFINE A == Append(e.quadratic_fit.X, x)
          <3>1. A \in Seq(Nat) /\ A # <<>>
              <4> DEFINE B == e.quadratic_fit.X
              <4>1. B \in Seq(Nat)
                  BY <1>0, <2>2 DEF CurveFits
              <4> HIDE DEF B
              <4>2. Append(B, x) \in Seq(Nat) /\ Len(Append(B, x)) = Len(B) + 1 /\ Len(B) \in Nat
                  BY <1>1, <4>1
              <4>3. Append(B, x) # <<>>
                  BY <4>2
              <4>. QED  BY <4>2, <4>3 DEF B
          <3>2. g.quadratic_fit = [X |-> A, Y |-> A]
              BY <1>8, <2>2
          <3> HIDE DEF A
          <3>3. g.quadratic_fit.X = A /\ g.quadratic_fit # <<>>
              BY <3>2
          <3>. QED  BY <3>1, <3>2, <3>3 DEF CurveFits
      <2>. QED  BY <2>1, <2>2
  <1>10. LineFits(g) /\ (b => Ample(g)) /\ g.remaining \in Nat /\ g.nt_upper_input_limit \in Nat
      BY <1>0, <1>3, <1>8 DEF LineFits, Ample
  <1>11. CASE t # <<>>
      <2>1. TodoStep(d, x) = g
          BY <1>4, <1>8, <1>11
      <2>2. InSamples(g, b)
          BY <1>6, <1>8, <1>9, <1>10, <1>11 DEF InSamples
      <2>. QED  BY <2>1, <2>2 DEF Sound, d, x
  <1>12. CASE t = <<>> /\ e.at = "nt"
      <2>1. TodoStep(d, x) = h
          BY <1>4, <1>5, <1>8, <1>12
      <2>2. /\ DOMAIN h = Fields /\ h.at = "done" /\ h.quadratic_fit = g.quadratic_fit
            /\ h.longest_linear = g.longest_linear /\ h.linear_fit = g.linear_fit /\ h.stop = g.stop
            /\ h.remaining = g.remaining /\ h.nt_upper_input_limit = g.nt_upper_input_limit
          BY <1>8, FieldsAre
      <2> HIDE DEF h
      <2>3. InSamples(h, b)
          BY <1>9, <1>10, <2>2 DEF InSamples, CurveFits, LineFits, Ample
      <2>. QED  BY <2>1, <2>3 DEF Sound, d, x
  <1>13. CASE t = <<>> /\ e.at = "quadratic"
      <2>1. TodoStep(d, x) = StartNt(g)
          BY <1>4, <1>5, <1>8, <1>13
      <2>2. InSamples(StartNt(g), b)
          BY <1>8, <1>9, <1>10, StartNtSound
      <2>. QED  BY <2>1, <2>2 DEF Sound, d, x
  <1>. QED  BY <1>11, <1>12, <1>13

\* Any test.
LEMMA TestSound ==
  ASSUME NEW e, NEW b \in BOOLEAN, b => RoomForSamples, Sound(e, b), ~Ended(e),
         NEW oom \in BOOLEAN, NEW nt_oom \in BOOLEAN, NEW within \in BOOLEAN,
         b => ~nt_oom /\ (e.at # "existing" => ~oom)
  PROVE  Sound(Test(e, oom, nt_oom, within), b)
  <1>1. CASE InUpper(e, b)
      <2>1. e.at = "upper_bound"
          BY <1>1 DEF InUpper
      <2>2. Test(e, oom, nt_oom, within) = UpperStep(e, oom)
          BY <2>1 DEF Test
      <2>3. b => ~oom
          BY <2>1
      <2>. QED  BY <1>1, <2>2, <2>3, UpperStepSound
  <1>2. CASE InExisting(e, b) /\ e.index <= Len(e.X)
      <2>1. e.at = "existing"
          BY <1>2 DEF InExisting
      <2>2. Test(e, oom, nt_oom, within) = ExistingStep(e, within)
          BY <2>1 DEF Test
      <2>. QED  BY <1>2, <2>2, ExistingStepSound
  <1>3. CASE (InLinear(e, b) \/ InInflection(e, b) \/ InSamples(e, b)) /\ oom
      <2>1. e.at \notin {"upper_bound", "existing"} /\ DOMAIN e = Fields /\ CurveFits(e)
          BY <1>3 DEF InLinear, InHalving, InInflection, InSamples, Based, Numbers, CurveFits
      <2>2. Test(e, oom, nt_oom, within) = Fail(e)
          BY <1>3, <2>1 DEF Test
      <2>. QED  BY <1>3, <2>1, <2>2, FailSound DEF Sound
  <1>4. CASE InLinear(e, b) /\ ~oom
      <2>1. e.at = "linear"
          BY <1>4 DEF InLinear, InHalving
      <2>2. Test(e, oom, nt_oom, within) = LinearStep(sample_next_token(Measured(e, e.s), e.s, nt_oom), within)
          BY <1>4, <2>1 DEF Test, TestLength
      <2>. QED  BY <1>4, <2>2, LinearStepSound
  <1>5. CASE InInflection(e, b) /\ ~oom
      <2>1. e.at = "inflection"
          BY <1>5 DEF InInflection
      <2>2. Test(e, oom, nt_oom, within)
              = InflectionStep(sample_next_token(Measured(e, e.s), e.s, nt_oom), within)
          BY <1>5, <2>1 DEF Test, TestLength
      <2>. QED  BY <1>5, <2>2, InflectionStepSound
  <1>6. CASE InSamples(e, b) /\ ~oom
      <2>1. e.at \in {"quadratic", "nt"}
          BY <1>6 DEF InSamples, Ended
      <2> DEFINE x == Head(e.todo)
      <2>2. Test(e, oom, nt_oom, within) = TodoStep(sample_next_token(e, x, nt_oom), x)
          BY <1>6, <2>1 DEF Test, TestLength
      <2>. QED  BY <1>6, <2>1, <2>2, TodoStepSound
  <1>. QED  BY <1>1, <1>2, <1>3, <1>4, <1>5, <1>6 DEF Sound

\* A new estimator.
LEMMA FreshSound ==
  ASSUME NEW b \in BOOLEAN, b => RoomForSamples
  PROVE  Sound(Estimator, b)
  <1> DEFINE e == Estimator
  <1>1. /\ e.at = (IF stop_seq_len - start_seq_len > STOPPING_DISTANCE THEN "upper_bound" ELSE "raised")
        /\ e.X = <<0>> /\ e.lower = start_seq_len /\ e.upper = stop_seq_len /\ e.s = stop_seq_len
        /\ e.stop = stop_seq_len /\ e.longest_linear = 0 /\ e.quadratic_fit = <<>>
        /\ e.remaining = new_token_samples /\ e.nt_upper_input_limit = NtLimit(stop_seq_len)
      BY DEF Estimator
  <1>2. /\ {start_seq_len, stop_seq_len, new_token_samples} \subseteq Nat /\ stop_seq_len > start_seq_len
        /\ <<0>> \in Seq(Nat) /\ Len(<<0>>) = 1 /\ <<0>>[1] = 0 /\ NtLimit(stop_seq_len) \in Nat
      BY EstimatorAssumption DEF NtLimit
  <1>3. DOMAIN e = Fields
      BY DEF Fields
  <1> HIDE DEF e
  <1>4. Numbers(e) /\ Ample(e) /\ CurveFits(e)
      BY <1>1, <1>2, <1>3 DEF Numbers, Ample, CurveFits
  <1>5. CASE stop_seq_len - start_seq_len > STOPPING_DISTANCE
      <2>1. InUpper(e, b)
          BY <1>1, <1>2, <1>4, <1>5 DEF InUpper
      <2>. QED  BY <2>1 DEF Sound, e
  <1>6. CASE ~(stop_seq_len - start_seq_len > STOPPING_DISTANCE)
      <2>1. ~b
          BY <1>6 DEF RoomForSamples
      <2>2. InSamples(e, b)
          BY <1>1, <1>3, <1>4, <1>6, <2>1 DEF InSamples
      <2>. QED  BY <2>2 DEF Sound, e
  <1>. QED  BY <1>5, <1>6

\* With memory for the longest prefill and its tokens, no test that allocates any
\* runs out of it.
LEMMA TestFits ==
  ASSUME NEW e, Sound(e, TRUE), ~Ended(e), e.at # "existing",
         NEW c \in Nat, c >= stop_seq_len + new_tokens
  PROVE  ~(TestLength(e) + NewTokens(e) - 1 > c) /\ TestLength(e) \in Nat /\ TestLength(e) <= stop_seq_len
  <1>1. new_tokens \in Nat /\ stop_seq_len \in Nat
      BY EstimatorAssumption
  <1>2. NewTokens(e) \in Nat /\ NewTokens(e) <= new_tokens + 1
      <2>1. Max({1, new_tokens}) \in {1, new_tokens}
          BY <1>1, MaxOfTwo
      <2>. QED  BY <1>1, <2>1 DEF NewTokens
  <1>3. TestLength(e) \in Nat /\ TestLength(e) <= stop_seq_len
      <2>1. CASE InUpper(e, TRUE)
          BY <1>1, <2>1 DEF InUpper, Numbers, TestLength
      <2>2. CASE InLinear(e, TRUE) \/ InInflection(e, TRUE)
          <3>1. /\ e.at \in {"linear", "inflection"} /\ Based(e, TRUE)
                /\ e.s <= e.upper /\ e.upper <= e.stop /\ e.s \in Nat /\ e.upper \in Nat /\ e.stop \in Nat
              BY <2>2 DEF InLinear, InHalving, InInflection, Based, Numbers
          <3>2. e.stop = stop_seq_len
              BY <3>1 DEF Based, Ample
          <3>3. TestLength(e) = e.s
              BY <3>1 DEF TestLength
          <3>. QED  BY <3>1, <3>2, <3>3
      <2>3. CASE InSamples(e, TRUE)
          <3>1. e.at \in {"quadratic", "nt"} /\ e.todo \in Seq(Nat) /\ e.todo # <<>>
                /\ \A k \in 1 .. Len(e.todo) : e.todo[k] <= stop_seq_len
              BY <2>3 DEF InSamples, Ended
          <3>2. TestLength(e) = e.todo[1] /\ 1 \in 1 .. Len(e.todo) /\ e.todo[1] \in Nat
              BY <3>1 DEF TestLength
          <3>. QED  BY <3>1, <3>2
      <2>. QED  BY <2>1, <2>2, <2>3 DEF Sound, InExisting
  <1>. QED  BY <1>1, <1>2, <1>3

\* No step changes the memory there is.
LEMMA CapacityStays ==
  ASSUME [Next]_vars
  PROVE  capacity' = capacity
  BY DEF Next, vars, StartFit, QueueGet, Load, RunTest, EstimateEnds, Abort, AfterEstimate, EvalShape,
         DrawShape, WarmupEnds, Rest

\* A step of the ranks.
LEMMA StepSound ==
  ASSUME SoundInv, [Next]_vars
  PROVE  SoundInv'
  <1>1. capacity' = capacity /\ capacity \in [Ranks -> Device]
      BY CapacityStays DEF SoundInv
  <1>0. ASSUME NEW r \in Ranks
        PROVE  Enough(r) \in BOOLEAN /\ (Enough(r) => RoomForSamples) /\ Enough(r)' = Enough(r)
      BY <1>1 DEF Enough, Roomy
  <1>2. CASE RunTest
      <2>1. PICK within \in [Ranks -> BOOLEAN] :
                est' = [r \in Ranks |-> Test(est[r], OutOfMemory(r), TokensRunOut(r), ReduceError(within, r))]
          BY <1>2 DEF RunTest
      <2>3. ASSUME NEW r \in Ranks PROVE Sound(est'[r], Enough(r))
          <3> DEFINE e == est[r]
                     c == capacity[r].prefill
                     oom == TestLength(e) + NewTokens(e) - 1 > c
                     nt_oom == e.at # "existing" /\ TestLength(e) > capacity[r].tokens
                     w == ReduceError(within, r)
          <3>1. ~Ended(e) /\ Sound(e, Enough(r)) /\ c \in Nat /\ capacity[r].tokens \in Nat
              BY <1>1, <1>2 DEF RunTest, SoundInv, Device
          <3>2. est'[r] = Test(e, oom, TestLength(e) > capacity[r].tokens, w)
              BY <2>1 DEF OutOfMemory, TokensRunOut
          <3>3. w \in BOOLEAN /\ oom \in BOOLEAN /\ nt_oom \in BOOLEAN /\ Enough(r) \in BOOLEAN
              <4>1. w \in BOOLEAN
                  BY DEF ReduceError
              <4> HIDE DEF e, c, w
              <4>2. oom \in BOOLEAN /\ nt_oom \in BOOLEAN
                  OBVIOUS
              <4>. QED  BY <1>0, <4>1, <4>2
          <3>4. ASSUME Enough(r), e.at # "existing" PROVE ~oom /\ ~(TestLength(e) > capacity[r].tokens)
              <4>1. Sound(e, TRUE)
                  <5>1. Enough(r) = TRUE
                      BY <3>3, <3>4
                  <5>. QED  BY <3>1, <5>1
              <4>2. c >= stop_seq_len + new_tokens /\ capacity[r].tokens >= stop_seq_len /\ stop_seq_len \in Nat
                  BY <3>4, EstimatorAssumption DEF Enough, Roomy
              <4>3. ~(TestLength(e) + NewTokens(e) - 1 > c) /\ TestLength(e) \in Nat /\ TestLength(e) <= stop_seq_len
                  BY <3>1, <3>4, <4>1, <4>2, TestFits
              <4>. QED  BY <3>1, <4>2, <4>3
          <3>5. Enough(r) => ~nt_oom
              BY <3>4
          <3>6. Test(e, oom, TestLength(e) > capacity[r].tokens, w) = Test(e, oom, nt_oom, w)
              <4> HIDE DEF e, oom, w
              <4>1. CASE e.at = "existing"
                  BY <4>1 DEF Test
              <4>2. CASE e.at # "existing"
                  BY <4>2
              <4>. QED  BY <4>1, <4>2
          <3> HIDE DEF e, oom, nt_oom, w
          <3>7. Sound(Test(e, oom, nt_oom, w), Enough(r))
              BY <1>0, <3>1, <3>3, <3>4, <3>5, TestSound
          <3>. QED  BY <3>2, <3>6, <3>7
      <2>. QED  BY <1>0, <1>1, <2>3 DEF SoundInv
  <1>3. CASE EstimateEnds \/ Abort
      <2>1. \A r \in Ranks : est'[r] = Estimator
          BY <1>3 DEF EstimateEnds, Abort, OnAll
      <2>2. \A r \in Ranks : Sound(Estimator, Enough(r))
          BY <1>0, FreshSound
      <2>. QED  BY <1>0, <1>1, <2>1, <2>2 DEF SoundInv
  <1>4. CASE UNCHANGED est
      BY <1>0, <1>1, <1>4 DEF SoundInv
  <1>. QED  BY <1>2, <1>3, <1>4 DEF Next, vars, StartFit, QueueGet, Load, AfterEstimate, EvalShape,
                                   DrawShape, WarmupEnds, Rest

\* The estimators are sound throughout.
LEMMA SoundAlways == Spec => []SoundInv
  <1>1. Init => SoundInv
      <2> SUFFICES ASSUME Init PROVE SoundInv
          OBVIOUS
      <2>1. capacity \in [Ranks -> Device]
          BY StartupAssumption DEF Init
      <2>2. \A r \in Ranks : est[r] = Estimator
          BY DEF Init, OnAll
      <2>3. \A r \in Ranks : Enough(r) \in BOOLEAN /\ (Enough(r) => RoomForSamples)
          BY DEF Enough, Roomy
      <2>4. \A r \in Ranks : Sound(Estimator, Enough(r))
          BY <2>3, FreshSound
      <2>. QED  BY <2>1, <2>2, <2>4 DEF SoundInv
  <1>2. SoundInv /\ [Next]_vars => SoundInv'
      BY StepSound
  <1>. QED  BY <1>1, <1>2, PTL DEF Spec

\* For any lengths and any number of samples, the quadratic curve is fitted to at least
\* one sample and to the memory measured for the very lengths it is fitted to, though
\* estimate_quadratic selects the lengths by their value and the memory by its place,
\* and a line is fitted to more than the empty column.
THEOREM PairsAlwaysBelong == Spec => []PairsBelong
  <1>1. SoundInv => PairsBelong
      <2> SUFFICES ASSUME SoundInv, NEW r \in Ranks
                   PROVE  /\ est[r].quadratic_fit # <<>> =>
                                est[r].quadratic_fit.X = est[r].quadratic_fit.Y /\ est[r].quadratic_fit.X # <<>>
                          /\ est[r].at \in {"inflection", "quadratic", "nt", "done"} /\ est[r].longest_linear > 0 =>
                                Len(est[r].linear_fit) > 1
          BY DEF PairsBelong
      <2> DEFINE e == est[r]
                 b == Enough(r)
      <2>1. Sound(e, b)
          BY DEF SoundInv
      <2> HIDE DEF e, b
      <2>2. CurveFits(e) /\ (e.at \in {"inflection", "quadratic", "nt", "done"} => LineFits(e))
          BY <2>1 DEF Sound, InUpper, InLinear, InHalving, InExisting, InInflection, InSamples, Based, CurveFits
      <2>3. ASSUME e.quadratic_fit # <<>> PROVE e.quadratic_fit.X = e.quadratic_fit.Y
          <3> DEFINE A == e.quadratic_fit.X
          <3>1. e.quadratic_fit = [X |-> A, Y |-> A]
              BY <2>2, <2>3 DEF CurveFits
          <3> HIDE DEF A
          <3>2. e.quadratic_fit.X = A /\ e.quadratic_fit.Y = A
              BY <3>1
          <3>. QED  BY <3>2
      <2>4. e.quadratic_fit # <<>> => e.quadratic_fit.X # <<>>
          BY <2>2 DEF CurveFits
      <2>. QED  BY <2>2, <2>3, <2>4 DEF LineFits, e
  <1>. QED  BY <1>1, SoundAlways, PTL

\* For any parameters that leave room for the samples, as the defaults do, and with memory
\* for the longest prefill and its tokens, the estimator ends without an exception: no
\* test runs out of memory, no stride is zero, and there is room for the next tokens.
THEOREM NeverFailsForNothing ==
  ASSUME RoomForSamples
  PROVE  Spec => []NoSpuriousFailure
  <1>1. SoundInv => NoSpuriousFailure
      <2> SUFFICES ASSUME SoundInv, NEW r \in Ranks, Roomy(capacity[r])
                   PROVE  est[r].at # "raised"
          BY DEF NoSpuriousFailure
      <2> DEFINE e == est[r]
      <2>1. Sound(e, TRUE)
          <3>1. Enough(r) = TRUE
              BY DEF Enough, Roomy
          <3>. QED  BY <3>1 DEF SoundInv
      <2> HIDE DEF e
      <2>2. e.at # "raised"
          BY <2>1 DEF Sound, InUpper, InLinear, InHalving, InExisting, InInflection, InSamples
      <2>. QED  BY <2>2 DEF e
  <1>. QED  BY <1>1, SoundAlways, PTL

=============================================================================
