------------------------------ MODULE Robustness ------------------------------
(***************************************************************************)
(* The stages after the walk forward: the neighbourhood of a locked        *)
(* setting, market regimes, cost stress of a fixed rule, Monte Carlo paths *)
(* and the portability matrix.  Proportions and tolerances are in percent, *)
(* returns in tenths.                                                      *)
(***************************************************************************)
EXTENDS StageMethods, Strategies

\* combine_statuses: invalid before failed before insufficient before passed.
CombineStatuses(S) ==
    CASE "invalid_input" \in S -> "invalid_input"
      [] "failed" \in S -> "failed"
      [] "insufficient_evidence" \in S -> "insufficient_evidence"
      [] OTHER -> "passed"

-----------------------------------------------------------------------------
(* Locks of earlier stages *)

\* _oos_report and _oos_failure_report: what later stages read of a trial.  A
\* candidate without parameters locks nothing.
OosReport(trial, data, free) ==
    [schema |-> 1, kind |-> "out_of_sample", identity |-> data.identity,
     artifact |-> TRUE, provenance |-> TRUE, execution |-> data.execution,
     start |-> trial.split.test.first, end |-> trial.split.test.last,
     lock |-> IF trial.lock = Null THEN Null
              ELSE [id |-> TRUE, parameters |-> IF free THEN {} ELSE {trial.lock.setting}],
     selection |-> IF trial.stage = "training" THEN "not_run"
                   ELSE IF trial.status = "successful" THEN "passed" ELSE "screened_out",
     test |-> CASE trial.status = "failed" -> "not_run"
                [] trial.test.passed -> "passed"
                [] OTHER -> "screened_out",
     metrics |-> IF trial.status = "failed" THEN <<>> ELSE trial.test.metrics,
     folds |-> <<>>, chosen |-> Null]

\* _finite_metrics
FiniteMetrics(m) ==
    /\ {"total_return", "drawdown", "trades"} \subseteq DOMAIN m
    /\ \A n \in {"total_return", "drawdown", "trades"} : m[n] /= Null

\* load_lock_artifact: the reasons against a report; a walk-forward report speaks
\* through its chosen fold.
LockRefusals(p, expected, valid) ==
    LET walk == p.kind = "walk_forward"
        chosen == IF walk THEN {f \in Range(p.folds) : f.id = p.chosen} ELSE {}
        twice == Cardinality({i \in DOMAIN p.folds : p.folds[i].id = p.chosen}) /= 1
        fold == IF walk /\ ~twice THEN CHOOSE f \in chosen : TRUE ELSE p
    IN  {r \in {"schema", "kind", "identity", "artifact", "provenance", "execution", "bounds",
                "fold", "fold_status", "fold_bounds", "lock", "selection", "test", "metrics"} :
         CASE r = "schema" -> p.schema /= 1
           [] r = "kind" -> p.kind \notin {"out_of_sample", "walk_forward"}
           [] r = "identity" -> p.identity /= expected.identity
           [] r = "artifact" -> ~p.artifact
           [] r = "provenance" -> ~p.provenance
           [] r = "execution" -> p.execution /= expected.execution
           [] r = "bounds" -> Null \in {p.start, p.end} \/ p.start > p.end
           [] r = "fold" -> walk /\ (p.chosen = Null \/ twice)
           [] r = "fold_status" -> walk /\ ~twice /\ fold.status /= "successful"
           [] r = "fold_bounds" -> walk /\ ~twice /\ (fold.start /= p.start \/ fold.end /= p.end)
           [] r = "lock" -> \/ fold.lock = Null
                            \/ ~fold.lock.id
                            \/ fold.lock.parameters = {}
                            \/ ~(fold.lock.parameters \subseteq valid)
           [] r = "selection" -> fold.selection /= "passed"
           [] r = "test" -> fold.test /= "passed"
           [] r = "metrics" -> ~FiniteMetrics(fold.metrics)}

\* find_valid_lock: the first of several reports without a refusal.
FindValidLock(reports, expected, valid) ==
    LET good == Where(reports, LAMBDA p : LockRefusals(p, expected, valid) = {})
    IN  IF good = {} THEN Null ELSE Min(good)

-----------------------------------------------------------------------------
(* Neighbourhood of a locked setting *)

\* NeighborhoodConfig.__post_init__
NeighborhoodConfigHolds(c) ==
    /\ c.names /= <<>>
    /\ IsInjective(c.names)
    /\ c.minimum >= 1
    /\ c.proportion \in 0..100
    /\ c.mode \in {"absolute", "relative", "both"}
    /\ c.absolute >= 0 /\ c.relative >= 0

\* _derive_values: the values a definition asks for, or Null for a method the type of
\* the parameter does not allow.
DeriveValues(definition, type, locked) ==
    CASE definition.method = "explicit_values" -> definition.values
      [] definition.method = "integer_offsets" /\ type = "int" ->
             [i \in DOMAIN definition.values |-> locked + definition.values[i]]
      [] definition.method = "percentage_offsets" /\ type = "float" ->
             [i \in DOMAIN definition.values |->
                 (locked * (100 + definition.values[i])) \div 100]
      [] OTHER -> Null

\* Mutant: a value that appears twice is evaluated twice.
UniqueCandidatesMutant(tuples, at) ==
    LET s == Sorted(tuples, Lexical) IN [i \in DOMAIN s |-> at[s[i]]]

\* The candidates in order of their values, each once.
UniqueCandidates(tuples, at) ==
    Sorted({at[f] : f \in tuples}, Lexical)

\* build_neighborhood: strategy is [names, type, range, valid]; a setting is the
\* sequence of its values by name.
BuildNeighborhood(strategy, locked, definitions) ==
    LET names == strategy.names
        defined == [i \in DOMAIN names |->
                       {d \in Range(definitions) : d.name = names[i]}]
        derived == [i \in DOMAIN names |->
                       IF defined[i] = {} THEN <<locked[i]>>
                       ELSE DeriveValues(CHOOSE d \in defined[i] : TRUE,
                                         strategy.type[i], locked[i])]
        choices == [i \in DOMAIN names |->
                       SelectSeq(derived[i], LAMBDA v : v \in strategy.range[i])]
        longest == Max({Len(choices[i]) : i \in DOMAIN names})
        tuples == {f \in [DOMAIN names -> 1..longest] :
                      \A i \in DOMAIN names : f[i] <= Len(choices[i])}
        at == [f \in tuples |-> [i \in DOMAIN names |-> choices[i][f[i]]]]
        valid == {f \in tuples : at[f] \in strategy.valid}
        candidates == UniqueCandidates(valid, at)
        Count(Size(_)) == FoldSet(LAMBDA i, acc : acc + Size(i), 0, DOMAIN names)
    IN  CASE locked \notin strategy.valid -> Refused("locked")
          [] \E d \in Range(definitions) : d.name \notin Range(names) -> Refused("unsupported")
          [] \E i \in DOMAIN names : derived[i] = Null -> Refused("type")
          [] \E i \in DOMAIN names : locked[i] \notin Range(choices[i]) -> Refused("not_included")
          [] locked \notin Range(candidates) -> Refused("no_locked_point")
          [] OTHER -> [candidates |-> candidates,
                       raw |-> Count(LAMBDA i : Len(derived[i])),
                       duplicates |-> Cardinality(valid) - Len(candidates),
                       rejected |-> Count(LAMBDA i : Len(derived[i]) - Len(choices[i]))
                                      + Cardinality(tuples \ valid),
                       requested |-> FoldSet(LAMBDA i, acc : acc * Len(derived[i]), 1, DOMAIN names)]

\* Mutant: a point that differs from the lock for the better is degraded as well.
EvaluatePointMutant(row, lock, config) ==
    LET m == row.metrics
        absolute == Abs(lock["total_return"] - m["total_return"])
        ok == absolute <= config.neighborhood.absolute
    IN  [passed |-> m["total_return"] >= config.minimum_return /\ ok /\ row.passed,
         within |-> ok, metrics |-> m]

\* evaluate_neighborhood: rows[i] is [metrics, passed], the screened result of
\* candidate i.  A point is judged against the locked point.
EvaluatePoint(row, lock, config) ==
    LET m == row.metrics
        absolute == lock["total_return"] - m["total_return"]
        n == config.neighborhood
        absolute_ok == absolute <= n.absolute
        relative_ok == /\ lock["total_return"] /= 0
                       /\ 100 * absolute <= n.relative * Abs(lock["total_return"])
    IN  [passed |-> /\ m["total_return"] >= config.minimum_return
                    /\ Abs(m["drawdown"]) <= config.drawdown
                    /\ absolute_ok
                    /\ n.mode \in {"relative", "both"} => relative_ok
                    /\ config.sharpe /= Null =>
                           m["sharpe"] /= Null /\ m["sharpe"] >= config.sharpe
                    /\ row.passed,
         within |-> CASE n.mode = "absolute" -> absolute_ok
                      [] n.mode = "relative" -> relative_ok
                      [] OTHER -> absolute_ok /\ relative_ok,
         metrics |-> m]

EvaluateNeighborhood(rows, locked, config) ==
    [i \in DOMAIN rows |-> EvaluatePoint(rows[i], rows[locked].metrics, config)]

\* _dimension_stability of parameter k: the points that differ from the lock in k only.
DimensionStability(candidates, points, locked, k) ==
    LET relevant == {i \in DOMAIN candidates :
                        \A j \in DOMAIN locked : j /= k => candidates[i][j] = locked[j]}
        order == SortSeq(Ascending(relevant), LAMBDA a, b : candidates[a][k] < candidates[b][k])
        R(i) == points[order[i]].metrics["total_return"]
        Up == \A i \in 1..(Len(order) - 1) : R(i) <= R(i + 1)
        Down == \A i \in 1..(Len(order) - 1) : R(i) >= R(i + 1)
    IN  [tested |-> Cardinality(relevant),
         passing |-> Cardinality({i \in relevant : points[i].passed}),
         behavior |-> IF Len(order) < 2 THEN "insufficient"
                      ELSE IF Up \/ Down THEN "monotonic" ELSE "unstable"]

\* summarize_neighborhood: the thresholds and the status of the component.  The rank
\* of the lock is recorded and selects nothing.
SummarizeNeighborhood(points, locked, config) ==
    LET n == config.neighborhood
        count == Len(points)
        passing == Where(points, LAMBDA p : p.passed)
        within == Where(points, LAMBDA p : p.within)
        enough == count >= n.minimum
        Judge(ok) == IF ~enough THEN "insufficient_evidence" ELSE IF ok THEN "passed" ELSE "failed"
        Return(i) == points[i].metrics["total_return"]
    IN  [status |-> CombineStatuses(
            {IF enough THEN "passed" ELSE "insufficient_evidence",
             Judge(100 * Cardinality(passing) >= n.proportion * count),
             Judge(100 * Cardinality(within) >= n.proportion * count),
             Judge(\A i \in DOMAIN points : Abs(points[i].metrics["drawdown"]) <= config.drawdown),
             IF points[locked].passed THEN "passed" ELSE "failed"}),
         rank |-> 1 + Cardinality({i \in DOMAIN points :
                        Return(i) > Return(locked) \/ (Return(i) = Return(locked) /\ i < locked)})]

-----------------------------------------------------------------------------
(* Market regimes *)

\* RegimeConfig.__post_init__
RegimeConfigHolds(c) ==
    /\ \A n \in {c.trend, c.volatility, c.observations} : n >= 1
    /\ c.trades /= Null => c.trades >= 1
    /\ c.tolerance >= 0 /\ c.threshold > 0

\* External: the volatility of the returns in a trailing window (a proxy for the
\* annualized standard deviation), or Null while it warms up.
RollingVolatility(closes, i, window) ==
    IF i <= window THEN Null
    ELSE FoldSet(LAMBDA j, acc : acc + Abs(closes[j] - closes[j - 1]), 0, (i - window + 1)..i)

\* The trend at bar i: the close against its trailing mean.
Trend(closes, i, c) ==
    LET sum == FoldSet(LAMBDA j, acc : acc + closes[j], 0, (i - c.trend + 1)..i)
    IN  CASE i < c.trend -> "unknown"
          [] 100 * c.trend * closes[i] > sum * (100 + c.tolerance) -> "bullish"
          [] 100 * c.trend * closes[i] < sum * (100 - c.tolerance) -> "bearish"
          [] OTHER -> "neutral"

\* label_regimes: one label per bar, Null (unknown) until both parts are known.
LabelRegimes(closes, c) ==
    [i \in DOMAIN closes |->
        LET v == RollingVolatility(closes, i, c.volatility)
        IN  IF Trend(closes, i, c) = "unknown" \/ v = Null THEN Null
            ELSE <<Trend(closes, i, c), v > c.threshold>>]

\* attribute_returns_to_regimes: a return belongs to the label known before it.
AttributeReturns(labels) == [i \in DOMAIN labels |-> IF i = 1 THEN Null ELSE labels[i - 1]]

\* Compounded value of 10 after a sequence of returns in tenths, times 10^(n - 1).
Compounded(values) == FoldLeft(LAMBDA acc, r : acc * (10 + r), 1, values)

\* maximum_drawdown: some later value is a limit (in tenths) or more below an earlier one;
\* DrawdownExceeds asks for more than the limit.
Drawdown(values, Test(_, _)) ==
    LET n == Len(values)
        Tail10(k) == FoldSet(LAMBDA j, acc : 10 * acc, 1, 1..k)
        E(k) == Compounded(SubSeq(values, 1, k)) * Tail10(n - k)
    IN  \E i \in 0..n : \E j \in i..n : Test(E(i), E(j))

DrawdownReaches(values, limit) == Drawdown(values, LAMBDA a, b : 10 * b <= a * (10 - limit))
DrawdownExceeds(values, limit) == Drawdown(values, LAMBDA a, b : 10 * b < a * (10 - limit))

\* evaluate_regimes without a Sharpe minimum: the status of every regime seen.  Entries are counted by
\* the label of the bar they fill on.
EvaluateRegimes(returns, entries, labels, config) ==
    LET attributed == AttributeReturns(labels)
        seen == Range(attributed) \ {Null}
        c == config.regimes
        Values(g) == Picked(returns, Where(attributed, LAMBDA a : a = g))
        Trades(g) == Cardinality({i \in entries : labels[i] = g})
        Scale(k) == FoldSet(LAMBDA j, acc : 10 * acc, 1, 1..k)
        Return(g) == Compounded(Values(g)) - Scale(Len(Values(g)))
    IN  [g \in seen |->
            CASE Len(Values(g)) < c.observations -> "insufficient_evidence"
              [] c.trades /= Null /\ Trades(g) < c.trades -> "insufficient_evidence"
              [] /\ 10 * Return(g) >= config.minimum_return * Scale(Len(Values(g)))
                 /\ ~DrawdownExceeds(Values(g), config.drawdown) -> "passed"
              [] OTHER -> "failed"]

\* The status of the regimes together; none seen is no evidence.
RegimeStatus(regimes) ==
    IF DOMAIN regimes = {} THEN "insufficient_evidence"
    ELSE CombineStatuses({regimes[g] : g \in DOMAIN regimes})

\* build_robustness_result and run_robustness_pipeline, from the screened rows of the
\* neighbourhood and the returns and entries of the locked point.
RobustnessResult(x) ==
    LET points == EvaluateNeighborhood(x.rows, x.locked, x.config)
        summary == SummarizeNeighborhood(points, x.locked, x.config)
        regimes == EvaluateRegimes(x.returns, x.entries, LabelRegimes(x.closes, x.config.regimes),
                                   x.config)
    IN  IF ~(NeighborhoodConfigHolds(x.config.neighborhood) /\ RegimeConfigHolds(x.config.regimes))
        THEN [status |-> "refused"]
        ELSE
        [points |-> points, summary |-> summary, regimes |-> regimes,
         status |-> CombineStatuses({summary.status, RegimeStatus(regimes)})]

-----------------------------------------------------------------------------
(* Cost stress of a fixed rule *)

\* _whole_share_stress and the futures case: the stressed execution, or Null when the
\* baseline or the plan is refused.
StressedExecution(b, plan) ==
    LET shares == /\ b.sizing = "all_cash_whole_shares"
                  /\ 0 = b.fixed_fee /\ 0 = b.slippage_points /\ 0 = b.slippage_ticks
                  /\ b.slippage > 0
                  /\ plan.slippage > b.slippage /\ plan.fees >= b.fees
        futures == /\ b.sizing = "fixed_units" /\ b.size = 1
                   /\ 0 = b.fees /\ 0 = b.slippage /\ 0 = b.slippage_points
                   /\ b.tick_size /= Null
                   /\ b.slippage_ticks > 0 /\ b.fixed_fee > 0
                   /\ plan.fees > b.fixed_fee /\ plan.slippage > b.slippage_ticks
    IN  CASE plan.kind = "fraction" /\ shares ->
                 [b EXCEPT !.fees = plan.fees, !.slippage = plan.slippage]
          [] plan.kind = "contract" /\ futures ->
                 [b EXCEPT !.fixed_fee = plan.fees, !.slippage_ticks = plan.slippage]
          [] OTHER -> Null

\* The names that a stress writes its costs down with.
StressCosts(e, plan) ==
    CASE plan.kind = "fraction" -> [fees |-> e.fees, slippage |-> e.slippage]
      [] plan.kind = "contract" -> [fixed_fee |-> e.fixed_fee, ticks |-> e.slippage_ticks]

\* run_fixed_rule_cost_stress: a result that is not finite is no evidence.
FixedRuleCostStress(x, plan) ==
    LET stressed == StressedExecution(x.execution, plan)
        result == ExecuteExperiment([x EXCEPT !.execution = stressed])
        m == result.ranked[1].metrics
    IN  IF stressed = Null THEN Refused("plan")
        ELSE IF result.blocked /= {} THEN Refused("raised")
        ELSE IF Len(result.ranked) /= 1 THEN Refused("one_rule")
        ELSE [status |-> IF \E n \in {"trades", "total_return", "annualized", "sharpe",
                                      "drawdown"} : m[n] = Null
                         THEN "insufficient_evidence"
                         ELSE IF result.ranked[1].passed THEN "passed" ELSE "failed",
              baseline |-> StressCosts(x.execution, plan),
              stressed |-> StressCosts(stressed, plan),
              metrics |-> m]

\* The returns of the baseline portfolio of a fixed rule, in tenths rounded down, and
\* the bars its entries fill on.
RegimeInputs(x) ==
    LET checked == ValidateForSimulation(x.data, x.generate[x.supplied[1]], x.required,
                                         x.execution)
        column == ConstructPortfolio(x.data, <<checked.aligned>>, x.execution)[1]
        states == Portfolio(column)
        Value(i) == IF i = 0 THEN column.cash ELSE ValueAt(column, states[i], i)
    IN  IF checked.blocked /= {} THEN [blocked |-> TRUE]
        ELSE [blocked |-> FALSE,
              returns |-> [i \in DOMAIN states |->
                              (10 * (Value(i) - Value(i - 1))) \div Value(i - 1)],
              entries |-> {i \in DOMAIN states : checked.aligned.signals["entries"].values[i]}]

\* run_fixed_rule_robustness: stress and regimes together, for the lock of exactly this
\* rule and history; of the execution, the fixed fee, the ticks and the multiplier may differ
\* (accumulate, the seventh field that is compared, is never set and left out).
FixedRuleRobustness(x, lock, plan, config) ==
    LET closes == [i \in DOMAIN x.data.bars |-> x.data.bars[i]["Close"]]
        rule == RegimeInputs(x)
        regimes == EvaluateRegimes(rule.returns, rule.entries,
                                   LabelRegimes(closes, config.regimes), config)
        stress == FixedRuleCostStress(x, plan)
    IN  CASE lock.parameters /= {} \/ x.parameters -> Refused("vary")
          [] lock.start /= Head(x.data.index) \/ lock.end /= Last(x.data.index) -> Refused("bounds")
          [] \E k \in {"mode", "fees", "slippage", "cash", "direction", "leverage"} :
                 lock.execution[k] /= x.execution[k] -> Refused("execution")
          [] rule.blocked -> Refused("raised")
          [] "refused" \in DOMAIN stress -> stress
          [] OTHER -> [stress |-> stress, regimes |-> regimes,
                       status |-> CombineStatuses({stress.status, RegimeStatus(regimes)})]

-----------------------------------------------------------------------------
(* Monte Carlo *)

\* MonteCarloConfig.__post_init__; probabilities in percent.
MonteCarloConfigHolds(c) ==
    /\ c.method \in {"iid_bootstrap", "path_permutation", "moving_block_bootstrap"}
    /\ c.simulations >= 1
    /\ c.minimum >= 2
    /\ \A p \in {c.loss, c.breach} : p \in 0..100
    /\ c.drawdown \in 0..10
    /\ c.method = "moving_block_bootstrap" => c.block /= Null
    /\ c.block /= Null => c.block >= 1

\* resample_paths: the paths the generator can draw, as sequences of source positions.
ResamplePaths(n, c) ==
    CASE c.method = "iid_bootstrap" -> [1..n -> 1..n]
      [] c.method = "path_permutation" -> {f \in [1..n -> 1..n] : IsInjective(f)}
      [] OTHER ->
            LET pieces == (n + c.block - 1) \div c.block
                starts == [1..pieces -> 1..(n - c.block + 1)]
            IN  {[i \in 1..n |-> s[(i - 1) \div c.block + 1] + ((i - 1) % c.block)] : s \in starts}

\* load_rsi_walk_forward_source: the returns of the successful folds, or the status the
\* source has instead of them.
WalkForwardSource(report, expected) ==
    LET successful == SelectSeq(report.folds, LAMBDA f : f.status = "successful")
        declared == report.identity \notin {Null, expected} \/ report.schema \notin {Null, 1}
        incomplete == \/ report.identity /= expected \/ report.schema /= 1
                      \/ report.execution /= "next_bar_open"
                      \/ \E f \in Range(successful) : f.value = Null \/ ~f.bounded
        Of(status, values) == [status |-> status, values |-> values]
    IN  CASE ~report.exists -> Of("insufficient_evidence", <<>>)
          [] \E f \in Range(report.folds) : f.status \notin {"successful", "failed"} ->
                 Of("invalid_input", <<>>)
          [] declared -> Of("invalid_input", <<>>)
          [] successful = <<>> -> Of("insufficient_evidence", <<>>)
          [] incomplete -> Of("invalid_input", <<>>)
          [] OTHER -> Of(Null, [i \in DOMAIN successful |-> successful[i].value])

\* The k-th percentile of S in percent, between observations the nearest lower one.
Percentile(s, p) ==
    LET order == SortSeq(s, LAMBDA a, b : a < b)
    IN  order[1 + (p * (Len(s) - 1)) \div 100]

\* run_monte_carlo on the drawn paths.
RunMonteCarlo(source, c, drawn) ==
    LET values == source.values
        n == Len(values)
        Path(k) == [i \in 1..n |-> values[drawn[k][i]]]
        Scale == FoldSet(LAMBDA j, acc : 10 * acc, 1, 1..n)
        terminal == [k \in DOMAIN drawn |-> Compounded(Path(k)) - Scale]
        Share(Test(_)) == 100 * Cardinality({k \in DOMAIN drawn : Test(k)})
        loss == Share(LAMBDA k : terminal[k] < 0)
        breach == Share(LAMBDA k : DrawdownReaches(Path(k), c.drawdown))
        rules == /\ loss <= c.loss * Len(drawn)
                 /\ breach <= c.breach * Len(drawn)
                 /\ 10 * Percentile(terminal, c.lower) >= c.floor * Scale
        Stressed(penalty) == [i \in 1..n |-> values[i] - penalty]
        Stress(s) ==
            LET penalty == 2 * (s.fee + s.slippage) + s.price
            IN  IF source.kind /= "trade_returns"
                   \/ \E i \in 1..n : Stressed(penalty)[i] <= -10
                THEN Null ELSE Compounded(Stressed(penalty))
        Without(status) == [status |-> status, stress |-> <<>>, loss |-> Null, terminal |-> <<>>]
    IN  CASE ~MonteCarloConfigHolds(c) -> Without("refused")
          [] source.status /= Null -> Without(source.status)
          [] n = 0 -> Without("insufficient_evidence")
          [] \E i \in 1..n : values[i] = Null \/ values[i] <= -10 -> Without("invalid_input")
          [] n < c.minimum -> Without("insufficient_evidence")
          [] c.method = "moving_block_bootstrap" /\ c.block > n -> Without("invalid_input")
          [] OTHER -> [status |-> IF rules THEN "passed" ELSE "failed", loss |-> loss,
                       terminal |-> terminal, observed |-> Compounded(values),
                       stress |-> [i \in DOMAIN c.scenarios |-> Stress(c.scenarios[i])]]

-----------------------------------------------------------------------------
(* The portability matrix *)

\* validate_instrument_profile; blank is the set of required texts that are blank.
InstrumentHolds(p) ==
    /\ p.class \in {"equity", "etf", "futures", "crypto", "fx"}
    /\ p.blank = {}
    /\ p.intervals /= <<>> /\ IsInjective(p.intervals)
    /\ p.tick /= Null => p.tick > 0
    /\ p.class = "futures" => /\ p.tick /= Null
                              /\ p.multiplier /= Null /\ p.multiplier > 0
                              /\ p.point /= Null /\ p.point > 0
    /\ p.class \in {"crypto", "fx"} => p.currencies
    /\ p.approval = "approved"

\* validate_session_profile
SessionHolds(p) ==
    /\ p.blank = {}
    /\ (p.start = Null) = (p.end = Null)
    /\ p.continuous \/ p.start /= Null
    /\ p.start /= Null => p.start /= p.end /\ p.overnight = (p.end < p.start)
    /\ p.continuous => p.anchor /= Null
    /\ p.approval = "approved"

\* validate_timeframe_profile
TimeframeHolds(p) ==
    /\ p.blank = {}
    /\ p.kind \in {"native", "resampled"}
    /\ p.duration > 0 /\ p.required > 0 /\ p.required <= p.duration
    /\ p.available /= Null => p.available <= p.required
    /\ IF p.kind = "resampled" THEN p.origin /= Null ELSE p.origin = Null
    /\ p.approval = "approved"

\* validate_execution_profile
ExecutionHolds(p) ==
    /\ p.blank = {}
    /\ \A c \in p.costs : c >= 0
    /\ \A v \in {p.tick, p.multiplier, p.point} : v /= Null => v > 0
    /\ p.leverage > 0
    /\ p.approval = "approved"

\* validate_experiment_variant, for the variant the matrix builds from its profiles.
VariantHolds(instrument, timeframe, session, execution, strategy) ==
    /\ instrument.class \in strategy.classes
    /\ timeframe.interval \in strategy.intervals
    /\ timeframe.interval \in Range(instrument.intervals)
    /\ strategy.adjusted = Null \/ instrument.adjusted = strategy.adjusted
    /\ instrument.continuous => session.anchor /= Null
    /\ Null \in {execution.tick, instrument.tick} \/ execution.tick = instrument.tick
    /\ instrument.class = "futures" =>
           /\ execution.multiplier = instrument.multiplier
           /\ execution.point = instrument.point

\* summarize_experiment_matrix: the variants that can run and the pairs that cannot.
ExperimentMatrix(x) ==
    LET Unique(s, Key(_)) == IsInjective([i \in DOMAIN s |-> Key(s[i])])
        Found(s, id) == {p \in Range(s) : p.id = id}
        pairs == (DOMAIN x.instruments) \X (DOMAIN x.timeframes)
        Ok(pair) ==
            LET instrument == x.instruments[pair[1]]
            IN  VariantHolds(instrument, x.timeframes[pair[2]],
                             CHOOSE p \in Found(x.sessions, instrument.session) : TRUE,
                             CHOOSE p \in Found(x.executions, instrument.execution) : TRUE,
                             x.strategy)
        Identity(pair) == <<x.instruments[pair[1]].id, x.timeframes[pair[2]].interval>>
        variants == {p \in pairs : Ok(p)}
    IN  CASE <<>> \in {x.instruments, x.timeframes, x.sessions} -> Refused("empty")
          [] \/ x.plan = Null
             \/ x.plan /= SummarizeParameterPlan(x.strategy.plan, x.threshold, TRUE) -> Refused("plan")
          [] \/ \E p \in Range(x.instruments) : ~InstrumentHolds(p)
             \/ \E p \in Range(x.timeframes) : ~TimeframeHolds(p)
             \/ \E p \in Range(x.sessions) : ~SessionHolds(p)
             \/ \E p \in Range(x.executions) : ~ExecutionHolds(p) -> Refused("profile")
          [] \/ ~Unique(x.instruments, LAMBDA p : p.id)
             \/ ~Unique(x.timeframes, LAMBDA p : p.interval)
             \/ ~Unique(x.sessions, LAMBDA p : p.id)
             \/ ~Unique(x.executions, LAMBDA p : p.id) -> Refused("repeated")
          [] \E p \in Range(x.instruments) : \/ Found(x.sessions, p.session) = {}
                                             \/ Found(x.executions, p.execution) = {} ->
                 Refused("missing")
          [] Cardinality({Identity(p) : p \in variants}) /= Cardinality(variants) ->
                 Refused("duplicate")
          [] OTHER -> [variants |-> {Identity(p) : p \in variants},
                       unsupported |-> Cardinality(pairs \ variants),
                       simulations |-> Cardinality(variants) * x.plan.total]
===============================================================================
