----------------------------- MODULE StageMethods -----------------------------
(***************************************************************************)
(* How a candidate is tried on data it was not built on: the out-of-sample *)
(* split, the walk-forward folds and the low-frequency folds of a fixed    *)
(* candidate.  Each trains on one part of the history, locks one setting   *)
(* and evaluates the locked setting on a later part.                       *)
(*                                                                         *)
(* A partition is [first, last], the rows it covers.  x is the experiment  *)
(* of module Experiments; the sessions (or, for daily bars, the days) of   *)
(* its rows are a sequence of numbers.                                     *)
(***************************************************************************)
EXTENDS Experiments

\* None is neither a number nor a partition, a pair of labels or a reason.
ASSUME NullAssumption ==
    /\ Null \notin Nat
    /\ Null \notin [first : Int, last : Int]
    /\ Null \notin Int \X Int
    /\ Null \notin {"empty", "unsorted", "duplicate", "lost_money", "none_passed"}

Rows(part) == part.last - part.first + 1

Refused(why) == [refused |-> why]

\* What every splitter refuses: no rows, unsorted rows, equal labels.
IndexRefusal(index) ==
    IF index = <<>> THEN "empty"
    ELSE IF \E i \in 1..(Len(index) - 1) : index[i] > index[i + 1] THEN "unsorted"
    ELSE IF ~IsInjective(index) THEN "duplicate"
    ELSE Null

-----------------------------------------------------------------------------
(* Evaluation of one partition *)

\* _run_partition: signals come from the whole history and the shared cache; only
\* the partition's bars are simulated and scored.
RunPartition(x, settings, part, cache) ==
    ExecuteExperiment([x EXCEPT !.supplied = settings, !.cache = cache,
                       !.range = <<x.data.index[part.first], x.data.index[part.last]>>])

\* _passing_parameters: the settings that passed, in rank order, or why there is none.
PassingParameters(result) ==
    IF result.passing /= <<>>
    THEN [settings |-> [i \in DOMAIN result.passing |-> result.passing[i].row], why |-> Null]
    ELSE LET Lost(r) == r.metrics["total_return"] = Null \/ r.metrics["total_return"] <= 0
         IN  [settings |-> <<>>,
              why |-> IF result.ranked /= <<>> /\ \A r \in Range(result.ranked) : Lost(r)
                      THEN "lost_money" ELSE "none_passed"]

\* lock_selected_parameters: the best passing setting, bound to the partition it was
\* chosen on.
LockSelectedParameters(result, part) ==
    LET p == PassingParameters(result)
    IN  IF p.why /= Null THEN Refused(p.why)
        ELSE [setting |-> p.settings[1], first |-> part.first, last |-> part.last]

\* evaluate_locked_test
EvaluateLockedTest(x, part, lock, cache) == RunPartition(x, <<lock.setting>>, part, cache)

\* The first n of a shortlist.
Shortlist(settings, n) == SubSeq(settings, 1, Min({n, Len(settings)}))

\* Training, an optional selection, the lock and the test on the three partitions.  A
\* stage without a passing setting ends the trial there; a gate that blocks raises.
Trial(x, w, size, cache) ==
    LET training == RunPartition(x, x.supplied, w.train, cache)
        survivors == PassingParameters(training)
        short == Shortlist(survivors.settings, size)
        selection == IF w.selection = Null THEN training
                     ELSE RunPartition(x, short, w.selection, training.cache)
        source == IF w.selection = Null THEN w.train ELSE w.selection
        lock == LockSelectedParameters(selection, source)
        test == EvaluateLockedTest(x, w.test, lock, selection.cache)
        Failed(stage, why, kept, c) ==
            [status |-> "failed", stage |-> stage, why |-> why, shortlist |-> kept,
             lock |-> Null, test |-> Null, cache |-> c, raised |-> {}]
        Raised(blocked) == [status |-> "raised", raised |-> blocked]
    IN  IF training.blocked /= {} THEN Raised(training.blocked)
        ELSE IF survivors.why /= Null THEN Failed("training", survivors.why, <<>>, training.cache)
        ELSE IF selection.blocked /= {} THEN Raised(selection.blocked)
        ELSE IF "refused" \in DOMAIN lock
             THEN Failed("selection", lock.refused, short, selection.cache)
        ELSE IF test.blocked /= {} THEN Raised(test.blocked)
        ELSE [status |-> "successful", stage |-> "test", why |-> Null,
              shortlist |-> short, lock |-> lock, test |-> test.ranked[1],
              cache |-> test.cache, raised |-> {}]

-----------------------------------------------------------------------------
(* Out of sample *)

\* ChronologicalSplitConfig: fractions in percent.
SplitConfigHolds(c) ==
    /\ \A f \in {c.train, c.selection, c.test} : f > 0 /\ f < 100
    /\ c.train + c.selection + c.test = 100
    /\ c.minimum >= 1

\* The rows of the first n days.
RowsUpto(days, n) ==
    LET unique == Ascending(Range(days))
    IN  Cardinality({i \in DOMAIN days : \E k \in 1..n : days[i] = unique[k]})

\* split_chronologically: cuts on whole days.
SplitChronologically(index, days, c) ==
    LET total == Cardinality(Range(days))
        train == (total * c.train) \div 100
        first == RowsUpto(days, train)
        second == RowsUpto(days, train + (total * c.selection) \div 100)
        split == [train |-> [first |-> 1, last |-> first],
                  selection |-> [first |-> first + 1, last |-> second],
                  test |-> [first |-> second + 1, last |-> Len(days)]]
    IN  IF IndexRefusal(index) /= Null THEN Refused(IndexRefusal(index))
        ELSE IF \E part \in DOMAIN split : Rows(split[part]) < c.minimum THEN Refused("rows")
        ELSE IF ~(days[first] < days[first + 1] /\ days[first + 1] < days[second + 1])
             THEN Refused("order")
        ELSE split

\* in_sample_slice: the rows before the test partition.
InSampleSlice(split) == [first |-> 1, last |-> split.test.first - 1]

\* unseen_data_screening: no Sharpe minimum on any slice.
UnseenDataScreening(x) == [x EXCEPT !.config.sharpe = Null]

\* execute_out_of_sample, with the part of its report that says where it ended.
ExecuteOutOfSample(x, days, c) ==
    LET split == SplitChronologically(x.data.index, days, c)
        trial == Trial(UnseenDataScreening(x), split, c.shortlist, NewSignalCache)
    IN  IF "refused" \in DOMAIN split THEN split
        ELSE [k \in DOMAIN trial \cup {"split"} |-> IF k = "split" THEN split ELSE trial[k]]

-----------------------------------------------------------------------------
(* Walk-forward windows *)

\* WalkForwardConfig.__post_init__; a selection of 0 is none.
WalkForwardConfigHolds(c) ==
    /\ \A n \in {c.training, c.test, c.step, c.minimum, c.shortlist} : n >= 1
    /\ c.mode \in {"rolling", "expanding"}
    /\ c.final \in {"drop", "include"}
    /\ c.training >= c.minimum
    /\ c.test >= c.minimum
    /\ c.selection = 0 \/ c.selection >= c.minimum
    /\ c.step >= c.test

\* Mutant: a cut stays where the rows put it.
DayStartMutant(sessions, position) == position

\* _day_start: rows before the first session that starts at or after position.
DayStart(sessions, position) ==
    IF position <= 0 \/ position >= Len(sessions) THEN position
    ELSE Cardinality({i \in DOMAIN sessions : sessions[i] <= sessions[position]})

\* _session_floor: rows before the session that contains position.
SessionFloor(sessions, position) ==
    Cardinality({i \in DOMAIN sessions : sessions[i] < sessions[position + 1]})

\* build_walk_forward_windows: one fold, [done] when the loop ends.
NextWindow(sessions, c, raw) ==
    LET n == Len(sessions)
        cursor == DayStart(sessions, raw)
        selected == DayStart(sessions, cursor + c.selection)
        requested == selected + c.test
        partial == requested > n
        end == IF partial THEN n ELSE DayStart(sessions, requested)
        start == IF c.mode = "expanding" THEN 0
                 ELSE SessionFloor(sessions, cursor - c.training)
    IN  IF \/ cursor + c.selection >= n
           \/ partial /\ (c.final = "drop" \/ end - selected < c.minimum)
        THEN [done |-> TRUE]
        ELSE [done |-> FALSE,
              window |-> [train |-> [first |-> start + 1, last |-> cursor],
                          selection |-> IF c.selection = 0 THEN Null
                                        ELSE [first |-> cursor + 1, last |-> selected],
                          test |-> [first |-> selected + 1, last |-> end]],
              raw |-> Max({cursor + c.step, end - c.selection})]

\* The check that the partitions of a fold are in order.
Ordered(index, w) ==
    LET Start(p) == index[p.first] End(p) == index[p.last]
    IN  IF w.selection = Null THEN End(w.train) < Start(w.test)
        ELSE End(w.train) < Start(w.selection) /\ Start(w.selection) < Start(w.test)

\* One round of the loop: another fold, or the end of the history.
NextFold(sessions, c, s) ==
    LET w == NextWindow(sessions, c, s.raw)
    IN  IF s.done THEN s
        ELSE IF w.done THEN [s EXCEPT !.done = TRUE]
        ELSE [done |-> FALSE, raw |-> w.raw, windows |-> Append(s.windows, w.window)]

\* The folds after as many rounds as there are rows.
FoldWindows(sessions, c) ==
    LET rounds[k \in 0..Len(sessions)] ==
            IF k = 0 THEN [done |-> FALSE, raw |-> c.training, windows |-> <<>>]
            ELSE NextFold(sessions, c, rounds[k - 1])
    IN  rounds[Len(sessions)].windows

BuildWalkForwardWindows(index, sessions, c) ==
    LET windows == FoldWindows(sessions, c)
    IN  IF IndexRefusal(index) /= Null THEN Refused(IndexRefusal(index))
        ELSE IF \E w \in Range(windows) : ~Ordered(index, w) THEN Refused("order")
        ELSE [windows |-> windows]

\* SessionGrid.max_session_rows and size_within; longest = Null for daily windows.
SizeWithin(actual, declared, longest, open_ended) ==
    IF longest = Null THEN actual = declared
    ELSE declared <= actual /\ (open_ended \/ actual < declared + longest)

\* require_session_boundary
SessionBoundaryHolds(sessions, before, after) == sessions[before] < sessions[after]

-----------------------------------------------------------------------------
(* Walk forward *)

\* _parameter_stability over the locked settings, in fold order.
ParameterStability(keys) ==
    LET Count(k) == Cardinality({i \in DOMAIN keys : keys[i] = k})
        Change(i) == keys[i] /= keys[i + 1]
        runs == {r \in (DOMAIN keys) \X (DOMAIN keys) :
                    r[1] <= r[2] /\ \A m \in r[1]..r[2] : keys[m] = keys[r[1]]}
    IN  [frequencies |-> SortSeq(Ascending(Range(keys)),
                            LAMBDA a, b : Count(a) > Count(b) \/ (Count(a) = Count(b) /\ a < b)),
         changes |-> Cardinality({i \in 1..(Len(keys) - 1) : Change(i)}),
         persistence |-> IF keys = <<>> THEN 0
                         ELSE Max({r[2] - r[1] + 1 : r \in runs})]

\* _aggregate: counts and sums over the successful folds.
AggregateFolds(folds) ==
    LET successful == SelectSeq(folds, LAMBDA f : f.status = "successful")
        Sum(m) == FoldLeft(LAMBDA acc, f : acc + f.test.metrics[m], 0, successful)
    IN  [total |-> Len(folds), successful |-> Len(successful),
         failed |-> Len(SelectSeq(folds, LAMBDA f : f.status = "failed")),
         returns |-> [i \in DOMAIN successful |-> successful[i].test.metrics["total_return"]],
         trades |-> Sum("trades"),
         stability |-> ParameterStability(
                          [i \in DOMAIN successful |-> successful[i].lock.setting])]

\* idea_overfitting: the whole grid, once, over the span of all folds.
IdeaOverfitting(x, windows, cache) ==
    LET span == [first |-> windows[1].train.first, last |-> windows[Len(windows)].test.last]
        grid == RunPartition(x, x.supplied, span, cache)
    IN  [trials |-> Len(x.supplied), blocked |-> grid.blocked,
         luckiest |-> IF grid.blocked = {} THEN grid.luckiest ELSE Null]

\* One fold after the others; a gate that blocks in it ends the run.
NextTrial(x, c, w, s) ==
    LET f == Trial(x, w, c.shortlist, s.cache)
    IN  IF s.raised /= {} THEN s
        ELSE IF f.raised /= {} THEN [s EXCEPT !.raised = f.raised]
        ELSE [raised |-> {}, cache |-> f.cache, folds |-> Append(s.folds, f)]

\* The trials of all windows, which share one cache.
FoldTrials(x, c, windows) ==
    LET run[k \in 0..Len(windows)] ==
            IF k = 0 THEN [raised |-> {}, cache |-> NewSignalCache, folds |-> <<>>]
            ELSE NextTrial(x, c, windows[k], run[k - 1])
    IN  run[Len(windows)]

\* execute_walk_forward: a fold that fails is recorded, the others still run.
ExecuteWalkForward(x, sessions, c) ==
    LET built == BuildWalkForwardWindows(x.data.index, sessions, c)
        run == FoldTrials(x, c, built.windows)
        idea == IdeaOverfitting(x, built.windows, run.cache)
    IN  IF "refused" \in DOMAIN built THEN built
        ELSE IF built.windows = <<>> THEN Refused("no_folds")
        ELSE IF run.raised \cup idea.blocked /= {} THEN Refused("raised")
        ELSE [windows |-> built.windows, folds |-> run.folds,
              summary |-> AggregateFolds(run.folds), idea |-> idea]

-----------------------------------------------------------------------------
(* Low-frequency evidence of one fixed candidate *)

\* LowFrequencyEvidenceConfig.__post_init__; the rate is in percent.
LowFrequencyConfigHolds(c) ==
    /\ c.trades >= 1
    /\ c.folds >= 1
    /\ c.rate > 0 /\ c.rate <= 100
    /\ c.drawdown >= 0

\* _status_from_metrics
LowFrequencyStatus(m, c) ==
    CASE m["trades"] < c.trades -> "insufficient_evidence"
      [] /\ m["total_return"] > c.total_return
         /\ m["annualized"] > c.annualized
         /\ m["sharpe"] /= Null /\ m["sharpe"] >= c.sharpe
         /\ Abs(m["drawdown"]) <= c.drawdown -> "passed"
      [] OTHER -> "failed"

\* aggregate_low_frequency_evidence over [status, drawdown].
AggregateLowFrequency(folds, c) ==
    LET sufficient == Where(folds, LAMBDA f : f.status /= "insufficient_evidence")
        passing == Where(folds, LAMBDA f : f.status = "passed")
        worst == IF folds = <<>> THEN 0 ELSE Min({f.drawdown : f \in Range(folds)})
        reasons == {r \in {"folds", "rate", "drawdown"} :
            CASE r = "folds" -> Cardinality(sufficient) < c.folds
              [] r = "rate" -> /\ sufficient /= {}
                               /\ 100 * Cardinality(passing) < c.rate * Cardinality(sufficient)
              [] r = "drawdown" -> Abs(worst) > c.drawdown}
    IN  [status |-> IF "folds" \in reasons THEN "insufficient_evidence"
                    ELSE IF reasons /= {} THEN "failed" ELSE "passed",
         sufficient |-> Cardinality(sufficient), passing |-> Cardinality(passing)]

\* execute_low_frequency_evidence: the fixed setting on every validation window; the
\* input may not reach the forbidden date.
ExecuteLowFrequency(x, sessions, c, forbidden, policy) ==
    LET built == BuildWalkForwardWindows(x.data.index, sessions, c)
        Fold(w) ==
            LET r == RunPartition(x, x.supplied, w.test, NewSignalCache)
            IN  IF r.blocked /= {} \/ Len(r.ranked) /= 1 THEN Null
                ELSE [status |-> LowFrequencyStatus(r.ranked[1].metrics, policy),
                      drawdown |-> r.ranked[1].metrics["drawdown"]]
        folds == [i \in DOMAIN built.windows |-> Fold(built.windows[i])]
    IN  IF \E i \in DOMAIN sessions : sessions[i] >= forbidden THEN Refused("forbidden")
        ELSE IF Len(x.supplied) /= 1 THEN Refused("fixed_parameters")
        ELSE IF "refused" \in DOMAIN built THEN built
        ELSE IF built.windows = <<>> THEN Refused("no_folds")
        ELSE IF c.selection /= 0 THEN Refused("selection")
        ELSE IF \E f \in Range(folds) : f = Null THEN Refused("raised")
        ELSE [folds |-> folds, aggregate |-> AggregateLowFrequency(folds, policy)]
===============================================================================
