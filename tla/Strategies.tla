------------------------------ MODULE Strategies ------------------------------
(***************************************************************************)
(* The signals of the built-in strategies, and the checks of the two fixed *)
(* candidates against the engine's ledger.                                 *)
(*                                                                         *)
(* A history maps the times that have a bar to bars; time counts bars.  A  *)
(* session is [open, close]: its bars are open..(close - 1).  Signals are  *)
(* sets of times.  p holds a strategy's numbers, in bars and ticks.        *)
(***************************************************************************)
EXTENDS Values

Fields == {"Open", "High", "Low", "Close", "Volume"}

SessionBars(s) == s.open .. (s.close - 1)

Finite(bar) == \A f \in Fields : bar[f] /= Null

Positive(bar) == \A f \in Fields : bar[f] > 0

\* A full regular session whose bars are all present, finite and positive.
FullSession(data, s, length) ==
    /\ s.close - s.open = length
    /\ SessionBars(s) \subseteq DOMAIN data
    /\ \A t \in SessionBars(s) : Finite(data[t]) /\ Positive(data[t])

NoSignals == [n \in {"entries", "exits", "short_entries", "short_exits"} |-> {}]

\* The signals of a set of trades [side, at, exit].
SignalsOf(trades) ==
    LET Of(side) == {x \in trades : x.side = side}
    IN  [entries |-> {x.at : x \in Of("long")},
         exits |-> {x.exit : x \in Of("long")},
         short_entries |-> {x.at : x \in Of("short")},
         short_exits |-> {x.exit : x \in Of("short")}]

\* One trade at most per session of the schedule.
OneTradeEach(schedule, Trade(_)) ==
    SignalsOf({Trade(s) : s \in Range(schedule)} \ {Null})

-----------------------------------------------------------------------------
(* Session strategies *)

\* generate_signals of the run exhaustion strategy: the first bar that completes
\* a run of equally signed large bodies inside the window is faded for two bars.
FiveBarRunTrade(data, s, p) ==
    LET Body(t) == data[t].Close - data[t].Open
        Run(t, sign) ==
            /\ t - p.run + 1 >= s.open
            /\ \A u \in (t - p.run + 1) .. t :
                   sign * Body(u) > 0 /\ Abs(Body(u)) >= p.minimum
        exhausted == {t \in SessionBars(s) : /\ t + 1 - s.open \in p.from .. p.to
                                             /\ Run(t, 1) \/ Run(t, -1)}
        at == Min(exhausted)
        exit == Min({at + 2, s.close - 3})
    IN  IF \/ ~FullSession(data, s, p.full)
           \/ exhausted = {}
           \/ ~({at + 1, exit} \subseteq DOMAIN data)
        THEN Null
        ELSE [side |-> IF Run(at, 1) THEN "short" ELSE "long",
              at |-> at, exit |-> exit]

\* generate_candidate_signals of the SMA crossover: the first cross of the two
\* averages after the slow one is defined twice, held to two bars before the close.
SmaCrossoverTrade(data, s, p) ==
    LET Total(t, n) == FoldSet(LAMBDA u, acc : acc + data[u].Close, 0, (t - n + 1) .. t)
        Spread(t) == Total(t, p.fast) * p.slow - Total(t, p.slow) * p.fast
        exit == s.close - 2
        eligible == (s.open + p.slow) .. (exit - 1)
        Up(t) == Spread(t - 1) <= 0 /\ Spread(t) > 0
        Down(t) == Spread(t - 1) >= 0 /\ Spread(t) < 0
        crossed == {t \in eligible : Up(t) \/ Down(t)}
    IN  IF ~FullSession(data, s, p.full) \/ crossed = {} THEN Null
        ELSE [side |-> IF Up(Min(crossed)) THEN "long" ELSE "short",
              at |-> Min(crossed), exit |-> exit]

\* Mutant: the range is that of the session so far, later bars included.
RangeHighMutant(data, s, n) ==
    Max({data[t].High : t \in SessionBars(s) \cap DOMAIN data})

\* The opening range of a session.
RangeHigh(data, s, n) == Max({data[t].High : t \in s.open .. (s.open + n - 1)})
RangeLow(data, s, n) == Min({data[t].Low : t \in s.open .. (s.open + n - 1)})

\* generate_orb_signal_bundle: the first close beyond the opening range that is
\* followed by its next bar, held to the last bar of the session.
OpeningRangeTrade(data, s, p) ==
    LET range == s.open .. (s.open + p.range - 1)
        exit == s.close - 1
        Beyond(t) == IF p.direction = "long"
                     THEN data[t].Close > RangeHigh(data, s, p.range) + p.offset
                     ELSE data[t].Close < RangeLow(data, s, p.range) - p.offset
        qualifying == {t \in (s.open + p.range) .. (exit - 1) :
                          t \in DOMAIN data /\ t + 1 \in DOMAIN data /\ Beyond(t)}
    IN  IF ~((range \cup {exit, s.close}) \subseteq DOMAIN data) \/ qualifying = {}
        THEN Null
        ELSE [side |-> p.direction, at |-> Min(qualifying), exit |-> exit]

\* generate_candidate_signals of the VWAP breakout: the first signal bar whose
\* next open still leaves a positive risk to the opposite end of the range.
VwapBreakoutTrade(data, s, p) ==
    LET Sum3(t) == data[t].High + data[t].Low + data[t].Close
        Weighted(t) == FoldSet(LAMBDA u, acc : acc + Sum3(u) * data[u].Volume, 0, s.open .. t)
        Traded(t) == FoldSet(LAMBDA u, acc : acc + data[u].Volume, 0, s.open .. t)
        OverVwap(t) == 3 * data[t].Close * Traded(t) - Weighted(t)
        high == RangeHigh(data, s, p.range)
        low == RangeLow(data, s, p.range)
        exit == s.close - 2
        Height(t) == data[t].High - data[t].Low
        Body(t) == /\ Height(t) > 0
                   /\ 100 * Abs(data[t].Close - data[t].Open) >= p.body * Height(t)
        Long(t) == data[t].Close >= high + p.buffer /\ OverVwap(t) > 0
        Short(t) == data[t].Close <= low - p.buffer /\ OverVwap(t) < 0
        Entry(t) == data[t + 1].Open
        Risk(t) == IF Long(t) THEN Entry(t) - low ELSE high - Entry(t)
        signalled == {t \in (s.open + p.range) .. (exit - 1) :
                         /\ t + 1 \in DOMAIN data
                         /\ Body(t)
                         /\ Long(t) \/ Short(t)}
        valid == {t \in signalled : Risk(t) > 0 /\ Entry(t) > 0}
        usable == /\ SessionBars(s) \subseteq DOMAIN data
                  /\ s.close - s.open >= p.full - 1
                  /\ \A t \in SessionBars(s) : Finite(data[t]) /\ data[t].Volume > 0
    IN  IF ~usable \/ valid = {} THEN Null
        ELSE [side |-> IF Long(Min(valid)) THEN "long" ELSE "short",
              at |-> Min(valid), exit |-> exit,
              stop |-> <<Risk(Min(valid)), Entry(Min(valid))>>]

-----------------------------------------------------------------------------
(* Strategies on every bar *)

\* The times of a history in order, and the lag-th bar before t.
Times(data) == Ascending(DOMAIN data)

\* The n bars before position i; empty while there are not so many.
Channel(data, field, i, n) ==
    IF i <= n THEN {} ELSE {data[Times(data)[j]][field] : j \in (i - n) .. (i - 1)}

\* generate_donchian_signals
DonchianSignals(data, p) ==
    LET Close(i) == data[Times(data)[i]].Close
        At(Test(_)) == {Times(data)[i] : i \in {j \in DOMAIN Times(data) : Test(j)}}
        Above(i, n) == LET c == Channel(data, "High", i, n) IN c /= {} /\ Close(i) > Max(c)
        Below(i, n) == LET c == Channel(data, "Low", i, n) IN c /= {} /\ Close(i) < Min(c)
    IN  IF p.direction = "long"
        THEN [NoSignals EXCEPT !.entries = At(LAMBDA i : Above(i, p.entry)),
                               !.exits = At(LAMBDA i : Below(i, p.exit))]
        ELSE [NoSignals EXCEPT !.short_entries = At(LAMBDA i : Below(i, p.entry)),
                               !.short_exits = At(LAMBDA i : Above(i, p.exit))]

\* External: the library's RSI, from the closes of the last n changes.
Rsi(data, i, n) ==
    LET Change(j) == data[Times(data)[j]].Close - data[Times(data)[j - 1]].Close
        gains == FoldSet(LAMBDA j, acc : acc + Max({0, Change(j)}), 0, (i - n + 1) .. i)
        moves == FoldSet(LAMBDA j, acc : acc + Abs(Change(j)), 0, (i - n + 1) .. i)
    IN  IF i <= n THEN Null ELSE IF moves = 0 THEN 50 ELSE (100 * gains) \div moves

\* _generate_signals of the RSI strategies: crossings of the two thresholds.
RsiSignals(data, p) ==
    LET R(i) == Rsi(data, i, p.window)
        Pairs == {i \in DOMAIN Times(data) : i > 1 /\ R(i - 1) /= Null}
        Down(i) == R(i - 1) >= p.entry /\ R(i) < p.entry
        Up(i) == R(i - 1) <= p.exit /\ R(i) > p.exit
    IN  [NoSignals EXCEPT !.entries = {Times(data)[i] : i \in {j \in Pairs : Down(j)}},
                          !.exits = {Times(data)[i] : i \in {j \in Pairs : Up(j)}}]

-----------------------------------------------------------------------------
(* The overnight gap reversal *)

\* normalize_mes_mapping: intervals [from, to, id] that tile the coverage, or Null.
NormalizeMesMapping(intervals, first, last) ==
    LET sorted == SortSeq(intervals, LAMBDA a, b :
                      a.from < b.from \/ (a.from = b.from /\ a.to < b.to))
    IN  IF /\ intervals /= <<>>
           /\ \A i \in DOMAIN intervals : intervals[i].from < intervals[i].to
           /\ \A i \in 1..(Len(sorted) - 1) : sorted[i + 1].from = sorted[i].to
           /\ sorted[1].from <= first
           /\ sorted[Len(sorted)].to >= last
        THEN sorted ELSE Null

\* _mapping_for_date
MappingForDate(mapping, day) ==
    LET matches == {i \in DOMAIN mapping : mapping[i].from <= day /\ day < mapping[i].to}
    IN  IF Cardinality(matches) = 1 THEN mapping[CHOOSE i \in matches : TRUE] ELSE Null

\* The prior close and the current open belong to different contracts.
RollBoundary(mapping, before, day) ==
    MappingForDate(mapping, before) /= MappingForDate(mapping, day)

\* generate_mes_overnight_gap_reversal_bundle for session k of the schedule:
\* a trade, or the reason for its exclusion.
GapSession(data, schedule, mapping, k, p) ==
    LET s == schedule[k]
        prior == schedule[k - 1]
        close == prior.open + p.full - 1
        current == s.open .. (s.open + p.hold)
        required == {close} \cup current
        Valid(t) == Finite(data[t]) /\ data[t].Volume >= 0
                    /\ \A f \in Fields \ {"Volume"} : data[t][f] > 0
        gap == data[s.open].Open - data[close].Close
        side == IF gap > 0 THEN -1 ELSE 1
        entry == data[s.open + 1].Open + side * p.tick
        exit == data[s.open + p.hold].Open - side * p.tick
        reason ==
            IF k = 1 THEN "missing_prior_session_boundary"
            ELSE IF prior.close - prior.open < p.full THEN "prior_session_early_close"
            ELSE IF ~(required \subseteq DOMAIN data) THEN "missing_required_boundary_bar"
            ELSE IF \E t \in required : ~Valid(t) THEN "invalid_required_boundary_bar"
            ELSE IF RollBoundary(mapping, prior.day, s.day) THEN "roll_mapping_boundary"
            ELSE IF gap = 0 THEN "zero_gap"
            ELSE Null
    IN  [reason |-> reason,
         trade |-> IF reason /= Null THEN Null
                   ELSE [side |-> IF side > 0 THEN "long" ELSE "short",
                         at |-> s.open + 1, exit |-> s.open + p.hold,
                         entry_fill |-> entry, exit_fill |-> exit,
                         contract |-> MappingForDate(mapping, s.day),
                         pnl |-> side * (exit - entry) * p.point - 2 * p.fee]]

GapBundle(data, schedule, mapping, p) ==
    LET sessions == [k \in DOMAIN schedule |-> GapSession(data, schedule, mapping, k, p)]
        traded == {k \in DOMAIN schedule : sessions[k].trade /= Null}
    IN  [trades |-> [i \in 1..Cardinality(traded) |->
                        sessions[Ascending(traded)[i]].trade],
         excluded |-> Cardinality(DOMAIN schedule \ traded),
         daily |-> [k \in DOMAIN schedule |->
                        IF k \in traded THEN sessions[k].trade.pnl ELSE 0],
         signals |-> SignalsOf({sessions[k].trade : k \in traded})]

\* exact_execution_prices: the fills of the trades, the close elsewhere.
GapExecutionPrices(data, bundle, p) ==
    [t \in DOMAIN data |->
        LET fills == {x.entry_fill : x \in {y \in Range(bundle.trades) : y.at = t}}
                \cup {x.exit_fill : x \in {y \in Range(bundle.trades) : y.exit = t}}
        IN  p.point * (IF fills = {} THEN data[t].Close ELSE CHOOSE v \in fills : TRUE)]

\* External: the engine, one unit, fixed fees, without accumulation.  The ledger
\* holds the trades; an open one has no exit.
EngineLedger(data, signals, price, fee) ==
    LET Step(ledger, t) ==
            LET n == Len(ledger)
                open == n > 0 /\ ledger[n].exit = Null
                Leave == IF ledger[n].side = "long" THEN t \in signals.exits
                         ELSE t \in signals.short_exits
                Value(x) == (IF x.side = "long" THEN 1 ELSE -1) * (price[t] - x.entry)
            IN  CASE open /\ Leave ->
                        [ledger EXCEPT ![n].exit = t, ![n].paid = price[t],
                                       ![n].pnl = Value(ledger[n]) - 2 * fee]
                  [] ~open /\ t \in signals.entries \cup signals.short_entries ->
                        Append(ledger,
                            [side |-> IF t \in signals.entries THEN "long" ELSE "short",
                             at |-> t, entry |-> price[t], exit |-> Null,
                             paid |-> 0, pnl |-> 0])
                  [] OTHER -> ledger
    IN  FoldLeft(Step, <<>>, Times(data))

\* validate_vectorbt_against_manual: the ledger is exactly the manual trades.
LedgerMatchesManual(ledger, trades, p) ==
    /\ Len(ledger) = Len(trades)
    /\ \A i \in DOMAIN trades :
           /\ ledger[i].exit = trades[i].exit
           /\ ledger[i].at = trades[i].at
           /\ ledger[i].side = trades[i].side
           /\ ledger[i].entry = p.point * trades[i].entry_fill
           /\ ledger[i].paid = p.point * trades[i].exit_fill
           /\ ledger[i].pnl = trades[i].pnl

\* schedule_complete_metrics: equity after each scheduled session; undefined when
\* it is not positive, when returns do not vary or when nothing traded.
ScheduleCompleteEquity(bundle, cash) ==
    LET Equity(k) == cash + FoldSet(LAMBDA j, acc : acc + bundle.daily[j], 0, 1..k)
        equity == [k \in DOMAIN bundle.daily |-> Equity(k)]
        Before(k) == IF k = 1 THEN cash ELSE equity[k - 1]
        Varies == \E j, k \in DOMAIN equity :
                      equity[j] * Before(k) /= equity[k] * Before(j)
    IN  IF /\ Len(bundle.daily) >= 2
           /\ \A k \in DOMAIN equity : equity[k] > 0
           /\ Varies
           /\ bundle.trades /= <<>>
        THEN equity ELSE Null

-----------------------------------------------------------------------------
(* The intraday momentum candidate *)

\* generate_intraday_momentum_signal_bundle for session k: long when the morning
\* close is above the previous last close, else short; held inside the session.
MomentumTrade(data, schedule, k, p) ==
    LET s == schedule[k]
        before == schedule[k - 1].open + p.full - 1
        now == s.open + p.morning
        entry == s.open + p.entry
        exit == s.open + p.full - 1
    IN  IF k = 1 THEN Null
        ELSE IF ~({before, now, entry, exit} \subseteq DOMAIN data) THEN Null
        ELSE [side |-> IF data[now].Close > data[before].Close THEN "long" ELSE "short",
              at |-> entry, exit |-> exit]

MomentumTrades(data, schedule, p) ==
    {MomentumTrade(data, schedule, k, p) : k \in DOMAIN schedule} \ {Null}

\* exact_execution_prices: entries at the open, exits at the close; Null when a
\* bar would need both a buy and a sell.
MomentumExecutionPrices(data, signals) ==
    LET buys == signals.entries \cup signals.short_exits
        sells == signals.exits \cup signals.short_entries
    IN  IF buys \cap sells /= {} THEN Null
        ELSE [t \in DOMAIN data |->
                IF t \in signals.exits \cup signals.short_exits THEN data[t].Close
                ELSE IF t \in signals.entries \cup signals.short_entries THEN data[t].Open
                ELSE data[t].Close]

\* validate_candidate_execution
MomentumExecutionHolds(data, signals, trades, price) ==
    /\ Cardinality(signals.entries) = Cardinality(signals.exits)
    /\ Cardinality(signals.short_entries) = Cardinality(signals.short_exits)
    /\ signals.entries \cap signals.short_entries = {}
    /\ signals.exits \cap signals.short_exits = {}
    /\ Cardinality(signals.entries) + Cardinality(signals.short_entries) = Cardinality(trades)
    /\ price /= Null
    /\ \A t \in DOMAIN data : price[t] /= Null /\ price[t] > 0
    /\ \A x \in trades : /\ (x.at \in signals.entries) = (x.side = "long")
                         /\ (x.exit \in signals.exits) = (x.side = "long")
                         /\ price[x.at] = data[x.at].Open
                         /\ price[x.exit] = data[x.exit].Close

\* validate_completed_trades: one closed trade per eligible session, directions kept.
CompletedTradesMatch(ledger, trades) ==
    /\ Len(ledger) = Cardinality(trades)
    /\ \A i \in DOMAIN ledger : ledger[i].exit /= Null
    /\ \A side \in {"long", "short"} :
           Cardinality({i \in DOMAIN ledger : ledger[i].side = side})
             = Cardinality({x \in trades : x.side = side})

-----------------------------------------------------------------------------
(* The registry of strategies *)

\* generate_signals of the strategy named by p.
GenerateSignals(data, schedule, p) ==
    CASE p.strategy = "run_exhaustion" ->
            OneTradeEach(schedule, LAMBDA s : FiveBarRunTrade(data, s, p))
      [] p.strategy = "sma" ->
            OneTradeEach(schedule, LAMBDA s : SmaCrossoverTrade(data, s, p))
      [] p.strategy = "orb" ->
            OneTradeEach(schedule, LAMBDA s : OpeningRangeTrade(data, s, p))
      [] p.strategy = "vwap" ->
            OneTradeEach(schedule, LAMBDA s : VwapBreakoutTrade(data, s, p))
      [] p.strategy = "donchian" -> DonchianSignals(data, p)
      [] p.strategy = "rsi" -> RsiSignals(data, p)
      [] p.strategy = "momentum" -> SignalsOf(MomentumTrades(data, schedule, p))
      [] p.strategy = "gap" -> GapBundle(data, schedule, p.mapping, p).signals

\* ParameterDefinition.validate of every parameter: a normalized setting, or
\* Null.  definitions maps names to [default, allowed, low, high].
ValidateParameters(definitions, parameters) ==
    LET normalized == [n \in DOMAIN definitions |->
            IF n \in DOMAIN parameters THEN parameters[n] ELSE definitions[n].default]
        Valid(n) == LET d == definitions[n]
                        v == normalized[n]
                    IN  /\ d.allowed /= {} => v \in d.allowed
                        /\ d.low /= Null => v >= d.low
                        /\ d.high /= Null => v <= d.high
    IN  IF /\ DOMAIN parameters \subseteq DOMAIN definitions
           /\ \A n \in DOMAIN definitions : Valid(n)
        THEN normalized ELSE Null

-----------------------------------------------------------------------------
(* Parameter plans *)

\* validate_parameter_definition: what governance refuses in a definition, which
\* adds [optimizable, reference, contribution, class, structural, approved] and
\* the sequence of candidates to the fields above.
ValidateParameterDefinition(d, requireApproved) ==
    /\ d.class \in {"fixed", "source_defined", "bounded_discrete", "local_sensitivity",
                   "structural_choice"}
    /\ d.reference = d.default
    /\ requireApproved => d.approved
    /\ IF d.optimizable
       THEN /\ d.candidates /= <<>>
            /\ IsInjective(d.candidates)
            /\ d.reference \in Range(d.candidates)
            /\ d.contribution = Len(d.candidates)
       ELSE d.contribution \in {Null, 1}
    /\ d.class = "fixed" => ~d.optimizable
    /\ d.class = "structural_choice" => d.structural /\ ~d.optimizable
    /\ d.structural => d.class = "structural_choice"

\* validate_parameter_plan, for plan [names, definitions, approved].
ValidateParameterPlan(plan, requireApproved) ==
    /\ requireApproved => plan.approved
    /\ IsInjective(plan.names)
    /\ \A n \in Range(plan.names) :
           ValidateParameterDefinition(plan.definitions[n], requireApproved)

\* summarize_parameter_plan: the size of the grid, and whether it warns.
SummarizeParameterPlan(plan, threshold, requireApproved) ==
    LET optimized == {n \in Range(plan.names) : plan.definitions[n].optimizable}
        total == FoldSet(LAMBDA n, acc : acc * Len(plan.definitions[n].candidates),
                         1, optimized)
    IN  IF ~ValidateParameterPlan(plan, requireApproved) THEN Null
        ELSE [total |-> total, warns |-> total > threshold,
              structural |-> {n \in Range(plan.names) :
                                 plan.definitions[n].class = "structural_choice"}]
=============================================================================
