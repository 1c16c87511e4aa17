------------------------------ MODULE Experiments ------------------------------
(***************************************************************************)
(* One experiment: the hygiene gates before a simulation, the alignment of *)
(* completed-bar signals to the bar they execute on, the sweep over the    *)
(* settings in chunks with a bounded signal cache, the cap on trades per   *)
(* session, and the screening and ranking of the results.                  *)
(*                                                                         *)
(* A history is [columns, index, bars]: bars[i] maps a column to a price   *)
(* or Null.  A signal is [bool, values]: whether its dtype is boolean, and *)
(* one value per bar.  The engine that simulates a portfolio is external:  *)
(* Engine(aligned) stands for what it returns for one column.              *)
(***************************************************************************)
EXTENDS Values

PriceColumns == {"Open", "High", "Low", "Close"}

SignalNames == {"entries", "exits", "short_entries", "short_exits"}

-----------------------------------------------------------------------------
(* Gates *)

\* The gates that fail for a history (the index gate of a signal is part of
\* its length gate).
ValidateMarketData(data, required, execution) ==
    LET prices == PriceColumns \cap data.columns
        Ok(row) == \A c \in PriceColumns : row[c] /= Null
        usable == {i \in DOMAIN data.bars : Ok(data.bars[i])}
    IN  {g \in {"non_empty", "required_columns", "non_null", "monotonic",
                "unique", "prices_non_null", "finite_positive",
                "ohlc_relationships"} :
         CASE g = "non_empty" -> data.bars = <<>>
           [] g = "required_columns" ->
                ~((required \cup {"Close", execution.price_field})
                      \subseteq data.columns)
           [] g = "non_null" -> \E i \in DOMAIN data.index : data.index[i] = Null
           [] g = "monotonic" ->
                \E i \in 1..(Len(data.index) - 1) :
                    \/ Null \in {data.index[i], data.index[i + 1]}
                    \/ data.index[i] > data.index[i + 1]
           [] g = "unique" -> ~IsInjective(data.index)
           [] g = "prices_non_null" ->
                \E i \in DOMAIN data.bars, c \in prices : data.bars[i][c] = Null
           [] g = "finite_positive" ->
                \E i \in DOMAIN data.bars, c \in prices :
                    data.bars[i][c] = Null \/ data.bars[i][c] <= 0
           [] g = "ohlc_relationships" ->
                /\ PriceColumns \subseteq data.columns
                /\ \E i \in usable, c \in {"Open", "Close", "Low"} :
                       \/ data.bars[i]["High"] < data.bars[i][c]
                       \/ data.bars[i]["Low"] > data.bars[i][c]}

\* A series of zeros and ones is as good as a boolean one.
NormalizeSignal(series) ==
    IF series.bool THEN series
    ELSE IF \A i \in DOMAIN series.values : series.values[i] \in {0, 1}
    THEN [series EXCEPT !.bool = TRUE,
                        !.values = [i \in DOMAIN @ |-> @[i] = 1]]
    ELSE series

\* signals maps the names that are present to series.
NormalizeSignals(signals) ==
    [name \in DOMAIN signals |-> NormalizeSignal(signals[name])]

IsOn(series, i) == IF series.bool THEN series.values[i] = TRUE ELSE series.values[i] = 1

Fires(series) == \E i \in DOMAIN series.values : IsOn(series, i)

HasNull(series) == \E i \in DOMAIN series.values : series.values[i] = Null

ValidateSignals(data, signals, execution) ==
    LET short == {"short_entries", "short_exits"} \cap DOMAIN signals
    IN  {g \in {"length", "non_null", "boolean", "structure", "direction"} :
         CASE g = "length" ->
                \E n \in DOMAIN signals :
                    Len(signals[n].values) /= Len(data.bars)
           [] g = "non_null" -> \E n \in DOMAIN signals : HasNull(signals[n])
           [] g = "boolean" -> \E n \in DOMAIN signals : ~signals[n].bool
           [] g = "structure" -> Cardinality(short) = 1
           [] g = "direction" ->
                \/ /\ execution.direction = "longonly"
                   /\ \E n \in short : ~HasNull(signals[n]) /\ Fires(signals[n])
                \/ /\ execution.direction = "shortonly"
                   /\ Fires(signals["entries"]) \/ Fires(signals["exits"])}

\* _shift_signal: a completed bar's signal belongs to the next bar.
ShiftSignal(series) ==
    [bool |-> TRUE,
     values |-> [i \in DOMAIN series.values |-> i > 1 /\ IsOn(series, i - 1)]]

\* The value that fills a level on a bar without a signal: no hold, no stop.
Absent(name) == IF name = "td_stop" THEN -1 ELSE Null

\* align_signals_for_execution on [signals, levels, cap, sessions]: levels maps
\* the stops that are set to a value per bar; sessions are those of the fill bar.
AlignSignals(result, execution) ==
    CASE execution.mode = "same_bar_close" -> result
      [] execution.mode = "next_bar_open" ->
             [result EXCEPT
                !.signals = [n \in DOMAIN @ |-> ShiftSignal(@[n])],
                !.levels = [n \in DOMAIN @ |-> [i \in DOMAIN @[n] |->
                                IF i = 1 THEN Absent(n) ELSE @[n][i - 1]]]]
      [] OTHER -> Null

\* The contradictions in a set of execution assumptions; a size of Null is
\* infinite.
AssumptionFailures(x) ==
    LET price == [next_bar_open |-> "Open", same_bar_close |-> "Close"]
        absolute == {x.slippage_points, x.slippage_ticks}
    IN  {f \in {"mode", "price_field", "timing", "sizing", "order_size",
                "direction", "cash", "costs", "slippage", "tick_size",
                "fixed_fee", "leverage", "multiplier"} :
         CASE f = "mode" -> x.mode \notin DOMAIN price
           [] f = "price_field" ->
                x.mode \in DOMAIN price /\ x.price_field /= price[x.mode]
           [] f = "timing" -> x.timing /= "completed_bar_close"
           [] f = "sizing" ->
                x.sizing \notin {"all_available_cash", "all_cash_whole_shares",
                                 "fixed_units"}
           [] f = "order_size" ->
                CASE x.sizing = "all_cash_whole_shares" -> x.size /= 1
                  [] x.sizing = "fixed_units" -> x.size = Null \/ x.size <= 0
                  [] x.sizing = "all_available_cash" -> x.size /= Null
                  [] OTHER -> FALSE
           [] f = "direction" -> x.direction \notin {"longonly", "shortonly", "both"}
           [] f = "cash" -> x.cash <= 0
           [] f = "costs" ->
                \E c \in {x.fees, x.slippage, x.fixed_fee} \cup absolute : c < 0
           [] f = "slippage" ->
                \/ 0 \notin absolute
                \/ x.slippage /= 0 /\ absolute /= {0}
           [] f = "tick_size" ->
                x.slippage_ticks /= 0 /\ (x.tick_size = Null \/ x.tick_size <= 0)
           [] f = "fixed_fee" -> x.fixed_fee /= 0 /\ x.sizing /= "fixed_units"
           [] f = "leverage" -> x.leverage <= 0
           [] f = "multiplier" -> x.multiplier <= 0}

\* The gates that fail between the raw and the aligned signals.
ValidateExecution(data, raw, aligned, execution) ==
    LET active == {i \in DOMAIN data.bars :
                      \E n \in DOMAIN aligned : aligned[n].values[i]}
        Unusable(i) == LET p == data.bars[i][execution.price_field]
                       IN p = Null \/ p <= 0
        exact == CASE execution.mode = "next_bar_open" ->
                        \A n \in DOMAIN raw :
                            n \in DOMAIN aligned /\ aligned[n] = ShiftSignal(raw[n])
                   [] execution.mode = "same_bar_close" -> aligned = raw
                   [] OTHER -> FALSE
    IN  {g \in {"price_column", "shift_capacity", "price_availability",
                "exact_alignment", "assumptions"} :
         CASE g = "price_column" -> execution.price_field \notin data.columns
           [] g = "shift_capacity" ->
                execution.mode = "next_bar_open" /\ Len(data.bars) < 2
           [] g = "price_availability" ->
                /\ execution.price_field \in data.columns
                /\ \E i \in active : Unusable(i)
           [] g = "exact_alignment" -> ~exact
           [] g = "assumptions" -> AssumptionFailures(execution) /= {}}

\* validate_for_simulation: the gates block in this order; what passes is
\* returned aligned.
ValidateForSimulation(data, result, required, execution) ==
    LET normalized == [result EXCEPT !.signals = NormalizeSignals(@)]
        aligned == AlignSignals(normalized, execution)
        market == ValidateMarketData(data, required, execution)
        early == IF market /= {} THEN market
                 ELSE ValidateSignals(data, normalized.signals, execution)
        failed == IF early /= {} THEN early
                  ELSE IF aligned = Null THEN {"mode"}
                  ELSE ValidateExecution(data, normalized.signals, aligned.signals,
                                         execution)
    IN  IF failed = {} THEN [blocked |-> {}, aligned |-> aligned]
        ELSE [blocked |-> failed, aligned |-> Null]

-----------------------------------------------------------------------------
(* The inputs of the engine *)

\* _stop_args: the levels that are set and the prices they are read against.
StopArgs(data, aligned, execution) ==
    IF DOMAIN aligned.levels = {} THEN [n \in {} |-> Null]
    ELSE IF execution.mode /= "next_bar_open" THEN Null
    ELSE [n \in DOMAIN aligned.levels \cup {"open", "high", "low"} |->
            CASE n = "open" -> [i \in DOMAIN data.bars |-> data.bars[i]["Open"]]
              [] n = "high" -> [i \in DOMAIN data.bars |-> data.bars[i]["High"]]
              [] n = "low" -> [i \in DOMAIN data.bars |-> data.bars[i]["Low"]]
              [] OTHER -> aligned.levels[n]]

\* _setting_args: what belongs to one setting.  A short-only setting hands its
\* short signals over as the entries and exits of its direction.
SettingArgs(data, aligned, execution) ==
    LET source == CASE execution.direction = "shortonly" ->
                         [entries |-> "short_entries", exits |-> "short_exits"]
                    [] execution.direction = "longonly" ->
                         [entries |-> "entries", exits |-> "exits"]
                    [] OTHER -> [n \in SignalNames |-> n]
        present == {n \in DOMAIN source : source[n] \in DOMAIN aligned.signals}
        signals == [n \in present |-> aligned.signals[source[n]].values]
        price == [i \in DOMAIN data.bars |->
                     data.bars[i][execution.price_field] * execution.multiplier]
        stops == StopArgs(data, aligned, execution)
    IN  [n \in present \cup {"price"} \cup DOMAIN stops |->
            CASE n \in present -> signals[n]
              [] n = "price" -> price
              [] OTHER -> stops[n]]

\* Inputs that all settings of a sweep share.
SharedArgs == {"open", "high", "low"}

\* _stack_settings: one column per setting for every input, n bars long.
StackSettings(settings, n) ==
    LET keys == UNION {DOMAIN settings[i] : i \in DOMAIN settings}
        First(key) == settings[Min({i \in DOMAIN settings : key \in DOMAIN settings[i]})][key]
        Fill(key) == IF key \in SignalNames THEN FALSE ELSE Absent(key)
    IN  [key \in keys |-> [i \in DOMAIN settings |->
            IF key \in SharedArgs THEN First(key)
            ELSE IF key \in DOMAIN settings[i] THEN settings[i][key]
            ELSE [t \in 1..n |-> Fill(key)]]]

\* execution_slippage: what an order on bar t costs against its price, the fraction in
\* percent plus the absolute points (ticks times the tick size).
ExecutionSlippage(price, execution) ==
    LET points == execution.slippage_points
                    + (IF execution.slippage_ticks = 0 THEN 0
                       ELSE execution.slippage_ticks * execution.tick_size)
    IN  [t \in DOMAIN price |->
            (execution.slippage * price[t]) \div 100 + points * execution.multiplier]

\* _construct_portfolio: the columns the engine simulates independently.  The
\* session cap, and the sessions it counts in, are those of the first setting.
ConstructPortfolio(data, aligned, execution) ==
    LET args == [i \in DOMAIN aligned |-> SettingArgs(data, aligned[i], execution)]
        stacked == StackSettings(args, Len(data.bars))
    IN  [i \in DOMAIN aligned |->
            [args |-> [key \in DOMAIN stacked |-> stacked[key][i]],
             close |-> [t \in DOMAIN data.bars |->
                           data.bars[t]["Close"] * execution.multiplier],
             direction |-> execution.direction,
             cash |-> execution.cash,
             fee |-> execution.fixed_fee,
             slippage |-> ExecutionSlippage(args[i]["price"], execution),
             cap |-> aligned[1].cap,
             sessions |-> aligned[1].sessions]]

-----------------------------------------------------------------------------
(* The cap on trades per session *)

\* init_nb of the cap, and an empty portfolio.
NoTrade(cash) == [session |-> -2, count |-> 0, side |-> 0, since |-> 0, position |-> 0,
                  paid |-> 0, cash |-> cash, trades |-> 0, stop |-> Null, hold |-> -1]

\* Mutant: the trade count is not reset, and one more trade gets through.
SessionCapSignalMutant(bar, i, cap, s) ==
    [state |-> [s EXCEPT !.session = bar.session],
     long_entry |-> bar.long_entry /\ s.count <= cap,
     short_entry |-> bar.short_entry /\ s.count <= cap,
     long_exit |-> bar.long_exit /\ s.position > 0,
     short_exit |-> bar.short_exit /\ s.position < 0]

\* session_cap_signal_nb: the signals of one bar that reach the engine, and
\* the state it leaves.  position is the engine's, before the bar.
SessionCapSignal(bar, i, cap, s) ==
    LET day == IF bar.session = s.session THEN s
               ELSE [s EXCEPT !.session = bar.session, !.count = 0,
                              !.side = IF s.position = 0 THEN 0 ELSE @]
        ends == \/ day.side > 0 /\ bar.long_exit
                \/ day.side < 0 /\ bar.short_exit
                \/ bar.hold >= 0 /\ i - day.since >= bar.hold
        open == day.side /= 0
        blocked == open \/ day.count >= cap
    IN  [state |-> IF open /\ ends THEN [day EXCEPT !.side = 0] ELSE day,
         long_entry |-> bar.long_entry /\ ~blocked,
         short_entry |-> bar.short_entry /\ ~blocked,
         long_exit |-> bar.long_exit /\ s.position > 0,
         short_exit |-> bar.short_exit /\ s.position < 0]

\* External: the signals of bar i of a column as the engine reads them.  A level
\* is read on the entry bar and holds for the trade; td_stop counts bars.
ColumnBar(column, i, s) ==
    LET Has(n) == n \in DOMAIN column.args
        On(n) == Has(n) /\ column.args[n][i]
        short == column.direction = "shortonly"
        lost == (s.paid - column.close[i]) * s.position
    IN  [session |-> IF column.sessions = Null THEN 0 ELSE column.sessions[i],
         long_entry |-> ~short /\ On("entries"),
         long_exit |-> ~short /\ On("exits"),
         short_entry |-> IF short THEN On("entries") ELSE On("short_entries"),
         short_exit |-> IF short THEN On("exits") ELSE On("short_exits"),
         hold |-> IF Has("td_stop") THEN column.args["td_stop"][i] ELSE -1,
         stop |-> s.stop /= Null /\ lost >= s.stop]

\* External: the engine on one bar.  An entry fills from flat (the long one first);
\* an exit, a stop or the maximum hold flattens.
EngineFill(column, signal, bar, i) ==
    LET s == signal.state
        leave == \/ signal.long_exit \/ signal.short_exit
                 \/ bar.stop
                 \/ s.hold >= 0 /\ i - s.since >= s.hold
        side == IF signal.long_entry THEN 1 ELSE IF signal.short_entry THEN -1 ELSE 0
        price == column.args["price"][i]
        worse == column.slippage[i]
        Level(n) == IF n \in DOMAIN column.args THEN column.args[n][i] ELSE Absent(n)
    IN  IF s.position /= 0 /\ leave
        THEN [s EXCEPT !.position = 0, !.cash = @ + s.position * (price - s.paid) - worse
                                                  - column.fee]
        ELSE IF s.position = 0 /\ side /= 0
        THEN [s EXCEPT !.position = side, !.paid = price + side * worse, !.cash = @ - column.fee,
                       !.trades = @ + 1, !.stop = Level("sl_stop"),
                       !.hold = Level("td_stop")]
        ELSE s

\* record_trade_nb, called after an order that opened a position.
RecordTrade(before, after, i) ==
    IF before.position = 0 /\ after.position /= 0
    THEN [after EXCEPT !.count = @ + 1, !.side = after.position, !.since = i]
    ELSE after

\* session_cap_kwargs: under a cap its functions stand between the signals and the
\* engine; without one the engine reads the signals itself.
BarSignal(column, bar, i, s) ==
    IF column.cap /= Null THEN SessionCapSignal(bar, i, column.cap, s)
    ELSE [state |-> s,
          long_entry |-> bar.long_entry, short_entry |-> bar.short_entry,
          long_exit |-> bar.long_exit /\ s.position > 0,
          short_exit |-> bar.short_exit /\ s.position < 0]

\* External: the state that bar i of a column leaves of the state before it.
NextState(column, i, s) ==
    LET bar == ColumnBar(column, i, s)
        signal == BarSignal(column, bar, i, s)
    IN  RecordTrade(s, EngineFill(column, signal, bar, i), i)

\* External: the portfolio of a column, a state per bar.
Portfolio(column) ==
    LET states[i \in 0..Len(column.close)] ==
            IF i = 0 THEN <<>>
            ELSE LET past == states[i - 1]
                     s == IF i = 1 THEN NoTrade(column.cash) ELSE past[i - 1]
                 IN  Append(past, NextState(column, i, s))
    IN  states[Len(column.close)]

\* External: the value of a portfolio at the close of a bar.
ValueAt(column, s, i) == s.cash + s.position * (column.close[i] - s.paid)

-----------------------------------------------------------------------------
(* Metrics *)

\* Mutant: the last value of a session stands for its close, flat or not.
MissingSessionCloseMutant(value, assets, session) ==
    LET observed == {t \in DOMAIN value : t < session.close}
    IN  IF observed = {} THEN Null ELSE value[Max(observed)]

\* _missing_session_close_value: the equity of a session [open, close] without its
\* closing bar, or Null.  value and assets map the times observed.
MissingSessionClose(value, assets, session) ==
    LET observed == {t \in DOMAIN value : session.open <= t /\ t < session.close}
        before == {t \in DOMAIN value : t < session.open}
        after == {t \in DOMAIN value : t >= session.close}
    IN  IF observed = {}
        THEN IF /\ assets /= Null /\ before /= {} /\ after /= {}
                /\ assets[Max(before)] = 0
                /\ assets[Min(after)] = 0
             THEN value[Max(before)] ELSE Null
        ELSE IF /\ assets /= Null
                /\ Max(observed) < session.close - 1
                /\ assets[Max(observed)] = 0
             THEN value[Max(observed)] ELSE Null

\* session_close_metrics_frame: the equity at every completed session.  Null stands for
\* the error that is raised when a value is not positive, a close is missing, the last
\* session is partly observed or there are not two.
SessionCloseEquity(value, assets, schedule) ==
    LET through == Max(DOMAIN value) + 1
        completed == SelectSeq(schedule, LAMBDA s : s.close <= through)
        partial == \E i \in DOMAIN schedule :
                       schedule[i].open < through /\ schedule[i].close > through
        Close(s) == IF s.close - 1 \in DOMAIN value THEN value[s.close - 1]
                    ELSE MissingSessionClose(value, assets, s)
        equity == [i \in DOMAIN completed |-> Close(completed[i])]
    IN  IF \/ \E t \in DOMAIN value : value[t] <= 0
           \/ partial
           \/ Len(completed) < 2
           \/ Null \in Range(equity)
        THEN Null ELSE equity

\* daily_values: the last value of every day that has a bar.
DailyValues(value, days) ==
    LET Closing(d) == Max({t \in DOMAIN value : days[t] = d})
        traded == Ascending({days[t] : t \in DOMAIN value})
    IN  [k \in DOMAIN traded |-> value[Closing(traded[k])]]

\* The equity of one column at its session closes, or Null for the error.
ColumnEquity(column, times, schedule) ==
    LET states == Portfolio(column)
        At(t) == CHOOSE i \in DOMAIN times : times[i] = t
        value == [t \in Range(times) |-> ValueAt(column, states[At(t)], At(t))]
        assets == [t \in Range(times) |-> states[At(t)].position]
    IN  SessionCloseEquity(value, assets, schedule)

\* extract_sweep_metrics for one column.  The return is read from the last value, or
\* from the session closes when a policy declares them and they are all there; drawdown
\* is in money.
ExtractMetrics(column, times, schedule, policy) ==
    LET states == Portfolio(column)
        Value(i) == ValueAt(column, states[i], i)
        equity == ColumnEquity(column, times, schedule)
        last == IF policy = "exchange_session_close" THEN equity[Len(equity)]
                ELSE Value(Len(times))
        gain == last - column.cash
        drop == Max(UNION {{Value(i) - Value(j) : j \in i..Len(times)} : i \in DOMAIN times})
    IN  [trades |-> states[Len(states)].trades, total_return |-> gain,
         annualized |-> gain, sharpe |-> gain, drawdown |-> -drop]

-----------------------------------------------------------------------------
(* The sweep over the settings *)

\* chunk_settings_for: how many settings fit the memory left for one chunk.
ChunkSettingsFor(bars, settings, memory) ==
    Max({1, (memory.free - bars * memory.value * settings) \div Max({1, bars * memory.transient})})

\* accepted_parameters: in the order supplied; the rest become rejections.
AcceptedParameters(supplied, valid) == Kept(supplied, LAMBDA k : k \in valid)

\* new_signal_cache
NewSignalCache == [order |-> <<>>, value |-> <<>>]

\* generate_signals_once: cache is [order, value], least recently used first,
\* and may hold whatever was generated for this history before.  The misses are
\* generated together and returned as they are, whether or not the cache, an
\* LRU of at most budget settings, keeps them.
GenerateSignalsOnce(chunk, cache, budget, generate) ==
    LET hits == {k \in Range(chunk) : k \in DOMAIN cache.value}
        missing == Kept(chunk, LAMBDA k : k \notin hits)
        Signals(k) == IF k \in hits THEN cache.value[k] ELSE generate[k]
        order == Kept(cache.order, LAMBDA k : k \notin Range(chunk))
                     \o Kept(chunk, LAMBDA k : k \in hits) \o missing
        kept == SubSeq(order, Max({1, Len(order) - budget + 1}), Len(order))
    IN  [signals |-> [i \in DOMAIN chunk |-> Signals(chunk[i])],
         cache |-> [order |-> kept,
                    value |-> [k \in Range(kept) |->
                        IF k \in Range(chunk) THEN Signals(k)
                        ELSE cache.value[k]]]]

\* cut_to_window: the bars of the evaluation range, and the signals generated
\* over the whole history at those bars.
CutToWindow(data, aligned, range) ==
    LET inside == {i \in DOMAIN data.index :
                      range[1] <= data.index[i] /\ data.index[i] <= range[2]}
        Cut(series) == Picked(series, inside)
        Signal(s) == [bool |-> s.bool, values |-> Cut(s.values)]
        Result(a) == [signals |-> [n \in DOMAIN a.signals |-> Signal(a.signals[n])],
                      levels |-> [n \in DOMAIN a.levels |-> Cut(a.levels[n])],
                      cap |-> a.cap,
                      sessions |-> IF a.sessions = Null THEN Null ELSE Cut(a.sessions)]
    IN  IF range = Null THEN [data |-> data, aligned |-> aligned]
        ELSE [data |-> [columns |-> data.columns, index |-> Cut(data.index), bars |-> Cut(data.bars)],
              aligned |-> [i \in DOMAIN aligned |-> Result(aligned[i])]]

\* chunk_preparer: signals, validation and window cut for one chunk; one setting
\* that is blocked stops the sweep.
PrepareChunk(x, chunk, cache) ==
    LET step == GenerateSignalsOnce(chunk, cache, x.budget, x.generate)
        checked == [i \in DOMAIN chunk |->
                       ValidateForSimulation(x.data, step.signals[i], x.required, x.execution)]
        blocked == UNION {checked[i].blocked : i \in DOMAIN chunk}
    IN  [blocked |-> blocked, cache |-> step.cache,
         cut |-> IF blocked /= {} THEN Null
                 ELSE CutToWindow(x.data, [i \in DOMAIN chunk |-> checked[i].aligned],
                                  x.range)]

\* What is measured of a chunk, which the engine simulates in one call.
MeasureChunk(x, cut) ==
    LET columns == ConstructPortfolio(cut.data, cut.aligned, x.execution)
    IN  [i \in DOMAIN columns |-> ExtractMetrics(columns[i], cut.data.index, x.schedule, x.policy)]

\* What the simulation of a prepared chunk raises: levels that the mode cannot fill, or,
\* under a declared policy, the session closes of any one of its settings.
SimulationErrors(x, cut) ==
    LET columns == ConstructPortfolio(cut.data, cut.aligned, x.execution)
        Unmeasured(c) == x.policy = "exchange_session_close"
                         /\ ColumnEquity(c, cut.data.index, x.schedule) = Null
    IN  IF \E a \in Range(cut.aligned) : StopArgs(cut.data, a, x.execution) = Null
        THEN {"stop_orders"}
        ELSE IF \E c \in Range(columns) : Unmeasured(c) THEN {"session_metrics"} ELSE {}

\* One turn of the loop, for the chunk that is given.
SimulateChunk(x, chunk, state) ==
    LET step == PrepareChunk(x, chunk, state.cache)
        raised == IF step.blocked /= {} THEN step.blocked ELSE SimulationErrors(x, step.cut)
    IN  IF state.blocked /= {} THEN state
        ELSE [blocked |-> raised, cache |-> step.cache,
              results |-> IF raised /= {} THEN state.results
                          ELSE state.results \o MeasureChunk(x, step.cut)]

\* simulate_in_chunks: consecutive chunks, each prepared, simulated in one
\* engine call and measured; the results in settings order.  A chunk starts at
\* every size-th setting.
SimulateInChunks(x, settings) ==
    LET size == IF x.size /= Null THEN x.size
                ELSE ChunkSettingsFor(Len(x.data.bars), Len(settings), x.memory)
        Chunk(k) == SubSeq(settings, k, Min({k + size - 1, Len(settings)}))
        state[k \in 0..Len(settings)] ==
            IF k = 0 THEN [blocked |-> {}, results |-> <<>>, cache |-> x.cache]
            ELSE IF (k - 1) % size = 0 THEN SimulateChunk(x, Chunk(k), state[k - 1])
            ELSE state[k - 1]
    IN  state[Len(settings)]

-----------------------------------------------------------------------------
(* Screening and ranking *)

RequiredMetrics == {"trades", "total_return", "annualized", "sharpe", "drawdown"}

\* evaluate_rules: the rules that fail.  metrics maps the metrics that are
\* available to numbers or Null (not finite); an absent threshold asks nothing.
FailedRules(metrics, config) ==
    LET required == RequiredMetrics \cup
                    (IF config.win_rate = Null THEN {} ELSE {"win_rate"})
        Finite(m) == m \in DOMAIN metrics /\ metrics[m] /= Null
        AtLeast(m, t) == Finite(m) /\ metrics[m] >= t
        Above(m, t) == Finite(m) /\ metrics[m] > t
    IN  {r \in {"available", "finite", "trades", "total", "annualized", "sharpe",
                "drawdown", "win_rate"} :
         CASE r = "available" -> ~(required \subseteq DOMAIN metrics)
           [] r = "finite" -> \E m \in required \cap DOMAIN metrics : ~Finite(m)
           [] r = "trades" -> ~AtLeast("trades", config.trades)
           [] r = "total" -> ~Above("total_return", config.total_return)
           [] r = "annualized" -> ~Above("annualized", config.annualized)
           [] r = "sharpe" ->
                config.sharpe /= Null /\ ~AtLeast("sharpe", config.sharpe)
           [] r = "drawdown" ->
                ~(Finite("drawdown") /\ Abs(metrics["drawdown"]) <= config.drawdown)
           [] r = "win_rate" ->
                config.win_rate /= Null /\ ~AtLeast("win_rate", config.win_rate)}

\* ScreeningConfig.__post_init__ refuses these thresholds.
ScreeningConfigHolds(config) ==
    /\ config.trades >= 0
    /\ config.drawdown >= 0
    /\ config.win_rate /= Null => config.win_rate \in 0..100

\* screen_metrics: the conjunction of all rules, and the counts.
ScreenMetrics(row, metrics, config) ==
    LET failed == FailedRules(metrics, config)
        rules == 6 + (IF config.sharpe = Null THEN 0 ELSE 1)
                   + (IF config.win_rate = Null THEN 0 ELSE 1)
    IN  [row |-> row, passed |-> failed = {}, failed |-> Cardinality(failed),
         held |-> rules - Cardinality(failed), metrics |-> metrics]

\* The ranking: rows that passed first, then by the ranking metric, then in
\* the order of the remaining columns (here the row itself).
Better(a, b) == a /= Null /\ (b = Null \/ a > b)

RanksBefore(a, b, key) ==
    IF a.passed /= b.passed THEN a.passed
    ELSE IF a.metrics[key] /= b.metrics[key]
    THEN Better(a.metrics[key], b.metrics[key])
    ELSE a.row < b.row

\* The stable sort by RanksBefore: a row goes behind the rows that it does not rank before.
Ranking(rows, key) ==
    LET ranked[n \in 0..Len(rows)] ==
            IF n = 0 THEN <<>>
            ELSE LET past == ranked[n - 1]
                 IN  InsertAt(past, Cardinality(Where(past,
                                       LAMBDA r : ~RanksBefore(rows[n], r, key))) + 1, rows[n])
    IN  ranked[Len(rows)]

\* deflated_sharpe: the best trial among finite Sharpe ratios, the first of
\* equals; with fewer than two observations every statistic is undefined.
BestTrial(sharpe, observations) ==
    LET finite == {i \in DOMAIN sharpe : sharpe[i] /= Null}
    IN  IF observations < 2 \/ finite = {} THEN 1
        ELSE Min({i \in finite : \A j \in finite : sharpe[j] <= sharpe[i]})

\* execute_experiment: every accepted setting is one row, screened and ranked;
\* passing and screened-out rows are the two parts of the ranking.  A history or a
\* setting that a gate blocks, or whose simulation raises, ends the experiment without a
\* result for any.
ExecuteExperiment(x) ==
    LET market == ValidateMarketData(x.data, x.required, x.execution)
        accepted == AcceptedParameters(x.supplied, x.valid)
        sweep == SimulateInChunks(x, accepted)
        rows == [i \in DOMAIN accepted |->
                    ScreenMetrics(accepted[i], sweep.results[i], x.config)]
        ranked == Ranking(rows, x.key)
    IN  IF market \cup sweep.blocked /= {} THEN [blocked |-> market \cup sweep.blocked]
        ELSE [ranked |-> ranked,
              passing |-> Kept(ranked, LAMBDA r : r.passed),
              screened_out |-> Kept(ranked, LAMBDA r : ~r.passed),
              rejected |-> Len(x.supplied) - Len(accepted),
              cache |-> sweep.cache,
              luckiest |-> IF accepted = <<>> THEN Null
                           ELSE accepted[BestTrial([i \in DOMAIN rows |-> rows[i].metrics.sharpe],
                                                   Len(x.data.bars))],
              blocked |-> {}]
=============================================================================
