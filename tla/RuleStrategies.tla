---------------------------- MODULE RuleStrategies ----------------------------
(***************************************************************************)
(* Declarative rule strategies: the evaluation of the rule nodes on full   *)
(* sessions stacked side by side, the cache of evaluated nodes that the    *)
(* settings of one sweep share, and the signals written onto the bars.     *)
(*                                                                         *)
(* A node is [op, args, n, params, across, from, to]; n is [param, value], *)
(* where param is the name of a variable or Null.  An array a is indexed   *)
(* a[j][k]: bar k of traded session j; NaN is Null.  Prices are whole      *)
(* ticks and a quotient of series is rounded down.                         *)
(***************************************************************************)
EXTENDS Values

\* bar_position: the bar that ends t minutes after the open; 0 when none does.
BarPosition(t, minutes) == t \div minutes

\* traded_session_positions: the times of the bars of every full session whose
\* bars are all present, finite and positive.
TradedSessions(data, schedule, count) ==
    LET Usable(s) == /\ s.close - s.open = count
                     /\ \A t \in s.open .. (s.close - 1) :
                            /\ t \in DOMAIN data
                            /\ \A f \in DOMAIN data[t] : data[t][f] /= Null /\ data[t][f] > 0
        usable == SelectSeq(schedule, Usable)
    IN  [j \in DOMAIN usable |-> [k \in 1..count |-> usable[j].open + k - 1]]

-----------------------------------------------------------------------------
(* Series *)

\* What an operator gives for values that are not NaN.
Lift1(Op(_), x) == IF x = Null THEN Null ELSE Op(x)
Lift2(Op(_, _), x, y) == IF x = Null \/ y = Null THEN Null ELSE Op(x, y)

Map1(Op(_), a) == [j \in DOMAIN a |-> [k \in DOMAIN a[j] |-> Lift1(Op, a[j][k])]]

Map2(Op(_, _), a, b) ==
    [j \in DOMAIN a |-> [k \in DOMAIN a[j] |-> Lift2(Op, a[j][k], b[j][k])]]

\* shift_bars: the value n bars earlier in the same session.
ShiftBars(a, n) == [j \in DOMAIN a |-> [k \in DOMAIN a[j] |->
                     IF k > n THEN a[j][k - n] ELSE Null]]

\* _divide
Divide(x, y) == IF y = 0 THEN Null ELSE x \div y

\* _signs
Sign(x) == IF x = Null \/ x = 0 THEN 0 ELSE IF x > 0 THEN 1 ELSE -1

\* _window: the value of a rolling operator; w is the window, oldest first.
\* Operators that are the library's (a smoothed average, a deviation, an
\* indicator) are some function of the window.
WindowValue(op, w) ==
    LET total == FoldLeft(+, 0, w)
    IN  CASE op = "max" -> Max(Range(w))
          [] op = "min" -> Min(Range(w))
          [] op = "sum" -> total
          [] op = "sma" -> total \div Len(w)
          [] op = "median" -> SortSeq(w, <)[(Len(w) + 1) \div 2]
          [] OTHER -> total + w[Len(w)]

\* rolling: within the session, or through the bars of the earlier sessions.
Rolling(a, op, n, across) ==
    LET flat == Concatenated(a)
        count == Len(a[1])
        Window(j, k) == IF across THEN SubSeq(flat, (j - 1) * count + k - n + 1,
                                              (j - 1) * count + k)
                        ELSE SubSeq(a[j], k - n + 1, k)
        Enough(j, k) == (IF across THEN (j - 1) * count + k ELSE k) >= n
    IN  [j \in DOMAIN a |-> [k \in DOMAIN a[j] |->
            IF ~Enough(j, k) THEN Null
            ELSE IF Null \in Range(Window(j, k)) THEN Null
            ELSE WindowValue(op, Window(j, k))]]

\* _from_row: the value of one bar, from that bar on.
FromRow(a, row, Value(_)) == [j \in DOMAIN a |-> [k \in DOMAIN a[j] |->
                     IF k >= row THEN Value(j) ELSE Null]]

\* same_sign_run: the length of the current run of one sign in the session.
SameSignRun(a) ==
    [j \in DOMAIN a |-> [k \in DOMAIN a[j] |->
        IF Sign(a[j][k]) = 0 THEN 0
        ELSE Cardinality({i \in 1..k : \A u \in i..k : Sign(a[j][u]) = Sign(a[j][k])})]]

-----------------------------------------------------------------------------
(* The evaluator.  e is [bars, settings, i, tick]: the stacked bars by field, *)
(* the settings of the sweep and the one evaluated.                           *)

\* MAX_RULE_DEPTH: a deeper nesting is refused.
MaxRuleDepth == 32

\* The nodes of each depth: a value of a node is a function on them.
NodesOfDepth[depth \in 0..MaxRuleDepth] ==
    LET Amounts == [param : {Null} \cup STRING, value : {Null} \cup Int]
    IN  IF depth = 0 THEN {}
        ELSE [op : STRING, args : Seq(NodesOfDepth[depth - 1]), n : Amounts, params : Seq(Amounts),
              output : {Null} \cup STRING, across : BOOLEAN, from : Int, to : Int]

RuleNodes == NodesOfDepth[MaxRuleDepth]

\* _referenced_parameters
Referenced(root) ==
    LET names[node \in RuleNodes] ==
            ({n.param : n \in {node.n} \cup Range(node.params)} \ {Null})
              \cup UNION {names[node.args[i]] : i \in DOMAIN node.args}
    IN  names[root]

\* Mutant: the key of a node does not carry the values of its parameters.
KeyMutant(node, setting) == {}

\* key: a node, bound to the values of the parameters it refers to.
Key(node, setting) == {<<name, setting[name]>> : name \in Referenced(node)}

\* cached: the setting whose evaluation of the node is reused, the first of the
\* sweep with the same key.  A cache that was emptied evaluates it again.
Owner(node, e) ==
    [e EXCEPT !.i = Min({j \in 1..e.i : Key(node, e.settings[j]) = Key(node, e.settings[e.i])})]

\* count and amount
Amount(n, e) == IF n.param = Null THEN n.value ELSE e.settings[e.i][n.param]

Full(e, v) == [j \in DOMAIN e.bars.close |-> [k \in DOMAIN e.bars.close[j] |-> v]]

TrueRange(e) ==
    [j \in DOMAIN e.bars.close |-> [k \in DOMAIN e.bars.close[j] |->
        LET hi == e.bars.high[j][k]
            lo == e.bars.low[j][k]
            back == e.bars.close[j][k - 1]
        IN  IF k = 1 THEN hi - lo ELSE Max({hi - lo, Abs(hi - back), Abs(lo - back)})]]

\* series and _operator: the value of a node below root for setting i.
Series(root, caller) ==
  LET value[node \in RuleNodes, i \in Nat] ==
    LET e == Owner(node, [caller EXCEPT !.i = i])
        op == node.op
        A == value[node.args[1], e.i]
        B == value[node.args[2], e.i]
        n == Amount(node.n, e)
        Extreme(j) == IF op = "range_high"
                      THEN Max({e.bars.high[j][k] : k \in (node.from + 1) .. node.to})
                      ELSE Min({e.bars.low[j][k] : k \in (node.from + 1) .. node.to})
        Typical(j, k) == (e.bars.high[j][k] + e.bars.low[j][k] + e.bars.close[j][k])
                            * e.bars.volume[j][k]
        Sum(Op(_, _), j, k) == FoldSet(LAMBDA u, acc : acc + Op(j, u), 0, 1..k)
    IN  CASE op \in DOMAIN e.bars -> e.bars[op]
          [] op \in {"number", "param"} -> Full(e, n)
          [] op = "add" -> Map2(LAMBDA x, y : x + y, A, B)
          [] op = "sub" -> Map2(LAMBDA x, y : x - y, A, B)
          [] op = "mul" -> Map2(LAMBDA x, y : x * y, A, B)
          [] op = "div" -> Map2(Divide, A, B)
          [] op = "abs" -> Map1(Abs, A)
          [] op = "neg" -> Map1(LAMBDA x : -x, A)
          [] op = "sign" -> Map1(Sign, A)
          [] op = "ticks" -> Map1(LAMBDA x : x \div e.tick, A)
          [] op = "prev" -> ShiftBars(A, n)
          [] op = "change" -> Map2(LAMBDA x, y : x - y, A, ShiftBars(A, 1))
          [] op = "pct_change" -> Map2(LAMBDA x, y : Divide(x - y, y), A, ShiftBars(A, 1))
          [] op \in {"sma", "ema", "median", "max", "min", "std", "sum", "indicator"} ->
                Rolling(A, op, n, node.across)
          [] op = "atr" -> Rolling(TrueRange(e), "sma", n, node.across)
          [] op = "vwap" ->
                [j \in DOMAIN e.bars.close |-> [k \in DOMAIN e.bars.close[j] |->
                    Sum(Typical, j, k) \div
                        (3 * Sum(LAMBDA s, u : e.bars.volume[s][u], j, k))]]
          [] op = "session_open" -> FromRow(e.bars.open, 1, LAMBDA j : e.bars.open[j][1])
          [] op = "bar_index" ->
                [j \in DOMAIN e.bars.close |-> [k \in DOMAIN e.bars.close[j] |-> k]]
          [] op = "value_at" -> FromRow(A, node.from, LAMBDA j : A[j][node.from])
          [] op \in {"range_high", "range_low"} -> FromRow(e.bars.high, node.to, Extreme)
          [] op = "same_sign_run" -> SameSignRun(A)
  IN  value[root, caller.i]

\* Comparisons with NaN are false.
Compare(Op(_, _), a, b) ==
    LET Holds(x, y) == x /= Null /\ y /= Null /\ Op(x, y)
    IN  [j \in DOMAIN a |-> [k \in DOMAIN a[j] |-> Holds(a[j][k], b[j][k])]]

\* condition and _condition, as for a series.
Condition(root, caller) ==
  LET value[node \in RuleNodes, i \in Nat] ==
    LET e == Owner(node, [caller EXCEPT !.i = i])
        op == node.op
        A == Series(node.args[1], e)
        B == Series(node.args[2], e)
        And(a, b) == [j \in DOMAIN a |-> [k \in DOMAIN a[j] |-> a[j][k] /\ b[j][k]]]
        Each(Test(_, _)) == [j \in DOMAIN e.bars.close |->
                               [k \in DOMAIN e.bars.close[j] |-> Test(j, k)]]
        items == [m \in DOMAIN node.args |-> value[node.args[m], e.i]]
    IN  CASE op = "gt" -> Compare(LAMBDA x, y : x > y, A, B)
          [] op = "gte" -> Compare(LAMBDA x, y : x >= y, A, B)
          [] op = "lt" -> Compare(LAMBDA x, y : x < y, A, B)
          [] op = "lte" -> Compare(LAMBDA x, y : x <= y, A, B)
          [] op = "eq" -> Compare(LAMBDA x, y : x = y, A, B)
          [] op = "crosses_above" ->
                And(Compare(LAMBDA x, y : x <= y, ShiftBars(A, 1), ShiftBars(B, 1)),
                    Compare(LAMBDA x, y : x > y, A, B))
          [] op = "crosses_below" ->
                And(Compare(LAMBDA x, y : x >= y, ShiftBars(A, 1), ShiftBars(B, 1)),
                    Compare(LAMBDA x, y : x < y, A, B))
          [] op = "all" -> Each(LAMBDA j, k : \A m \in DOMAIN items : items[m][j][k])
          [] op = "any" -> Each(LAMBDA j, k : \E m \in DOMAIN items : items[m][j][k])
          [] op = "not" -> Each(LAMBDA j, k : ~items[1][j][k])
          [] op = "every" -> Each(LAMBDA j, k : k % node.n.value = 0)
          [] op = "time_is" -> Each(LAMBDA j, k : k = node.from)
          [] op = "time_between" -> Each(LAMBDA j, k : k \in node.from .. node.to)
  IN  value[root, caller.i]

\* side: +1, -1 or 0 per bar.
Side(signal, e) ==
    CASE signal.side = "long" -> Full(e, 1)
      [] signal.side = "short" -> Full(e, -1)
      [] signal.side = "sign_of" ->
            LET a == Series(signal.of, e)
            IN  [j \in DOMAIN a |-> [k \in DOMAIN a[j] |-> Sign(a[j][k])]]
      [] signal.side = "opposite_of" ->
            LET a == Series(signal.of, e)
            IN  [j \in DOMAIN a |-> [k \in DOMAIN a[j] |-> -Sign(a[j][k])]]

\* bar_sides: the side of the first signal in list order that fires with a side.
BarSides(spec, e) ==
    LET side == [i \in DOMAIN spec.signals |-> Side(spec.signals[i], e)]
        when == [i \in DOMAIN spec.signals |-> Condition(spec.signals[i].when, e)]
        Fired(j, k) == {i \in DOMAIN spec.signals : when[i][j][k] /\ side[i][j][k] /= 0}
    IN  [j \in DOMAIN e.bars.close |-> [k \in DOMAIN e.bars.close[j] |->
            LET fired == Fired(j, k) IN IF fired = {} THEN 0 ELSE side[Min(fired)][j][k]]]

\* level_fraction: the signed distance from the next open of the session, where
\* the entry fills, to a level read on the signal bar, as <<distance, open>>.
LevelFraction(level, e) ==
    [j \in DOMAIN level |-> [k \in DOMAIN level[j] |->
        IF k = Len(level[j]) \/ level[j][k] = Null THEN Null
        ELSE <<e.bars.open[j][k + 1] - level[j][k], e.bars.open[j][k + 1]>>]]

\* _distance_fraction and signal_bar_fraction, as <<distance, price>> or Null.
DistanceFraction(stop, sides, e) ==
    LET level == LevelFraction(Series(stop.level, e), e)
        low == LevelFraction(e.bars.low, e)
        high == LevelFraction(e.bars.high, e)
        range == Rolling(TrueRange(e), "sma", stop.length, FALSE)
        Of(f, sign) == IF f = Null THEN Null ELSE <<sign * f[1], f[2]>>
    IN  [j \in DOMAIN sides |-> [k \in DOMAIN sides[j] |->
            CASE stop.kind = "level" ->
                    IF level[j][k] = Null THEN Null
                    ELSE <<Abs(level[j][k][1]), level[j][k][2]>>
              [] stop.kind = "signal_bar" ->
                    CASE sides[j][k] > 0 -> Of(low[j][k], 1)
                      [] sides[j][k] < 0 -> Of(high[j][k], -1)
                      [] OTHER -> Null
              [] stop.kind \in {"points", "ticks"} ->
                    <<Amount(stop.n, e), e.bars.close[j][k]>>
              [] stop.kind = "percent" -> <<Amount(stop.n, e), 100>>
              [] stop.kind = "r_multiple" -> <<Amount(stop.n, e), 1>>
              [] stop.kind = "atr" ->
                    IF range[j][k] = Null THEN Null
                    ELSE <<Amount(stop.n, e) * range[j][k], e.bars.close[j][k]>>]]

-----------------------------------------------------------------------------
(* Signals of one setting *)

\* _engine_exit_inputs: an entry whose open is already through its level stop.
WrongSide(spec, signed, j, k, sides) ==
    /\ "stop_loss" \in DOMAIN spec.stops /\ spec.stops["stop_loss"].kind = "level"
    /\ \/ signed[j][k] = Null
       \/ sides[j][k] * signed[j][k][1] <= 0

\* _plan, _signals and _engine_exit_inputs for setting i of a sweep: the times of
\* the entries and exits, and the stop distances of the entries.  spec is
\* [signals, stops, exit_when, opposite, flat, at_time, skip].
RuleSignals(spec, data, schedule, count, settings, i, tick) ==
    LET rows == TradedSessions(data, schedule, count)
        Stack(f) == [j \in DOMAIN rows |-> [k \in 1..count |-> data[rows[j][k]][f]]]
        e == [bars |-> [open |-> Stack("Open"), high |-> Stack("High"), low |-> Stack("Low"),
                        close |-> Stack("Close"), volume |-> Stack("Volume")],
              settings |-> settings, i |-> i, tick |-> tick]
        sides == BarSides(spec, e)
        fraction == [key \in DOMAIN spec.stops |->
                        DistanceFraction(spec.stops[key], sides, e)]
        signed == IF "stop_loss" \in DOMAIN spec.stops
                  THEN LevelFraction(Series(spec.stops["stop_loss"].level, e), e) ELSE Null
        Valid(j, k) == \A key \in DOMAIN fraction :
                          fraction[key][j][k] /= Null /\ fraction[key][j][k][1] > 0
        Allowed(j, k) == /\ sides[j][k] /= 0
                         /\ spec.flat /= Null => k < spec.flat
                         /\ rows[j][1] \notin spec.skip
        first == {jk \in (DOMAIN rows) \X (1..count) :
                    /\ Allowed(jk[1], jk[2])
                    /\ Valid(jk[1], jk[2])
                    /\ ~WrongSide(spec, signed, jk[1], jk[2], sides)}
        leave == [side \in DOMAIN spec.exit_when |-> Condition(spec.exit_when[side], e)]
        Leave(side) == {jk \in (DOMAIN rows) \X (1..count) :
            \/ side \in DOMAIN leave /\ leave[side][jk[1]][jk[2]]
            \/ spec.opposite /\ sides[jk[1]][jk[2]] = (IF side = "long" THEN -1 ELSE 1)
            \/ jk[2] \in {spec.flat, spec.at_time}}
        At(cells) == {rows[jk[1]][jk[2]] : jk \in cells}
        Stop(key, jk) ==
            LET f == fraction[key][jk[1]][jk[2]]
                loss == fraction["stop_loss"][jk[1]][jk[2]]
            IN  IF spec.stops[key].kind = "r_multiple" THEN <<f[1] * loss[1], loss[2]>> ELSE f
    IN  IF rows = <<>>
        THEN [entries |-> {}, short_entries |-> {}, exits |-> {}, short_exits |-> {},
              stops |-> {}]
        ELSE [entries |-> At({jk \in first : sides[jk[1]][jk[2]] > 0}),
              short_entries |-> At({jk \in first : sides[jk[1]][jk[2]] < 0}),
              exits |-> At(Leave("long")),
              short_exits |-> At(Leave("short")),
              stops |-> {<<rows[jk[1]][jk[2]], key, Stop(key, jk)>> :
                             jk \in first, key \in DOMAIN spec.stops}]
=============================================================================
