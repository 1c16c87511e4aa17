---------------------------- MODULE MCCalculations ----------------------------
(***************************************************************************)
(* Small cases of every calculation: histories of four to seven bars with  *)
(* closes from three prices, in one to three sessions.                     *)
(***************************************************************************)
EXTENDS Calculations

\* A bar opens at the close before it.
Bar(open, close) ==
    [Open |-> open, Close |-> close, High |-> Max({open, close}),
     Low |-> Min({open, close}), Volume |-> 1]

History(closes) ==
    [t \in DOMAIN closes |-> Bar(IF t = 1 THEN 2 ELSE closes[t - 1], closes[t])]

\* Closes that agree with c before bar t.
Altered(c, t, v) == [i \in DOMAIN c |-> IF i < t THEN c[i] ELSE v]

Closes(n) == [1..n -> 1..3]

Without(data, missing) == [t \in DOMAIN data \ missing |-> data[t]]

-----------------------------------------------------------------------------
(* Sweeps: Donchian settings, one with a stop and one with a maximum hold *)

Donchian == <<[direction |-> "long", entry |-> 1, exit |-> 1],
              [direction |-> "short", entry |-> 1, exit |-> 1],
              [direction |-> "long", entry |-> 2, exit |-> 1]>>

Levels(k, n) == CASE k = 1 -> [x \in {"sl_stop"} |-> [i \in 1..n |-> 1]]
                  [] k = 2 -> [x \in {"td_stop"} |-> [i \in 1..n |-> 1]]
                  [] OTHER -> [x \in {} |-> Null]

Result(data, k, cap) ==
    LET s == DonchianSignals(data, Donchian[k])
        n == Cardinality(DOMAIN data)
    IN  [signals |-> [name \in DOMAIN s |->
                        [bool |-> k /= 2,
                         values |-> [i \in 1..n |-> IF k /= 2 THEN i \in s[name]
                                                    ELSE IF i \in s[name] THEN 1 ELSE 0]]],
         levels |-> Levels(k, n), cap |-> cap, sessions |-> [i \in 1..n |-> (i - 1) \div 3]]

Execution(mode, direction) ==
    [mode |-> mode, direction |-> direction, timing |-> "completed_bar_close",
     price_field |-> IF mode = "same_bar_close" THEN "Close" ELSE "Open",
     sizing |-> "fixed_units", size |-> 1, cash |-> 10, fees |-> 0, slippage |-> 0,
     slippage_points |-> 0, slippage_ticks |-> 0, tick_size |-> Null, fixed_fee |-> 0,
     leverage |-> 1, multiplier |-> 2]

SweepOf(closes, supplied, size, budget, cap, range, execution) ==
    LET data == History(closes)
        generate == [k \in 1..3 |-> Result(data, k, cap)]
    IN  [data |-> [columns |-> Fields, index |-> [i \in DOMAIN closes |-> i], bars |-> data],
         required |-> {"Close"}, generate |-> generate, supplied |-> supplied,
         valid |-> 1..3, size |-> size, budget |-> budget,
         cache |-> IF budget = 2 THEN [order |-> <<3>>, value |-> [k \in {3} |-> generate[k]]]
                   ELSE NewSignalCache,
         range |-> range, execution |-> execution, policy |-> Null,
         schedule |-> <<[open |-> 1, close |-> 4], [open |-> 4, close |-> 7]>>,
         key |-> "total_return", memory |-> [free |-> 60, value |-> 1, transient |-> 2],
         config |-> [trades |-> 1, total_return |-> 0, annualized |-> -9, sharpe |-> Null,
                     drawdown |-> 9, win_rate |-> Null]]

SweepNames ==
    [c : {d \in Closes(6) : d[1] = 2 /\ d[2] /= 2 /\ d[6] = 2},
     s : {<<1, 2, 3>>, <<3, 9, 2>>}, size : {1, Null}, budget : {0, 2},
     cap : {Null, 1}, range : {Null, <<3, 6>>}]

LoadSweep(x) == SweepOf(x.c, x.s, x.size, x.budget, x.cap, x.range,
                        Execution("next_bar_open", "both"))

\* Sweeps under the session policy whose first session has no closing bar: a setting that
\* is flat after the last bar before it can be measured, one that holds cannot.
UnclosedNames == [c : {d \in Closes(6) : d[1] = 2 /\ d[2] /= 2 /\ d[6] = 2},
             s : {<<3>>, <<3, 1>>, <<1, 3>>, <<1, 2>>}, size : {1, 2}]

LoadUnclosed(x) ==
    [SweepOf(x.c, x.s, x.size, 2, Null, Null, Execution("next_bar_open", "both"))
        EXCEPT !.data.index = Ascending(1..7 \ {4}), !.policy = "exchange_session_close",
               !.schedule = <<[open |-> 1, close |-> 5], [open |-> 5, close |-> 8]>>]

\* Histories and settings that the gates block, and the other modes of execution, all of
\* them changes of two sweeps.
ChangesOf(base, other) ==
    LET Bad(v) == [base EXCEPT !.data.bars[4]["Close"] = v]
        Session(sweep) == [sweep EXCEPT !.supplied = <<3>>, !.size = 1,
                                        !.policy = "exchange_session_close"]
        Changed(x, supplied) == [base EXCEPT !.execution = x, !.supplied = supplied]
        modes == <<"same_bar_close", "next_bar_open", "limit">>
        sides == <<"longonly", "shortonly", "both">>
    IN  <<Bad(Null), Bad(0), Bad(9), [base EXCEPT !.data.index[2] = Null],
          [base EXCEPT !.data.index[2] = 1], [base EXCEPT !.data.index[2] = 4],
          [base EXCEPT !.data.columns = {"Close"}], [base EXCEPT !.required = {"x"}],
          [base EXCEPT !.execution.size = 0], [base EXCEPT !.execution.multiplier = 0],
          [base EXCEPT !.generate[3].signals["entries"].values[2] = Null],
          [base EXCEPT !.generate[3].signals["entries"].values = <<>>],
          [base EXCEPT !.data.bars = <<>>, !.data.index = <<>>],
          Session(base), Session(other)>>
        \o [i \in 1..9 |-> Changed(Execution(modes[(i - 1) \div 3 + 1], sides[((i - 1) % 3) + 1]), <<3>>)]
        \o [i \in 1..9 |-> Changed(Execution(modes[(i - 1) \div 3 + 1], sides[((i - 1) % 3) + 1]), <<2, 3>>)]

BlockedSweeps ==
    ChangesOf(SweepOf(<<2, 3, 1, 2, 3, 1>>, <<3, 1>>, 2, 0, Null, Null, Execution("next_bar_open", "both")),
              SweepOf(<<3, 1, 1, 2, 3, 3>>, <<3, 1>>, 2, 0, Null, Null, Execution("next_bar_open", "both")))

-----------------------------------------------------------------------------
(* Columns: signals on any bar, bars missing, a cap, a bar of no session *)

Column(closes, entries, exits, shorts, cap, hold, stop) ==
    LET n == Len(closes)
        On(S) == [i \in 1..n |-> i \in S]
        args == [entries |-> On(entries), exits |-> On(exits), short_entries |-> On(shorts),
                 short_exits |-> On(exits), price |-> [i \in 1..n |-> IF i = 1 THEN 2 ELSE closes[i - 1]]]
        levels == (IF hold < 0 THEN [x \in {} |-> Null]
                   ELSE [x \in {"td_stop"} |-> [i \in 1..n |-> hold]])
                  @@ (IF stop = Null THEN [x \in {} |-> Null]
                      ELSE [x \in {"sl_stop"} |-> [i \in 1..n |-> stop]])
    IN  [args |-> args @@ levels, close |-> closes, direction |-> "both", cash |-> 10,
         fee |-> 0, slippage |-> [i \in 1..n |-> 0], cap |-> cap,
         sessions |-> [i \in 1..n |-> IF closes[1] = 3 /\ i = 3 THEN -1 ELSE (i - 1) \div 3]]

Sessions == <<[open |-> 1, close |-> 3], [open |-> 3, close |-> 5], [open |-> 5, close |-> 7]>>

ColumnNames ==
    [c : {<<2, 1, 2, 1, 2, 3>>, <<3, 3, 2, 1, 1, 2>>}, e : SUBSET (1..6), s : {{}},
     x : SUBSET (2..6), cap : {1, 2}, hold : {-1, 2}, stop : {1}, missing : {{}}]
    \cup [c : {<<2, 3, 1, 2, 3>>, <<3, 1, 2, 1, 2>>}, e : {{1, 4}}, s : {{2}}, x : SUBSET (2..4),
          cap : {Null}, hold : {-1}, stop : {Null}, missing : {{2}, {4}, {6}, {1}}]
    \cup [c : {<<2, 3, 1, 2>>, <<3, 1, 2, 1>>}, e : SUBSET (1..4), s : {{}}, x : SUBSET (2..4),
          cap : {Null}, hold : {-1}, stop : {Null},
          missing : {{3, 4}, {2, 4}, {4, 5}, {4, 6}}]

LoadColumn(y) == [column |-> Column(y.c, y.e, y.x, y.s, y.cap, y.hold, y.stop),
                  times |-> Ascending(1..6 \ y.missing), schedule |-> Sessions]

-----------------------------------------------------------------------------
(* Built-in strategies *)

OneSession == <<[open |-> 1, close |-> 6, day |-> 1]>>
EarlyClose == <<[open |-> 1, close |-> 5, day |-> 1], [open |-> 5, close |-> 7, day |-> 2]>>
TwoSessions == <<[open |-> 1, close |-> 4, day |-> 1], [open |-> 4, close |-> 7, day |-> 2]>>

BuiltIn == <<
    [strategy |-> "run_exhaustion", schedule |-> OneSession, full |-> 5, run |-> 2,
      minimum |-> 1, from |-> 2, to |-> 3],
     [strategy |-> "run_exhaustion", schedule |-> EarlyClose, full |-> 4, run |-> 1,
      minimum |-> 1, from |-> 1, to |-> 2],
     [strategy |-> "sma", schedule |-> OneSession, full |-> 5, fast |-> 1, slow |-> 2],
     [strategy |-> "orb", schedule |-> OneSession, direction |-> "long", range |-> 1, offset |-> 0],
     [strategy |-> "orb", schedule |-> OneSession, direction |-> "short", range |-> 2, offset |-> 0],
     [strategy |-> "vwap", schedule |-> OneSession, full |-> 5, range |-> 1, buffer |-> 0, body |-> 50],
     [strategy |-> "donchian", schedule |-> OneSession, direction |-> "long", entry |-> 2, exit |-> 1],
     [strategy |-> "donchian", schedule |-> OneSession, direction |-> "short", entry |-> 2, exit |-> 1],
     [strategy |-> "rsi", schedule |-> OneSession, window |-> 2, entry |-> 40, exit |-> 60],
     [strategy |-> "momentum", schedule |-> TwoSessions, full |-> 3, morning |-> 0, entry |-> 1],
     [strategy |-> "gap", schedule |-> TwoSessions, full |-> 3, hold |-> 2, tick |-> 1,
      point |-> 2, fee |-> 0, mapping |-> <<[from |-> 1, to |-> 4, id |-> 1]>>]>>

TradeNames ==
    [p : DOMAIN BuiltIn, c : Closes(6), t : {3, 5}, v : {1, 3}, m : {{}}]
    \cup [p : DOMAIN BuiltIn, c : {<<1, 3, 1, 2, 3, 1>>, <<3, 1, 2, 3, 3, 1>>},
          t : {4}, v : {2}, m : {{i} : i \in 1..6}]

LoadTrades(x) == [p |-> BuiltIn[x.p], from |-> x.t, data |-> Without(History(x.c), x.m),
                  other |-> Without(History(Altered(x.c, x.t, x.v)), x.m)]

-----------------------------------------------------------------------------
(* Rules *)

Plain == [param |-> Null, value |-> 0]
Value(v) == [param |-> Null, value |-> v]
Param(name) == [param |-> name, value |-> 0]
Node(op, args, n) == [op |-> op, args |-> args, n |-> n, params |-> <<>>, output |-> Null, across |-> FALSE, from |-> 1, to |-> 1]
Leaf(op) == Node(op, <<>>, Plain)
Num(v) == Node("number", <<>>, Value(v))
Span(op) == [Leaf(op) EXCEPT !.from = 0, !.to = 2]
Close == Leaf("close")
Two(op, a, b) == Node(op, <<a, b>>, Plain)
One(op, a) == Node(op, <<a>>, Plain)

LongOn(when) == [side |-> "long", of |-> Close, when |-> when]
Spec0(signals) == [signals |-> signals, stops |-> [k \in {} |-> Null],
                   exit_when |-> [k \in {} |-> Null], opposite |-> FALSE, flat |-> 4,
                   at_time |-> Null, skip |-> {}]
LevelStop(node) == [kind |-> "level", level |-> node, n |-> Plain, length |-> 1]
Distance(k, n) == [kind |-> k, level |-> Close, n |-> n, length |-> 2]

MCRules == <<
    Spec0(<<LongOn(Two("gt", Close, Node("sma", <<Close>>, Param("n"))))>>),
    [Spec0(<<LongOn(Two("crosses_above", Close, Node("prev", <<Leaf("high")>>, Param("n")))),
             [side |-> "opposite_of", of |-> One("change", Close), when |-> Two("lt", Close, Num(3))]>>)
        EXCEPT !.opposite = TRUE,
               !.exit_when = [k \in {"long"} |-> Two("lte", One("same_sign_run", One("change", Close)), Num(1))]],
    [Spec0(<<[side |-> "sign_of", of |-> Two("sub", Close, Leaf("session_open")),
              when |-> Node("all", <<Two("gte", Leaf("bar_index"), Num(2)),
                                     Node("not", <<Node("time_is", <<>>, Plain)>>, Plain)>>, Plain)]>>)
        EXCEPT !.stops = [k \in {"stop_loss", "take_profit"} |->
                  IF k = "stop_loss" THEN LevelStop(Span("range_low"))
                  ELSE Distance("r_multiple", Param("n"))],
               !.flat = Null, !.at_time = 3],
    [Spec0(<<[side |-> "short", of |-> Close,
              when |-> Node("any", <<Two("eq", Node("value_at", <<Close>>, Plain), Leaf("vwap")),
                                     [Node("every", <<>>, Value(2)) EXCEPT !.from = 2]>>, Plain)]>>)
        EXCEPT !.stops = [k \in {"stop_loss", "trailing_stop"} |->
                  IF k = "stop_loss" THEN Distance("atr", Param("n"))
                  ELSE Distance("percent", Value(1))],
               !.skip = {5}],
    [Spec0(<<LongOn(Two("gt", Two("div", Node("max", <<Two("mul", Close, Num(2))>>, Param("n")),
                              One("abs", One("neg", One("ticks", Close)))),
                    Two("add", One("pct_change", Close), One("sign", Close)))),
             LongOn(Two("crosses_below", Close, [Node("median", <<Close>>, Param("n")) EXCEPT !.across = TRUE]))>>)
        EXCEPT !.stops = [k \in {"stop_loss"} |-> [kind |-> "signal_bar", level |-> Close, n |-> Plain, length |-> 1]]],
    [Spec0(<<LongOn(Node("time_between", <<>>, Plain)),
             LongOn(Two("gt", Node("atr", <<>>, Param("n")), Span("range_high")))>>)
        EXCEPT !.stops = [k \in {"stop_loss"} |-> Distance("points", Param("n"))]]>>

RuleSessions == <<[open |-> 1, close |-> 5], [open |-> 5, close |-> 9]>>

RuleNames == [r : DOMAIN MCRules, c : Closes(4), t : {3, 7}, v : {1, 3}]

LoadRule(x) ==
    [rule |-> x.r, settings |-> <<[n |-> 1], [n |-> 2]>>, schedule |-> RuleSessions,
     count |-> 4, from |-> x.t, data |-> History(x.c \o x.c),
     other |-> History(Altered(x.c \o x.c, x.t, x.v))]

-----------------------------------------------------------------------------
(* Submitted specifications, on sessions of four bars of five minutes *)

Library == [good |-> [family |-> "talib", unusable |-> FALSE, inputs |-> {"close"}, defaults |-> TRUE,
                      params |-> <<<<"count", 0>>>>, outputs |-> {}],
            odd |-> [family |-> "wqa", unusable |-> FALSE, inputs |-> {"close"}, defaults |-> TRUE,
                     params |-> <<>>, outputs |-> {}]]

Limits(variables) == [step |-> 5, bars |-> 4, window |-> 6, nodes |-> 12, depth |-> 4, grid |-> 4,
                      variables |-> variables, library |-> Library]

Across(node, n) == [node EXCEPT !.across = TRUE, !.n = n]
With(node, params, out) == [node EXCEPT !.params = params, !.output = out]
At(node, from, to) == [node EXCEPT !.from = from, !.to = to]

\* Series, some of them refused.
SeriesCases == <<
    Num(2), Node("param", <<>>, Param("n")), Node("sma", <<Close>>, Param("n")),
    Across(Node("max", <<Close>>, Plain), Value(5)), Node("std", <<Close>>, Value(1)),
    Node("prev", <<Close>>, Value(4)), Node("prev", <<Leaf("high")>>, Param("n")),
    Node("sma", <<Close>>, Value(5)), At(One("value_at", Close), 10, 0), At(One("value_at", Close), 7, 0),
    At(Leaf("range_low"), 0, 10), At(Leaf("range_high"), 10, 10), At(Leaf("range_high"), 20, 25),
    With(One("rsi", Close), <<Param("n")>>, Null), With(One("rsi", Close), <<Value(2)>>, "upper"),
    With(One("bollinger", Close), <<Value(2), Value(3)>>, "upper"), With(Leaf("donchian"), <<Value(1)>>, "lower"),
    With(Leaf("good"), <<Value(2)>>, Null), With(Leaf("odd"), <<>>, Null), Leaf("nothing"),
    Two("add", Close, One("neg", One("abs", One("sign", Close)))), Two("div", Close, Leaf("vwap")),
    Node("atr", <<>>, Param("n")), Two("sub", Close, Close)>>

Conditions(x) == <<
    Two("gt", Close, x), Node("any", <<One("not", Two("lt", x, Close)), Node("every", <<>>, Value(10))>>, Plain),
    Node("all", <<At(Leaf("time_is"), 10, 0), Two("crosses_above", Close, x)>>, Plain),
    Node("all", <<At(Leaf("time_between"), 5, 15), Two("lte", x, Close)>>, Plain)>>

StopCases == <<
    [k \in {} |-> Null], [k \in {"stop_loss"} |-> LevelStop(At(Leaf("range_low"), 0, 5))],
    [k \in {"take_profit"} |-> Distance("r_multiple", Value(1))],
    [k \in {"stop_loss", "take_profit"} |->
        IF k = "stop_loss" THEN Distance("atr", Value(1)) ELSE Distance("r_multiple", Param("n"))],
    [k \in {"trail_after"} |-> Distance("points", Value(1))],
    [k \in {"trailing_stop", "trail_after"} |-> Distance("percent", Param("n"))],
    [k \in {"stop_loss"} |-> [Distance("signal_bar", Plain) EXCEPT !.n = Plain]],
    [k \in {"take_profit"} |-> LevelStop(Close)], [k \in {"stop_loss"} |-> Distance("ticks", Value(0))]>>

VariableCases == <<[k \in {} |-> <<>>], [k \in {"n"} |-> <<1, 2>>], [k \in {"n"} |-> <<2, 2>>], [k \in {"n"} |-> <<0, 2>>],
                   [k \in {"n"} |-> <<1, 2, 3, 4, 5>>], [k \in {"m", "n"} |-> <<2>>]>>

NoTime == [param |-> Null, value |-> Null]

Submitted(x) ==
    LET series == SeriesCases[x.series]
        base == Spec0(<<LongOn(Conditions(series)[x.when]),
                        [side |-> x.side, of |-> series, when |-> Two("gt", Close, Num(1))]>>)
    IN  [base EXCEPT !.flat = x.flat, !.at_time = x.at, !.stops = StopCases[x.stops]]
        @@ [language |-> TRUE, session |-> TRUE, bar |-> 5, tick |-> 1, trades |-> 2, skip_days |-> <<"cpi">>,
            after_bars |-> IF x.after THEN Value(3) ELSE NoTime]

SpecNames ==
    [series : DOMAIN SeriesCases, when : 1..4, side : {"opposite_of"}, flat : {15, 20}, at : {Null},
     stops : {1}, vars : {1, 2}, after : {FALSE}, c : {<<2, 3, 1, 2>>}]
    \cup [series : {1, 2}, when : {1}, side : {"short", "both"}, flat : {Null, 10, 15, 12}, at : {Null, 10, 15},
          stops : DOMAIN StopCases, vars : DOMAIN VariableCases, after : BOOLEAN, c : {<<2, 1, 3, 3>>}]
    \cup [series : {3, 11, 22}, when : {1, 3}, side : {"sign_of"}, flat : {10, 15}, at : {Null},
          stops : {1, 2, 4, 6}, vars : {1, 2}, after : {FALSE}, c : {c \in Closes(4) : c[1] /= c[2]}]

LoadSpec(x) == [spec |-> Submitted(x), g |-> Limits(VariableCases[x.vars]), schedule |-> RuleSessions,
                data |-> History(x.c \o x.c)]

PacketNames ==
    [status : {"draft", "owner_approved", "odd"}, vars : DOMAIN VariableCases, spec : {0, 2, 8}, bar : {1, 5},
     questions : {<<>>, <<[text |-> TRUE, importance |-> "high"]>>, <<[text |-> FALSE, importance |-> "low"]>>},
     variants : {<<>>, <<[id |-> "a"], [id |-> "a"]>>}, overnight : BOOLEAN,
     controls : {{}, {"execute_now"}}]

LoadPacket(x) ==
    [g |-> Limits([k \in {} |-> <<>>]),
     doc |-> [schema |-> TRUE, title |-> "text", status |-> x.status, behavior |-> TRUE, intraday |-> TRUE,
              overnight |-> x.overnight, rules |-> TRUE, timeframe |-> x.bar,
              sources |-> <<[type |-> "paper", url |-> "safe"]>>, variables |-> VariableCases[x.vars],
              rule_spec |-> IF x.spec = 0 THEN Null
                            ELSE Submitted([series |-> x.spec, when |-> 1, side |-> "long", flat |-> 15, at |-> Null,
                                            stops |-> 1, after |-> FALSE]),
              variants |-> x.variants, questions |-> x.questions, execution |-> TRUE, controls |-> x.controls]]

-----------------------------------------------------------------------------
(* The gap reversal over a contract roll *)

ThreeSessions == <<[open |-> 1, close |-> 4, day |-> 1], [open |-> 4, close |-> 7, day |-> 2],
                   [open |-> 7, close |-> 10, day |-> 3]>>

Gapped(c) == [t \in 1..9 |-> Bar(c[((t - 1) \div 3) * 2 + (IF t % 3 = 1 THEN 1 ELSE 2)],
                                 c[((t - 1) \div 3) * 2 + 2])]

GapNames ==
    [c : {d \in Closes(6) : d[1] = 2}, m : {{}, {5}, {6}},
     mapping : {<<[from |-> 1, to |-> 4, id |-> 1]>>,
                <<[from |-> 3, to |-> 4, id |-> 2], [from |-> 1, to |-> 3, id |-> 1]>>,
                <<[from |-> 1, to |-> 2, id |-> 1], [from |-> 3, to |-> 4, id |-> 2]>>}]

LoadGap(x) ==
    [data |-> Without(Gapped(x.c), x.m), mapping |-> x.mapping,
     p |-> [schedule |-> ThreeSessions, full |-> 3, hold |-> 2, tick |-> 1, point |-> 2,
            fee |-> 1, cash |-> 20]]

-----------------------------------------------------------------------------
(* Parameter plans *)

Definition(class, optimizable, candidates, contribution, structural) ==
    [class |-> class, optimizable |-> optimizable, candidates |-> candidates,
     contribution |-> contribution, structural |-> structural, default |-> 1,
     reference |-> 1, approved |-> TRUE, allowed |-> Range(candidates), low |-> 1, high |-> 3]

Definitions ==
    {Definition("fixed", FALSE, <<>>, Null, FALSE),
     Definition("structural_choice", FALSE, <<1, 2>>, 1, TRUE),
     Definition("fixed", TRUE, <<1>>, 1, FALSE)}
    \cup {Definition("bounded_discrete", TRUE, c, n, FALSE) :
             c \in {<<1, 2>>, <<1, 2, 3>>, <<2, 3>>, <<1, 1>>, <<>>}, n \in {Null, 2, 3}}

PlanNames == [names : {<<"a", "b">>, <<"a", "a">>}, approved : BOOLEAN,
              a : Definitions, b : Definitions]

LoadPlan(x) == [plan |-> [names |-> x.names, approved |-> x.approved,
                          definitions |-> [a |-> x.a, b |-> x.b]], threshold |-> 4]

-----------------------------------------------------------------------------
(* Stage methods: eight bars in sessions of different lengths *)

StageSessions == {<<1, 1, 2, 2, 3, 3, 4, 4>>, <<1, 1, 1, 2, 2, 3, 4, 4>>, <<1, 2, 3, 4, 5, 6, 7, 8>>,
                  <<1, 1, 1, 1, 2, 2, 2, 2>>}

StageCloses == {c \in Closes(8) : /\ c[1] = 2 /\ c[2] = 3 /\ c[3] \in {1, 3}
                                  /\ c[4] \in {1, 2} /\ c[6] = 2 /\ c[7] \in {1, 3}
                                  /\ c[8] = 2}

StageConfig(training, selection, test, step, mode, final) ==
    [training |-> training, selection |-> selection, test |-> test, step |-> step,
     mode |-> mode, final |-> final, minimum |-> 1, shortlist |-> 2]

StageConfigs ==
    {StageConfig(3, 0, 2, 2, "rolling", "drop"), StageConfig(2, 2, 1, 2, "rolling", "include"),
     StageConfig(2, 1, 2, 2, "expanding", "include"), StageConfig(3, 2, 1, 1, "expanding", "drop")}

StageNames ==
    [method : {"walk"}, c : StageCloses, s : StageSessions, config : StageConfigs,
     from : {5, 6}, v : {1, 3}]
    \cup [method : {"oos"}, c : StageCloses, s : StageSessions,
          config : {[train |-> 50, selection |-> 25, test |-> 25, minimum |-> 1, shortlist |-> 1],
                    [train |-> 40, selection |-> 30, test |-> 30, minimum |-> 2, shortlist |-> 2]},
          from : {5, 7}, v : {1, 3}]
    \cup [method : {"low"}, c : StageCloses, s : StageSessions,
          config : {StageConfig(3, 0, 2, 2, "rolling", "drop"),
                    StageConfig(2, 0, 1, 2, "expanding", "include")}, from : {9}, v : {1}]

\* The experiment of a stage: Donchian settings without a Sharpe minimum to fall under.
StageExperiment(closes, supplied) ==
    [SweepOf(closes, supplied, Null, 1, Null, Null, Execution("next_bar_open", "both"))
        EXCEPT !.config.trades = 0, !.config.sharpe = 1]

\* The experiments of every stage case, built once.
StageHistories == {Altered(c, from, v) : c \in StageCloses, from \in {5, 6, 7, 9}, v \in {1, 3}}

StageExperiments == [closes \in StageHistories, supplied \in {<<1>>, <<1, 2, 3>>} |->
                        StageExperiment(closes, supplied)]

LoadStage(x) ==
    LET supplied == IF x.method = "low" THEN <<1>> ELSE <<1, 2, 3>>
    IN  [method |-> x.method, sessions |-> x.s, config |-> x.config, from |-> x.from,
         experiment |-> StageExperiments[x.c, supplied],
         other |-> StageExperiments[Altered(x.c, x.from, x.v), supplied],
         forbidden |-> IF x.c[5] = 1 THEN 4 ELSE 9,
         policy |-> [trades |-> 1, folds |-> 1, rate |-> 60, drawdown |-> 4, total_return |-> 0,
                     annualized |-> 0, sharpe |-> 0]]

-----------------------------------------------------------------------------
(* Neighbourhoods, robustness and fixed rules *)

Around(name, method, values) == [name |-> name, method |-> method, values |-> values]

NeighborNames ==
    [locked : (1..3) \X (1..3), valid : {(1..3) \X (1..3), {v \in (1..3) \X (1..3) : v[1] <= v[2]}},
     a : {<<0>>, <<1, 0, -1>>, <<1, 0, 1>>, <<-1, 1>>}, types : {<<"int", "int">>, <<"float", "int">>},
     b : {<<>>, <<Around("b", "explicit_values", <<3, 2, 2>>)>>,
          <<Around("b", "percentage_offsets", <<0>>)>>, <<Around("c", "explicit_values", <<1>>)>>}]

LoadNeighbor(x) ==
    [strategy |-> [names |-> <<"a", "b">>, type |-> x.types, range |-> <<1..3, 1..3>>, valid |-> x.valid],
     locked |-> x.locked, definitions |-> <<Around("a", "integer_offsets", x.a)>> \o x.b]

RobustConfig(mode, trades) ==
    [neighborhood |-> [names |-> <<"a">>, minimum |-> 3, proportion |-> 60, mode |-> mode, absolute |-> 2, relative |-> 50],
     minimum_return |-> 0, drawdown |-> 3, sharpe |-> Null,
     regimes |-> [trend |-> 2, volatility |-> 1, observations |-> 1, trades |-> trades,
                  tolerance |-> 10, threshold |-> 1]]

RobustNames ==
    [r : [1..3 -> {-2, 1, 3, 5}], n : {2, 3}, mode : {"absolute", "relative", "both", "other"}, trades : {Null},
     c : {<<2, 3, 3, 2>>}, returns : {<<0, 0, 2, 1>>}, low : {<<1, 0>>, <<3, 0>>}]
    \cup [r : {<<1, 1, 1>>}, n : {3}, mode : {"absolute"}, trades : {Null, 1},
          c : {c \in Closes(5) : c[1] = 2}, returns : {<<0, 1, -2, 2, 1>>, <<0, 2, -4, 3, 0>>},
          low : {<<0, i>> : i \in 2..5}]

LoadRobust(x) ==
    LET Row(v) == [passed |-> v >= 0, metrics |-> [total_return |-> v, drawdown |-> -1, sharpe |-> v]]
        given == [rows |-> [i \in 1..x.n |-> Row(x.r[i])], locked |-> 2, returns |-> x.returns,
                  entries |-> {3}, closes |-> x.c, config |-> RobustConfig(x.mode, x.trades)]
    IN  [given |-> given,
         worse |-> IF x.low[2] = 0
                   THEN IF x.low[1] > x.n THEN given
                        ELSE [given EXCEPT !.rows[x.low[1]] = Row(x.r[x.low[1]] - 2)]
                   ELSE [given EXCEPT !.returns[x.low[2]] = @ - 2]]

CostPlan(k, fees, slippage) == [kind |-> k, fees |-> fees, slippage |-> slippage]

FixedNames ==
    [c : {d \in Closes(6) : d[1] = 2 /\ d[6] = 3}, k : {1, 2}, sizing : {"fixed_units"},
     plan : {CostPlan("contract", 2, 2), CostPlan("contract", 1, 2)}, bounds : {1}, free : {TRUE}]
    \cup [c : {<<2, 3, 3, 1, 2, 3>>, <<2, 1, 3, 3, 3, 3>>}, k : {1}, free : BOOLEAN,
          sizing : {"fixed_units", "all_cash_whole_shares"}, bounds : {1, 2},
          plan : {CostPlan("fraction", 0, 50), CostPlan("contract", 2, 2)}]

LoadFixed(x) ==
    LET shares == x.sizing = "all_cash_whole_shares"
        execution == [Execution("next_bar_open", "longonly") EXCEPT
            !.cash = 40, !.sizing = x.sizing, !.fixed_fee = IF shares THEN 0 ELSE 1,
            !.slippage_ticks = IF shares THEN 0 ELSE 1, !.tick_size = 1,
            !.slippage = IF shares THEN 25 ELSE 0]
        e == SweepOf(x.c, <<IF x.k = 1 THEN 3 ELSE 1>>, 1, 0, Null, Null, execution)
    IN  [experiment |-> [e EXCEPT !.config.total_return = -11, !.config.drawdown = 30,
                                  !.config.trades = 0, !.generate = [k \in 1..3 |->
                            [@[k] EXCEPT !.levels = [n \in {} |-> Null]]]]
                        @@ [parameters |-> ~x.free],
         lock |-> [parameters |-> {}, start |-> x.bounds, end |-> 6, execution |-> execution],
         plan |-> x.plan, higher |-> [x.plan EXCEPT !.slippage = @ + 1],
         config |-> [RobustConfig("absolute", Null) EXCEPT !.minimum_return = -9, !.drawdown = 9]]

-----------------------------------------------------------------------------
(* Monte Carlo paths of walk-forward folds *)

Fold(status, value) == [status |-> status, value |-> value, bounded |-> TRUE]
Report(folds) == [exists |-> TRUE, identity |-> "rsi", schema |-> 1, execution |-> "next_bar_open",
                  folds |-> folds]

MonteNames ==
    [v : [1..3 -> {-10, -1, 2}], method : {"iid_bootstrap", "path_permutation", "moving_block_bootstrap"},
     seed : 1..2, low : {1, 3}, kind : {"fold_returns", "trade_returns"}, report : {0}]
    \cup [v : {<<1, 2, 3>>}, method : {"moving_block_bootstrap"}, seed : {1}, low : {1},
          kind : {"fold_returns"}, report : 1..9]

LoadMonte(x) ==
    LET config == [method |-> x.method, simulations |-> 3, minimum |-> 2, loss |-> 40, breach |-> 40,
                   drawdown |-> 3, lower |-> 5, floor |-> -5,
                   block |-> CASE x.report = 8 -> 4 [] x.report = 9 -> Null [] OTHER -> 2,
                   scenarios |-> <<[fee |-> 0, slippage |-> 1, price |-> 0],
                                   [fee |-> 2, slippage |-> 2, price |-> 3]>>]
        Of(v) == Report(<<Fold("successful", v[1]), Fold("failed", Null), Fold("successful", v[2]),
                          Fold("successful", v[3])>>)
        r == Of(x.v)
        report == CASE x.report \in {0, 8, 9} -> r
                    [] x.report = 1 -> [r EXCEPT !.exists = FALSE]
                    [] x.report = 2 -> [r EXCEPT !.folds[1].status = "running"]
                    [] x.report = 3 -> [r EXCEPT !.identity = "other"]
                    [] x.report = 4 -> [r EXCEPT !.schema = Null]
                    [] x.report = 5 -> [r EXCEPT !.folds = <<Fold("failed", Null)>>]
                    [] x.report = 6 -> [r EXCEPT !.folds[1].value = Null]
                    [] x.report = 7 -> [r EXCEPT !.folds = <<Fold("successful", 1)>>]
        Source(s) == WalkForwardSource(s, "rsi") @@ [kind |-> x.kind]
        n == Len(Source(report).values)
        paths == Sorted(ResamplePaths(3, [config EXCEPT !.block = 2]), Lexical)
        drawn == [k \in 1..3 |-> paths[((x.seed * 7 + k * 5) % Len(paths)) + 1]]
    IN  [config |-> config, drawn |-> drawn, source |-> Source(report),
         lower |-> IF x.report /= 0 THEN Source(report) ELSE Source(Of([x.v EXCEPT ![x.low] = @ - 2]))]

-----------------------------------------------------------------------------
(* Portability matrices *)

Instrument(id, class, intervals) ==
    [id |-> id, class |-> class, blank |-> {}, intervals |-> intervals, tick |-> 1, multiplier |-> 5,
     point |-> 5, currencies |-> TRUE, approval |-> "approved", session |-> "s", execution |-> "e",
     adjusted |-> TRUE, continuous |-> class = "crypto"]
Timeframe(interval) ==
    [interval |-> interval, blank |-> {}, kind |-> "native", duration |-> 5, required |-> 3,
     available |-> Null, origin |-> Null, approval |-> "approved"]
SessionProfile(start, end, overnight) ==
    [id |-> "s", blank |-> {}, start |-> start, end |-> end, overnight |-> overnight,
     continuous |-> start = Null, anchor |-> IF start = Null THEN 0 ELSE Null, approval |-> "approved"]
ExecutionProfile(point) ==
    [id |-> "e", blank |-> {}, costs |-> {0, 1}, tick |-> 1, multiplier |-> 5, point |-> point,
     leverage |-> 1, approval |-> "approved"]

MatrixNames ==
    [a : {"equity", "futures", "crypto", "bond"}, i : {<<"1m", "5m">>, <<"5m">>, <<"1m", "1m">>, <<>>},
     b : {"futures", "etf"}, same : BOOLEAN, session : {<<9, 16>>, <<18, 9>>, <<9, 9>>, <<Null, Null>>},
     point : {5, 4}, kind : {"native", "resampled"}, plan : BOOLEAN]

LoadMatrix(x) ==
    LET plan == [names |-> <<"a">>, approved |-> TRUE,
                 definitions |-> [a |-> Definition("bounded_discrete", TRUE, <<1, 2>>, 2, FALSE)]]
    IN  [instruments |-> <<Instrument("x", x.a, x.i),
                           Instrument(IF x.same THEN "x" ELSE "y", x.b, <<"5m", "1d">>)>>,
         timeframes |-> <<Timeframe("1m"), [Timeframe("5m") EXCEPT !.kind = x.kind,
                              !.origin = IF x.kind = "resampled" THEN 0 ELSE Null]>>,
         sessions |-> <<SessionProfile(x.session[1], x.session[2], x.session = <<18, 9>>)>>,
         executions |-> <<ExecutionProfile(x.point)>>, threshold |-> 4,
         strategy |-> [classes |-> {"equity", "futures", "crypto"}, intervals |-> {"1m", "5m"},
                       adjusted |-> TRUE, plan |-> plan],
         plan |-> IF x.plan THEN SummarizeParameterPlan(plan, 4, TRUE) ELSE Null]

-----------------------------------------------------------------------------
(* Evidence documents and reviews *)

Lineage == [k \in LineageKeys |-> "same"] @@ [run |-> "run"]

\* Rules that were declared for a configuration, or one that differs in a field.
DeclaredRules(c, differ) ==
    CASE differ = "none" -> c
      [] differ = "test" -> [c EXCEPT !.test = @ + 1, !.step = @ + 1]
      [] differ = "step" -> [c EXCEPT !.step = @ + 1]
      [] differ = "selection" -> [c EXCEPT !.selection = 1 - Min({@, 1})]
      [] differ = "mode" -> [c EXCEPT !.mode = IF @ = "rolling" THEN "expanding" ELSE "rolling"]

WalkDocuments ==
    [stage : {"walk_forward"}, s : StageSessions, config : StageConfigs, daily : BOOLEAN,
     differ : {"none", "test", "step", "selection", "mode"}, first : {"lock", "no_lock", "failed"},
     forge : {"status", "reasons"}]

MonteDocuments ==
    [stage : {"monte_carlo"}, status : NativeStatuses \cup {"invalid_input"}, reasons : {<<>>, <<"r">>},
     passed : {<<>>, <<TRUE>>, <<TRUE, FALSE>>}, stress : {<<>>, <<"applied">>},
     state : {"gated", "spent", "not_applicable", "other"}, forge : {"status", "reasons", "eligible"}]

RobustDocuments ==
    [stage : {"robustness"}, status : NativeStatuses \cup {"invalid_input"}, reasons : {<<>>, <<"r">>},
     summary : {"none", "passed", "failed"}, stress : {"none", "passed", "failed"}, shares : BOOLEAN,
     regime : {"none", "passed", "insufficient_evidence"}, state : {"gated", "spent"},
     forge : {"status", "reasons", "eligible"}]

DocumentNames ==
    WalkDocuments \cup MonteDocuments
        \cup {x \in RobustDocuments : /\ (x.summary = "none") /= (x.stress = "none")
                                      /\ x.shares => x.stress /= "none"}

WalkNative(x) ==
    LET sessions == IF x.daily THEN [i \in 1..8 |-> i] ELSE x.s
        built == BuildWalkForwardWindows([i \in 1..8 |-> i], sessions, x.config)
        Walked(i) ==
            LET Is(what) == i = 1 /\ x.first = what
            IN  [window |-> built.windows[i], status |-> IF Is("failed") THEN "failed" ELSE "successful",
                 why |-> IF Is("failed") THEN "none_passed" ELSE "",
                 setting |-> IF Is("failed") THEN Null ELSE 1,
                 lock |-> IF Is("failed") \/ Is("no_lock") THEN Null ELSE <<"lock", i>>]
    IN  [folds |-> [i \in DOMAIN built.windows |-> Walked(i)],
         rules |-> DeclaredRules(x.config, x.differ), sessions |-> sessions,
         longest |-> IF x.daily THEN Null
                     ELSE Max({Cardinality({i \in 1..8 : x.s[i] = d}) : d \in Range(x.s)}),
         timestamp |-> "now"]

Judged(id, status) == [id |-> id, status |-> status, value |-> 1]

LockConfig == [k \in LockKeys |-> "same"]

RobustNative(x) ==
    [status |-> x.status, reasons |-> x.reasons, source |-> "oos", timestamp |-> "now",
     config |-> LockConfig,
     summary |-> IF x.summary = "none" THEN Null
                 ELSE [status |-> x.summary, thresholds |-> <<Judged("passing", x.summary)>>],
     points |-> IF x.summary = "none" THEN <<>> ELSE <<x.summary>>,
     stress |-> IF x.stress = "none" THEN Null
                ELSE [status |-> x.stress, thresholds |-> <<Judged("return", x.stress)>>,
                      baseline |-> IF x.shares THEN [fees |-> 0, slippage |-> 1]
                                   ELSE [fixed_fee |-> 1, ticks |-> 1],
                      stressed |-> IF x.shares THEN [fees |-> 0, slippage |-> 2]
                                   ELSE [fixed_fee |-> 2, ticks |-> 2]],
     regimes |-> IF x.regime = "none" THEN <<>>
                 ELSE << [id |-> "up", status |-> x.regime, thresholds |-> <<Judged("return", "passed")>>] >>,
     components |-> IF x.stress = "none" THEN [neighborhood |-> x.summary] ELSE [stress |-> x.stress]]

MonteNative(x) ==
    [status |-> x.status, reasons |-> x.reasons, source |-> "walk", timestamp |-> "now", stress |-> x.stress,
     thresholds |-> [i \in DOMAIN x.passed |-> [id |-> i, passed |-> x.passed[i], value |-> i]]]

LoadDocument(x) ==
    LET native == CASE x.stage = "walk_forward" -> WalkNative(x)
                    [] x.stage = "monte_carlo" -> MonteNative(x)
                    [] x.stage = "robustness" -> RobustNative(x)
    IN  [stage |-> x.stage, native |-> native, source |-> Lineage,
         state |-> IF x.stage = "walk_forward" THEN "not_applicable" ELSE x.state,
         asked |-> IF x.forge = "status" THEN [Lineage EXCEPT !.run = "other"]
                   ELSE [Lineage EXCEPT !.data = "other"],
         changed |-> IF x.stage = "walk_forward"
                     THEN IF native.folds = <<>> THEN native ELSE [native EXCEPT !.folds[1].lock = <<"lock", 9>>]
                     ELSE [native EXCEPT !.status = IF @ = "failed" THEN "passed" ELSE "failed"],
         forge |-> CASE x.forge = "status" -> [status |-> "passed"]
                     [] x.forge = "reasons" -> [reasons |-> <<"forged">>]
                     [] x.forge = "eligible" -> [eligible |-> TRUE]]

\* What changed between a review and the reading of it.
Changes == {"none", "walk", "monte", "monte_missing", "robust_setting", "lock_setting", "lock_id",
            "lock_lost", "state", "data", "runtime", "target"}

ReviewNames ==
    [change : Changes, walk : {"lock", "no_lock", "failed"},
     monte : NativeStatuses, robust : NativeStatuses, state : {"gated", "spent", "invalid", "unspent"},
     lock : {"passed", "invalid_input", "none"}, reason : {"good", ""}]

\* A document that cannot be built was never stored.
Stored(d) == IF IsReadable(d) THEN d ELSE Null

BuiltReview(stage, native) == Stored(BuildDocument(stage, native, Lineage, "gated"))

\* The documents of a run, and the ones that a change replaces.
ReviewDocuments(walk, monte, robust) ==
    [walk_forward |-> BuiltReview("walk_forward", walk),
     monte_carlo |-> BuiltReview("monte_carlo", monte),
     robustness |-> BuiltReview("robustness", robust)]

ChangedDocuments(docs, change, walk, monte, robust) ==
    CASE change = "walk" -> [docs EXCEPT !.walk_forward = BuiltReview("walk_forward",
             [walk EXCEPT !.folds[1].lock = <<"lock", 9>>, !.folds[1].status = "successful"])]
      [] change = "monte" -> [docs EXCEPT !.monte_carlo = BuiltReview("monte_carlo",
             [monte EXCEPT !.status = IF @ = "failed" THEN "passed" ELSE "failed"])]
      [] change = "monte_missing" -> [docs EXCEPT !.monte_carlo = Null]
      [] change = "robust_setting" -> [docs EXCEPT !.robustness = BuiltReview("robustness",
             [robust EXCEPT !.config.setting = "other"])]
      [] change \in {"data", "runtime"} /\ docs.monte_carlo /= Null ->
             [docs EXCEPT !.monte_carlo.source[change] = "other"]
      [] OTHER -> docs

ChangedLock(lock, change) ==
    CASE lock = Null \/ change = "lock_lost" -> Null
      [] change = "lock_setting" -> [lock EXCEPT !.setting = "more"]
      [] change = "lock_id" -> [lock EXCEPT !.id = Null]
      [] OTHER -> lock

ReviewOf(x, docs, changed, lock, review) ==
    [docs |-> docs, lock |-> lock, state |-> x.state, source |-> Lineage, review |-> review,
     audit |-> review @@ [id |-> 1], runs |-> [s \in DOMAIN docs |-> "run"],
     configuration |-> [settings |-> {"same", "more"}, experiment |-> "same"],
     later |-> [docs |-> changed, lock |-> ChangedLock(lock, x.change),
                state |-> IF x.change = "state" THEN "spent" ELSE x.state,
                source |-> IF x.change = "target" THEN [Lineage EXCEPT !.strategy = "other"]
                           ELSE Lineage]]

ReviewOfEvidence(x, walk, monte, robust, docs) ==
    ReviewOf(x, docs, ChangedDocuments(docs, x.change, walk, monte, robust),
             IF x.lock = "none" THEN Null ELSE LockConfig @@ [status |-> x.lock, id |-> "lock"],
             [target |-> "run", state |-> "reviewed", reason |-> x.reason, reviewer |-> "owner"])

ReviewOfNatives(x, walk, monte, robust) ==
    ReviewOfEvidence(x, walk, monte, robust, ReviewDocuments(walk, monte, robust))

LoadReview(x) ==
    ReviewOfNatives(x,
        WalkNative([s |-> [i \in 1..8 |-> i], daily |-> TRUE, differ |-> "none", first |-> x.walk,
                    config |-> StageConfig(3, 0, 2, 2, "rolling", "drop")]),
        MonteNative([status |-> x.monte, reasons |-> <<"r">>, stress |-> <<>>, passed |-> <<TRUE>>]),
        RobustNative([status |-> x.robust, reasons |-> <<"r">>, summary |-> "passed",
                      stress |-> "none", shares |-> FALSE, regime |-> "none"]))

-----------------------------------------------------------------------------
(* Prices: days of four minutes, regular in the middle; day 3 has no session and day 2   *)
(* closes early.  Two sessions without a bar are more than a suspension.                *)

PriceCalendar ==
    [length |-> 4, suspension |-> 1, window |-> 2, distance |-> 4, floor |-> 1,
     identity |-> "alpaca",
     schedule |-> [d \in {0, 1, 2, 4, 5} |->
                      [open |-> 4 * d + 1, close |-> 4 * d + (IF d = 2 THEN 2 ELSE 3)]]]

Minutes(first, last) == 4 * first .. 4 * last + 3

\* The bars of the minutes in S at a price.
Served(S, Price(_)) ==
    LET order == Ascending(S) IN [i \in DOMAIN order |-> [t |-> order[i], v |-> Price(order[i])]]

Flat(t) == 5

\* A first history: two days, one with a hole, one day, one that starts again after a
\* silence, one with a bar that stands out, one that is worthless, and none.
FirstServed(n) ==
    CASE n = "two" -> Served(Minutes(0, 1), Flat)
      [] n = "hole" -> Served(Minutes(0, 1) \ {6}, Flat)
      [] n = "one" -> Served(Minutes(1, 1), Flat)
      [] n = "silent" -> Served(Minutes(0, 0) \cup Minutes(4, 4), Flat)
      [] n = "spike" -> Served(Minutes(0, 1), LAMBDA t : IF t \in {2, 4, 5} THEN 30 ELSE 5)
      [] n = "worthless" -> Served(Minutes(0, 1), LAMBDA t : t)
      [] n = "none" -> <<>>

\* What the provider serves at the second top-up.
SecondServed(n, first) ==
    LET shown == FirstServed(first)
        old == [t \in TimesOf(shown) |-> (CHOOSE b \in Range(shown) : b.t = t).v]
        Old(t) == IF t \in DOMAIN old THEN old[t] ELSE 5
        new == TimesOf(shown) \cup (IF first = "silent" THEN Minutes(5, 5) ELSE Minutes(2, 2))
    IN  CASE n = "same" -> shown
          [] n = "more" -> Served(new, Old)
          [] n = "late" -> Served(new \cup (IF first = "silent" THEN {} ELSE {6}),
                                 LAMBDA t : IF t \in {7, 18} THEN 6 ELSE Old(t))
          [] n = "short" -> Served(new \ {t \in new : t > 5}, Old)
          [] n = "split" -> Served(new, LAMBDA t : 2 * Old(t))
          [] n = "split_short" -> Served(new \ {t \in new : t > 6}, LAMBDA t : 2 * Old(t))
          [] n = "split_hole" -> Served(new \ {2}, LAMBDA t : 2 * Old(t))
          [] n = "broken" -> Served(new, LAMBDA t : IF t > 8 THEN 0 ELSE Old(t))
          [] n = "twice" -> Served(new, Old) \o <<[t |-> 11, v |-> 5]>>
          [] n = "relisted" -> Served(TimesOf(shown) \cup Minutes(5, 5), Old)
          [] n = "gone" -> <<>>

TopUpNames ==
    {[vbt |-> v, first |-> f, second |-> s, period |-> p] :
        v \in BOOLEAN, f \in {"two", "hole", "one", "silent", "spike", "worthless", "none"},
        s \in {"same", "more", "late", "short", "split", "split_short", "split_hole", "broken",
               "twice", "relisted", "gone"},
        p \in {<<1, 7>>, <<5, 6>>}}

LoadTopUp(n) ==
    [vbt |-> n.vbt, first |-> FirstServed(n.first), second |-> SecondServed(n.second, n.first),
     firstEnd |-> IF n.first = "silent" THEN 19 ELSE 7,
     end |-> IF n.first = "silent" \/ n.second = "relisted" THEN 23 ELSE 11,
     since |-> 0, from |-> n.period[1], to |-> n.period[2], g |-> PriceCalendar]

\* Daily prices of the sessions in S, plain or adjusted, of which some may be broken.
DailyServed(S, config, wrong) ==
    LET price == IF config.adjusted THEN 4 ELSE 5
        base == Served(S, LAMBDA t : IF wrong = "null" /\ t = 1 THEN Null ELSE price)
    IN  CASE base = <<>> -> <<>>
          [] wrong = "twice" -> base \o <<[t |-> 0, v |-> price]>>
          [] wrong = "future" -> base \o <<[t |-> 9, v |-> price]>>
          [] wrong = "unordered" -> Tail(base) \o <<base[1]>>
          [] OTHER -> base

Configs == [start : {0, 1}, adjusted : BOOLEAN]

CacheNames ==
    {[days |-> d, wrong |-> w, config |-> c, between |-> b, times |-> n, allowed |-> a] :
        d \in {{0, 1}, {0, 1, 2}, {0, 2}, {1, 2}, {}},
        w \in {"none", "null", "twice", "future", "unordered"},
        c \in {[start |-> 0, adjusted |-> TRUE]}, b \in Configs,
        n \in {<<7, 7, 7>>, <<7, 8, 12>>, <<7, 11, 12>>, <<0, 7, 12>>}, a \in BOOLEAN}

LoadCache(n) ==
    [config |-> n.config, between |-> n.between, times |-> n.times, allowed |-> n.allowed,
     g |-> PriceCalendar,
     vendor |-> [c \in Configs |->
        IF c = n.between /\ c /= n.config THEN DailyServed({0, 1, 2}, c, "none")
        ELSE DailyServed(n.days, c, n.wrong)]]

PurchaseNames ==
    {[first |-> f, second |-> s, steps |-> k, start |-> b, cost |-> c, resolved |-> r, times |-> n] :
        f \in {"two", "hole", "worthless", "none"}, s \in {"more", "broken", "twice", "short"},
        k \in 1..3, b \in {0, 1}, c \in {0, 1}, r \in BOOLEAN, n \in {<<7, 11, 12>>, <<0, 7, 7>>}}

LoadPurchase(n) ==
    [request |-> [start |-> n.start, limit |-> 1], cost |-> n.cost, resolved |-> n.resolved,
     steps |-> n.steps, times |-> n.times, g |-> PriceCalendar,
     vendor |-> <<FirstServed(n.first), SecondServed(n.second, n.first),
                  SecondServed("more", n.first)>>]

MCCases(k) ==
    CASE k = "sweep" -> SweepNames \cup {[blocked |-> i] : i \in DOMAIN BlockedSweeps}
                         \cup {[unclosed |-> x] : x \in UnclosedNames}
      [] k = "column" -> ColumnNames
      [] k = "trades" -> TradeNames
      [] k = "rule" -> RuleNames
      [] k = "gap" -> GapNames
      [] k = "plan" -> PlanNames
      [] k = "stage" -> StageNames
      [] k = "spec" -> SpecNames
      [] k = "packet" -> PacketNames
      [] k = "neighbor" -> NeighborNames
      [] k = "robust" -> RobustNames
      [] k = "fixed" -> FixedNames
      [] k = "monte" -> MonteNames
      [] k = "matrix" -> MatrixNames
      [] k = "document" -> DocumentNames
      [] k = "review" -> ReviewNames
      [] k = "prices" -> TopUpNames
      [] k = "cache" -> CacheNames
      [] k = "purchase" -> PurchaseNames

MCLoad(k, x) ==
    CASE k = "sweep" -> IF "blocked" \in DOMAIN x THEN BlockedSweeps[x.blocked]
                         ELSE IF "unclosed" \in DOMAIN x THEN LoadUnclosed(x.unclosed) ELSE LoadSweep(x)
      [] k = "column" -> LoadColumn(x)
      [] k = "trades" -> LoadTrades(x)
      [] k = "rule" -> LoadRule(x)
      [] k = "gap" -> LoadGap(x)
      [] k = "plan" -> LoadPlan(x)
      [] k = "stage" -> LoadStage(x)
      [] k = "spec" -> LoadSpec(x)
      [] k = "packet" -> LoadPacket(x)
      [] k = "neighbor" -> LoadNeighbor(x)
      [] k = "robust" -> LoadRobust(x)
      [] k = "fixed" -> LoadFixed(x)
      [] k = "monte" -> LoadMonte(x)
      [] k = "matrix" -> LoadMatrix(x)
      [] k = "document" -> LoadDocument(x)
      [] k = "review" -> LoadReview(x)
      [] k = "prices" -> LoadTopUp(x)
      [] k = "cache" -> LoadCache(x)
      [] k = "purchase" -> LoadPurchase(x)
===============================================================================
