----------------------------- MODULE RuleLanguage -----------------------------
(***************************************************************************)
(* What a submitted rule specification has to satisfy before it becomes a  *)
(* strategy, and the research packet that carries it.                      *)
(*                                                                         *)
(* A specification has the form of RuleStrategies with times in minutes    *)
(* after the open and the fields the evaluation does not read.  g is the   *)
(* geometry and the limits: [step, bars, window, nodes, depth, grid], the  *)
(* declared variables and the indicators of the library.                   *)
(***************************************************************************)
EXTENDS RuleStrategies

PriceFields == {"open", "high", "low", "close", "volume"}
BinaryOperators == {"add", "sub", "mul", "div"}
UnaryOperators == {"abs", "sign", "neg", "ticks", "change", "pct_change", "same_sign_run"}
RollingOperators == {"sma", "ema", "median", "max", "min", "std", "sum"}
SessionOperators == {"vwap", "session_open", "bar_index"}
RangeOperators == {"range_high", "range_low"}
ComparisonOperators == {"gt", "gte", "lt", "lte", "eq", "crosses_above", "crosses_below"}

CloseOf(g) == g.step * g.bars
FirstEnd(g) == g.step
LastExit(g) == CloseOf(g) - g.step

\* _clock: a time that ends a bar, within bounds; Null is not a time at all.
Clock(t, earliest, latest, g) ==
    t /= Null /\ t % g.step = 0 /\ earliest <= t /\ t <= latest

\* _is_count and _is_amount
IsCount(v, low, high) == v /= Null /\ low <= v /\ v <= high
IsAmount(v, below) == v /= Null /\ v > 0 /\ (below /= Null => v < below)

\* param: a value, or a variable declared with distinct values.
Declared(n, g) ==
    n.param /= Null => /\ n.param \in DOMAIN g.variables
                       /\ g.variables[n.param] /= <<>>
                       /\ IsInjective(g.variables[n.param])

ValuesOf(n, g) == IF n.param = Null THEN {n.value} ELSE Range(g.variables[n.param])

\* count, amount and number: every value is usable here.
Count(n, low, high, g) == Declared(n, g) /\ \A v \in ValuesOf(n, g) : IsCount(v, low, high)
AmountHolds(n, below, g) == Declared(n, g) /\ \A v \in ValuesOf(n, g) : IsAmount(v, below)
Number(n, g) == Declared(n, g) /\ \A v \in ValuesOf(n, g) : v /= Null

\* The longest window: the session, or many sessions for a window across them.
Longest(across, g) == IF across THEN g.window ELSE g.bars

-----------------------------------------------------------------------------
(* Nodes *)

\* INDICATORS: does the operator take a series, its parameters by kind and minimum, and
\* its outputs.  Three of the catalogue stand for the rest.
Indicators ==
    [rsi |-> [series |-> TRUE, params |-> <<<<"count", 2>>>>, outputs |-> {}],
     bollinger |-> [series |-> TRUE, params |-> <<<<"count", 2>>, <<"amount", 0>>>>,
                    outputs |-> {"upper", "lower"}],
     donchian |-> [series |-> FALSE, params |-> <<<<"count", 1>>>>,
                   outputs |-> {"upper", "lower"}]]

\* library_indicator: what the installed library declares, if the indicator is usable:
\* of a known family, on price fields only, with a default for every parameter.
LibraryIndicator(name, g) ==
    IF name \notin DOMAIN g.library THEN Null
    ELSE LET spec == g.library[name]
         IN  IF /\ spec.family \in {"vbt", "talib"} /\ ~spec.unusable
                /\ spec.inputs /= {} /\ spec.inputs \subseteq PriceFields
                /\ spec.defaults
             THEN spec ELSE Null

\* indicator and library_indicator of the validator.
ParametersHold(node, kinds, g) ==
    /\ Len(node.params) = Len(kinds)
    /\ \A i \in DOMAIN kinds :
           CASE kinds[i][1] = "count" -> Count(node.params[i], kinds[i][2], Longest(node.across, g), g)
             [] kinds[i][1] = "amount" -> AmountHolds(node.params[i], 20, g)
             [] OTHER -> Number(node.params[i], g)

OutputHolds(node, outputs) == IF outputs = {} THEN node.output = Null ELSE node.output \in outputs

\* The length of a rolling operator.
WindowHolds(node, g) ==
    Count(node.n, IF node.op = "std" THEN 2 ELSE 1, Longest(node.across, g), g)

\* series: a node that denotes a number or a series.
SeriesHolds(root, g) ==
  LET holds[node \in RuleNodes] ==
    LET op == node.op
        Arguments(k) == Len(node.args) = k /\ \A i \in 1..k : holds[node.args[i]]
    IN  CASE op \in PriceFields -> Arguments(0)
          [] op = "number" -> node.n.param = Null /\ node.n.value /= Null
          [] op = "param" -> node.n.param /= Null /\ Number(node.n, g)
          [] op = "prev" -> Arguments(1) /\ Count(node.n, 1, g.bars - 1, g)
          [] op \in RollingOperators -> Arguments(1) /\ WindowHolds(node, g)
          [] op = "value_at" -> Arguments(1) /\ Clock(node.from, FirstEnd(g), CloseOf(g), g)
          [] op \in DOMAIN Indicators ->
                /\ Arguments(IF Indicators[op].series THEN 1 ELSE 0)
                /\ ParametersHold(node, Indicators[op].params, g)
                /\ OutputHolds(node, Indicators[op].outputs)
          [] op \in BinaryOperators -> Arguments(2)
          [] op \in UnaryOperators -> Arguments(1)
          [] op = "atr" -> Arguments(0) /\ Count(node.n, 1, Longest(node.across, g), g)
          [] op \in SessionOperators -> Arguments(0)
          [] op \in RangeOperators ->
                /\ Arguments(0)
                /\ Clock(node.from, 0, LastExit(g), g)
                /\ Clock(node.to, FirstEnd(g), CloseOf(g), g)
                /\ node.from < node.to
          [] OTHER ->
                LET spec == LibraryIndicator(op, g)
                IN  /\ spec /= Null
                    /\ Len(node.args) <= Cardinality(spec.inputs)
                    /\ \A i \in DOMAIN node.args : holds[node.args[i]]
                    /\ ParametersHold(node, spec.params, g)
                    /\ OutputHolds(node, spec.outputs)
  IN  holds[root]

\* condition
ConditionHolds(root, g) ==
  LET holds[node \in RuleNodes] ==
    LET op == node.op
        Conditions == \A i \in DOMAIN node.args : holds[node.args[i]]
    IN  CASE op \in ComparisonOperators -> Len(node.args) = 2 /\ \A i \in 1..2 : SeriesHolds(node.args[i], g)
          [] op \in {"all", "any"} -> node.args /= <<>> /\ Conditions
          [] op = "not" -> Len(node.args) = 1 /\ Conditions
          [] op = "every" -> /\ node.n.param = Null
                             /\ IsCount(node.n.value, g.step, CloseOf(g))
                             /\ node.n.value % g.step = 0
          [] op = "time_is" -> Clock(node.from, FirstEnd(g), CloseOf(g), g)
          [] op = "time_between" -> /\ Clock(node.from, FirstEnd(g), CloseOf(g), g)
                                    /\ Clock(node.to, FirstEnd(g), CloseOf(g), g)
                                    /\ node.from <= node.to
          [] OTHER -> FALSE
  IN  holds[root]

-----------------------------------------------------------------------------
(* Signals, stops and exits *)

\* side
SideHolds(signal, g) ==
    \/ signal.side \in {"long", "short"}
    \/ signal.side \in {"sign_of", "opposite_of"} /\ SeriesHolds(signal.of, g)

\* distance: of stop key; a level and the signal bar only stop a loss, a multiple of the
\* loss only takes profit or starts to trail.
DistanceHolds(stop, key, g) ==
    CASE stop.kind = "level" -> key = "stop_loss" /\ SeriesHolds(stop.level, g)
      [] stop.kind = "signal_bar" -> key = "stop_loss"
      [] stop.kind = "r_multiple" -> /\ key \in {"take_profit", "trail_after"}
                                     /\ AmountHolds(stop.n, Null, g)
      [] stop.kind = "atr" -> /\ IsCount(stop.length, 1, g.bars)
                              /\ AmountHolds(stop.n, Null, g)
      [] stop.kind \in {"points", "ticks"} -> AmountHolds(stop.n, Null, g)
      [] stop.kind = "percent" -> AmountHolds(stop.n, 100, g)
      [] OTHER -> FALSE

\* Mutant: the last bar of the session is late enough to leave.
FlatHoldsMutant(t, g) == t /= Null => Clock(t, FirstEnd(g) + g.step, CloseOf(g), g)

\* flat_at: late enough to follow an entry, early enough to fill in the session.
FlatHolds(t, g) == t /= Null => Clock(t, FirstEnd(g) + g.step, LastExit(g), g)

\* exit
ExitHolds(spec, g) ==
    /\ spec.after_bars.param /= Null \/ spec.after_bars.value /= Null =>
           Count(spec.after_bars, 1, IF spec.flat = Null THEN g.window ELSE g.bars - 1, g)
    /\ spec.at_time /= Null =>
           Clock(spec.at_time, FirstEnd(g) + g.step,
                 IF spec.flat = Null THEN LastExit(g) ELSE spec.flat, g)
    /\ \A key \in DOMAIN spec.stops :
           /\ key \in {"stop_loss", "take_profit", "trailing_stop", "trail_after"}
           /\ DistanceHolds(spec.stops[key], key, g)
           /\ spec.stops[key].kind = "r_multiple" => "stop_loss" \in DOMAIN spec.stops
    /\ "trail_after" \in DOMAIN spec.stops => "trailing_stop" \in DOMAIN spec.stops
    /\ DOMAIN spec.exit_when \subseteq {"long", "short"}
    /\ \A side \in DOMAIN spec.exit_when : ConditionHolds(spec.exit_when[side], g)

\* spec
SpecHolds(spec, g) ==
    /\ spec.language /\ spec.session
    /\ spec.bar = g.step
    /\ IsAmount(spec.tick, Null)
    /\ FlatHolds(spec.flat, g)
    /\ spec.signals /= <<>>
    /\ \A s \in Range(spec.signals) : ConditionHolds(s.when, g) /\ SideHolds(s, g)
    /\ IsCount(spec.trades, 1, g.bars)
    /\ IsInjective(spec.skip_days) /\ Range(spec.skip_days) \subseteq {"cpi", "fomc"}
    /\ ExitHolds(spec, g)

-----------------------------------------------------------------------------
(* The whole specification *)

\* The nodes a specification is made of.
Roots(spec) ==
    {s.when : s \in Range(spec.signals)}
      \cup {s.of : s \in {t \in Range(spec.signals) : t.side \in {"sign_of", "opposite_of"}}}
      \cup {spec.exit_when[side] : side \in DOMAIN spec.exit_when}
      \cup {spec.stops[key].level : key \in {k \in DOMAIN spec.stops : spec.stops[k].kind = "level"}}

\* The variables a specification refers to.
Used(spec) ==
    (UNION {Referenced(node) : node \in Roots(spec)}
        \cup {spec.after_bars.param} \cup {spec.stops[key].n.param : key \in DOMAIN spec.stops})
      \ {Null}

\* _check_size: elements and nesting.
Elements(root) ==
    LET count[node \in RuleNodes] ==
            1 + Len(node.params)
              + FoldSet(LAMBDA i, acc : acc + count[node.args[i]], 0, DOMAIN node.args)
    IN  count[root]

SizeHolds(spec, g) ==
    /\ Roots(spec) \subseteq NodesOfDepth[g.depth]
    /\ FoldSet(LAMBDA node, acc : acc + Elements(node), 0, Roots(spec)) <= g.nodes

\* _check_grid_size
GridSize(variables) == FoldSet(LAMBDA n, acc : acc * Len(variables[n]), 1, DOMAIN variables)

\* validate_rule_spec: the first thing a specification is refused for, or Null.
RuleSpecError(spec, g) ==
    CASE ~SizeHolds(spec, g) -> "size"
      [] ~SpecHolds(spec, g) -> "spec"
      [] DOMAIN g.variables \ Used(spec) /= {} -> "unused"
      [] GridSize(g.variables) > g.grid -> "grid"
      [] OTHER -> Null

\* The evaluated form: times become bar positions, an indicator without a series reads
\* its price field.
Compiled(root, g) ==
  LET compiled[node \in RuleNodes] ==
        [node EXCEPT
            !.args = IF node.op \in DOMAIN Indicators \cup DOMAIN g.library /\ @ = <<>>
                     THEN <<[node EXCEPT !.op = "close", !.params = <<>>]>>
                     ELSE [i \in DOMAIN @ |-> compiled[@[i]]],
            !.from = BarPosition(@, g.step), !.to = BarPosition(@, g.step),
            !.n = CASE node.op = "every" -> [@ EXCEPT !.value = @ \div g.step]
                    [] node.params /= <<>> -> node.params[1]
                    [] OTHER -> @,
            !.op = IF @ \in DOMAIN Indicators \cup DOMAIN g.library THEN "indicator" ELSE @]
  IN  compiled[root]

CompiledSpec(spec, g) ==
    LET Position(t) == IF t = Null THEN Null ELSE BarPosition(t, g.step)
    IN  [spec EXCEPT
            !.signals = [i \in DOMAIN @ |-> [@[i] EXCEPT !.when = Compiled(@, g), !.of = Compiled(@, g)]],
            !.stops = [k \in DOMAIN @ |-> [@[k] EXCEPT !.level = Compiled(@, g)]],
            !.exit_when = [s \in DOMAIN @ |-> Compiled(@[s], g)],
            !.flat = Position(@), !.at_time = Position(@)]

\* The settings of the grid.
Settings(variables) ==
    LET names == DOMAIN variables
    IN  {f \in [names -> UNION {Range(variables[n]) : n \in names}] :
            \A n \in names : f[n] \in Range(variables[n])}

-----------------------------------------------------------------------------
(* Strategy definitions *)

\* _parameter_definition of every variable: what the governance of parameters sees.
ParameterPlan(variables) ==
    [names |-> CHOOSE s \in [1..Cardinality(DOMAIN variables) -> DOMAIN variables] : IsInjective(s),
     approved |-> TRUE,
     definitions |-> [n \in DOMAIN variables |->
        LET grid == Len(variables[n]) > 1
        IN  [class |-> IF grid THEN "bounded_discrete" ELSE "fixed", optimizable |-> grid,
             candidates |-> variables[n], default |-> variables[n][1],
             reference |-> variables[n][1], allowed |-> Range(variables[n]),
             contribution |-> IF grid THEN Len(variables[n]) ELSE Null,
             low |-> Null, high |-> Null, structural |-> FALSE, approved |-> TRUE]]]

-----------------------------------------------------------------------------
(* Research packets *)

\* The errors of validate_candidate_packet.
PacketErrors(doc, g) ==
    LET Seen(s, i) == \E j \in 1..(i - 1) : s[j].id = s[i].id
        Has(test, code) == IF test THEN {code} ELSE {}
    IN  Has(~doc.schema, "schema")
        \cup Has(doc.title \in {"blank", "long"}, "title")
        \cup Has(doc.status \notin {"draft", "needs_clarification", "ready_for_review",
                                    "owner_approved", "implemented", "rejected", "retired"}, "status")
        \cup Has(~doc.behavior, "hypothesis")
        \cup Has(~doc.intraday, "holding_style")
        \cup Has(doc.overnight, "overnight_positions")
        \cup Has(~doc.rules, "rules")
        \cup Has(\E s \in Range(doc.sources) : s.type = Null \/ s.url = "unsafe", "source")
        \cup Has(\E n \in DOMAIN doc.variables :
                    \/ doc.variables[n] = <<>>
                    \/ ~IsInjective(doc.variables[n]), "variables")
        \cup Has(/\ doc.rule_spec /= Null
                 /\ \/ RuleSpecError(doc.rule_spec, [g EXCEPT !.variables = doc.variables]) /= Null
                    \/ doc.rule_spec.bar /= doc.timeframe, "rule_spec")
        \cup Has(\E i \in DOMAIN doc.variants :
                    doc.variants[i].id = Null \/ Seen(doc.variants, i), "variants")
        \cup Has(\E q \in Range(doc.questions) :
                    ~q.text \/ q.importance \notin {"high", "medium", "low"}, "questions")
        \cup Has(doc.execution \notin {Null, TRUE, FALSE}, "execution")
        \cup Has(doc.controls /= {}, "forbidden_control")

\* review_ready
ReviewReady(doc, g) ==
    PacketErrors(doc, g) = {} /\ \A q \in Range(doc.questions) : q.importance /= "high"

\* _require_importable: the outside cannot claim a decision.
Importable(doc, g) ==
    PacketErrors(doc, g) = {} /\ doc.status \in {"draft", "needs_clarification", "ready_for_review"}

\* record_candidate_decision on a saved packet: the packet it saves, or why it refuses.
RecordDecision(saved, decision, g) ==
    LET decided == [saved EXCEPT !.status = decision]
    IN  CASE decision \notin {"owner_approved", "rejected"} -> [refused |-> "decision"]
          [] saved = Null -> [refused |-> "saved"]
          [] PacketErrors(saved, g) /= {} -> [refused |-> "invalid"]
          [] decision = "owner_approved" /\ ~ReviewReady(saved, g) -> [refused |-> "questions"]
          [] PacketErrors(decided, g) /= {} -> [refused |-> "produced_invalid"]
          [] OTHER -> decided
=============================================================================
