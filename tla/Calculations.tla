----------------------------- MODULE Calculations -----------------------------
(***************************************************************************)
(* The calculations of the research system, one request at a time: a case  *)
(* is submitted, one operation computes its result, and the properties     *)
(* compare the result with what the operation promises.  The constants     *)
(* hold the cases of each operation.                                       *)
(***************************************************************************)
EXTENDS Robustness, RuleLanguage, EvidenceDocuments, MarketData

CONSTANTS
    Cases(_),       \* the names of the cases of each kind
    Load(_, _),     \* the input that a name of a kind stands for
    Rules           \* the rule definitions that rule cases refer to

-----------------------------------------------------------------------------
(* What the cases of the requests are: inputs that the callers in the code build. *)

IsSequence(s) == s \in Seq(Range(s))

\* Numbers in order, such as the sessions of sorted rows.
InOrder(s) ==
    /\ IsSequence(s)
    /\ \A i, j \in DOMAIN s : s[i] \in Int /\ (i <= j => s[i] <= s[j])

\* A record with these fields among its own.
HasFields(r, fields) == r = [k \in DOMAIN r |-> r[k]] /\ fields \subseteq DOMAIN r

\* Reasons are messages that the code spells out: none is blank.
StatesReasons(n) == IsSequence(n.reasons) /\ "" \notin Range(n.reasons)

\* What a walk-forward run hands to its document: rules it ran under, sessions in order,
\* and windows whose test part follows the part before it without a gap.
IsWalkForward(n) ==
    LET rows == DOMAIN n.sessions
    IN  /\ HasFields(n, {"folds", "rules", "sessions", "longest", "timestamp"})
        /\ IsSequence(n.folds) /\ InOrder(n.sessions)
        /\ WindowRulesHold(n.rules) /\ n.rules.test \in Nat
        /\ n.longest /= Null => n.longest \in Nat
        /\ \A f \in Range(n.folds) :
              LET before == IF f.window.selection = Null THEN f.window.train ELSE f.window.selection
              IN  /\ {before.last, f.window.test.first, f.window.test.last} \subseteq rows
                  /\ f.window.test.first = before.last + 1

IsMonteCarlo(n) ==
    /\ HasFields(n, {"status", "reasons", "stress", "thresholds", "source", "timestamp"})
    /\ StatesReasons(n)
    /\ \A s \in Range(n.stress) : s \in {"applied", "insufficient_evidence"}

\* The costs that a stress writes down, under the names of its plan.  The costs of a contract
\* are both raised; those of whole shares are a positive slippage that is raised and fees
\* that are not lowered.
CostsAreStressed(s) ==
    LET Names(costs) == DOMAIN s.baseline = costs /\ DOMAIN s.stressed = costs
        Raised(c) == 0 < s.baseline[c] /\ s.baseline[c] < s.stressed[c]
    IN  \/ Names({"fixed_fee", "ticks"}) /\ Raised("fixed_fee") /\ Raised("ticks")
        \/ /\ Names({"fees", "slippage"}) /\ Raised("slippage")
           /\ 0 <= s.baseline["fees"] /\ s.baseline["fees"] <= s.stressed["fees"]

\* The costs are those of whole shares.
IsOfShares(s) == "fees" \in DOMAIN s.baseline

\* What a cost stress of a fixed rule hands to its document: no neighbourhood, a status that
\* its rules explain, and its costs.
IsStress(n) ==
    LET s == n.stress
    IN  /\ n.summary = Null /\ n.points = <<>>
        /\ CostsAreStressed(s)
        /\ s.thresholds /= <<>> /\ s.status \in NativeStatuses
        /\ n.components["stress"] = s.status
        /\ s.status = "passed" => \A t \in Range(s.thresholds) : t.status = "passed"

IsRobustness(n) ==
    /\ HasFields(n, {"status", "reasons", "summary", "points", "stress", "regimes", "components",
                     "source", "timestamp"})
    /\ StatesReasons(n)
    /\ RobustnessPartsHold(n)
    /\ n.stress /= Null => IsStress(n)

\* A document is built of what its stage ran; afterwards some of it may be changed.
IsDocumentCase(x) ==
    CASE x.stage = "walk_forward" -> IsWalkForward(x.native)
      [] x.stage = "monte_carlo" -> IsMonteCarlo(x.native)
      [] x.stage = "robustness" -> IsRobustness(x.native)
      [] OTHER -> FALSE

\* Documents of the three stages, each Null or with the reasons it was normalized to.
AreDocuments(docs) ==
    /\ DOMAIN docs = {"walk_forward", "monte_carlo", "robustness"}
    /\ \A s \in DOMAIN docs : docs[s] /= Null => IsSequence(docs[s].evidence.normalized.reasons)

\* A review is of the run it is submitted for, by a named reviewer, and its audit row
\* is written from it in the same transaction.
IsReviewCase(x) ==
    /\ AreDocuments(x.docs) /\ AreDocuments(x.later.docs)
    /\ x.source.run = "run" /\ x.review.target = "run" /\ x.review.reviewer /= ""
    /\ \A k \in {"target", "state", "reason", "reviewer"} : x.audit[k] = x.review[k]
    /\ Null \notin Range(x.runs)

\* What a strategy generates for a setting on a history of so many bars: its signals, whose
\* length and values the gates examine, and the stops and sessions it declares.
IsSignalResult(r, rows) ==
    /\ r = [signals |-> r.signals, levels |-> r.levels, cap |-> r.cap, sessions |-> r.sessions]
    /\ \A n \in DOMAIN r.signals : LET s == r.signals[n]
                                  IN  /\ s = [bool |-> s.bool, values |-> s.values]
                                      /\ s.bool \in BOOLEAN /\ IsSequence(s.values)
    /\ r.levels = [n \in DOMAIN r.levels |-> [i \in rows |-> r.levels[n][i]]]

\* An experiment on a history of bars whose prices, where there are any, are numbers.
ExperimentFields ==
    {"data", "required", "generate", "supplied", "valid", "size", "budget", "cache", "range",
     "execution", "policy", "schedule", "key", "memory", "config"}

IsExperiment(x) ==
    LET d == x.data
        e == x.execution
    IN  /\ x = [f \in ExperimentFields |-> x[f]]
        /\ d = [columns |-> d.columns, index |-> d.index, bars |-> d.bars]
        /\ IsSequence(d.index) /\ \A i \in DOMAIN d.index : d.index[i] \in Int
        /\ IsSequence(d.bars) /\ DOMAIN d.bars = DOMAIN d.index
        /\ \A i \in DOMAIN d.bars, c \in PriceColumns : d.bars[i][c] \in Int \cup {Null}
        /\ x.config = [f \in DOMAIN x.config |-> x.config[f]]
        /\ IsSequence(x.supplied)
        /\ x.budget \in Nat
        /\ x.size = Null \/ x.size \in Nat \ {0}
        /\ {x.memory.free, x.memory.value, x.memory.transient} \subseteq Int
        /\ {e.multiplier, e.cash, e.slippage, e.slippage_points, e.slippage_ticks, e.fixed_fee}
              \subseteq Int
        /\ e.tick_size \in Int \cup {Null}
        /\ \A k \in x.valid : IsSignalResult(x.generate[k], DOMAIN d.bars)

\* The same result as far as a row that is not part of it.
AgreeBefore(r, t, from) ==
    /\ r.cap = t.cap /\ r.sessions = t.sessions
    /\ DOMAIN r.signals = DOMAIN t.signals /\ DOMAIN r.levels = DOMAIN t.levels
    /\ \A n \in DOMAIN r.signals :
           /\ r.signals[n].bool = t.signals[n].bool
           /\ \A i \in DOMAIN r.signals[n].values \cap DOMAIN t.signals[n].values :
                  i < from => r.signals[n].values[i] = t.signals[n].values[i]
    /\ \A n \in DOMAIN r.levels : \A i \in DOMAIN r.levels[n] :
           i < from => r.levels[n][i] = t.levels[n][i]

\* One experiment on two histories of the same rows that agree before a row, and so do, of
\* a strategy that does not look ahead, the results.
DifferFrom(x, y, from) ==
    /\ \A f \in ExperimentFields \ {"data", "generate", "cache"} : x[f] = y[f]
    /\ x.data.columns = y.data.columns /\ x.data.index = y.data.index
    /\ \A i \in DOMAIN x.data.bars : i < from => x.data.bars[i] = y.data.bars[i]
    /\ \A k \in x.valid : AgreeBefore(x.generate[k], y.generate[k], from)

\* A stage runs on the rows of its history, in order unless its splitter refuses them,
\* under a configuration that was accepted; Null is not a lock of one of its settings, nor
\* what is reported of one.
IsStageCase(x) ==
    LET c == x.config
        index == x.experiment.data.index
    IN  /\ IsExperiment(x.experiment) /\ IsExperiment(x.other)
        /\ x.from \in Int /\ DifferFrom(x.experiment, x.other, x.from)
        /\ DOMAIN x.sessions = DOMAIN index
        /\ IndexRefusal(index) = Null => InOrder(x.sessions)
        /\ x.method = "oos" =>
               /\ SplitConfigHolds(c)
               /\ {c.train, c.selection, c.test, c.minimum} \subseteq Nat
        /\ x.method \in {"walk", "low"} =>
               /\ WalkForwardConfigHolds(c)
               /\ {c.training, c.selection, c.test, c.step, c.minimum} \subseteq Nat
        /\ x.method \in {"oos", "walk"} => c.shortlist \in Nat
        /\ Null \notin [setting : x.experiment.valid, first : Int, last : Int]
        /\ Null \notin [id : BOOLEAN, parameters : SUBSET x.experiment.valid]
        /\ x.method = "low" =>
               /\ LowFrequencyConfigHolds(x.policy)
               /\ {x.policy.folds, x.policy.rate, x.policy.drawdown} \subseteq Int
        /\ x.method \in {"oos", "walk", "low"}

\* Where a column may open a position.
EntryBars(column) ==
    {i \in DOMAIN column.close : \E n \in {"entries", "short_entries"} \cap DOMAIN column.args :
                                      column.args[n][i]}

\* A capped column has the number of its session on every bar, and -1 on a bar of no full
\* session.  The bars of a session follow each other, and the maximum hold is one constant
\* from the first entry on.
IsColumnCase(x) ==
    LET c == x.column
        rows == DOMAIN c.close
        session == c.sessions
    IN  /\ IsSequence(c.close)
        /\ c.cap /= Null =>
               /\ c.cap \in Nat /\ session /= Null /\ DOMAIN session = rows
               /\ \A i \in rows : session[i] \in Nat \cup {-1}
               /\ \A i, j, k \in rows :
                      i <= j /\ j <= k /\ session[i] = session[k] /\ session[i] >= 0
                          => session[j] = session[i]
               /\ "td_stop" \in DOMAIN c.args =>
                      /\ \A i \in rows : c.args["td_stop"][i] \in Int
                      /\ \A i \in EntryBars(c), k \in rows :
                             i <= k => c.args["td_stop"][k] = c.args["td_stop"][i]

\* Sessions that follow each other.
IsSchedule(q) ==
    /\ IsSequence(q)
    /\ \A i \in DOMAIN q : q[i].open \in Int /\ q[i].close \in Int /\ q[i].open < q[i].close
    /\ \A i, j \in DOMAIN q : i < j => q[i].close <= q[j].open

\* A session strategy has the numbers that its module fixes, and they fit its sessions.  The
\* two candidates that fill on fixed bars read histories without bars outside a session.
IsTradeCase(x) ==
    LET p == x.p
        sessions == p.schedule
    IN  p.strategy \notin {"donchian", "rsi"} =>
            /\ p.strategy \in {"run_exhaustion", "sma", "orb", "vwap", "momentum", "gap"}
            /\ IsSchedule(sessions)
            /\ p.strategy = "run_exhaustion" => p.full \in Int /\ p.to \in Int /\ p.to + 2 <= p.full
            /\ p.strategy = "sma" => p.slow \in Nat
            /\ p.strategy \in {"orb", "vwap"} => p.range \in Nat
            /\ p.strategy = "orb" => p.direction \in {"long", "short"}
            /\ p.strategy = "momentum" =>
                   /\ p.entry \in Nat /\ p.full \in Int /\ p.entry < p.full
                   /\ \A s \in Range(sessions), t \in DOMAIN x.data :
                          s.open <= t /\ t < s.open + p.full => t < s.close
            /\ p.strategy = "gap" =>
                   /\ p.hold \in Nat \ {0}
                   /\ \A s \in Range(sessions) : s.open + p.hold < s.close

ASSUME ColumnCases == \A r \in Cases("column") : IsColumnCase(Load("column", r))

ASSUME TradeCases == \A r \in Cases("trades") : IsTradeCase(Load("trades", r))

ASSUME StageCases == \A r \in Cases("stage") : IsStageCase(Load("stage", r))

ASSUME DocumentCases == \A r \in Cases("document") : IsDocumentCase(Load("document", r))

ASSUME ReviewCases == \A r \in Cases("review") : IsReviewCase(Load("review", r))

-----------------------------------------------------------------------------
VARIABLES kind, request, input, output

vars == <<kind, request, input, output>>

Kinds == {"sweep", "column", "trades", "rule", "gap", "plan", "stage", "neighbor", "robust",
          "fixed", "monte", "matrix", "spec", "packet", "document", "review", "prices", "cache",
          "purchase"}

Init ==
    /\ kind \in Kinds
    /\ request \in Cases(kind)
    /\ input = Null
    /\ output = Null

\* The names of a request stand for its input.
Submit ==
    /\ input = Null
    /\ input' = Load(kind, request)
    /\ UNCHANGED <<kind, request, output>>

\* One request is answered, once.
Answer(k, Result(_)) ==
    /\ kind = k
    /\ input /= Null
    /\ output = Null
    /\ output' = Result(input)
    /\ UNCHANGED <<kind, request, input>>

-----------------------------------------------------------------------------
(* Experiments *)

\* An experiment, and the same one for every setting alone.
Sweep(x) ==
    [whole |-> ExecuteExperiment(x),
     alone |-> [k \in Range(x.supplied) |->
        ExecuteExperiment([x EXCEPT !.supplied = <<k>>, !.size = 1, !.budget = 0,
                                    !.cache = NewSignalCache])]]

RunSweep == Answer("sweep", Sweep)

\* One column of the engine, with its value at the session closes.
Simulation(x) ==
    LET states == Portfolio(x.column)
        At(t) == CHOOSE i \in DOMAIN x.times : x.times[i] = t
        value == [t \in Range(x.times) |-> ValueAt(x.column, states[At(t)], At(t))]
    IN  [states |-> states, value |-> value,
         equity |-> ColumnEquity(x.column, x.times, x.schedule),
         daily |-> DailyValues(value, [t \in Range(x.times) |-> (t - 1) \div 2])]

SimulateColumn == Answer("column", Simulation)

-----------------------------------------------------------------------------
(* Strategies *)

\* The signals of a built-in strategy on two histories that agree before x.from.
Trades(x) ==
    LET signals == GenerateSignals(x.data, x.p.schedule, x.p)
        price == MomentumExecutionPrices(x.data, signals)
    IN  [signals |-> signals,
         other |-> GenerateSignals(x.other, x.p.schedule, x.p),
         price |-> price,
         ledger |-> IF price = Null THEN <<>> ELSE EngineLedger(x.data, signals, price, 0)]

GenerateTrades == Answer("trades", Trades)

\* The signals of a rule on two histories, for one setting of a sweep and alone.
RuleEvaluation(x) ==
    LET Signals(data, settings, i) ==
            RuleSignals(Rules[x.rule], data, x.schedule, x.count, settings, i, 1)
        i == Len(x.settings)
    IN  [signals |-> Signals(x.data, x.settings, i),
         other |-> Signals(x.other, x.settings, i),
         alone |-> Signals(x.data, <<x.settings[i]>>, 1)]

EvaluateRule == Answer("rule", RuleEvaluation)

\* A submitted specification, and what an accepted one does at every setting of its grid.
Submission(x) ==
    LET refused == RuleSpecError(x.spec, x.g)
        compiled == CompiledSpec(x.spec, x.g)
    IN  IF refused /= Null THEN [refused |-> refused]
        ELSE [plan |-> SummarizeParameterPlan(ParameterPlan(x.g.variables), x.g.grid, TRUE),
              signals |-> [f \in Settings(x.g.variables) |->
                  RuleSignals(compiled, x.data, x.schedule, x.g.bars, <<f>>, 1, x.spec.tick)]]

SubmitRule == Answer("spec", Submission)

\* A research packet: its import and the two decisions about it.
Packet(x) ==
    [errors |-> PacketErrors(x.doc, x.g), importable |-> Importable(x.doc, x.g),
     decided |-> [d \in {"owner_approved", "rejected"} |-> RecordDecision(x.doc, d, x.g)]]

ReviewPacket == Answer("packet", Packet)

\* The gap reversal, its manual trades and the engine's ledger of them.
GapReversal(x) ==
    LET mapping == NormalizeMesMapping(x.mapping, 1, 3)
        bundle == GapBundle(x.data, x.p.schedule, mapping, x.p)
    IN  IF mapping = Null THEN [refused |-> TRUE]
        ELSE [refused |-> FALSE, bundle |-> bundle, mapping |-> mapping,
              ledger |-> EngineLedger(x.data, bundle.signals,
                            GapExecutionPrices(x.data, bundle, x.p), x.p.fee),
              equity |-> ScheduleCompleteEquity(bundle, x.p.cash)]

RunGapReversal == Answer("gap", GapReversal)

\* A parameter plan and the settings its strategy accepts.
ReviewPlan ==
    Answer("plan", LAMBDA x : SummarizeParameterPlan(x.plan, x.threshold, TRUE))

-----------------------------------------------------------------------------
(* Stages *)

\* A stage method on the history of an experiment and on one that agrees before x.from.
Stage(x) ==
    LET Run(e) == CASE x.method = "oos" -> ExecuteOutOfSample(e, x.sessions, x.config)
                    [] x.method = "walk" -> ExecuteWalkForward(e, x.sessions, x.config)
                    [] x.method = "low" ->
                           ExecuteLowFrequency(e, x.sessions, x.config, x.forbidden, x.policy)
    IN  [run |-> Run(x.experiment), other |-> Run(x.other)]

RunStage == Answer("stage", Stage)

\* The settings around a lock.
BuildNeighbors ==
    Answer("neighbor", LAMBDA x : BuildNeighborhood(x.strategy, x.locked, x.definitions))

\* A robustness result, and the one of worse evidence.
RunRobustness ==
    Answer("robust", LAMBDA x : [run |-> RobustnessResult(x.given),
                                 worse |-> RobustnessResult(x.worse)])

\* A fixed rule under two plans, the second of higher costs.
RunFixedRule ==
    Answer("fixed", LAMBDA x :
        [run |-> FixedRuleRobustness(x.experiment, x.lock, x.plan, x.config),
         worse |-> FixedRuleRobustness(x.experiment, x.lock, x.higher, x.config),
         base |-> ExecuteExperiment(x.experiment)])

\* Drawn paths of a walk-forward report and of one with a lower fold.
SimulatePaths ==
    Answer("monte", LAMBDA x :
        [run |-> RunMonteCarlo(x.source, x.config, x.drawn),
         worse |-> RunMonteCarlo(x.lower, x.config, x.drawn)])

BuildMatrix == Answer("matrix", ExperimentMatrix)

-----------------------------------------------------------------------------
(* Evidence *)

\* A stored document: as it was built, as another run asks for it, after a change of its
\* native part, and with another normalized part under a fresh identity.
StoredDocument(x) ==
    LET built == BuildDocument(x.stage, x.native, x.source, x.state)
        Replaced(doc, n) == Document(x.stage, doc.source, [doc.evidence EXCEPT !.normalized = n])
        Forged(n) == [k \in DOMAIN n |-> IF k \in DOMAIN x.forge THEN x.forge[k] ELSE n[k]]
        Refusal(doc, source) == DocumentRefusal(x.stage, doc, source)
    IN  IF ~IsReadable(built) THEN [built |-> built]
        ELSE [built |-> built,
              read |-> Refusal(built, x.source),
              moved |-> Refusal(built, x.asked),
              altered |-> Refusal([built EXCEPT !.evidence.native = x.changed], x.source),
              restamped |-> Refusal([built EXCEPT !.evidence.native.timestamp = "later"], x.source),
              forged |-> Refusal(Replaced(built, Forged(built.evidence.normalized)), x.source)]

StoreDocument == Answer("document", StoredDocument)

\* A review context and a decision made on some evidence, read when it may have changed.
Review(x) ==
    LET gate == EvaluateGate(x.docs, x.lock, x.state)
        now == EvaluateGate(x.later.docs, x.later.lock, x.later.state)
        decision == BuildDecision("run", x.source, gate, x.review, x.audit)
        context == PersistContext("run", x.lock, x.runs, x.state, 1, x.docs, x.configuration, x.source)
        Evaluated(w) == EvaluateContext(context, "run", w.lock, w.docs, x.configuration, w.source)
    IN  [gate |-> gate, now |-> now, context |-> context,
         read |-> DecisionRefusal(decision, "run", x.source, gate),
         reread |-> DecisionRefusal(decision, "run", x.later.source, now),
         evaluated |-> IF IsReadable(context) THEN Evaluated(x) ELSE context,
         later |-> IF IsReadable(context) THEN Evaluated(x.later) ELSE context]

ReviewEvidence == Answer("review", Review)

-----------------------------------------------------------------------------
(* Prices *)

\* The state that an interrupted writer leaves after k of its steps.
LeftAfter(before, disks, k) == IF k = 0 THEN before ELSE disks[k]

\* Two top-ups of the library, the second also again after each point where it may have
\* died, and a period read of the result.
TopUps(x) ==
    LET Top(d, vendor, end) == IF x.vbt THEN VbtTopUp(d, vendor, x.since, end, x.g)
                               ELSE TopUp(d, vendor, x.since, end, x.g)
        one == Top(NoLibrary, x.first, x.firstEnd)
        before == LeftAfter(NoLibrary, one.disks, Len(one.disks))
        two == Top(before, x.second, x.end)
        after == LeftAfter(before, two.disks, Len(two.disks))
        Retried(k) == LET d == LeftAfter(before, two.disks, k)
                          run == Top(d, x.second, x.end)
                      IN  [run |-> run, disk |-> LeftAfter(d, run.disks, Len(run.disks))]
        m == after.manifest
    IN  [one |-> one, two |-> two, disks |-> <<before>> \o two.disks,
         retried |-> [k \in 0..Len(two.disks) |-> Retried(k)],
         slice |-> IF m = Null THEN Loaded("manifest", Null)
                   ELSE LoadVerifiedCatalogData({m}, after.files[m.slot], x.from, x.to, "alpaca", x.g)]

TopUpLibrary == Answer("prices", TopUps)

\* A complete download, one by another request that may die between its steps, and the
\* first request again.
DailyPrices(x) ==
    LET Loaded3(cache, config, now, allowed) ==
            LoadMarketData(cache, config, x.vendor[config], now, allowed, x.g)
        one == Loaded3(NoCache, x.config, x.times[1], TRUE)
        before == LeftAfter(NoCache, one.disks, Len(one.disks))
        two == Loaded3(before, x.between, x.times[2], TRUE)
    IN  [one |-> one, two |-> two,
         three |-> [k \in 0..Len(two.disks) |->
                       Loaded3(LeftAfter(before, two.disks, k), x.config, x.times[3], x.allowed)]]

LoadDailyPrices == Answer("cache", DailyPrices)

\* A complete purchase, one that may die between its steps, and a third.
Purchases(x) ==
    LET Buy(d, n) == AcquireFromStart(d, x.request, x.vendor[n], x.cost, x.resolved, x.times[n], x.g)
        Left(d, run, k) == LeftAfter(d, run.disks, k)
        one == Buy(NoPurchase, 1)
        before == Left(NoPurchase, one, IF one.disks = <<>> THEN 0 ELSE x.steps)
        two == Buy(before, 2)
    IN  [one |-> one, two |-> two, before |-> before,
         left |-> [k \in 0..Len(two.disks) |-> Left(before, two, k)],
         three |-> [k \in 0..Len(two.disks) |->
             LET run == Buy(Left(before, two, k), 3)
             IN  [status |-> run.status, disk |-> Left(Left(before, two, k), run, Len(run.disks))]]]

BuyPrices == Answer("purchase", Purchases)

Next == Submit \/ RunSweep \/ SimulateColumn \/ GenerateTrades \/ EvaluateRule \/ RunGapReversal
           \/ ReviewPlan \/ RunStage \/ BuildNeighbors \/ RunRobustness \/ RunFixedRule
           \/ SimulatePaths \/ BuildMatrix \/ SubmitRule \/ ReviewPacket
           \/ StoreDocument \/ ReviewEvidence \/ TopUpLibrary \/ LoadDailyPrices \/ BuyPrices

Spec == Init /\ [][Next]_vars

Answered(k) == kind = k /\ output /= Null

-----------------------------------------------------------------------------
(* Properties *)

\* What a sweep reports of a setting does not depend on the settings it is swept with:
\* neither on the chunk it is simulated in, nor on what the signal cache kept or dropped,
\* nor on the nodes a rule already evaluated for another setting.  All accepted settings
\* appear in the ranking, the passing ones first and the better ones before the others.
\* That there is a report does depend on them: a sweep fails as a whole exactly when one of
\* its settings alone would fail, at a gate, in an order that cannot be placed or at a
\* session close that cannot be measured.
SettingsAreIndependent ==
    /\ Answered("sweep") =>
        LET r == output.whole
            accepted == AcceptedParameters(input.supplied, input.valid)
            alone == UNION {output.alone[k].blocked : k \in Range(input.supplied)}
        IN  IF r.blocked /= {} THEN r.blocked \subseteq alone
            ELSE /\ alone = {}
                 /\ r.ranked = r.passing \o r.screened_out
                 /\ Len(r.ranked) = Len(accepted)
                 /\ Len(r.ranked) + r.rejected = Len(input.supplied)
                 /\ \A i \in DOMAIN r.ranked :
                        <<r.ranked[i]>> = output.alone[r.ranked[i].row].ranked
                 /\ \A i, j \in DOMAIN r.passing :
                        i < j => ~Better(r.passing[j].metrics[input.key],
                                         r.passing[i].metrics[input.key])
    /\ Answered("rule") => output.signals = output.alone

\* The bars on which signals act when they are filled on the next bar.
Executed(times) == {t + 1 : t \in times}

\* What a strategy does on a bar depends only on the bars before it and on that bar's
\* open: changing later prices changes nothing that has been executed.  Orders of the
\* momentum candidate and of the gap reversal fill on the bar that carries them.  The
\* regime a return belongs to is known before the close that makes the return.
NoLookAhead ==
    /\ Answered("trades") =>
        \A n \in DOMAIN output.signals :
            LET Acts(times) == IF input.p.strategy \in {"gap", "momentum"} THEN times
                               ELSE Executed(times)
            IN  Acts(output.signals[n]) \cap (1 .. input.from)
                  = Acts(output.other[n]) \cap (1 .. input.from)
    /\ Answered("rule") =>
        \A n \in {"entries", "exits", "short_entries", "short_exits"} :
            Executed(output.signals[n]) \cap (1 .. input.from)
              = Executed(output.other[n]) \cap (1 .. input.from)
    /\ Answered("robust") =>
        LET closes == input.given.closes
            Attributed(c) == AttributeReturns(LabelRegimes(c, input.given.config.regimes))
        IN  \A price \in 1..3 :
                Attributed(closes) = Attributed([closes EXCEPT ![Len(closes)] = price])

\* An accepted rule specification can be run as it is: every setting of its grid
\* evaluates, is allowed by the parameter governance and refers to every declared
\* variable; every stop has a positive distance; and a rule that promises to be flat
\* leaves, on a bar of the session, every position it opens in the session.  An accepted
\* packet carries an accepted specification, no packet imports with a decision already
\* made, and a decision never makes an accepted packet invalid.
AcceptedRulesRun ==
    /\ Answered("spec") /\ "refused" \notin DOMAIN output =>
        /\ output.plan /= Null
        /\ output.plan.total = Cardinality(DOMAIN output.signals)
        /\ output.plan.total <= input.g.grid
        /\ \A f \in DOMAIN output.signals :
            LET r == output.signals[f]
            IN  /\ \A stop \in r.stops : stop[3][1] > 0
                /\ input.spec.flat /= Null =>
                    \A t \in r.entries \cup r.short_entries : \E s \in Range(input.schedule) :
                        \E u \in r.exits \cap r.short_exits :
                            s.open <= t /\ t < u /\ u + 1 < s.close
    /\ Answered("packet") =>
        /\ output.importable => /\ output.errors = {}
                                /\ input.doc.status \notin {"owner_approved", "rejected"}
        /\ output.errors = {} /\ input.doc.rule_spec /= Null =>
               RuleSpecError(input.doc.rule_spec, [input.g EXCEPT !.variables = input.doc.variables])
                 = Null
        /\ \A d \in DOMAIN output.decided :
               LET saved == output.decided[d]
               IN  IF "refused" \in DOMAIN saved THEN saved.refused /= "produced_invalid"
                   ELSE PacketErrors(saved, input.g) = {}

\* Under a session cap no session has more trades than the cap, and a second trade of
\* a session waits for a rule exit, or the maximum hold, of the first: a stop does not
\* free it.
CapHolds ==
    Answered("column") /\ input.column.cap /= Null =>
        LET s == output.states
            Opened(i) == s[i].position /= 0 /\ (i = 1 \/ s[i - 1].trades < s[i].trades)
            opened == {i \in DOMAIN s : Opened(i)}
            session == input.column.sessions
            RuleExit(i, k) ==
                LET bar == ColumnBar(input.column, k, s[k - 1])
                IN  \/ s[i].position > 0 /\ bar.long_exit
                    \/ s[i].position < 0 /\ bar.short_exit
                    \/ s[i].hold >= 0 /\ k - i >= s[i].hold
        IN  /\ \A d \in Range(session) \ {-1} :
                   Cardinality({i \in opened : session[i] = d}) <= input.column.cap
            /\ \A i, j \in opened : i < j /\ session[i] = session[j] /\ session[i] /= -1 =>
                   \E k \in (i + 1) .. (j - 1) : RuleExit(i, k)

\* The equity of a session is that of its closing bar, or one that no price of the
\* missing closing bar could have changed; no completed session is left out.
SessionEquityIsExact ==
    Answered("column") /\ output.equity /= Null =>
        LET completed == SelectSeq(input.schedule,
                                   LAMBDA x : x.close <= Max(Range(input.times)) + 1)
            Seen(x) == {i \in DOMAIN input.times : input.times[i] < x.close}
        IN  /\ Len(output.equity) = Len(completed)
            /\ \A k \in DOMAIN completed :
                   LET i == Max(Seen(completed[k]))
                       s == output.states[i]
                   IN  IF input.times[i] = completed[k].close - 1
                       THEN output.equity[k] = output.value[input.times[i]]
                       ELSE \A price \in 1..3 :
                               output.equity[k] = s.cash + s.position * (price - s.paid)

\* A session strategy opens at most one position in a session and closes it in that
\* session, on bars that exist.
SessionTradesClose ==
    Answered("trades") /\ input.p.strategy \notin {"donchian", "rsi"} =>
        LET g == output.signals
            at == g.entries \cup g.short_entries
            leave == g.exits \cup g.short_exits
            Bars(s) == s.open .. s.close
        IN  /\ g.entries \cap g.short_entries = {}
            /\ \A s \in Range(input.p.schedule) :
                   /\ Cardinality(at \cap SessionBars(s)) <= 1
                   /\ Cardinality(leave \cap SessionBars(s))
                        = Cardinality(at \cap SessionBars(s))
                   /\ \A t \in at \cap SessionBars(s), u \in leave \cap SessionBars(s) :
                          t <= u
            /\ Cardinality(at) = Cardinality(leave)

\* No strategy trades more often than its session allows: both of the above.
SessionLimitsHold == CapHolds /\ SessionTradesClose

\* The parts of a fold in order: no gap, no overlap, and every cut between sessions.
PartsAreClean(w, sessions) ==
    LET parts == IF w.selection = Null THEN <<w.train, w.test>>
                 ELSE <<w.train, w.selection, w.test>>
    IN  \A i \in 1..(Len(parts) - 1) :
            /\ parts[i].last + 1 = parts[i + 1].first
            /\ SessionBoundaryHolds(sessions, parts[i].last, parts[i + 1].first)

\* What was chosen for a window whose test is altered is what is chosen without the
\* alteration, and a window that ends before the alteration keeps its result.
SameUpTo(f, g, w, from) ==
    /\ from >= w.test.first => f.shortlist = g.shortlist /\ f.lock = g.lock
    /\ w.test.last < from => [f EXCEPT !.cache = Null] = [g EXCEPT !.cache = Null]

\* The identity and the execution under which an out-of-sample report is written and read.
Published == [identity |-> "strategy", execution |-> "assumptions"]

\* The rows of the longest session; daily bars are a session each and need none.
LongestSession(sessions) ==
    IF IsInjective(sessions) THEN Null
    ELSE Max({Cardinality(Where(sessions, LAMBDA t : t = s)) : s \in Range(sessions)})

\* Train, selection and test are contiguous, in order and cut between sessions, tests of
\* different folds are disjoint, and the windows have the sizes the configuration
\* declares (the sizes the stage's evidence is later checked for); the splitters' own
\* check of the order never fires.
PartitionsAreClean ==
    /\ Answered("stage") => ("refused" \in DOMAIN output.run => output.run.refused /= "order")
    /\ Answered("stage") /\ input.method = "oos" /\ "refused" \notin DOMAIN output.run =>
        /\ PartsAreClean(output.run.split, input.sessions)
        /\ InSampleSlice(output.run.split).last = output.run.split.selection.last
    /\ Answered("stage") /\ input.method = "walk" /\ "refused" \notin DOMAIN output.run =>
        LET w == output.run.windows
            c == input.config
            longest == LongestSession(input.sessions)
        IN  /\ \A k \in DOMAIN w :
                   /\ PartsAreClean(w[k], input.sessions)
                   /\ c.mode = "rolling" \/ longest /= Null =>
                          SizeWithin(Rows(w[k].train), c.training, longest, c.mode = "expanding")
                   /\ w[k].selection /= Null =>
                          SizeWithin(Rows(w[k].selection), c.selection, longest, FALSE)
                   /\ \/ SizeWithin(Rows(w[k].test), c.test, longest, FALSE)
                      \/ c.final = "include" /\ w[k].test.last = Len(input.sessions)
            /\ \A k \in 1..(Len(w) - 1) : w[k].test.last < w[k + 1].test.first

\* A stage ended without a splitter that refused or a gate that blocked.
Completed(run) == "refused" \notin DOMAIN run /\ ("raised" \in DOMAIN run => run.raised = {})

\* The prices of the test never change what is shortlisted and locked, a later stage takes
\* the lock of a trial exactly when the trial locked a setting and its test passed, and
\* folds pass together only when enough of them do.
ChoicesIgnoreTests ==
    /\ Answered("stage") /\ input.method = "oos" /\ Completed(output.run) =>
        /\ Completed(output.other) =>
               SameUpTo(output.run, output.other, output.run.split, input.from)
        /\ \A free \in BOOLEAN :
               (LockRefusals(OosReport(output.run, Published, free), Published,
                             input.experiment.valid) = {})
                 = (output.run.status = "successful" /\ output.run.test.passed /\ ~free)
    /\ Answered("stage") /\ input.method = "walk" /\ Completed(output.run)
           /\ Completed(output.other) =>
        \A k \in DOMAIN output.run.windows :
            SameUpTo(output.run.folds[k], output.other.folds[k], output.run.windows[k], input.from)
    /\ Answered("stage") /\ input.method = "low" /\ Completed(output.run) =>
        \/ output.run.aggregate.status /= "passed"
        \/ /\ output.run.aggregate.sufficient >= input.policy.folds
           /\ output.run.aggregate.passing > 0
           /\ \A f \in Range(output.run.folds) : Abs(f.drawdown) <= input.policy.drawdown

\* Nothing about the data a setting is tested on reaches the choice of the setting: both
\* of the above.
FoldsNeverLeak == PartitionsAreClean /\ ChoicesIgnoreTests

\* Evidence that is worse in one place never gets a candidate through that better
\* evidence keeps out: a lower return of a neighbour, of a bar of a regime or of a fold,
\* or higher costs.  Stress never earns more than the baseline, no status but the judged
\* one is passed, and the costs that a stress hands on are raised and named for its plan.
WorseEvidenceNeverPasses ==
    /\ Answered("robust") \/ Answered("monte") =>
           (output.worse.status = "passed" => output.run.status = "passed")
    /\ Answered("robust") /\ output.run.status = "passed" =>
           /\ Len(output.run.points) >= input.given.config.neighborhood.minimum
           /\ output.run.points[input.given.locked].passed
           /\ DOMAIN output.run.regimes /= {}
    /\ Answered("monte") /\ output.run.terminal /= <<>> =>
           /\ input.config.method = "path_permutation" =>
                  Cardinality(Range(output.run.terminal)) = 1
           /\ \A k \in DOMAIN output.run.stress :
                  output.run.stress[k] /= Null => output.run.stress[k] <= output.run.observed
    /\ Answered("fixed") /\ "refused" \notin DOMAIN output.run =>
           /\ CostsAreStressed(output.run.stress)
           /\ IsOfShares(output.run.stress) <=> input.plan.kind = "fraction"
           /\ output.run.stress.metrics["total_return"]
                <= output.base.ranked[1].metrics["total_return"]
           /\ "refused" \notin DOMAIN output.worse =>
                  (output.worse.status = "passed" => output.run.status = "passed")

\* A plan is exactly the work it announces: every setting of a neighbourhood once and in
\* order with the lock among them, every pair of a matrix either a variant or refused for
\* a reason, and no check on a plan the builder made itself can fail.
PlansAreExact ==
    /\ Answered("neighbor") =>
        IF "refused" \in DOMAIN output THEN output.refused /= "no_locked_point"
        ELSE /\ IsInjective(output.candidates)
             /\ input.locked \in Range(output.candidates)
             /\ Range(output.candidates) \subseteq input.strategy.valid
             /\ \A i \in 1..(Len(output.candidates) - 1) :
                    Lexical(output.candidates[i], output.candidates[i + 1])
             /\ Len(output.candidates) + output.duplicates + output.rejected
                  <= output.requested
    /\ Answered("plan") =>
        LET d == input.plan.definitions
            optimized == {n \in DOMAIN d : d[n].optimizable}
            values == UNION {Range(d[n].candidates) : n \in optimized}
            settings == {f \in [optimized -> values] :
                            \A n \in optimized : f[n] \in Range(d[n].candidates)}
        IN  output.total = Cardinality({f \in settings :
                              ValidateParameters(d, f) /= Null})
    /\ Answered("matrix") =>
        IF "refused" \in DOMAIN output THEN output.refused /= "duplicate"
        ELSE /\ Cardinality(output.variants) + output.unsupported
                  = Len(input.instruments) * Len(input.timeframes)
             /\ output.simulations = Cardinality(output.variants) * input.plan.total

\* The engine's ledger of a fixed candidate is exactly what the candidate planned: the
\* checks that compare them never fail.  Every gap trade compares prices of one contract
\* and the equity adds up what the trades made.
LedgersAgree ==
    /\ Answered("trades") /\ input.p.strategy = "momentum" =>
        LET planned == MomentumTrades(input.data, input.p.schedule, input.p)
        IN  /\ MomentumExecutionHolds(input.data, output.signals, planned, output.price)
            /\ CompletedTradesMatch(output.ledger, planned)
            /\ \A i \in DOMAIN output.ledger :
                   \E x \in planned : x.at = output.ledger[i].at /\ x.exit = output.ledger[i].exit
    /\ Answered("gap") /\ ~output.refused =>
        /\ LedgerMatchesManual(output.ledger, output.bundle.trades, input.p)
        /\ \A k \in DOMAIN input.p.schedule :
               output.bundle.daily[k] /= 0 =>
                   MappingForDate(output.mapping, input.p.schedule[k - 1].day)
                     = MappingForDate(output.mapping, input.p.schedule[k].day)
        /\ output.equity /= Null =>
               output.equity[Len(output.equity)] = input.p.cash
                 + FoldSet(LAMBDA i, acc : acc + output.ledger[i].pnl, 0,
                           DOMAIN output.ledger)

\* Equity and ledgers tell the same trades: both of the above.
AccountsAgree == SessionEquityIsExact /\ LedgersAgree

\* Stored evidence says what was run.  A document that was built is read back for its
\* run and lineage, at whatever time the run was stamped, but for three that are always
\* refused: one of a short last test window, one that would progress by itself, and one
\* of the cost stress of a whole-share rule, whose costs the reader looks for under the
\* names of a contract.  No other run, no later change of what it records, and no other
\* status or reasons are accepted, even under a fresh identity.
\* A gate may be executed only on three documents of one lineage and a lock that names
\* what the robustness evidence tested, on data that is still protected.  A decision is
\* accepted only beside the gate it was made on; one with a lock and a complete review
\* can be read back.  A review context is believed only while its lock is unchanged and
\* the gate passes.
EvidenceIsRevalidated ==
    /\ Answered("document") /\ IsReadable(output.built) =>
        LET n == output.built.evidence.normalized
            short == /\ input.stage = "walk_forward"
                     /\ \E i \in DOMAIN input.native.folds :
                            ShortFinal(input.native.folds, i, input.native.rules)
            shares == /\ input.stage = "robustness" /\ input.native.stress /= Null
                      /\ IsOfShares(input.native.stress)
            AtNoTime(native) == [native EXCEPT !.timestamp = Null]
            excepted == n.eligible \/ short \/ shares
        IN  /\ ~excepted => output.read = Null
            /\ excepted => output.read = "content"
            /\ input.asked /= input.source => output.moved /= Null
            /\ AtNoTime(input.changed) /= AtNoTime(input.native) => output.altered /= Null
            /\ output.restamped = output.read
            /\ output.forged = Null =>
                   \A k \in DOMAIN input.forge \cap {"status", "reasons"} : input.forge[k] = n[k]
    /\ Answered("review") =>
        LET Sound(g, docs, lock) ==
                g.executable =>
                    /\ g.state = "gated" /\ lock.status = "passed"
                    /\ \A s \in DOMAIN docs : docs[s] /= Null
                    /\ Cardinality({[k \in LineageKeys |-> docs[s].source[k]] : s \in DOMAIN docs}) = 1
                    /\ \A k \in LockKeys : lock[k] = docs["robustness"].evidence.native.config[k]
        IN  /\ Sound(output.gate, input.docs, input.lock)
            /\ Sound(output.now, input.later.docs, input.later.lock)
            /\ input.lock /= Null /\ input.review.reason /= "" => output.read = Null
            /\ output.reread = Null => output.now = output.gate /\ input.later.source = input.source
            /\ IsReadable(output.context) => output.evaluated = output.gate
            /\ IsReadable(output.later) =>
                   input.later.lock = input.lock /\ output.later.executable

\* The library's bars of a manifest stay readable while a top-up runs, whatever it has
\* done so far and wherever it dies; the same top-up, run again, then commits what it would
\* have committed.  (A saved copy that was pulled again as a whole and not committed is
\* ahead of the library: its next top-up fails the prefix check.)  But for a listing gap, a
\* top-up drops a stored bar only where it fetches again, and only one that the provider no
\* longer serves: an incremental one in the last stored session, one after a split
\* anywhere.  No top-up ends earlier than the stored bars except one after a split without
\* the saved copy, whose fetch is not compared with them.  The rows cut off at a listing
\* gap are counted once, except with the saved copy: it keeps them, and every incremental
\* top-up counts them again.  A period read returns regular bars of the period, less the
\* ones that stand out within their own day.
LibraryIsWhole ==
    Answered("prices") =>
        LET d == output.disks
            last == d[Len(d)]
            fresh == d[1].manifest = Null
            old == IF fresh THEN <<>> ELSE d[1].manifest.bytes
            split == output.two.status = "refetched_after_adjustment_change"
            Day(t) == SelectSeq(last.manifest.bytes,
                                LAMBDA bar : DayOf(bar.t, input.g) = DayOf(t, input.g))
            Stands(t) == LET day == Day(t)
                         IN  \E i \in FlagSuspectBars(day, input.g) : day[i].t = t
        IN  /\ \A i, j \in DOMAIN d : i <= j /\ d[i].manifest /= Null =>
                   d[j].files[d[i].manifest.slot] = d[i].manifest.bytes
            /\ \A k \in DOMAIN output.retried :
                   \/ Committed(output.retried[k].disk) = Committed(last)
                   \/ /\ input.vbt /\ output.retried[k].run.status = "failed"
                      /\ output.two.status = "refetched_after_adjustment_change"
            /\ ~fresh /\ last.manifest.cut = d[1].manifest.cut =>
                   /\ \A t \in TimesOf(old) \ TimesOf(last.manifest.bytes) :
                          /\ t \notin TimesOf(input.second)
                          /\ split \/ t >= LastSessionStart(old, input.g)
                   /\ input.vbt \/ ~split => LastTime(last.manifest.bytes) >= LastTime(old)
                   /\ ~split => Before(last.manifest.bytes, LastSessionStart(old, input.g))
                                  = Before(old, LastSessionStart(old, input.g))
            /\ input.vbt /\ output.two.status = "incremental" /\ d[1].manifest.cut /= Null =>
                   last.manifest.cut.rows > d[1].manifest.cut.rows
            /\ ~input.vbt /\ last.manifest /= Null /\ last.manifest.cut /= Null =>
                   \E cut \in SUBSET (TimesOf(old) \cup TimesOf(input.first)
                                                   \cup TimesOf(input.second)) :
                       /\ Cardinality(cut) = last.manifest.cut.rows
                       /\ \A t \in cut : t < last.manifest.first
            /\ output.slice.refused = Null =>
                   \A bar \in Range(last.manifest.bytes) :
                       bar \in Range(output.slice.bars) <=>
                           /\ input.from <= bar.t /\ bar.t <= input.to /\ bar.s = "regular"
                           /\ ~Stands(bar.t)

\* The daily cache serves the sessions that were asked for without a gap, and a reused one
\* up to the last completed session; it holds the prices of the request and the time of
\* their download, except after a death between the two renames, when the prices of
\* another request are served under the metadata of this one.  A purchase that dies before
\* the digest is in its manifest is refused from then on and left as it is; a manifest
\* that fits the data contract and its file vouches for regular bars of every session.
DownloadsAreWhole ==
    /\ Answered("cache") =>
        \A k \in DOMAIN output.three :
            LET r == output.three[k]
            IN  r.refused = Null =>
                    /\ \A d \in DOMAIN input.g.schedule :
                           input.config.start <= d /\ d <= LastTime(r.bars)
                             => d \in TimesOf(r.bars)
                    /\ r.action = "reused" =>
                           /\ LastTime(r.bars)
                                = Max(CompletedSessions(input.config.start, input.times[3], input.g))
                           /\ k /= 1 => /\ Range(r.bars) \subseteq Range(input.vendor[input.config])
                                        /\ r.time \in {input.times[1], input.times[2]}
                           /\ k = 2 /\ input.between = input.config => r.time = output.two.time
    /\ Answered("purchase") =>
        /\ \A k \in DOMAIN output.three :
            LET r == output.three[k]
            IN  /\ r.status \in {"orphan", "digest"} =>
                       /\ r.disk = output.left[k]
                       /\ input.steps < 3 \/ k \in 1..2
                /\ r.status \in {"acquired", "reused"} => r.disk.manifest.bytes = r.disk.file
        /\ \A d \in {output.left[k] : k \in DOMAIN output.left}
                      \cup {output.three[k].disk : k \in DOMAIN output.three} :
            PurchaseIsSuitable(d.manifest, input.request.start, input.g)
              /\ d.manifest.bytes = d.file =>
                /\ Increasing(d.file)
                /\ MissingSessions(d.file, d.manifest.sessions, input.g) = {}
                /\ \A bar \in Range(d.file) : bar.v \notin {Null, 0}
                /\ \A bar \in Range(d.file) : \E s \in d.manifest.sessions :
                       input.g.schedule[s].open <= bar.t /\ bar.t < input.g.schedule[s].close

\* Stored prices are whole, whoever stored them and wherever it died: both of the above.
PricesAreWhole == LibraryIsWhole /\ DownloadsAreWhole
===============================================================================
