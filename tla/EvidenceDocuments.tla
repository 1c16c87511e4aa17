--------------------------- MODULE EvidenceDocuments ---------------------------
(***************************************************************************)
(* Evidence as it is stored: how the result of a stage becomes a document, *)
(* what a reader checks before it believes the document, how the lockbox   *)
(* gate combines the documents of three stages with the source lock, and   *)
(* how a review context and a decision refer to that gate.                 *)
(*                                                                         *)
(* An identity is the content it is a hash of.  A blank reason is "".      *)
(***************************************************************************)
EXTENDS StageMethods

States == {"not_applicable", "unspent", "gated", "spent", "invalid"}
NativeStatuses == {"passed", "failed", "insufficient_evidence"}
NormalizedStatuses == NativeStatuses \cup {"invalid"}

\* Why a reader refuses a document or a decision; Null when it does not.
Refusals == {"kind", "run", "content", "identity", "lineage", "eligible", "lock_reference",
             "gate", "review", "target", "audit"}

ASSUME RefusalAssumption == Null \notin Refusals

Unreadable(why) == [refused |-> why]

IsReadable(doc) == "refused" \notin DOMAIN doc

\* Mutant: an unknown status counts as failed.
MapNativeStatusMutant(status) ==
    IF status = "invalid_input" THEN "failed"
    ELSE IF status \in NativeStatuses THEN status ELSE "invalid"

\* map_native_status
MapNativeStatus(status) == IF status \in NativeStatuses THEN status ELSE "invalid"

\* Reasons without the blank ones; a result that did not pass states at least one.
NonBlank(reasons) == Picked(reasons, Where(reasons, LAMBDA r : r /= ""))

Reasons(values, fallback) ==
    IF NonBlank(values) = <<>> THEN <<fallback>> ELSE NonBlank(values)

EligibleToProgress(status, state) == status = "passed" /\ state \in {"not_applicable", "spent"}

\* NormalizedEvidenceRecord, built by _record.
Record(stage, status, reasons, thresholds, source, state) ==
    LET known == state \in States
        kept == IF known THEN status ELSE "invalid"
    IN  [stage |-> stage, status |-> kept, source |-> source, thresholds |-> thresholds,
         reasons |-> CASE ~known -> Append(NonBlank(reasons), "state")
                       [] kept = "passed" -> NonBlank(reasons)
                       [] OTHER -> Reasons(reasons, "returned"),
         state |-> IF known THEN state ELSE "invalid",
         eligible |-> EligibleToProgress(kept, IF known THEN state ELSE "invalid")]

-----------------------------------------------------------------------------
(* Walk-forward windows *)

\* WalkForwardWindowRules.__post_init__; the same limits as those of the splitter.
WindowRulesHold(r) == WalkForwardConfigHolds([r EXCEPT !.shortlist = 1])

\* The size of a training window, its start, and the order of the parts of fold i.
PartsHold(folds, i, rules, sessions, longest) ==
    LET w == folds[i].window
        Cut(a, b) == a.last < b.first
                     /\ (longest /= Null => SessionBoundaryHolds(sessions, a.last, b.first))
    IN  /\ IF rules.mode = "rolling"
           THEN SizeWithin(Rows(w.train), rules.training, longest, FALSE)
           ELSE /\ SizeWithin(Rows(w.train), rules.training + (i - 1) * rules.step, longest, TRUE)
                /\ w.train.first = folds[1].window.train.first
        /\ IF rules.selection = 0
           THEN w.selection = Null /\ Cut(w.train, w.test)
           ELSE /\ w.selection /= Null
                /\ SizeWithin(Rows(w.selection), rules.selection, longest, FALSE)
                /\ Cut(w.train, w.selection)
                /\ Cut(w.selection, w.test)
        /\ i > 1 => folds[i - 1].window.test.last < w.test.first
        /\ folds[i].status = "successful" /\ folds[i].setting /= Null => folds[i].lock /= Null

\* A rolling training window moves by the step; cuts on session starts may shift it.  The
\* shifted one need only start after the window of the first fold, and a start that is not
\* a row of the window before counts as row -1 of it.
StepHolds(folds, i, rules, longest) ==
    LET before == folds[i - 1].window.train
        start == folds[i].window.train.first
        row == IF start \in before.first..before.last THEN start - before.first ELSE -1
    IN  i > 1 /\ rules.mode = "rolling" /\ rules.step < Rows(before) =>
            IF longest = Null THEN start = before.first + rules.step
            ELSE /\ folds[1].window.train.first < start
                 /\ Abs(row - rules.step) < 4 * longest

\* The last test window may be short when the rules include it.
ShortFinal(folds, i, rules) ==
    /\ i = Len(folds)
    /\ rules.final = "include"
    /\ rules.minimum <= Rows(folds[i].window.test)
    /\ Rows(folds[i].window.test) < rules.test

\* _validate_walk_forward_windows
WindowsHold(folds, rules, sessions, longest) ==
    \A i \in DOMAIN folds :
        /\ PartsHold(folds, i, rules, sessions, longest)
        /\ StepHolds(folds, i, rules, longest)
        /\ \/ SizeWithin(Rows(folds[i].window.test), rules.test, longest, FALSE)
           \/ ShortFinal(folds, i, rules)

\* _validate_folds_document: the same windows read back, without the data they cut.
StoredWindowsHold(folds, rules, sessions, longest) ==
    /\ folds /= <<>>
    /\ \A i \in DOMAIN folds :
        /\ folds[i].status \in {"successful", "failed"}
        /\ PartsHold(folds, i, rules, sessions, longest)
        /\ SizeWithin(Rows(folds[i].window.test), rules.test, longest, FALSE)
        /\ i > 1 /\ longest /= Null =>
               SessionBoundaryHolds(sessions, folds[i - 1].window.test.last,
                                    folds[i].window.test.first)

\* The outcome of folds: one that failed fails the evidence, and no number of
\* successful ones passes it.
FoldsOutcome(folds) ==
    LET failed == Picked(folds, Where(folds, LAMBDA f : f.status = "failed"))
    IN  IF failed = <<>> THEN [status |-> "insufficient_evidence", reasons |-> <<"no_decision">>]
        ELSE [status |-> "failed",
              reasons |-> [i \in DOMAIN failed |->
                              IF failed[i].why = "" THEN "no_reason" ELSE failed[i].why]]

NormalizeWalkForward(n, state) ==
    LET Invalid(why) == Record("walk_forward", "invalid", <<why>>, <<>>, Null, state)
        outcome == FoldsOutcome(n.folds)
    IN  IF n.folds = <<>> THEN Invalid("no_folds")
        ELSE IF ~WindowsHold(n.folds, n.rules, n.sessions, n.longest) THEN Invalid("windows")
        ELSE IF \E f \in Range(n.folds) : f.status \notin {"successful", "failed"}
             THEN Invalid("status")
        ELSE Record("walk_forward", outcome.status, outcome.reasons, <<>>, "folds", state)

-----------------------------------------------------------------------------
(* Monte Carlo and robustness *)

\* normalize_monte_carlo_evidence over thresholds [id, passed, value].
NormalizeMonteCarlo(n, state) ==
    Record("monte_carlo", MapNativeStatus(n.status), n.reasons,
           [i \in DOMAIN n.thresholds |->
               [id |-> n.thresholds[i].id, value |-> n.thresholds[i].value,
                status |-> IF n.thresholds[i].passed THEN "passed" ELSE "failed"]],
           n.source, state)

\* The thresholds of a robustness result: of the neighbourhood, the fixed rule and
\* every regime, whose names the regime prefixes.
RobustnessThresholds(n) ==
    LET Of(part, Name(_)) ==
            [i \in DOMAIN part.thresholds |->
                [id |-> Name(part.thresholds[i].id), value |-> part.thresholds[i].value,
                 status |-> MapNativeStatus(part.thresholds[i].status)]]
        Optional(part) == IF part = Null THEN <<>> ELSE Of(part, LAMBDA id : id)
    IN  Optional(n.summary) \o Optional(n.stress)
            \o Concatenated([i \in DOMAIN n.regimes |->
                   Of(n.regimes[i], LAMBDA id : <<n.regimes[i].id, id>>)])

NormalizeRobustness(n, state) ==
    Record("robustness", MapNativeStatus(n.status), n.reasons, RobustnessThresholds(n), n.source, state)

\* What a reader requires of a cost stress: the costs of one contract, both raised, whatever
\* the names under which the stress was written down.
FixedRuleStressHolds(n) ==
    LET s == n.stress
        Raised(c) == /\ c \in DOMAIN s.baseline \cap DOMAIN s.stressed
                     /\ 0 < s.baseline[c] /\ s.baseline[c] < s.stressed[c]
    IN  s /= Null =>
            /\ n.summary = Null /\ n.points = <<>>
            /\ Raised("fixed_fee") /\ Raised("ticks")
            /\ s.thresholds /= <<>>
            /\ s.status \in NativeStatuses
            /\ n.components["stress"] = s.status
            /\ s.status = "passed" => \A t \in Range(s.thresholds) : t.status = "passed"

RobustnessPartsHold(n) ==
    LET Known == NativeStatuses \cup {"invalid_input"}
    IN  /\ n.summary /= Null => n.summary.status \in Known
        /\ \A r \in Range(n.regimes) : r.status \in Known
        /\ \A p \in Range(n.points) : p \in Known
        /\ \A part \in {n.summary, n.stress} \cup Range(n.regimes) :
               part /= Null => \A t \in Range(part.thresholds) : t.status \in Known
        /\ \A c \in DOMAIN n.components : n.components[c] \in Known

-----------------------------------------------------------------------------
(* Documents *)

\* normalize_evidence
NormalizeEvidence(stage, n, state) ==
    CASE stage = "walk_forward" -> NormalizeWalkForward(n, state)
      [] stage = "monte_carlo" -> NormalizeMonteCarlo(n, state)
      [] stage = "robustness" -> NormalizeRobustness(n, state)

\* The part of the evidence that its identity covers: the time of the run is left out.
IdentityPayload(evidence) == [evidence EXCEPT !.native.timestamp = Null]

Document(stage, source, evidence) ==
    [kind |-> stage, source |-> source, evidence |-> evidence,
     identity |-> IdentityPayload(evidence)]

\* A result that contradicts its own rules is not written down.
Written(stage, source, n, normalized) ==
    IF normalized.status = "invalid" THEN Unreadable("contract")
    ELSE Document(stage, source, [native |-> n, normalized |-> normalized])

\* build_walk_forward_evidence_document: the folds never touch protected data.
WalkForwardDocument(n, source) ==
    Written("walk_forward", source, n, NormalizeEvidence("walk_forward", n, "not_applicable"))

\* build_monte_carlo_evidence_document
MonteCarloDocument(n, source, state) ==
    Written("monte_carlo", source, n, NormalizeEvidence("monte_carlo", n, state))

\* build_robustness_evidence_document
RobustnessDocument(n, source, state) ==
    Written("robustness", source, n, NormalizeEvidence("robustness", n, state))

BuildDocument(stage, n, source, state) ==
    CASE stage = "walk_forward" -> WalkForwardDocument(n, source)
      [] stage = "monte_carlo" -> MonteCarloDocument(n, source, state)
      [] stage = "robustness" -> RobustnessDocument(n, source, state)

\* validate_walk_forward_evidence_document, past its identity.
WalkForwardHolds(e) ==
    LET n == e.native
        outcome == FoldsOutcome(n.folds)
    IN  /\ WindowRulesHold(n.rules)
        /\ StoredWindowsHold(n.folds, n.rules, n.sessions, n.longest)
        /\ e.normalized.status = outcome.status
        /\ e.normalized.reasons = outcome.reasons

\* What a reader requires of the normalized part of the other two stages.
NormalizedHolds(stage, e, thresholds, reasons) ==
    LET n == e.normalized
        status == MapNativeStatus(e.native.status)
    IN  /\ n.stage = stage
        /\ n.status = status
        /\ n.reasons = IF status = "passed" THEN NonBlank(reasons)
                       ELSE IF reasons = <<>> THEN <<"returned">> ELSE reasons
        /\ n.source = e.native.source
        /\ n.state \in States
        /\ ~n.eligible
        /\ n.thresholds = thresholds

\* _validate_monte_carlo_document
MonteCarloHolds(e) ==
    /\ e.native.status \in NativeStatuses
    /\ \A s \in Range(e.native.stress) : s \in {"applied", "insufficient_evidence"}
    /\ NormalizedHolds("monte_carlo", e, NormalizeMonteCarlo(e.native, "gated").thresholds,
                       e.native.reasons)

\* _validate_robustness_document
RobustnessHolds(e) ==
    /\ e.native.status \in NativeStatuses
    /\ RobustnessPartsHold(e.native)
    /\ FixedRuleStressHolds(e.native)
    /\ NormalizedHolds("robustness", e, RobustnessThresholds(e.native), e.native.reasons)

StageHolds(stage, e) ==
    CASE stage = "walk_forward" -> WalkForwardHolds(e)
      [] stage = "monte_carlo" -> MonteCarloHolds(e)
      [] stage = "robustness" -> RobustnessHolds(e)

\* Why a stored document of a stage is refused for a run and its lineage.
DocumentRefusal(stage, doc, expected) ==
    IF doc.kind /= stage THEN "kind"
    ELSE IF doc.source.run /= expected.run THEN "run"
    ELSE IF ~StageHolds(stage, doc.evidence) THEN "content"
    ELSE IF doc.identity /= IdentityPayload(doc.evidence) THEN "identity"
    ELSE IF doc.source /= expected THEN "lineage"
    ELSE Null

-----------------------------------------------------------------------------
(* The lockbox gate *)

LineageKeys == {"configuration", "strategy", "version", "data", "execution", "runtime"}

\* A source lock that is passed on is compared with the robustness evidence in these.
LockKeys == {"experiment", "strategy", "version", "setting", "data", "execution", "artifact"}

\* _stage_status: successful folds pass; what failed is a score, not a stop.
StageStatus(stage, n) ==
    LET Scored(label) == [status |-> "passed",
                          reasons |-> [i \in DOMAIN n.reasons |-> <<stage, label, n.reasons[i]>>]]
    IN  CASE n.status = "passed" -> [status |-> "passed", reasons |-> <<>>]
          [] /\ stage = "walk_forward" /\ n.status = "insufficient_evidence"
             /\ n.reasons = <<"no_decision">> -> [status |-> "passed", reasons |-> <<>>]
          [] n.status = "failed" -> Scored("score")
          [] stage = "monte_carlo" /\ n.status = "insufficient_evidence" -> Scored("unscored")
          [] OTHER -> [status |-> MapNativeStatus(n.status), reasons |-> Scored("stop").reasons]

\* _result_status: the worst of the statuses.
ResultStatus(statuses) ==
    IF "invalid" \in statuses THEN "invalid"
    ELSE IF "failed" \in statuses THEN "failed"
    ELSE IF "insufficient_evidence" \in statuses THEN "insufficient_evidence"
    ELSE "passed"

\* The part of the gate that protected data decides.
StatePart(state) ==
    CASE state = "gated" -> <<>>
      [] state = "spent" -> << <<"failed", "spent">> >>
      [] state = "invalid" -> << <<"invalid", "not_gated">> >>
      [] OTHER -> << <<"failed", "not_gated">> >>

\* The part of the source lock.
LockPart(lock) ==
    IF lock = Null THEN << <<"insufficient_evidence", "no_lock">> >>
    ELSE (IF lock.status = "passed" THEN <<>> ELSE << <<MapNativeStatus(lock.status), "lock">> >>)
         \o IF lock.setting = Null THEN << <<"invalid", "no_setting">> >>
            ELSE IF lock.artifact = Null THEN << <<"invalid", "no_artifact">> >>
            ELSE IF lock.id = Null THEN << <<"invalid", "no_lock_id">> >>
            ELSE <<>>

\* The lock against the robustness evidence and the locks of the folds.
LockAgreesPart(lock, walk, robust) ==
    LET config == robust.evidence.native.config
        differ == {k \in LockKeys : lock[k] /= config[k]}
    IN  IF lock = Null \/ lock.setting = Null THEN <<>>
        ELSE (IF robust /= Null /\ differ /= {} THEN << <<"invalid", "lock_differs">> >> ELSE <<>>)
             \o IF /\ walk /= Null
                   /\ \E f \in Range(walk.evidence.native.folds) :
                          f.status = "successful" /\ f.setting /= Null /\ f.lock = Null
                THEN << <<"invalid", "fold_lock">> >> ELSE <<>>

Stages == <<"walk_forward", "monte_carlo", "robustness">>

\* The stages whose documents were retrieved; one that was not is Null.
Present(docs) == Where(Stages, LAMBDA s : docs[s] /= Null)

LineageOf(doc) == [k \in LineageKeys |-> doc.source[k]]

FirstLineage(docs) == LineageOf(docs[Stages[Min(Present(docs))]])

\* The part of a stage: its document, which shares the lineage of the first one.
StagePart(docs, s) ==
    IF docs[s] = Null THEN << <<"insufficient_evidence", s>> >>
    ELSE LET r == StageStatus(s, docs[s].evidence.normalized)
         IN  (IF LineageOf(docs[s]) = FirstLineage(docs) THEN <<>> ELSE << <<"invalid", s>> >>)
             \o [i \in DOMAIN r.reasons |-> <<r.status, r.reasons[i][2]>>]

GateParts(docs, lock, state) ==
    StatePart(state) \o LockPart(lock)
        \o StagePart(docs, "walk_forward") \o StagePart(docs, "monte_carlo")
        \o StagePart(docs, "robustness")
        \o LockAgreesPart(lock, docs["walk_forward"], docs["robustness"])

GateReferences(docs, lock) ==
    (IF lock = Null THEN {} ELSE {<<"out_of_sample", lock.artifact, Null>>})
        \cup {<<Stages[i], docs[Stages[i]].kind, docs[Stages[i]].identity>> : i \in Present(docs)}

\* evaluate_lockbox_prerequisites
EvaluateGate(docs, lock, state) ==
    LET known == IF state \in States THEN state ELSE "invalid"
        parts == GateParts(docs, lock, known)
        status == ResultStatus({p[1] : p \in Range(parts)})
    IN  [status |-> status, reasons |-> parts, state |-> known,
         references |-> GateReferences(docs, lock),
         lock_id |-> IF LockPart(lock) = <<>> THEN lock.id ELSE Null,
         lineage |-> IF Present(docs) = {} THEN <<lock>> ELSE <<lock, FirstLineage(docs)>>,
         executable |-> status = "passed" /\ known = "gated",
         eligible |-> FALSE]

-----------------------------------------------------------------------------
(* Decisions and review contexts *)

\* evidence_decision_identity leaves out the number and the time of the audit record.
DecisionIdentity(d) ==
    [source |-> d.source, gate |-> d.gate, review |-> d.review,
     audit |-> [d.audit EXCEPT !.id = Null]]

\* build_evidence_decision_document
BuildDecision(run, source, gate, review, audit) ==
    LET d == [source |-> source, gate |-> gate, review |-> review, audit |-> audit,
              identity |-> Null]
    IN  IF gate.eligible \/ source.run /= run THEN Unreadable("decision")
        ELSE [d EXCEPT !.identity = DecisionIdentity(d)]

\* validate_evidence_decision_document and the references of the gate: why a stored
\* decision is refused beside the gate that is evaluated now.
DecisionRefusal(d, run, expected, gate) ==
    LET locks == {r \in d.gate.references : r[1] = "out_of_sample"}
    IN  IF d.source.run /= run THEN "run"
        ELSE IF d.gate.eligible THEN "eligible"
        ELSE IF Cardinality(locks) /= 1 \/ \E r \in locks : r[3] /= Null THEN "lock_reference"
        ELSE IF d.gate /= gate THEN "gate"
        ELSE IF "" \in {d.review.reason, d.review.reviewer} THEN "review"
        ELSE IF d.review.target /= run THEN "target"
        ELSE IF \E k \in {"target", "state", "reason", "reviewer"} : d.audit[k] /= d.review[k]
             THEN "audit"
        ELSE IF d.identity /= DecisionIdentity(d) THEN "identity"
        ELSE IF d.source /= expected THEN "lineage"
        ELSE Null

\* review_context_identity leaves out the time of creation.
ContextIdentity(c) == [c EXCEPT !.identity = Null, !.created = Null]

\* build_review_context_document; runs are those of the source lock and the stages.
BuildContext(target, lock, runs, state, created) ==
    LET c == [target |-> target, lock |-> lock, runs |-> runs, state |-> state,
              created |-> created, identity |-> Null]
    IN  IF state \notin {"gated", "spent", "invalid"} THEN Unreadable("state")
        ELSE [c EXCEPT !.identity = ContextIdentity(c)]

\* validate_review_context_document
ContextRefusal(c, target) ==
    IF c.target /= target THEN "target"
    ELSE IF Null \in Range(c.runs) THEN "runs"
    ELSE IF c.state \notin {"gated", "spent", "invalid"} THEN "state"
    ELSE IF c.identity /= ContextIdentity(c) THEN "identity"
    ELSE Null

\* _configuration_allows_locked_parameters: a lock is one configured choice.
ConfigurationAllows(settings, locked) == locked /= Null /\ locked \in settings

\* _validate_review_context_compatibility
CompatibleWithTarget(docs, lock, configuration, source) ==
    LET Compatible(s) == [k \in LineageKeys \ {"runtime"} |-> s[k]]
    IN  /\ ConfigurationAllows(configuration.settings, lock.setting)
        /\ lock.strategy = source.strategy
        /\ lock.version = source.version
        /\ lock.experiment = configuration.experiment
        /\ \A s \in DOMAIN docs : Compatible(docs[s].source) = Compatible(source)

\* evaluate_persisted_review_context: the context is believed only as far as the lock
\* and the documents it names say the same today.
EvaluateContext(c, target, lock, docs, configuration, source) ==
    LET gate == EvaluateGate(docs, lock, c.state)
    IN  IF ContextRefusal(c, target) /= Null THEN Unreadable(ContextRefusal(c, target))
        ELSE IF lock = Null \/ lock.status /= "passed" THEN Unreadable("lock")
        ELSE IF lock /= c.lock THEN Unreadable("lock_changed")
        ELSE IF \E s \in DOMAIN docs : docs[s] = Null THEN Unreadable("document")
        ELSE IF ~CompatibleWithTarget(docs, lock, configuration, source)
             THEN Unreadable("target_changed")
        ELSE IF gate.status /= "passed" THEN Unreadable("gate")
        ELSE gate

\* persist_review_context: the same checks, then the document.
PersistContext(target, lock, runs, state, created, docs, configuration, source) ==
    IF lock = Null \/ lock.status /= "passed" THEN Unreadable("lock")
    ELSE IF \E s \in DOMAIN docs : docs[s] = Null THEN Unreadable("document")
    ELSE IF ~CompatibleWithTarget(docs, lock, configuration, source)
         THEN Unreadable("target_changed")
    ELSE IF EvaluateGate(docs, lock, state).status /= "passed" THEN Unreadable("gate")
    ELSE BuildContext(target, lock, runs, state, created)
================================================================================
