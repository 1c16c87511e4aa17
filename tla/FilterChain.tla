----------------------------- MODULE FilterChain -----------------------------
(***************************************************************************)
(* The candidate pipeline behind one screening run: the flow computes and  *)
(* persists the screening, then drives the fixed chain of validation       *)
(* stages.  Every stage is one run with a deterministic identity, reserved *)
(* before its adapter starts; every decision is taken from evidence read   *)
(* back from disk; the last one is the protected-test gate, whose verdict  *)
(* the launch records as a survivor marker.                                *)
(*                                                                         *)
(* Three kinds of process run FactoryFilterChainService._run on the same   *)
(* screening run: the flow that owns it, workers that call run() again,    *)
(* and replays of the launch, which reopen the chain without adapters.     *)
(* One action is one SQLite transaction, or one read that a later step of  *)
(* the same process relies on.                                             *)
(***************************************************************************)
EXTENDS Integers, Sequences, FiniteSets

CONSTANTS
    Flows,          \* the execution that computes the screening
    Workers,        \* other callers of FactoryFilterChainService.run
    Replays,        \* launch replays: reopen, then record
    Disturbances,   \* what may happen: "raise", "crash"
    MaxDamage       \* files the artifact store may lose or change

ASSUME ProcessesAreDistinct ==
    /\ Flows \cap Workers = {}
    /\ Flows \cap Replays = {}
    /\ Workers \cap Replays = {}
    /\ \A f, g \in Flows : f = g

ASSUME ChainDisturbances ==
    /\ Disturbances \subseteq {"raise", "crash"}
    /\ MaxDamage \in Nat

VARIABLES
    screening,  \* the screening run, its rows, evidence and manifest
    stages,     \* the stage runs: row, inputs, evidence file, registration
    chains,     \* program counter and locals of every _run in progress
    survivors,  \* survivor markers in the screening run's event log
    invoked,    \* history: adapter invocations per stage
    damaged     \* files the artifact store has lost or changed so far

vars == <<screening, stages, chains, survivors, invoked, damaged>>

Chains == Flows \cup Workers \cup Replays

-----------------------------------------------------------------------------
(* Records *)

\* VALIDATION_STAGE_ORDER, and the order in which the gate reads evidence.
Order == <<"oos", "walk_forward", "robustness", "monte_carlo">>

GateOrder == <<"walk_forward", "monte_carlo", "robustness">>

Stages == {Order[i] : i \in 1..4}

RunStatus == {"absent", "created", "running", "succeeded", "failed"}

\* Normalized evidence status.  "undecided" is insufficient_evidence with the
\* one reason that successful folds define no overall acceptance decision.
Verdicts == {"passed", "failed", "insufficient", "undecided", "invalid"}

\* What each stage's evidence can say.  The out-of-sample report holds a
\* passing parameter lock or it does not.
VerdictsOf(s) ==
    CASE s = "oos"          -> {"passed", "failed"}
      [] s = "walk_forward" -> {"failed", "undecided", "invalid"}
      [] OTHER              -> {"passed", "failed", "insufficient", "invalid"}

Files == {"none", "ok", "gone", "bad"}

ScreeningRecord ==
    [status : {"running", "succeeded", "failed"},
     rows : {"none", "passed", "rejected"},
     evidence : BOOLEAN, manifest : BOOLEAN]

StageRecord ==
    [status : RunStatus, inputs : BOOLEAN, file : Files,
     verdict : Verdicts, registered : BOOLEAN, manifest : BOOLEAN,
     announced : BOOLEAN]

NoStage ==
    [status |-> "absent", inputs |-> FALSE, file |-> "none",
     verdict |-> "invalid", registered |-> FALSE, manifest |-> FALSE,
     announced |-> FALSE]

Outcomes == {"none", "screened_out", "stopped", "ready", "incomplete",
             "unknown", "refused", "screening_failed"}

\* The outcomes a caller reads as the decision on the candidate.
Decisions == {"screened_out", "stopped", "ready"}

AdapterPc == {"prepare", "inputs", "evaluate", "register", "manifest",
              "complete", "returned"}

ChainPc == {"idle", "compute", "evidence", "screening_manifest", "succeed",
            "screening_except", "start", "look", "reserve", "except",
            "announce", "validate", "handoff", "gate", "decide", "record",
            "done", "dead"} \cup AdapterPc

\* n is the stage under way (5: the gate), done the statuses handed off, lock
\* whether a source lock was retrieved, read the statuses the gate has seen.
\* unreadable is history: the files that were not intact as the gate began.
ChainRecord ==
    [pc : ChainPc, n : 1..5, done : Seq(Verdicts), lock : BOOLEAN,
     read : Seq(Verdicts), outcome : Outcomes, unreadable : SUBSET Stages]

FreshChain(pc) ==
    [pc |-> pc, n |-> 1, done |-> <<>>, lock |-> FALSE, read |-> <<>>,
     outcome |-> "none", unreadable |-> {}]

StageOf(c) == Order[chains[c].n]

Goto(c, pc) == chains' = [chains EXCEPT ![c].pc = pc]

End(c, outcome) ==
    chains' = [chains EXCEPT
                   ![c].outcome = outcome,
                   ![c].pc = IF outcome \in Decisions /\ c \notin Workers
                             THEN "record" ELSE "done"]

Update(s, field, value) == stages' = [stages EXCEPT ![s][field] = value]

-----------------------------------------------------------------------------
(* Evidence read back from the artifact store *)

\* retrieve_run_artifacts and validate_artifact: the manifest is required,
\* then every file must exist with the registered size and checksum.
Retrieval(s) ==
    CASE ~stages[s].manifest                  -> "no_manifest"
      [] stages[s].manifest /\ stages[s].file = "gone" -> "artifact_missing"
      [] stages[s].manifest /\ stages[s].file = "bad"  -> "corrupt"
      [] OTHER                                -> "ok"

\* _missing_evidence_status
MissingEvidenceStatus(r) ==
    IF r \in {"no_manifest", "artifact_missing"}
    THEN "insufficient" ELSE "invalid"

\* stage_outcome: missing evidence has a status too.
StageOutcome(s) ==
    IF Retrieval(s) = "ok"
    THEN stages[s].verdict
    ELSE MissingEvidenceStatus(Retrieval(s))

\* retrieve_out_of_sample_source_lock returns; it raises on anything else.
SourceLockRetrievable ==
    Retrieval("oos") = "ok" /\ stages["oos"].verdict = "passed"

\* _stage_may_progress of the chain.
StageMayProgress(s, v) ==
    \/ v = "passed"
    \/ v = "failed" /\ s \in {"walk_forward", "robustness", "monte_carlo"}
    \/ v = "insufficient" /\ s = "monte_carlo"
    \/ v = "undecided" /\ s = "walk_forward"

\* _stage_status of the gate, on evidence that was retrieved.
GateStageStatus(s, v) ==
    IF \/ v \in {"passed", "failed"}
       \/ v = "undecided" /\ s = "walk_forward"
       \/ v = "insufficient" /\ s = "monte_carlo"
    THEN "passed"
    ELSE v

\* Mutant: the gate scores missing evidence like an insufficient result.
GateReadsMutant(s) == GateStageStatus(s, StageOutcome(s))

\* The status one stage contributes to evaluate_lockbox_prerequisites: that
\* of its evidence, or that of its absence, which is never "passed".
GateReads(s) ==
    IF Retrieval(s) = "ok"
    THEN GateStageStatus(s, stages[s].verdict)
    ELSE MissingEvidenceStatus(Retrieval(s))

-----------------------------------------------------------------------------
(* execute_flow: the screening *)

\* load_market_data, execute_experiment and persist_experiment_inputs_on_run:
\* the ranked rows and the inputs in one transaction.
PersistInputs(c) ==
    /\ chains[c].pc = "compute"
    /\ \E rows \in {"passed", "rejected"} :
           screening' = [screening EXCEPT !.rows = rows]
    /\ Goto(c, "evidence")
    /\ UNCHANGED <<stages, survivors, invoked, damaged>>

\* persist_captured_screening_evidence
PersistScreeningEvidence(c) ==
    /\ chains[c].pc = "evidence"
    /\ screening' = [screening EXCEPT !.evidence = TRUE]
    /\ Goto(c, "screening_manifest")
    /\ UNCHANGED <<stages, survivors, invoked, damaged>>

PersistScreeningManifest(c) ==
    /\ chains[c].pc = "screening_manifest"
    /\ screening' = [screening EXCEPT !.manifest = TRUE]
    /\ Goto(c, "succeed")
    /\ UNCHANGED <<stages, survivors, invoked, damaged>>

SucceedScreening(c) ==
    /\ chains[c].pc = "succeed"
    /\ screening.status = "running"
    /\ screening' = [screening EXCEPT !.status = "succeeded"]
    /\ Goto(c, "start")
    /\ UNCHANGED <<stages, survivors, invoked, damaged>>

\* An exception before the screening succeeded.
ScreeningRaises(c) ==
    /\ "raise" \in Disturbances
    /\ chains[c].pc \in {"compute", "evidence", "screening_manifest", "succeed"}
    /\ Goto(c, "screening_except")
    /\ UNCHANGED <<screening, stages, survivors, invoked, damaged>>

\* The handler fails the run if it is still running, and raises.
FailScreening(c) ==
    /\ chains[c].pc = "screening_except"
    /\ screening' = [screening EXCEPT
           !.status = IF @ = "running" THEN "failed" ELSE @]
    /\ End(c, "screening_failed")
    /\ UNCHANGED <<stages, survivors, invoked, damaged>>

-----------------------------------------------------------------------------
(* FactoryFilterChainService._run *)

\* A worker or a replay enters.  A replay keeps nothing of its last attempt.
Enter(c) ==
    /\ \/ c \in Workers /\ chains[c].pc = "idle"
       \/ c \in Replays /\ chains[c].pc \in {"idle", "done"}
    /\ chains' = [chains EXCEPT ![c] = FreshChain("start")]
    /\ UNCHANGED <<screening, stages, survivors, invoked, damaged>>

\* The checks on the screening run.  A replay turns an unfinished screening
\* into ReplayIncomplete, run() refuses it with ValueError.
Start(c) ==
    /\ chains[c].pc = "start"
    /\ IF screening.status /= "succeeded"
       THEN End(c, IF c \in Replays THEN "incomplete" ELSE "refused")
       ELSE IF screening.rows = "rejected"
            THEN End(c, "screened_out")
            ELSE Goto(c, "look")
    /\ UNCHANGED <<screening, stages, survivors, invoked, damaged>>

\* Mutant: a replay hands off a stage that was reserved and never finished.
LookMutant(c) ==
    LET status == stages[StageOf(c)].status IN
    /\ chains[c].pc = "look"
    /\ CASE c \in Replays /\ status = "absent"     -> End(c, "incomplete")
         [] c \in Replays /\ status /= "absent"    -> Goto(c, "handoff")
         [] c \notin Replays /\ status = "absent"  -> Goto(c, "reserve")
         [] OTHER                                  -> Goto(c, "validate")
    /\ UNCHANGED <<screening, stages, survivors, invoked, damaged>>

\* existing_stage is read; a replay stops at a stage that did not succeed.
Look(c) ==
    LET status == stages[StageOf(c)].status IN
    /\ chains[c].pc = "look"
    /\ CASE c \in Replays /\ status /= "succeeded" -> End(c, "incomplete")
         [] c \in Replays /\ status = "succeeded"  -> Goto(c, "validate")
         [] c \notin Replays /\ status = "absent"  -> Goto(c, "reserve")
         [] OTHER                                  -> Goto(c, "validate")
    /\ UNCHANGED <<screening, stages, survivors, invoked, damaged>>

\* Mutant: the INSERT replaces an existing row.
ReserveMutant(c) ==
    LET s == StageOf(c) IN
    /\ chains[c].pc = "reserve"
    /\ Update(s, "status", "created")
    /\ invoked' = [invoked EXCEPT ![s] = @ + 1]
    /\ Goto(c, "prepare")
    /\ UNCHANGED <<screening, survivors, damaged>>

\* _reserve_stage_run: one INSERT decides who invokes the adapter.
Reserve(c) ==
    LET s == StageOf(c) IN
    /\ chains[c].pc = "reserve"
    /\ IF stages[s].status = "absent"
       THEN /\ Update(s, "status", "created")
            /\ invoked' = [invoked EXCEPT ![s] = @ + 1]
            /\ Goto(c, "prepare")
       ELSE /\ Goto(c, "validate")
            /\ UNCHANGED <<stages, invoked>>
    /\ UNCHANGED <<screening, survivors, damaged>>

-----------------------------------------------------------------------------
(* The stage adapters *)

\* prepare: RUNNING with its event, then the inputs in a second transaction.
PrepareStage(c) ==
    /\ chains[c].pc = "prepare"
    /\ stages[StageOf(c)].status = "created"
    /\ Update(StageOf(c), "status", "running")
    /\ Goto(c, "inputs")
    /\ UNCHANGED <<screening, survivors, invoked, damaged>>

AttachInputs(c) ==
    /\ chains[c].pc = "inputs"
    /\ stages[StageOf(c)].status = "running"
    /\ ~stages[StageOf(c)].inputs
    /\ Update(StageOf(c), "inputs", TRUE)
    /\ Goto(c, "evaluate")
    /\ UNCHANGED <<screening, survivors, invoked, damaged>>

\* What an adapter reads first: robustness and Monte Carlo need the source
\* lock, Monte Carlo the walk-forward evidence as well.
AdapterInputsReadable(s) ==
    /\ s \in {"robustness", "monte_carlo"} => SourceLockRetrievable
    /\ s = "monte_carlo" => Retrieval("walk_forward") = "ok"

\* The computation, and the evidence file it writes.  An out-of-sample run
\* without a survivor writes a report as well.
Evaluate(c) ==
    LET s == StageOf(c) IN
    /\ chains[c].pc = "evaluate"
    /\ IF AdapterInputsReadable(s)
       THEN /\ \E v \in VerdictsOf(s) :
                   stages' = [stages EXCEPT ![s].verdict = v,
                                            ![s].file = "ok"]
            /\ Goto(c, "register")
       ELSE /\ Goto(c, "except")
            /\ UNCHANGED stages
    /\ UNCHANGED <<screening, survivors, invoked, damaged>>

RegisterEvidence(c) ==
    /\ chains[c].pc = "register"
    /\ Update(StageOf(c), "registered", TRUE)
    /\ Goto(c, "manifest")
    /\ UNCHANGED <<screening, survivors, invoked, damaged>>

ManifestEvidence(c) ==
    /\ chains[c].pc = "manifest"
    /\ Update(StageOf(c), "manifest", TRUE)
    /\ Goto(c, "complete")
    /\ UNCHANGED <<screening, survivors, invoked, damaged>>

CompleteStage(c) ==
    /\ chains[c].pc = "complete"
    /\ stages[StageOf(c)].status = "running"
    /\ Update(StageOf(c), "status", "succeeded")
    /\ Goto(c, "returned")
    /\ UNCHANGED <<screening, survivors, invoked, damaged>>

AdapterReturns(c) ==
    /\ chains[c].pc = "returned"
    /\ Goto(c, "validate")
    /\ UNCHANGED <<screening, stages, survivors, invoked, damaged>>

\* Any exception out of the adapter, after its last commit too.
AdapterRaises(c) ==
    /\ "raise" \in Disturbances
    /\ chains[c].pc \in AdapterPc
    /\ Goto(c, "except")
    /\ UNCHANGED <<screening, stages, survivors, invoked, damaged>>

\* Mutant: the handler does not look whether the stage succeeded after all.
HandleExceptionMutant(c) ==
    /\ chains[c].pc = "except"
    /\ Update(StageOf(c), "status", "failed")
    /\ Goto(c, "announce")
    /\ UNCHANGED <<screening, survivors, invoked, damaged>>

\* The handler: a stage that succeeded after all is used, any other is failed
\* and blocked for good.
HandleException(c) ==
    LET s == StageOf(c) IN
    /\ chains[c].pc = "except"
    /\ IF stages[s].status = "succeeded"
       THEN /\ Goto(c, "validate")
            /\ UNCHANGED stages
       ELSE /\ Update(s, "status", "failed")
            /\ Goto(c, "announce")
    /\ UNCHANGED <<screening, survivors, invoked, damaged>>

\* The RUN_FAILED event is a transaction of its own.
AnnounceFailure(c) ==
    /\ chains[c].pc = "announce"
    /\ Update(StageOf(c), "announced", TRUE)
    /\ End(c, "unknown")
    /\ UNCHANGED <<screening, survivors, invoked, damaged>>

-----------------------------------------------------------------------------
(* Handoff and gate *)

\* _validate_persisted_reference
ValidateReference(c) ==
    /\ chains[c].pc = "validate"
    /\ IF stages[StageOf(c)].status = "succeeded"
       THEN Goto(c, "handoff")
       ELSE End(c, "refused")
    /\ UNCHANGED <<screening, stages, survivors, invoked, damaged>>

\* The evidence is reopened and decides whether the chain goes on.  The
\* out-of-sample lock is kept for the gate, not read again.
Handoff(c) ==
    LET s  == StageOf(c)
        v  == IF s = "oos"
              THEN IF SourceLockRetrievable THEN "passed" ELSE "invalid"
              ELSE StageOutcome(s)
        go == StageMayProgress(s, v)
    IN
    /\ chains[c].pc = "handoff"
    /\ chains' = [chains EXCEPT
           ![c].done = Append(@, v),
           ![c].lock = @ \/ (s = "oos" /\ go),
           ![c].n = IF go THEN @ + 1 ELSE @,
           ![c].outcome = IF go THEN @ ELSE "stopped",
           ![c].unreadable = {t \in Stages : go /\ s = "monte_carlo"
                                             /\ stages[t].file /= "ok"},
           ![c].pc = CASE ~go -> IF c \in Workers THEN "done" ELSE "record"
                       [] go /\ chains[c].n = 4 -> "gate"
                       [] OTHER                 -> "look"]
    /\ UNCHANGED <<screening, stages, survivors, invoked, damaged>>

\* The gate reopens the three artifacts one after the other.
GateRead(c) ==
    /\ chains[c].pc = "gate"
    /\ chains' = [chains EXCEPT
           ![c].read = Append(@, GateReads(GateOrder[Len(@) + 1])),
           ![c].pc = IF Len(chains[c].read) = 2 THEN "decide" ELSE "gate"]
    /\ UNCHANGED <<screening, stages, survivors, invoked, damaged>>

\* eligible_to_execute_lockbox: every status passed, protected data gated.
GateDecide(c) ==
    /\ chains[c].pc = "decide"
    /\ End(c, IF chains[c].lock /\ \A i \in 1..3 : chains[c].read[i] = "passed"
              THEN "ready" ELSE "stopped")
    /\ UNCHANGED <<screening, stages, survivors, invoked, damaged>>

\* Mutant: the marker is appended without looking for an earlier one.
RecordMutant(c) ==
    /\ chains[c].pc = "record"
    /\ survivors' = IF chains[c].outcome = "ready"
                    THEN survivors + 1 ELSE survivors
    /\ Goto(c, "done")
    /\ UNCHANGED <<screening, stages, invoked, damaged>>

\* record_factory_outcome: read and append under BEGIN IMMEDIATE.
Record(c) ==
    /\ chains[c].pc = "record"
    /\ survivors' = IF chains[c].outcome = "ready" /\ survivors = 0
                    THEN survivors + 1 ELSE survivors
    /\ Goto(c, "done")
    /\ UNCHANGED <<screening, stages, invoked, damaged>>

-----------------------------------------------------------------------------
(* The environment *)

\* A process dies.  A replay reads until its one transaction, so its death is
\* a replay that has not finished.
Crash(c) ==
    /\ "crash" \in Disturbances
    /\ c \in Flows \cup Workers
    /\ chains[c].pc \notin {"done", "dead"}
    /\ Goto(c, "dead")
    /\ UNCHANGED <<screening, stages, survivors, invoked, damaged>>

\* A registered evidence file disappears or changes.
DamageFile(s) ==
    /\ damaged < MaxDamage
    /\ stages[s].file = "ok" /\ stages[s].registered
    /\ \E f \in {"gone", "bad"} : Update(s, "file", f)
    /\ damaged' = damaged + 1
    /\ UNCHANGED <<screening, chains, survivors, invoked>>

-----------------------------------------------------------------------------

Init ==
    /\ screening = [status |-> "running", rows |-> "none",
                    evidence |-> FALSE, manifest |-> FALSE]
    /\ stages = [s \in Stages |-> NoStage]
    /\ chains = [c \in Chains |->
                    FreshChain(IF c \in Flows THEN "compute" ELSE "idle")]
    /\ survivors = 0
    /\ invoked = [s \in Stages |-> 0]
    /\ damaged = 0

ChainStep(c) ==
    \/ PersistInputs(c) \/ PersistScreeningEvidence(c)
    \/ PersistScreeningManifest(c) \/ SucceedScreening(c) \/ FailScreening(c)
    \/ Start(c) \/ Look(c) \/ Reserve(c)
    \/ PrepareStage(c) \/ AttachInputs(c) \/ Evaluate(c)
    \/ RegisterEvidence(c) \/ ManifestEvidence(c) \/ CompleteStage(c)
    \/ AdapterReturns(c) \/ HandleException(c) \/ AnnounceFailure(c)
    \/ ValidateReference(c) \/ Handoff(c) \/ GateRead(c) \/ GateDecide(c)
    \/ Record(c)

Next ==
    \/ \E c \in Chains :
           \/ Enter(c) \/ ChainStep(c)
           \/ ScreeningRaises(c) \/ AdapterRaises(c) \/ Crash(c)
    \/ \E s \in Stages : DamageFile(s)

Spec == Init /\ [][Next]_vars

\* A process that has entered the chain keeps running unless it dies.  Nobody owes
\* a replay: the campaign retries a launch under a new key.
Fairness == \A c \in Chains : WF_vars(ChainStep(c))

FairSpec == Spec /\ Fairness

-----------------------------------------------------------------------------
(* Properties *)

TypeOK ==
    /\ screening \in ScreeningRecord
    /\ stages \in [Stages -> StageRecord]
    /\ chains \in [Chains -> ChainRecord]
    /\ survivors \in Nat
    /\ invoked \in [Stages -> Nat]
    /\ damaged \in 0..MaxDamage

\* An adapter is invoked at most once per stage, whatever the interleaving of
\* the flow, other workers and replays, after exceptions and deaths
\* (_reserve_stage_run: "Atomically reserve one deterministic stage run
\* before adapter work").
OneAdapterPerStage == \A s \in Stages : invoked[s] <= 1

\* No stage run exists unless every earlier stage succeeded with persisted
\* evidence of a kind the chain may progress on, and the screening passed.
StagesInOrder ==
    \A i \in 1..4 :
        stages[Order[i]].status /= "absent" =>
            /\ screening.status = "succeeded" /\ screening.rows = "passed"
            /\ screening.evidence /\ screening.manifest
            /\ \A j \in 1..(i - 1) :
                   /\ stages[Order[j]].status = "succeeded"
                   /\ stages[Order[j]].manifest
                   /\ StageMayProgress(Order[j], stages[Order[j]].verdict)

\* Every stage runs once, and in its turn: both of the above.
StagesRunOnceInOrder == OneAdapterPerStage /\ StagesInOrder

\* A survivor marker is written once, and only for a candidate whose four
\* stages succeeded on evidence that was registered and qualifies at the gate,
\* even though missing Monte Carlo evidence does not stop the chain itself.
SurvivorIsEvidenced ==
    /\ survivors <= 1
    /\ survivors = 1 =>
           /\ screening.rows = "passed" /\ screening.status = "succeeded"
           /\ stages["oos"].verdict = "passed"
           /\ \A s \in Stages :
                  /\ stages[s].status = "succeeded"
                  /\ stages[s].registered /\ stages[s].manifest
                  /\ GateStageStatus(s, stages[s].verdict) = "passed"

\* While the artifact store is intact, all who decide on the candidate decide
\* the same: a replay or a second worker reaches the flow's outcome at the
\* flow's stage (reopen: "Rebuild one persisted terminal outcome").
DecisionsAgree ==
    damaged = 0 =>
        \A c, d \in Chains :
            ({chains[c].outcome, chains[d].outcome} \subseteq Decisions) =>
                /\ chains[c].outcome = chains[d].outcome
                /\ chains[c].done = chains[d].done

\* The chain and the gate encode "may progress" separately; on an intact store
\* the gate never rejects what the chain let through.
GateAgreesWithChain ==
    damaged = 0 =>
        \A c \in Chains :
            /\ \A i \in 1..Len(chains[c].read) : chains[c].read[i] = "passed"
            /\ (chains[c].n = 5 /\ chains[c].outcome /= "none")
                   => chains[c].outcome = "ready"

\* Whoever decides on a candidate decides what the chain and the gate agree on: both of the
\* above.
OneDecision == DecisionsAgree /\ GateAgreesWithChain

\* Evidence that was already gone or changed when the gate began never ends in
\* a "ready", although missing Monte Carlo evidence passes the chain's own
\* handoff as "insufficient".  The out-of-sample report is exempt: its lock was
\* read at the first handoff and is not read again.
ReadyIsReadable ==
    \A c \in Chains :
        chains[c].outcome = "ready" => chains[c].unreadable \subseteq {"oos"}

\* A stage run that ended never changes its status, and its evidence, once in
\* the manifest, never changes its verdict.
EndedStagesStay ==
    [][\A s \in Stages :
           /\ stages[s].status \in {"succeeded", "failed"}
                  => stages'[s].status = stages[s].status
           /\ stages[s].manifest
                  => stages'[s].manifest /\ stages'[s].verdict = stages[s].verdict]_vars

\* The flow was overtaken: it found a stage that another worker had reserved and
\* not finished, and gave up.
Overtaken(f) == chains[f].outcome = "refused"

\* A candidate whose four stages succeeded on evidence that the gate lets pass
\* becomes a survivor on record, whatever was raised on the way and whoever else
\* runs or replays the chain.  There are three exceptions: the flow's process dies
\* before it has written the marker, the flow was overtaken by a worker (which
\* writes no marker), or the artifact store loses evidence.  In the first two a
\* replay of the launch would write it, and nobody owes one.
SurvivorIsRecorded ==
    (/\ \A s \in Stages : stages[s].status = "succeeded"
     /\ stages["monte_carlo"].verdict /= "invalid")
        ~> \/ survivors = 1
           \/ damaged > 0
           \/ \E f \in Flows : chains[f].pc = "dead" \/ Overtaken(f)

=============================================================================
