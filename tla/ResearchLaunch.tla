--------------------------- MODULE ResearchLaunch ---------------------------
(***************************************************************************)
(* The durable research launch: one idempotency key, one run, at most one  *)
(* Prefect invocation, across replays, crashes, timeouts and late flows.   *)
(*                                                                         *)
(* A caller thread (FixtureRunService.launch_fixture) claims a key in the  *)
(* research database, writes the invocation marker and runs a Prefect flow *)
(* in its own process.  The flow binds its identity to the claim, writes   *)
(* its result and finishes the run.  The caller may stop waiting while the *)
(* flow lives on; a process may die between any two transactions; an       *)
(* operator resolves what remains ambiguous.                               *)
(*                                                                         *)
(* One action is one SQLite transaction (BEGIN IMMEDIATE in the claim      *)
(* service, a deferred transaction in PersistenceService) or one read that *)
(* a later transaction of the same process relies on.                      *)
(***************************************************************************)
EXTENDS Integers, Sequences, FiniteSets

CONSTANTS
    Keys,           \* idempotency keys
    Runs,           \* run identities the run-id factory may hand out
    Configs,        \* saved configurations
    SpymConfigs,    \* the ones whose flow persists artifacts and a manifest
    Dispatchers,    \* process generations (boot-scoped dispatcher ids)
    Callers,        \* launching threads
    ProcessOf,      \* the process a thread lives in
    Flows,          \* Prefect flow-run identities
    NumArtifacts,   \* artifacts one flow registers before its manifest
    Disturbances,   \* what the environment may do in this instance
    None            \* SQL NULL

ASSUME ConstantsAssumption ==
    /\ SpymConfigs \subseteq Configs
    /\ ProcessOf \in [Callers -> Dispatchers]
    /\ NumArtifacts \in Nat \ {0}

\* The environment's part: a locked database, a process death, a join that
\* times out, an exception of the work, an operator's cancellation, strategy
\* (de)activation and reconciliation.  An instance bounds itself by a subset.
AllDisturbances == {"contention", "crash", "timeout", "exception", "cancel",
                    "toggle", "reconcile"}

ASSUME DisturbancesAssumption == Disturbances \subseteq AllDisturbances

ASSUME NoneAssumption ==
    /\ None \notin Keys \cup Runs \cup Dispatchers \cup Flows \cup Configs
    /\ None \notin Nat

VARIABLES
    runs,           \* experiment_runs
    events,         \* run_operator_events: the lifecycle log of each run
    alerts,         \* the integrity messages in it, each kept once
    outputs,        \* parameter_results, artifact_references, run_manifests
    subs,           \* research_run_submissions
    launchable,     \* configurations whose strategy is active and allowed
    up,             \* processes that are alive
    callers,        \* program counters and locals of launching threads
    flows,          \* program counters of Prefect flow executions
    operator        \* the reconciliation an operator has under way

runVars == <<runs, events, alerts, outputs>>

vars == <<runVars, subs, launchable, up, callers, flows, operator>>

-----------------------------------------------------------------------------
(* Records *)

Terminal == {"succeeded", "failed", "cancelled"}

RunStatus == {"absent", "created", "running"} \cup Terminal

\* RUN_STATUS_TRANSITIONS: what RunRepository.transition accepts.
TransitionAllowed(old, new) ==
    \/ old = "created" /\ new \in {"running", "failed", "cancelled"}
    \/ old = "running" /\ new \in Terminal

Events == {"run_created", "run_started", "run_succeeded", "run_failed",
           "run_cancelled", "run_cancellation_requested",
           "run_retry_scheduled"}

TerminalEvents == {"run_succeeded", "run_failed", "run_cancelled"}

\* Messages of service_integrity_error events; each is kept once per run.
Alerts == {"persisted_identity", "mismatch", "conflicting", "invalid_state",
           "environment"}

SubmissionState == {"none", "claimed", "invoking", "acknowledged",
                    "submission_unknown", "failed_before_submission",
                    "abandoned"}

Operations == {"run_test", "historical_relaunch", "reproduction"}

\* _normalize_request: run_test has no source run, the other two need one.
Requests ==
    {q \in [op : Operations, config : Configs, source : Runs \cup {None}] :
        (q.op = "run_test") <=> (q.source = None)}

ApiUrls == {"url", "null"}

Manifests == {-1} \cup 0..NumArtifacts

NoManifest == -1

RunRecord ==
    [status : RunStatus, config : Configs \cup {None},
     env : Flows \cup {None}, attempts : Nat]

\* The flow that wrote the result row, the artifacts registered so far and
\* the number of artifacts the persisted manifest lists.
OutputRecord ==
    [row : Flows \cup {None}, artifacts : 0..NumArtifacts,
     manifest : Manifests]

SubRecord ==
    [state : SubmissionState, run : Runs \cup {None},
     req : Requests \cup {None}, dispatcher : Dispatchers \cup {None},
     flow : Flows \cup {None}, api : ApiUrls, evidence : BOOLEAN]

CallerPc == {"idle", "claim", "prepare", "dispatch", "invoke", "wait",
             "verify", "mark", "build", "manifest", "dead"}

CallerRecord ==
    [pc : CallerPc, key : Keys \cup {None}, req : Requests \cup {None},
     flow : Flows \cup {None}, built : Manifests]

FlowPc == {"none", "bind", "attempt", "check", "ack_cancel", "work",
           "recheck", "persist", "artifact", "manifest", "complete",
           "apply_succeeded", "failing", "apply_failed", "returned",
           "raised", "killed"}

FlowEnded == {"returned", "raised", "killed"}

FlowRecord ==
    [pc : FlowPc, key : Keys \cup {None}, proc : Dispatchers \cup {None}]

OperatorRecord ==
    [pc : {"idle", "bind"}, key : Keys \cup {None},
     flow : Flows \cup {None}, api : ApiUrls]

NoRun == [status |-> "absent", config |-> None, env |-> None, attempts |-> 0]

NoOutput == [row |-> None, artifacts |-> 0, manifest |-> NoManifest]

NoSub == [state |-> "none", run |-> None, req |-> None, dispatcher |-> None,
          flow |-> None, api |-> "null", evidence |-> FALSE]

IdleCaller == [pc |-> "idle", key |-> None, req |-> None, flow |-> None,
               built |-> NoManifest]

IdleOperator == [pc |-> "idle", key |-> None, flow |-> None, api |-> "null"]

-----------------------------------------------------------------------------
(* Shared helpers *)

HasEvent(r, e) == \E i \in 1..Len(events[r]) : events[r][i] = e

LogEvent(r, e) == events' = [events EXCEPT ![r] = Append(@, e)]

\* A status change and its operator event, in one transaction.
Transition(r, status, event) ==
    /\ runs' = [runs EXCEPT ![r].status = status]
    /\ LogEvent(r, event)

\* Mutated: a reproduction of a run that has not succeeded.
SourceValidMutant(q) ==
    q.op # "run_test" =>
        /\ runs[q.source].status # "absent"
        /\ runs[q.source].config = q.config

\* _derive_source_lineage: a relaunch needs a source of the same
\* configuration, a reproduction one that succeeded and has its manifest.
SourceValid(q) ==
    q.op # "run_test" =>
        /\ runs[q.source].status # "absent"
        /\ runs[q.source].config = q.config
        /\ q.op = "reproduction" =>
              /\ runs[q.source].status = "succeeded"
              /\ outputs[q.source].manifest # NoManifest

\* _validate_persisted_claim, for the two flags its callers set.
PersistedClaimValid(k, requireCreated, requireLaunchable) ==
    LET s == subs[k] IN
    /\ runs[s.run].config = s.req.config
    /\ requireLaunchable => s.req.config \in launchable
    /\ requireCreated => runs[s.run].status = "created"
    /\ SourceValid(s.req)

\* The duplicate_prefect query: the flow id belongs to another submission.
BoundElsewhere(k, f) == \E j \in Keys \ {k} : subs[j].flow = f

\* The outcomes of bind_prefect_identity, in the order the code decides.
BindOutcome(k, f, api) ==
    LET s == subs[k] IN
    CASE ~PersistedClaimValid(k, s.state # "acknowledged", FALSE) ->
            "persisted_identity"
      [] BoundElsewhere(k, f) -> "mismatch"
      [] s.state = "acknowledged" ->
            IF s.flow = f /\ s.api = api THEN "replayed" ELSE "conflicting"
      [] s.state \notin {"invoking", "submission_unknown"} -> "invalid_state"
      [] runs[s.run].env \notin {None, f} -> "environment"
      [] OTHER -> "bound"

\* bind_prefect_identity: acknowledge and start the run, or record one
\* integrity event and leave both records alone.
BindPrefectIdentity(k, f, api) ==
    LET outcome == BindOutcome(k, f, api)
        r == subs[k].run
    IN  IF outcome = "bound"
        THEN /\ subs' = [subs EXCEPT ![k].state = "acknowledged",
                                     ![k].flow = f, ![k].api = api]
             /\ runs' = [runs EXCEPT ![r].env = f, ![r].status = "running"]
             /\ LogEvent(r, "run_started")
             /\ UNCHANGED <<alerts, outputs>>
        ELSE /\ alerts' = IF outcome = "replayed" THEN alerts
                          ELSE [alerts EXCEPT ![r] = @ \cup {outcome}]
             /\ UNCHANGED <<subs, runs, events, outputs>>

\* Mutated: a conflicting acknowledgement is only logged.
BindAcceptedMutant(k, f, api) ==
    BindOutcome(k, f, api) \in {"bound", "replayed", "conflicting"}

\* The caller of bind_prefect_identity goes on; otherwise it raises.
BindAccepted(k, f, api) == BindOutcome(k, f, api) \in {"bound", "replayed"}

-----------------------------------------------------------------------------
(* Launching threads *)

Goto(c, pc) == callers' = [callers EXCEPT ![c].pc = pc]

\* An exception leaves launch_fixture, or the call is over.
Leave(c) == callers' = [callers EXCEPT ![c] = IdleCaller]

\* launch_fixture returns a result; reproduce_fixture_run goes on to persist
\* the reproduction's manifest.
ReturnResult(c) ==
    IF callers[c].req.op = "reproduction" THEN Goto(c, "build") ELSE Leave(c)

\* A thread calls launch_fixture (or reproduce_fixture_run) with a key it
\* was given; the same key may come from a repeated click or another thread.
Launch(c, k, q) ==
    /\ callers[c].pc = "idle"
    /\ callers' = [callers EXCEPT ![c].pc = "claim", ![c].key = k,
                                  ![c].req = q]
    /\ UNCHANGED <<runVars, subs, launchable, up, flows, operator>>

\* claim, for a key that is already recorded: a different request is a
\* conflict; a claim still waiting for its marker may be taken further.
ClaimReplay(c) ==
    LET k == callers[c].key IN
    /\ callers[c].pc = "claim"
    /\ subs[k].state # "none"
    /\ IF subs[k].req # callers[c].req \/ ~PersistedClaimValid(k, FALSE, FALSE)
       THEN Leave(c)
       ELSE IF subs[k].state = "claimed" THEN Goto(c, "prepare")
       ELSE ReturnResult(c)
    /\ UNCHANGED <<runVars, subs, launchable, up, flows, operator>>

\* claim, for a new key: run, run_created event and submission in one
\* transaction.
ClaimNew(c) ==
    LET k == callers[c].key
        q == callers[c].req
    IN
    /\ callers[c].pc = "claim"
    /\ subs[k].state = "none"
    /\ q.config \in launchable
    /\ SourceValid(q)
    /\ \E r \in Runs :
          /\ runs[r].status = "absent"
          /\ runs' = [runs EXCEPT ![r].status = "created",
                                  ![r].config = q.config]
          /\ LogEvent(r, "run_created")
          /\ subs' = [subs EXCEPT ![k].state = "claimed", ![k].run = r,
                                  ![k].req = q]
    /\ Goto(c, "prepare")
    /\ UNCHANGED <<alerts, outputs, launchable, up, flows, operator>>

\* claim, for a request the saved configuration or the source refuses.
ClaimRefused(c) ==
    LET k == callers[c].key
        q == callers[c].req
    IN
    /\ callers[c].pc = "claim"
    /\ subs[k].state = "none"
    /\ q.config \notin launchable \/ ~SourceValid(q)
    /\ Leave(c)
    /\ UNCHANGED <<runVars, subs, launchable, up, flows, operator>>

\* _launch_inputs: preparation reads the configuration again, outside any
\* transaction, and leaves the claim behind when it fails.
Prepare(c) ==
    /\ callers[c].pc = "prepare"
    /\ IF callers[c].req.config \in launchable
       THEN Goto(c, "dispatch") ELSE Leave(c)
    /\ UNCHANGED <<runVars, subs, launchable, up, flows, operator>>

\* Mutated: the update does not compare the state.
MarkerFreeMutant(k) == subs[k].state \in {"claimed", "invoking"}

\* set_invoking is a compare-and-set from claimed.
MarkerFree(k) == subs[k].state = "claimed"

\* begin_dispatch: the write-ahead marker; only its winner goes on to invoke.
BeginDispatch(c) ==
    LET k == callers[c].key
        won == MarkerFree(k)
        valid == PersistedClaimValid(k, TRUE, TRUE)
    IN
    /\ callers[c].pc = "dispatch"
    /\ IF won /\ valid
       THEN /\ subs' = [subs EXCEPT ![k].state = "invoking",
                                    ![k].dispatcher = ProcessOf[c]]
            /\ Goto(c, "invoke")
       ELSE /\ subs' = subs
            /\ IF won THEN Leave(c) ELSE ReturnResult(c)
    /\ UNCHANGED <<runVars, launchable, up, flows, operator>>

\* The launcher starts a Prefect flow in this process...
Invoke(c, f) ==
    /\ callers[c].pc = "invoke"
    /\ flows[f].pc = "none"
    /\ flows' = [flows EXCEPT ![f] = [pc |-> "bind", key |-> callers[c].key,
                                      proc |-> ProcessOf[c]]]
    /\ callers' = [callers EXCEPT ![c].pc = "wait", ![c].flow = f]
    /\ UNCHANGED <<runVars, subs, launchable, up, operator>>

\* ... or raises before any flow exists (no PREFECT_API_URL, no server).
InvokeRaises(c) ==
    /\ "exception" \in Disturbances
    /\ callers[c].pc = "invoke"
    /\ Goto(c, "mark")
    /\ UNCHANGED <<runVars, subs, launchable, up, flows, operator>>

\* The flow ended and the call returned or raised.
InvocationEnds(c) ==
    /\ callers[c].pc = "wait"
    /\ flows[callers[c].flow].pc \in {"returned", "raised"}
    /\ Goto(c, IF flows[callers[c].flow].pc = "returned"
               THEN "verify" ELSE "mark")
    /\ UNCHANGED <<runVars, subs, launchable, up, flows, operator>>

\* _launch_with_timeout: the join times out, the daemon thread lives on.
LaunchTimesOut(c) ==
    /\ "timeout" \in Disturbances
    /\ callers[c].pc = "wait"
    /\ flows[callers[c].flow].pc \notin FlowEnded
    /\ Goto(c, "mark")
    /\ UNCHANGED <<runVars, subs, launchable, up, flows, operator>>

\* dispatch, after a normal return: the acknowledgement must be durable.
VerifyAcknowledged(c) ==
    /\ callers[c].pc = "verify"
    /\ IF subs[callers[c].key].state = "invoking"
       THEN Goto(c, "mark") ELSE ReturnResult(c)
    /\ UNCHANGED <<runVars, subs, launchable, up, flows, operator>>

\* Mutated: a late report of ambiguity overrides the acknowledgement.
MayMarkUnknownMutant(k, d) ==
    subs[k].state \in {"invoking", "acknowledged"} /\ subs[k].dispatcher = d

MayMarkUnknown(k, d) ==
    subs[k].state = "invoking" /\ subs[k].dispatcher = d

\* mark_invocation_unknown: only the marker's winner may report ambiguity;
\* an acknowledgement that got there first stands.
MarkInvocationUnknown(c) ==
    LET k == callers[c].key IN
    /\ callers[c].pc = "mark"
    /\ subs' = IF MayMarkUnknown(k, ProcessOf[c])
               THEN [subs EXCEPT ![k].state = "submission_unknown"]
               ELSE subs
    /\ Leave(c)
    /\ UNCHANGED <<runVars, launchable, up, flows, operator>>

\* reproduce_fixture_run: build the manifest from what is registered now.
\* A replay skips it when one is already persisted.
BuildManifest(c) ==
    LET r == subs[callers[c].key].run IN
    /\ callers[c].pc = "build"
    /\ IF /\ callers[c].flow # None \/ outputs[r].manifest = NoManifest
          /\ outputs[r].row # None /\ runs[r].config \in SpymConfigs
       THEN callers' = [callers EXCEPT ![c].pc = "manifest",
                                       ![c].built = outputs[r].artifacts]
       ELSE Leave(c)
    /\ UNCHANGED <<runVars, subs, launchable, up, flows, operator>>

\* Mutated: the upsert replaces whatever is stored.
ManifestAcceptedMutant(r, n) == TRUE

\* persist_run_manifest: a different immutable content is refused.
ManifestAccepted(r, n) == outputs[r].manifest \in {NoManifest, n}

PersistReproductionManifest(c) ==
    LET r == subs[callers[c].key].run
        n == callers[c].built
    IN
    /\ callers[c].pc = "manifest"
    /\ outputs' = IF ManifestAccepted(r, n)
                  THEN [outputs EXCEPT ![r].manifest = n] ELSE outputs
    /\ Leave(c)
    /\ UNCHANGED <<runs, events, alerts, subs, launchable, up, flows, operator>>

\* A write of the thread meets a locked database: the transaction is rolled
\* back and the error leaves launch_fixture.
CallerContention(c) ==
    /\ "contention" \in Disturbances
    /\ callers[c].pc \in {"claim", "dispatch", "mark", "manifest"}
    /\ Leave(c)
    /\ UNCHANGED <<runVars, subs, launchable, up, flows, operator>>

-----------------------------------------------------------------------------
(* Prefect flow executions (prefect_fixture_flow) *)

FlowRun(f) == subs[flows[f].key].run

FlowGoto(f, pc) == flows' = [flows EXCEPT ![f].pc = pc]

\* _validated_claim_boundary: bind before the first other mutation.  A
\* refused binding leaves the flow without touching the run's status.
FlowBind(f) ==
    /\ flows[f].pc = "bind"
    /\ BindPrefectIdentity(flows[f].key, f, "url")
    /\ FlowGoto(f, IF BindAccepted(flows[f].key, f, "url")
                   THEN "attempt" ELSE "raised")
    /\ UNCHANGED <<launchable, up, callers, operator>>

FlowAttempt(f) ==
    /\ flows[f].pc = "attempt"
    /\ runs' = [runs EXCEPT ![FlowRun(f)].attempts = @ + 1]
    /\ FlowGoto(f, "check")
    /\ UNCHANGED <<events, alerts, outputs, subs, launchable, up, callers, operator>>

\* acknowledge_fixture_cancellation reads the request.  The fixture of a
\* SPYM configuration asks twice more after computing; requests are never
\* withdrawn, so one recheck stands for both.
FlowCheckCancellation(f) ==
    /\ flows[f].pc \in {"check", "recheck"}
    /\ FlowGoto(f, IF HasEvent(FlowRun(f), "run_cancellation_requested")
                   THEN "ack_cancel"
                   ELSE IF flows[f].pc = "check" THEN "work" ELSE "persist")
    /\ UNCHANGED <<runVars, subs, launchable, up, callers, operator>>

\* acknowledge_run_cancellation; the flow then raises and stops.
FlowAcknowledgeCancellation(f) ==
    LET r == FlowRun(f) IN
    /\ flows[f].pc = "ack_cancel"
    /\ IF runs[r].status = "running"
       THEN Transition(r, "cancelled", "run_cancelled")
       ELSE UNCHANGED <<runs, events>>
    /\ FlowGoto(f, "raised")
    /\ UNCHANGED <<alerts, outputs, subs, launchable, up, callers, operator>>

\* deterministic_retry_task fails once and is retried inside the flow.
FlowRetryScheduled(f) ==
    LET r == FlowRun(f) IN
    /\ flows[f].pc = "work"
    /\ runs[r].config \notin SpymConfigs
    /\ ~HasEvent(r, "run_retry_scheduled")
    /\ LogEvent(r, "run_retry_scheduled")
    /\ UNCHANGED <<runs, alerts, outputs, subs, launchable, up, callers, flows, operator>>

\* Mutated: the result transaction is skipped.
FlowWorkMutant(f) ==
    /\ flows[f].pc = "work"
    /\ FlowGoto(f, "artifact")
    /\ UNCHANGED <<runVars, subs, launchable, up, callers, operator>>

FlowWork(f) ==
    /\ flows[f].pc = "work"
    /\ FlowGoto(f, IF runs[FlowRun(f)].config \in SpymConfigs
                   THEN "recheck" ELSE "persist")
    /\ UNCHANGED <<runVars, subs, launchable, up, callers, operator>>

\* The result row (and, for SPYM, provenance and assumptions) under
\* require_active_run_for_completion; the row's primary key is the run's.
FlowPersistResult(f) ==
    LET r == FlowRun(f) IN
    /\ flows[f].pc = "persist"
    /\ IF runs[r].status = "running" /\ outputs[r].row = None
       THEN /\ outputs' = [outputs EXCEPT ![r].row = f]
            /\ FlowGoto(f, IF runs[r].config \in SpymConfigs
                           THEN "artifact" ELSE "complete")
       ELSE /\ outputs' = outputs
            /\ FlowGoto(f, "failing")
    /\ UNCHANGED <<runs, events, alerts, subs, launchable, up, callers, operator>>

\* register_artifact: one file and one row at a time.
FlowRegisterArtifact(f) ==
    LET r == FlowRun(f) IN
    /\ flows[f].pc = "artifact"
    /\ outputs[r].artifacts < NumArtifacts
    /\ outputs' = [outputs EXCEPT ![r].artifacts = @ + 1]
    /\ FlowGoto(f, IF outputs[r].artifacts + 1 = NumArtifacts
                   THEN "manifest" ELSE "artifact")
    /\ UNCHANGED <<runs, events, alerts, subs, launchable, up, callers, operator>>

FlowPersistManifest(f) ==
    LET r == FlowRun(f) IN
    /\ flows[f].pc = "manifest"
    /\ IF ManifestAccepted(r, outputs[r].artifacts)
       THEN /\ outputs' = [outputs EXCEPT
                               ![r].manifest = outputs[r].artifacts]
            /\ FlowGoto(f, "complete")
       ELSE /\ outputs' = outputs
            /\ FlowGoto(f, "failing")
    /\ UNCHANGED <<runs, events, alerts, subs, launchable, up, callers, operator>>

\* reconcile_quant_factory_run_status reads the status first: a terminal
\* run is left alone ...
FlowReconcileRead(f) ==
    LET done == runs[FlowRun(f)].status \in Terminal IN
    /\ flows[f].pc \in {"complete", "failing"}
    /\ FlowGoto(f, IF flows[f].pc = "complete"
                   THEN IF done THEN "returned" ELSE "apply_succeeded"
                   ELSE IF done THEN "raised" ELSE "apply_failed")
    /\ UNCHANGED <<runVars, subs, launchable, up, callers, operator>>

\* ... and then applies transition and event in a transaction that checks
\* the transition again.
FlowReconcileApply(f) ==
    LET r == FlowRun(f)
        target == IF flows[f].pc = "apply_succeeded"
                  THEN "succeeded" ELSE "failed"
        event == IF target = "succeeded" THEN "run_succeeded"
                 ELSE "run_failed"
        ok == TransitionAllowed(runs[r].status, target)
    IN
    /\ flows[f].pc \in {"apply_succeeded", "apply_failed"}
    /\ IF ok THEN Transition(r, target, event) ELSE UNCHANGED <<runs, events>>
    /\ FlowGoto(f, IF target = "failed" THEN "raised"
                   ELSE IF ok THEN "returned" ELSE "failing")
    /\ UNCHANGED <<alerts, outputs, subs, launchable, up, callers, operator>>

\* Mutated: the exception handler does not reconcile the run.
FlowExceptionMutant(f) ==
    /\ "exception" \in Disturbances
    /\ flows[f].pc \in {"bind", "attempt", "check", "ack_cancel", "work",
                        "recheck", "persist", "artifact", "manifest",
                        "apply_succeeded"}
    /\ FlowGoto(f, "raised")
    /\ UNCHANGED <<runVars, subs, launchable, up, callers, operator>>

\* Any other exception (the work itself, a file, the Prefect server, the
\* database): before the binding the flow just ends; afterwards it first
\* tries to record the failure.
FlowException(f) ==
    /\ "exception" \in Disturbances
    /\ flows[f].pc \in {"bind", "attempt", "check", "ack_cancel", "work",
                        "recheck", "persist", "artifact", "manifest",
                        "apply_succeeded"}
    /\ FlowGoto(f, IF flows[f].pc = "bind" THEN "raised" ELSE "failing")
    /\ UNCHANGED <<runVars, subs, launchable, up, callers, operator>>

\* Recording the failure itself meets a locked database.
FlowFailureNotRecorded(f) ==
    /\ "contention" \in Disturbances
    /\ flows[f].pc = "apply_failed"
    /\ FlowGoto(f, "raised")
    /\ UNCHANGED <<runVars, subs, launchable, up, callers, operator>>

-----------------------------------------------------------------------------
(* The operator and the environment *)

\* reconcile_unknown_for_run reads the submission, then binds the identity
\* the operator found in Prefect, with or without an API URL.
ReconcileRead(k, f, api) ==
    /\ "reconcile" \in Disturbances
    /\ operator.pc = "idle"
    /\ subs[k].state \in {"submission_unknown", "acknowledged"}
    /\ flows[f].pc # "none"
    /\ operator' = [pc |-> "bind", key |-> k, flow |-> f, api |-> api]
    /\ UNCHANGED <<runVars, subs, launchable, up, callers, flows>>

ReconcileBind ==
    /\ operator.pc = "bind"
    /\ BindPrefectIdentity(operator.key, operator.flow, operator.api)
    /\ operator' = IdleOperator
    /\ UNCHANGED <<launchable, up, callers, flows>>

\* The two ways a submission ends without a flow, with its run failed in the
\* same transaction.
ResolveWithoutFlow(k, from, to) ==
    LET r == subs[k].run IN
    /\ subs[k].state = from
    /\ PersistedClaimValid(k, TRUE, FALSE)
    /\ subs' = [subs EXCEPT ![k].state = to]
    /\ Transition(r, "failed", "run_failed")
    /\ UNCHANGED <<alerts, outputs, launchable, up, callers, flows, operator>>

AbandonUnknown(k) ==
    ResolveWithoutFlow(k, "submission_unknown", "abandoned")

FailBeforeSubmission(k) ==
    ResolveWithoutFlow(k, "claimed", "failed_before_submission")

\* Mutated: recovery by age alone, without the exit barrier.
RecoverInvokingMutant(k, departed) ==
    /\ subs[k].state = "invoking"
    /\ subs' = [subs EXCEPT ![k].state = "submission_unknown",
                            ![k].evidence = TRUE]
    /\ UNCHANGED <<runVars, launchable, up, callers, flows, operator>>

\* recover_invoking_after_process_exit: the caller proves that the recorded
\* process generation is gone.
RecoverInvokingAfterProcessExit(k, departed) ==
    /\ departed \notin up
    /\ subs[k].state = "invoking"
    /\ subs[k].dispatcher = departed
    /\ subs' = [subs EXCEPT ![k].state = "submission_unknown",
                            ![k].evidence = TRUE]
    /\ UNCHANGED <<runVars, launchable, up, callers, flows, operator>>

\* request_fixture_cancellation: only for an acknowledged submission, whose
\* state never changes again, and only while the run is running.
RequestCancellation(k) ==
    LET r == subs[k].run IN
    /\ "cancel" \in Disturbances
    /\ subs[k].state = "acknowledged"
    /\ runs[r].status = "running"
    /\ ~HasEvent(r, "run_cancellation_requested")
    /\ LogEvent(r, "run_cancellation_requested")
    /\ UNCHANGED <<runs, alerts, outputs, subs, launchable, up, callers, flows, operator>>

\* A strategy registration activates or deactivates the configuration.
SetLaunchable(g) ==
    /\ "toggle" \in Disturbances
    /\ launchable' = IF g \in launchable THEN launchable \ {g}
                     ELSE launchable \cup {g}
    /\ UNCHANGED <<runVars, subs, up, callers, flows, operator>>

\* A process dies: its threads and the flows that run in it stop where they
\* are, and what they committed stays.
Crash(d) ==
    /\ "crash" \in Disturbances
    /\ d \in up
    /\ up' = up \ {d}
    /\ callers' = [c \in Callers |->
                    IF ProcessOf[c] = d
                    THEN [IdleCaller EXCEPT !.pc = "dead"] ELSE callers[c]]
    /\ flows' = [f \in Flows |->
                    IF flows[f].proc = d /\ flows[f].pc \notin FlowEnded
                    THEN [flows[f] EXCEPT !.pc = "killed"] ELSE flows[f]]
    /\ UNCHANGED <<runVars, subs, launchable, operator>>

-----------------------------------------------------------------------------
Init ==
    /\ runs = [r \in Runs |-> NoRun]
    /\ events = [r \in Runs |-> <<>>]
    /\ alerts = [r \in Runs |-> {}]
    /\ outputs = [r \in Runs |-> NoOutput]
    /\ subs = [k \in Keys |-> NoSub]
    /\ launchable = Configs
    /\ up = Dispatchers
    /\ callers = [c \in Callers |-> IdleCaller]
    /\ flows = [f \in Flows |-> [pc |-> "none", key |-> None, proc |-> None]]
    /\ operator = IdleOperator

CallerStep(c) ==
    \/ ClaimReplay(c) \/ ClaimNew(c) \/ ClaimRefused(c)
    \/ Prepare(c) \/ BeginDispatch(c)
    \/ \E f \in Flows : Invoke(c, f)
    \/ InvokeRaises(c) \/ InvocationEnds(c) \/ LaunchTimesOut(c)
    \/ VerifyAcknowledged(c) \/ MarkInvocationUnknown(c)
    \/ BuildManifest(c) \/ PersistReproductionManifest(c)
    \/ CallerContention(c)

FlowStep(f) ==
    \/ FlowBind(f) \/ FlowAttempt(f) \/ FlowCheckCancellation(f)
    \/ FlowAcknowledgeCancellation(f) \/ FlowRetryScheduled(f) \/ FlowWork(f)
    \/ FlowPersistResult(f) \/ FlowRegisterArtifact(f)
    \/ FlowPersistManifest(f) \/ FlowReconcileRead(f)
    \/ FlowReconcileApply(f) \/ FlowException(f) \/ FlowFailureNotRecorded(f)

OperatorStep ==
    \/ \E k \in Keys, f \in Flows, api \in ApiUrls : ReconcileRead(k, f, api)
    \/ ReconcileBind
    \/ \E k \in Keys : AbandonUnknown(k) \/ FailBeforeSubmission(k)
                       \/ RequestCancellation(k)
    \/ \E k \in Keys, d \in Dispatchers :
          RecoverInvokingAfterProcessExit(k, d)
    \/ \E g \in Configs : SetLaunchable(g)

Next ==
    \/ \E c \in Callers, k \in Keys, q \in Requests : Launch(c, k, q)
    \/ \E c \in Callers : CallerStep(c)
    \/ \E f \in Flows : FlowStep(f)
    \/ OperatorStep
    \/ \E d \in Dispatchers : Crash(d)

Spec == Init /\ [][Next]_vars

-----------------------------------------------------------------------------
(* Properties *)

TypeOK ==
    /\ runs \in [Runs -> RunRecord]
    /\ events \in [Runs -> Seq(Events)]
    /\ alerts \in [Runs -> SUBSET Alerts]
    /\ outputs \in [Runs -> OutputRecord]
    /\ subs \in [Keys -> SubRecord]
    /\ launchable \in SUBSET Configs
    /\ up \in SUBSET Dispatchers
    /\ callers \in [Callers -> CallerRecord]
    /\ flows \in [Flows -> FlowRecord]
    /\ operator \in OperatorRecord

\* A key is invoked at most once, whatever replays, crashes and recoveries
\* happen: at most one flow ever carries it, and a thread about to invoke it
\* is the only one (begin_dispatch's compare-and-set, never undone).
OneInvocationPerKey ==
    /\ \A f, g \in Flows :
          flows[f].key # None /\ flows[f].key = flows[g].key => f = g
    /\ \A b, c \in Callers :
          callers[b].pc = "invoke" /\ callers[c].pc = "invoke"
             /\ callers[b].key = callers[c].key => b = c
    /\ \A c \in Callers, f \in Flows :
          callers[c].pc = "invoke" => flows[f].key # callers[c].key
    /\ \A r \in Runs : runs[r].attempts <= 1

\* The submission's state and its run's status, kept in two tables by
\* different transactions, never contradict each other.
StatusFollowsSubmission ==
    \A k \in Keys :
        LET status == runs[subs[k].run].status IN
        CASE subs[k].state = "none" -> TRUE
          [] subs[k].state \in {"claimed", "invoking", "submission_unknown"} ->
                status = "created"
          [] subs[k].state = "acknowledged" ->
                status \in {"running"} \cup Terminal
          [] OTHER -> status = "failed"

\* Completion output was written by the very flow the submission and the
\* run's environment name; an abandoned, failed or unresolved submission's
\* run has none, however late its flow wakes up.
ResultIsAttributable ==
    \A r \in Runs :
        outputs[r].row # None =>
            /\ outputs[r].row = runs[r].env
            /\ \E k \in Keys :
                  /\ subs[k].run = r
                  /\ subs[k].state = "acknowledged"
                  /\ subs[k].flow = outputs[r].row

StatusOf(e) ==
    CASE e = "run_succeeded" -> "succeeded"
      [] e = "run_failed" -> "failed"
      [] e = "run_cancelled" -> "cancelled"

\* The operator's event log ends with exactly one terminal event when the
\* run is terminal, of the run's own status, and has none before that.
EventLogTellsStatus ==
    \A r \in Runs :
        LET log == events[r] IN
        /\ runs[r].status \in Terminal =>
              /\ log # <<>>
              /\ log[Len(log)] \in TerminalEvents
        /\ \A i \in 1..Len(log) :
              log[i] \in TerminalEvents =>
                 i = Len(log) /\ runs[r].status = StatusOf(log[i])

\* A succeeded run has its output and, for SPYM, the manifest of all its
\* artifacts, even when a replayed reproduction wrote a manifest meanwhile.
SucceededIsComplete ==
    \A r \in Runs :
        runs[r].status = "succeeded" =>
            /\ outputs[r].row # None
            /\ runs[r].config \in SpymConfigs =>
                  outputs[r].manifest = NumArtifacts

\* One Prefect identity is bound to one submission and recorded in that
\* submission's run, whoever bound it: the flow or an operator.
BindingIsUnique ==
    \A k \in Keys :
        subs[k].state = "acknowledged" =>
            /\ subs[k].flow # None
            /\ runs[subs[k].run].env = subs[k].flow
            /\ \A j \in Keys : subs[j].flow = subs[k].flow => j = k

\* An acknowledged flow is the one and only that a submission, its run and its output name:
\* both of the above (bind_prefect_identity, require_active_run_for_completion).
IdentityIsOne == BindingIsUnique /\ ResultIsAttributable

\* A reproduction's source is, for good, a succeeded run with its manifest,
\* so _validate_persisted_claim never turns against a recorded claim.
ReproductionSourceHolds ==
    \A k \in Keys :
        subs[k].state # "none" /\ subs[k].req.op = "reproduction" =>
            LET source == subs[k].req.source IN
            /\ runs[source].status = "succeeded"
            /\ runs[source].config = runs[subs[k].run].config
            /\ outputs[source].manifest # NoManifest

\* A succeeded run can be reproduced and a reproduction rests on one that succeeded: both of
\* the above (persist_run_manifest, _derive_source_lineage).
ReproductionsRestOnCompleteRuns == SucceededIsComplete /\ ReproductionSourceHolds

\* Exit evidence is final: no flow of a recovered submission can still run,
\* so only an operator may acknowledge it.
ExitEvidenceIsFinal ==
    \A k \in Keys :
        subs[k].evidence =>
            /\ subs[k].dispatcher \notin up
            /\ \A f \in Flows :
                  flows[f].key = k => flows[f].pc \in FlowEnded

\* How a run ended is final: both of the above, of the event log and of the evidence that
\* a process exited (transition_run_with_operator_event, recover_invoking_after_process_exit).
EndingsAreFinal == EventLogTellsStatus /\ ExitEvidenceIsFinal

\* A persisted manifest's immutable content is never replaced, although the
\* flow and any number of replayed reproductions try to write it.
ManifestIsImmutable ==
    [][\A r \in Runs : outputs[r].manifest # NoManifest =>
          outputs'[r].manifest = outputs[r].manifest]_vars

\* The launch implements the run lifecycle.
Lifecycle == INSTANCE RunLifecycle WITH
    status <- [r \in Runs |-> runs[r].status],
    hasResult <- [r \in Runs |-> outputs[r].row # None],
    cancelAsked <- [r \in Runs |->
                      HasEvent(r, "run_cancellation_requested")]

\* Every status change, result and cancellation of a run, by whichever
\* thread, flow or operator, is a step RunLifecycle allows.
ImplementsRunLifecycle == Lifecycle!Spec

-----------------------------------------------------------------------------
(* The inductive invariant behind OneInvocationPerKey and                  *)
(* StatusFollowsSubmission                                                 *)

\* Locals are set while they are used, and records refer to what exists.
LocalsAreSet ==
    /\ \A c \in Callers :
          /\ callers[c].pc \notin {"idle", "dead"} =>
                callers[c].key \in Keys /\ callers[c].req \in Requests
          /\ callers[c].pc \notin {"idle", "dead", "claim"} =>
                subs[callers[c].key].state # "none"
          /\ callers[c].pc # "dead" => ProcessOf[c] \in up
    /\ \A f \in Flows :
          IF flows[f].pc = "none"
          THEN flows[f].key = None /\ flows[f].proc = None
          ELSE flows[f].key \in Keys
    /\ operator.pc = "bind" =>
          /\ operator.key \in Keys /\ operator.flow \in Flows
          /\ subs[operator.key].state \notin {"none", "claimed", "invoking"}

\* A recorded submission owns one run, and no two share it.
RunsAreOwned ==
    /\ \A k \in Keys :
          IF subs[k].state = "none" THEN subs[k].run = None
          ELSE subs[k].run \in Runs /\ subs[k].req \in Requests
    /\ \A j, k \in Keys :
          subs[j].run = subs[k].run /\ subs[k].run # None => j = k

\* A thread between begin_dispatch and its return holds the marker alone.
DispatchPcs == {"invoke", "wait", "verify", "mark"}

MarkerIsHeld ==
    /\ \A c \in Callers :
          callers[c].pc \in DispatchPcs =>
             /\ subs[callers[c].key].state # "claimed"
             /\ subs[callers[c].key].dispatcher = ProcessOf[c]
             /\ callers[c].pc = "invoke" =>
                   subs[callers[c].key].state = "invoking"
    /\ \A b, c \in Callers :
          callers[b].pc \in DispatchPcs /\ callers[c].pc \in DispatchPcs
             /\ callers[b].key = callers[c].key => b = c

\* A flow that got through the binding works for an acknowledged
\* submission, and only such a flow has counted an attempt.
FlowsAreBound ==
    \A f \in Flows :
        /\ flows[f].pc # "none" =>
              subs[flows[f].key].state \notin {"none", "claimed"}
        /\ flows[f].pc \notin {"none", "bind"} \cup FlowEnded =>
              subs[flows[f].key].state = "acknowledged"

AttemptsAreCounted ==
    /\ \A r \in Runs : runs[r].status = "absent" => runs[r].attempts = 0
    /\ \A k \in Keys :
          /\ subs[k].state # "none"
          /\ \A f \in Flows : flows[f].key = k =>
                                flows[f].pc \in {"bind", "attempt"}
          => runs[subs[k].run].attempts = 0

\* Together with the two properties it supports, preserved by every step.
LaunchInv ==
    /\ TypeOK
    /\ LocalsAreSet
    /\ RunsAreOwned
    /\ StatusFollowsSubmission
    /\ FlowsAreBound
    /\ MarkerIsHeld
    /\ OneInvocationPerKey
    /\ AttemptsAreCounted

-----------------------------------------------------------------------------
(* Liveness *)

\* Threads and flows of a live process keep running; operators, crashes and
\* new launches are never owed.
Fairness ==
    /\ \A c \in Callers : WF_vars(CallerStep(c))
    /\ \A f \in Flows : WF_vars(FlowStep(f))

FairSpec == Spec /\ Fairness

\* Unless its process dies, an invocation is acknowledged or declared
\* unknown: it does not stay invoking.
InvocationIsSettled ==
    \A k \in Keys :
        subs[k].state = "invoking" ~>
            \/ subs[k].state # "invoking"
            \/ subs[k].dispatcher \notin up

\* A run whose flow got through the binding ends, unless the process dies.
BoundFlowFinishesItsRun ==
    \A f \in Flows :
        flows[f].pc = "attempt" ~>
            \/ flows[f].pc = "killed"
            \/ flows[f].key # None /\ runs[FlowRun(f)].status \in Terminal

\* Every launch comes to an end: both of the above.
LaunchesSettle == InvocationIsSettled /\ BoundFlowFinishesItsRun

=============================================================================
