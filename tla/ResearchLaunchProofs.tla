------------------------ MODULE ResearchLaunchProofs ------------------------
(***************************************************************************)
(* Proofs about the durable research launch, for every set of keys, runs,  *)
(* threads, processes and flows and every choice of disturbances: first    *)
(* that a key is invoked once, then how a launch ends.                     *)
(***************************************************************************)
EXTENDS ResearchLaunch, TLAPS

-----------------------------------------------------------------------------
(* Type correctness *)

LEMMA InitTyped == Init => TypeOK
<1> SUFFICES ASSUME Init PROVE TypeOK
  OBVIOUS
<1>1. NoRun \in RunRecord /\ NoOutput \in OutputRecord
  BY ConstantsAssumption
     DEF NoRun, RunRecord, RunStatus, NoOutput, OutputRecord, Manifests,
         NoManifest
<1>2. NoSub \in SubRecord
  BY DEF NoSub, SubRecord, SubmissionState, ApiUrls
<1>3. IdleCaller \in CallerRecord
  BY DEF IdleCaller, CallerRecord, CallerPc, Manifests, NoManifest
<1>4. IdleOperator \in OperatorRecord
  BY DEF IdleOperator, OperatorRecord, ApiUrls
<1>5. [pc |-> "none", key |-> None, proc |-> None] \in FlowRecord
  BY DEF FlowRecord, FlowPc
<1> QED
  BY <1>1, <1>2, <1>3, <1>4, <1>5 DEF Init, TypeOK

\* A thread's move keeps the threads well-typed.
LEMMA GotoTyped ==
    ASSUME TypeOK, NEW c \in Callers, NEW pc \in CallerPc, Goto(c, pc)
    PROVE  callers' \in [Callers -> CallerRecord]
BY DEF TypeOK, Goto, CallerRecord

LEMMA LeaveTyped ==
    ASSUME TypeOK, NEW c \in Callers, Leave(c)
    PROVE  callers' \in [Callers -> CallerRecord]
BY DEF TypeOK, Leave, IdleCaller, CallerRecord, CallerPc, Manifests,
       NoManifest

LEMMA ReturnTyped ==
    ASSUME TypeOK, NEW c \in Callers, ReturnResult(c)
    PROVE  callers' \in [Callers -> CallerRecord]
BY GotoTyped, LeaveTyped DEF ReturnResult, CallerPc

LEMMA FlowGotoTyped ==
    ASSUME TypeOK, NEW f \in Flows, NEW pc \in FlowPc, FlowGoto(f, pc)
    PROVE  flows' \in [Flows -> FlowRecord]
BY DEF TypeOK, FlowGoto, FlowRecord

LEMMA LogEventTyped ==
    ASSUME TypeOK, NEW r, NEW e \in Events, LogEvent(r, e)
    PROVE  events' \in [Runs -> Seq(Events)]
<1>1. \A x \in Runs : Append(events[x], e) \in Seq(Events)
  BY DEF TypeOK
<1> QED
  BY <1>1 DEF TypeOK, LogEvent

LEMMA TransitionTyped ==
    ASSUME TypeOK, NEW r, NEW s \in RunStatus, NEW e \in Events,
           Transition(r, s, e)
    PROVE  /\ runs' \in [Runs -> RunRecord]
           /\ events' \in [Runs -> Seq(Events)]
BY LogEventTyped DEF TypeOK, Transition, RunRecord

\* Moves of a run's record; r need not be a run.
LEMMA RunTyped ==
    ASSUME NEW table \in [Runs -> RunRecord], NEW r, NEW s \in RunStatus
    PROVE  /\ [table EXCEPT ![r].status = s] \in [Runs -> RunRecord]
           /\ \A f \in Flows :
                 [table EXCEPT ![r].env = f, ![r].status = s]
                    \in [Runs -> RunRecord]
           /\ \A g \in Configs :
                 [table EXCEPT ![r].status = s, ![r].config = g]
                    \in [Runs -> RunRecord]
           /\ [table EXCEPT ![r].attempts = @ + 1] \in [Runs -> RunRecord]
<1>1. CASE r \notin Runs
  BY <1>1
<1>2. CASE r \in Runs
  <2>1. [table EXCEPT ![r].status = s] \in [Runs -> RunRecord]
    BY <1>2 DEF RunRecord
  <2>2. ASSUME NEW f \in Flows
        PROVE  [table EXCEPT ![r].env = f, ![r].status = s]
                  \in [Runs -> RunRecord]
    BY <1>2 DEF RunRecord
  <2>3. ASSUME NEW g \in Configs
        PROVE  [table EXCEPT ![r].status = s, ![r].config = g]
                  \in [Runs -> RunRecord]
    BY <1>2 DEF RunRecord
  <2>4. [table EXCEPT ![r].attempts = @ + 1] \in [Runs -> RunRecord]
    BY <1>2 DEF RunRecord
  <2> QED
    BY <2>1, <2>2, <2>3, <2>4
<1> QED
  BY <1>1, <1>2

LEMMA OutputTyped ==
    ASSUME NEW table \in [Runs -> OutputRecord], NEW r
    PROVE  /\ \A f \in Flows :
                 [table EXCEPT ![r].row = f] \in [Runs -> OutputRecord]
           /\ \A n \in Manifests :
                 [table EXCEPT ![r].manifest = n] \in [Runs -> OutputRecord]
BY DEF OutputRecord

LEMMA BindTyped ==
    ASSUME TypeOK, NEW k \in Keys, NEW f \in Flows, NEW api \in ApiUrls,
           BindPrefectIdentity(k, f, api)
    PROVE  /\ runs' \in [Runs -> RunRecord]
           /\ events' \in [Runs -> Seq(Events)]
           /\ alerts' \in [Runs -> SUBSET Alerts]
           /\ outputs' \in [Runs -> OutputRecord]
           /\ subs' \in [Keys -> SubRecord]
<1> DEFINE r == subs[k].run
           outcome == BindOutcome(k, f, api)
<1>1. outcome \in {"bound", "replayed"} \cup Alerts
  BY DEF BindOutcome, Alerts
<1>2. CASE outcome = "bound"
  <2>1. /\ subs' = [subs EXCEPT ![k].state = "acknowledged",
                                ![k].flow = f, ![k].api = api]
        /\ runs' = [runs EXCEPT ![r].env = f, ![r].status = "running"]
        /\ LogEvent(r, "run_started")
        /\ UNCHANGED <<alerts, outputs>>
    BY <1>2 DEF BindPrefectIdentity
  <2>2. subs' \in [Keys -> SubRecord]
    <3>1. subs \in [Keys -> SubRecord] /\ "acknowledged" \in SubmissionState
      BY DEF TypeOK, SubmissionState
    <3>2. [subs EXCEPT ![k].state = "acknowledged", ![k].flow = f,
                       ![k].api = api] \in [Keys -> SubRecord]
      BY <3>1 DEF SubRecord
    <3> QED
      BY <2>1, <3>2
  <2>3. runs' \in [Runs -> RunRecord]
    BY <2>1, RunTyped DEF TypeOK, RunStatus
  <2>4. events' \in [Runs -> Seq(Events)]
    BY <2>1, LogEventTyped DEF Events
  <2> QED
    BY <2>1, <2>2, <2>3, <2>4 DEF TypeOK
<1>3. CASE outcome # "bound"
  <2>1. /\ alerts' = IF outcome = "replayed" THEN alerts
                     ELSE [alerts EXCEPT ![r] = @ \cup {outcome}]
        /\ UNCHANGED <<subs, runs, events, outputs>>
    BY <1>3 DEF BindPrefectIdentity
  <2> HIDE DEF outcome
  <2> QED
    BY <1>1, <1>3, <2>1 DEF TypeOK
<1> QED
  BY <1>2, <1>3

LEMMA LaunchTyped ==
    ASSUME TypeOK, NEW c \in Callers, NEW k \in Keys, NEW q \in Requests,
           Launch(c, k, q)
    PROVE  TypeOK'
<1>1. callers' = [callers EXCEPT ![c].pc = "claim", ![c].key = k, ![c].req = q]
  BY DEF Launch
<1>2. callers \in [Callers -> CallerRecord] /\ "claim" \in CallerPc
  BY DEF TypeOK, CallerPc
<1>3. callers' \in [Callers -> CallerRecord]
  BY <1>1, <1>2 DEF CallerRecord
<1> QED
  BY <1>3 DEF Launch, TypeOK, runVars

\* Steps of a thread that only move its program counter.
LEMMA CallerMoveTyped ==
    ASSUME TypeOK, NEW c \in Callers,
           \/ ClaimReplay(c) \/ ClaimRefused(c) \/ Prepare(c)
           \/ InvokeRaises(c) \/ InvocationEnds(c) \/ LaunchTimesOut(c)
           \/ VerifyAcknowledged(c) \/ CallerContention(c)
    PROVE  TypeOK'
<1>1. callers' \in [Callers -> CallerRecord]
  <2>1. \/ Leave(c)
        \/ ReturnResult(c)
        \/ \E pc \in CallerPc : Goto(c, pc)
    BY DEF ClaimReplay, ClaimRefused, Prepare, InvokeRaises, InvocationEnds,
           LaunchTimesOut, VerifyAcknowledged, CallerContention, CallerPc
  <2> QED
    BY <2>1, LeaveTyped, ReturnTyped, GotoTyped
<1>2. UNCHANGED <<runVars, subs, launchable, up, flows, operator>>
  BY DEF ClaimReplay, ClaimRefused, Prepare, InvokeRaises, InvocationEnds,
         LaunchTimesOut, VerifyAcknowledged, CallerContention
<1> QED
  BY <1>1, <1>2 DEF TypeOK, runVars

LEMMA ClaimNewTyped ==
    ASSUME TypeOK, NEW c \in Callers, callers[c].key \in Keys,
           callers[c].req \in Requests, ClaimNew(c)
    PROVE  TypeOK'
<1> DEFINE k == callers[c].key
           q == callers[c].req
<1>1. PICK r \in Runs :
        /\ runs' = [runs EXCEPT ![r].status = "created",
                                ![r].config = q.config]
        /\ LogEvent(r, "run_created")
        /\ subs' = [subs EXCEPT ![k].state = "claimed", ![k].run = r,
                                ![k].req = q]
  BY DEF ClaimNew
<1>2. callers' \in [Callers -> CallerRecord]
  BY GotoTyped DEF ClaimNew, CallerPc
<1>3. runs' \in [Runs -> RunRecord]
  <2>1. "created" \in RunStatus /\ q.config \in Configs
    BY DEF RunStatus, Requests
  <2> QED
    BY <1>1, <2>1, RunTyped DEF TypeOK
<1>4. events' \in [Runs -> Seq(Events)]
  BY <1>1, LogEventTyped DEF Events
<1>5. subs' \in [Keys -> SubRecord]
  <2>1. subs \in [Keys -> SubRecord] /\ "claimed" \in SubmissionState
    BY DEF TypeOK, SubmissionState
  <2>2. k \in Keys /\ q \in Requests
    OBVIOUS
  <2> HIDE DEF k, q
  <2>3. [subs EXCEPT ![k].state = "claimed", ![k].run = r, ![k].req = q]
           \in [Keys -> SubRecord]
    BY <2>1, <2>2 DEF SubRecord
  <2> QED
    BY <1>1, <2>3
<1> QED
  BY <1>2, <1>3, <1>4, <1>5 DEF ClaimNew, TypeOK

LEMMA DispatchTyped ==
    ASSUME TypeOK, NEW c \in Callers,
           BeginDispatch(c) \/ MarkInvocationUnknown(c)
    PROVE  TypeOK'
<1> DEFINE k == callers[c].key
<1>1. callers' \in [Callers -> CallerRecord]
  BY GotoTyped, LeaveTyped, ReturnTyped
     DEF BeginDispatch, MarkInvocationUnknown, CallerPc
<1>2. subs' \in [Keys -> SubRecord]
  <2>1. \/ subs' = subs
        \/ subs' = [subs EXCEPT ![k].state = "invoking",
                                ![k].dispatcher = ProcessOf[c]]
        \/ subs' = [subs EXCEPT ![k].state = "submission_unknown"]
    BY DEF BeginDispatch, MarkInvocationUnknown
  <2>2. /\ subs \in [Keys -> SubRecord]
        /\ {"invoking", "submission_unknown"} \subseteq SubmissionState
        /\ ProcessOf[c] \in Dispatchers
    BY ConstantsAssumption DEF TypeOK, SubmissionState
  <2> HIDE DEF k
  <2> QED
    BY <2>1, <2>2 DEF SubRecord
<1> QED
  BY <1>1, <1>2 DEF BeginDispatch, MarkInvocationUnknown, TypeOK, runVars

LEMMA InvokeTyped ==
    ASSUME TypeOK, NEW c \in Callers, NEW f \in Flows, callers[c].key \in Keys,
           Invoke(c, f)
    PROVE  TypeOK'
<1>1. [pc |-> "bind", key |-> callers[c].key, proc |-> ProcessOf[c]]
         \in FlowRecord
  BY ConstantsAssumption DEF FlowRecord, FlowPc
<1>2. flows' \in [Flows -> FlowRecord]
  BY <1>1 DEF Invoke, TypeOK
<1>3. callers' \in [Callers -> CallerRecord]
  <2>1. callers \in [Callers -> CallerRecord] /\ "wait" \in CallerPc
    BY DEF TypeOK, CallerPc
  <2> QED
    BY <2>1 DEF Invoke, CallerRecord
<1> QED
  BY <1>2, <1>3 DEF Invoke, TypeOK, runVars

LEMMA ReproductionManifestTyped ==
    ASSUME TypeOK, NEW c \in Callers, subs[callers[c].key].run \in Runs,
           BuildManifest(c) \/ PersistReproductionManifest(c)
    PROVE  TypeOK'
<1> DEFINE r == subs[callers[c].key].run
<1>1. CASE BuildManifest(c)
  <2>1. /\ \/ callers' = [callers EXCEPT ![c].pc = "manifest",
                                        ![c].built = outputs[r].artifacts]
           \/ Leave(c)
        /\ UNCHANGED <<runVars, subs, launchable, up, flows, operator>>
    BY <1>1 DEF BuildManifest
  <2>2. /\ callers \in [Callers -> CallerRecord] /\ "manifest" \in CallerPc
        /\ outputs[r].artifacts \in Manifests
    BY DEF TypeOK, CallerPc, OutputRecord, Manifests
  <2> HIDE DEF r
  <2>3. callers' \in [Callers -> CallerRecord]
    BY <2>1, <2>2, LeaveTyped DEF CallerRecord
  <2> QED
    BY <2>1, <2>3 DEF TypeOK, runVars
<1>2. CASE PersistReproductionManifest(c)
  <2>1. callers[c].built \in Manifests
    BY DEF TypeOK, CallerRecord
  <2>2. outputs' \in [Runs -> OutputRecord]
    BY <1>2, <2>1, OutputTyped DEF PersistReproductionManifest, TypeOK
  <2>3. callers' \in [Callers -> CallerRecord]
    BY <1>2, LeaveTyped DEF PersistReproductionManifest
  <2> QED
    BY <1>2, <2>2, <2>3 DEF PersistReproductionManifest, TypeOK
<1> QED
  BY <1>1, <1>2

\* Steps of a flow that only move its program counter.
LEMMA FlowMoveTyped ==
    ASSUME TypeOK, NEW f \in Flows,
           \/ FlowCheckCancellation(f) \/ FlowWork(f) \/ FlowReconcileRead(f)
           \/ FlowException(f) \/ FlowFailureNotRecorded(f)
    PROVE  TypeOK'
<1>1. PICK pc \in FlowPc : FlowGoto(f, pc)
  BY DEF FlowCheckCancellation, FlowWork, FlowReconcileRead, FlowException,
         FlowFailureNotRecorded, FlowPc
<1>2. UNCHANGED <<runVars, subs, launchable, up, callers, operator>>
  BY DEF FlowCheckCancellation, FlowWork, FlowReconcileRead, FlowException,
         FlowFailureNotRecorded
<1> QED
  BY <1>1, <1>2, FlowGotoTyped DEF TypeOK, runVars

LEMMA FlowBindTyped ==
    ASSUME TypeOK, NEW f \in Flows, flows[f].key \in Keys, FlowBind(f)
    PROVE  TypeOK'
<1>1. PICK pc \in FlowPc : FlowGoto(f, pc)
  BY DEF FlowBind, FlowPc
<1>2. "url" \in ApiUrls /\ BindPrefectIdentity(flows[f].key, f, "url")
  BY DEF FlowBind, ApiUrls
<1> QED
  BY <1>1, <1>2, FlowGotoTyped, BindTyped DEF FlowBind, TypeOK

\* Steps of a flow that change its run's status, attempts or events.
LEMMA FlowRunTyped ==
    ASSUME TypeOK, NEW f \in Flows,
           \/ FlowAttempt(f) \/ FlowAcknowledgeCancellation(f)
           \/ FlowRetryScheduled(f) \/ FlowReconcileApply(f)
    PROVE  TypeOK'
<1> DEFINE r == FlowRun(f)
<1>1. flows' \in [Flows -> FlowRecord]
  <2>1. flows' = flows \/ \E pc \in FlowPc : FlowGoto(f, pc)
    BY DEF FlowAttempt, FlowAcknowledgeCancellation, FlowRetryScheduled,
           FlowReconcileApply, FlowPc
  <2> QED
    BY <2>1, FlowGotoTyped DEF TypeOK
<1>2. /\ runs' \in [Runs -> RunRecord]
      /\ events' \in [Runs -> Seq(Events)]
  <2>1. CASE FlowAttempt(f)
    BY <2>1, RunTyped DEF FlowAttempt, TypeOK, RunStatus
  <2>2. CASE FlowAcknowledgeCancellation(f)
    BY <2>2, TransitionTyped
       DEF FlowAcknowledgeCancellation, TypeOK, RunStatus, Terminal, Events
  <2>3. CASE FlowRetryScheduled(f)
    BY <2>3, LogEventTyped DEF FlowRetryScheduled, TypeOK, Events
  <2>4. CASE FlowReconcileApply(f)
    BY <2>4, TransitionTyped
       DEF FlowReconcileApply, TypeOK, RunStatus, Terminal, Events
  <2> QED
    BY <2>1, <2>2, <2>3, <2>4
<1>3. UNCHANGED <<alerts, outputs, subs, launchable, up, callers, operator>>
  BY DEF FlowAttempt, FlowAcknowledgeCancellation, FlowRetryScheduled,
         FlowReconcileApply
<1> QED
  BY <1>1, <1>2, <1>3 DEF TypeOK

\* Steps of a flow that write its run's output.
LEMMA FlowOutputTyped ==
    ASSUME TypeOK, NEW f \in Flows,
           \/ FlowPersistResult(f) \/ FlowRegisterArtifact(f)
           \/ FlowPersistManifest(f)
    PROVE  TypeOK'
<1> DEFINE r == FlowRun(f)
<1>1. PICK pc \in FlowPc : FlowGoto(f, pc)
  BY DEF FlowPersistResult, FlowRegisterArtifact, FlowPersistManifest, FlowPc
<1>2. \/ outputs' = outputs
      \/ outputs' = [outputs EXCEPT ![r].row = f]
      \/ /\ outputs[r].artifacts < NumArtifacts
         /\ outputs' = [outputs EXCEPT ![r].artifacts = @ + 1]
      \/ outputs' = [outputs EXCEPT ![r].manifest = outputs[r].artifacts]
  BY DEF FlowPersistResult, FlowRegisterArtifact, FlowPersistManifest
<1>3. outputs' \in [Runs -> OutputRecord]
  <2>1. CASE r \notin Runs
    BY <1>2, <2>1 DEF TypeOK
  <2>2. CASE r \in Runs
    <3>1. /\ outputs \in [Runs -> OutputRecord]
          /\ outputs[r].artifacts \in 0..NumArtifacts
          /\ outputs[r].artifacts \in Manifests
          /\ outputs[r].artifacts < NumArtifacts =>
                outputs[r].artifacts + 1 \in 0..NumArtifacts
      BY <2>2, ConstantsAssumption DEF TypeOK, OutputRecord, Manifests
    <3> HIDE DEF r
    <3>2. outputs[r].artifacts < NumArtifacts =>
             [outputs EXCEPT ![r].artifacts = @ + 1] \in [Runs -> OutputRecord]
      BY <2>2, <3>1 DEF OutputRecord
    <3> QED
      BY <1>2, <3>1, <3>2, OutputTyped
  <2> QED
    BY <2>1, <2>2
<1>4. UNCHANGED <<runs, events, alerts, subs, launchable, up, callers, operator>>
  BY DEF FlowPersistResult, FlowRegisterArtifact, FlowPersistManifest
<1> QED
  BY <1>1, <1>3, <1>4, FlowGotoTyped DEF TypeOK

LEMMA OperatorTyped ==
    ASSUME TypeOK, LocalsAreSet, OperatorStep
    PROVE  TypeOK'
<1>1. ASSUME NEW k \in Keys, NEW f \in Flows, NEW api \in ApiUrls,
             ReconcileRead(k, f, api)
      PROVE  TypeOK'
  BY <1>1 DEF ReconcileRead, TypeOK, OperatorRecord, runVars
<1>2. CASE ReconcileBind
  <2>1. /\ operator.key \in Keys /\ operator.flow \in Flows
        /\ operator.api \in ApiUrls
        /\ IdleOperator \in OperatorRecord
    BY <1>2 DEF ReconcileBind, LocalsAreSet, TypeOK, OperatorRecord,
                IdleOperator, ApiUrls
  <2>2. BindPrefectIdentity(operator.key, operator.flow, operator.api)
    BY <1>2 DEF ReconcileBind
  <2> QED
    BY <1>2, <2>1, <2>2, BindTyped DEF ReconcileBind, TypeOK
<1>3. ASSUME NEW k \in Keys, AbandonUnknown(k) \/ FailBeforeSubmission(k)
      PROVE  TypeOK'
  <2>1. PICK to \in SubmissionState :
          /\ subs' = [subs EXCEPT ![k].state = to]
          /\ Transition(subs[k].run, "failed", "run_failed")
          /\ UNCHANGED <<alerts, outputs, launchable, up, callers, flows,
                         operator>>
    BY <1>3 DEF AbandonUnknown, FailBeforeSubmission, ResolveWithoutFlow,
                SubmissionState
  <2>2. subs' \in [Keys -> SubRecord]
    BY <2>1 DEF TypeOK, SubRecord
  <2>3. runs' \in [Runs -> RunRecord] /\ events' \in [Runs -> Seq(Events)]
    BY <2>1, TransitionTyped DEF RunStatus, Terminal, Events
  <2> QED
    BY <2>1, <2>2, <2>3 DEF TypeOK
<1>4. ASSUME NEW k \in Keys, RequestCancellation(k)
      PROVE  TypeOK'
  <2>1. events' \in [Runs -> Seq(Events)]
    BY <1>4, LogEventTyped DEF RequestCancellation, Events
  <2> QED
    BY <1>4, <2>1 DEF RequestCancellation, TypeOK
<1>5. ASSUME NEW k \in Keys, NEW d \in Dispatchers,
             RecoverInvokingAfterProcessExit(k, d)
      PROVE  TypeOK'
  <2>1. subs \in [Keys -> SubRecord] /\ "submission_unknown" \in SubmissionState
    BY DEF TypeOK, SubmissionState
  <2>2. [subs EXCEPT ![k].state = "submission_unknown", ![k].evidence = TRUE]
           \in [Keys -> SubRecord]
    BY <2>1 DEF SubRecord
  <2> QED
    BY <1>5, <2>2 DEF RecoverInvokingAfterProcessExit, TypeOK, runVars
<1>6. ASSUME NEW g \in Configs, SetLaunchable(g)
      PROVE  TypeOK'
  BY <1>6 DEF SetLaunchable, TypeOK, runVars
<1> QED
  BY <1>1, <1>2, <1>3, <1>4, <1>5, <1>6 DEF OperatorStep

LEMMA CrashTyped ==
    ASSUME TypeOK, NEW d \in Dispatchers, Crash(d)
    PROVE  TypeOK'
<1>1. [IdleCaller EXCEPT !.pc = "dead"] \in CallerRecord
  BY DEF IdleCaller, CallerRecord, CallerPc, Manifests, NoManifest
<1>2. callers' \in [Callers -> CallerRecord]
  BY <1>1 DEF Crash, TypeOK
<1>3. \A f \in Flows : [flows[f] EXCEPT !.pc = "killed"] \in FlowRecord
  BY DEF TypeOK, FlowRecord, FlowPc
<1>4. flows' \in [Flows -> FlowRecord]
  BY <1>3 DEF Crash, TypeOK
<1>5. up' \in SUBSET Dispatchers
  BY DEF Crash, TypeOK
<1> QED
  BY <1>2, <1>4, <1>5 DEF Crash, TypeOK, runVars

LEMMA NextTyped ==
    ASSUME TypeOK, LocalsAreSet, RunsAreOwned, [Next]_vars
    PROVE  TypeOK'
<1>1. ASSUME NEW c \in Callers, CallerStep(c)
      PROVE  TypeOK'
  <2>1. callers[c].pc \in {"idle", "dead"} \/
          (callers[c].key \in Keys /\ callers[c].req \in Requests)
    BY DEF LocalsAreSet
  <2>2. CASE ClaimNew(c)
    BY <2>1, <2>2, ClaimNewTyped DEF ClaimNew
  <2>3. CASE BeginDispatch(c) \/ MarkInvocationUnknown(c)
    BY <2>3, DispatchTyped
  <2>4. CASE \E f \in Flows : Invoke(c, f)
    BY <2>1, <2>4, InvokeTyped DEF Invoke
  <2>5. CASE BuildManifest(c) \/ PersistReproductionManifest(c)
    <3>1. subs[callers[c].key].run \in Runs
      BY <2>1, <2>5
         DEF BuildManifest, PersistReproductionManifest, LocalsAreSet,
             RunsAreOwned
    <3> QED
      BY <2>5, <3>1, ReproductionManifestTyped
  <2> QED
    BY <1>1, <2>2, <2>3, <2>4, <2>5, CallerMoveTyped DEF CallerStep
<1>2. ASSUME NEW f \in Flows, FlowStep(f)
      PROVE  TypeOK'
  <2>1. FlowBind(f) => flows[f].key \in Keys
    BY DEF FlowBind, LocalsAreSet
  <2> QED
    BY <1>2, <2>1, FlowBindTyped, FlowMoveTyped, FlowRunTyped, FlowOutputTyped
       DEF FlowStep
<1>3. CASE UNCHANGED vars
  BY <1>3 DEF vars, runVars, TypeOK
<1> QED
  BY <1>1, <1>2, <1>3, LaunchTyped, OperatorTyped, CrashTyped DEF Next

-----------------------------------------------------------------------------
(* What a step does to one record, read off the EXCEPT expressions *)

LEMMA GotoEffect ==
    ASSUME TypeOK, NEW c \in Callers, NEW pc, Goto(c, pc)
    PROVE  /\ \A b \in Callers \ {c} : callers'[b] = callers[b]
           /\ callers'[c].pc = pc
           /\ callers'[c].key = callers[c].key
           /\ callers'[c].req = callers[c].req
BY DEF TypeOK, Goto, CallerRecord

LEMMA LeaveEffect ==
    ASSUME TypeOK, NEW c \in Callers, Leave(c)
    PROVE  /\ \A b \in Callers \ {c} : callers'[b] = callers[b]
           /\ callers'[c].pc = "idle"
BY DEF TypeOK, Leave, IdleCaller

\* A thread that leaves, or goes on without touching the tables, keeps
\* the invariant when it does not enter begin_dispatch's protected part.
LEMMA CallerMoveKeeps ==
    ASSUME LaunchInv, NEW c \in Callers, callers[c].pc # "dead",
           \A b \in Callers \ {c} : callers'[b] = callers[b],
           \/ callers'[c].pc = "idle"
           \/ /\ callers'[c].key = callers[c].key
              /\ callers'[c].req = callers[c].req
              /\ callers[c].pc # "idle"
              /\ callers'[c].pc \notin {"idle", "dead", "claim"}
              /\ subs[callers[c].key].state # "none"
              /\ callers'[c].pc \in DispatchPcs =>
                    /\ callers[c].pc \in DispatchPcs
                    /\ callers'[c].pc # "invoke",
           UNCHANGED <<runs, subs, up, flows, operator>>
    PROVE  /\ LocalsAreSet' /\ RunsAreOwned' /\ StatusFollowsSubmission'
           /\ FlowsAreBound' /\ MarkerIsHeld' /\ OneInvocationPerKey'
           /\ AttemptsAreCounted'
<1>1. LocalsAreSet'
  BY DEF LaunchInv, LocalsAreSet
<1>2. RunsAreOwned' /\ StatusFollowsSubmission' /\ FlowsAreBound'
      /\ AttemptsAreCounted'
  BY DEF LaunchInv, RunsAreOwned, StatusFollowsSubmission, FlowsAreBound,
         AttemptsAreCounted
<1>3. MarkerIsHeld'
  BY DEF LaunchInv, MarkerIsHeld, DispatchPcs
<1>4. OneInvocationPerKey'
  BY DEF LaunchInv, OneInvocationPerKey, DispatchPcs
<1> QED
  BY <1>1, <1>2, <1>3, <1>4

\* A flow that moves on, and perhaps ends its run, keeps the invariant.
LEMMA FlowMoveKeeps ==
    ASSUME LaunchInv, NEW f \in Flows,
           \A g \in Flows \ {f} : flows'[g] = flows[g],
           flows'[f].key = flows[f].key,
           flows[f].pc # "none", flows'[f].pc # "none",
           \/ flows'[f].pc \in FlowEnded
           \/ flows[f].pc \notin {"none", "bind"} \cup FlowEnded,
           flows'[f].pc \in {"bind", "attempt"} => flows'[f].pc = flows[f].pc,
           \A r \in Runs : runs'[r].attempts = runs[r].attempts,
           \A r \in Runs :
              \/ runs'[r].status = runs[r].status
              \/ /\ r = FlowRun(f)
                 /\ flows[f].pc \notin {"none", "bind"} \cup FlowEnded
                 /\ runs'[r].status \in Terminal,
           UNCHANGED <<subs, up, callers, operator>>
    PROVE  /\ LocalsAreSet' /\ RunsAreOwned' /\ StatusFollowsSubmission'
           /\ FlowsAreBound' /\ MarkerIsHeld' /\ OneInvocationPerKey'
           /\ AttemptsAreCounted'
<1>1. LocalsAreSet'
  BY DEF LaunchInv, LocalsAreSet
<1>2. RunsAreOwned' /\ MarkerIsHeld' /\ FlowsAreBound'
  BY DEF LaunchInv, RunsAreOwned, MarkerIsHeld, FlowsAreBound
<1>3. StatusFollowsSubmission'
  <2> SUFFICES ASSUME NEW k \in Keys, subs[k].state # "none",
                      runs'[subs[k].run].status # runs[subs[k].run].status
               PROVE  /\ subs[k].state = "acknowledged"
                      /\ runs'[subs[k].run].status \in Terminal
    BY DEF LaunchInv, StatusFollowsSubmission
  <2>1. subs[k].run \in Runs /\ subs[k].run = FlowRun(f)
    BY DEF LaunchInv, RunsAreOwned
  <2>2. flows[f].key = k
    BY <2>1, NoneAssumption DEF LaunchInv, RunsAreOwned, FlowRun, LocalsAreSet
  <2> QED
    BY <2>1, <2>2 DEF LaunchInv, FlowsAreBound
<1>4. OneInvocationPerKey'
  BY DEF LaunchInv, OneInvocationPerKey
<1>5. AttemptsAreCounted'
  <2>1. \A r \in Runs : runs'[r].status = "absent" => runs[r].status = "absent"
    BY DEF Terminal
  <2> QED
    BY <2>1 DEF LaunchInv, AttemptsAreCounted, RunsAreOwned
<1> QED
  BY <1>1, <1>2, <1>3, <1>4, <1>5

\* A submission that advances past its marker keeps the invariant, together
\* with the thread, flow or operator that made it advance.
LEMMA SubmissionMoveKeeps ==
    ASSUME LaunchInv, StatusFollowsSubmission',
           \A j \in Keys :
              /\ subs'[j].run = subs[j].run
              /\ subs'[j].req = subs[j].req
              /\ subs'[j].dispatcher = subs[j].dispatcher,
           \A j \in Keys :
              \/ subs'[j].state = subs[j].state
              \/ /\ subs[j].state \in
                       {"claimed", "invoking", "submission_unknown"}
                 /\ subs'[j].state \in
                       {"submission_unknown", "acknowledged", "abandoned",
                        "failed_before_submission"}
                 /\ \A c \in Callers : callers[c].key = j =>
                                          callers[c].pc # "invoke",
           \A r \in Runs : runs'[r].attempts = runs[r].attempts,
           \A r \in Runs :
              runs'[r].status = "absent" => runs[r].status = "absent",
           \A c \in Callers :
              \/ callers'[c] = callers[c]
              \/ callers[c].pc # "dead" /\ callers'[c].pc = "idle",
           \A f \in Flows :
              \/ flows'[f] = flows[f]
              \/ /\ flows'[f].key = flows[f].key
                 /\ flows[f].pc # "none"
                 /\ \/ flows'[f].pc \in FlowEnded
                    \/ /\ flows[f].pc = "bind" /\ flows'[f].pc = "attempt"
                       /\ subs'[flows[f].key].state = "acknowledged",
           operator' = operator \/ operator'.pc = "idle",
           up' = up
    PROVE  /\ LocalsAreSet' /\ RunsAreOwned' /\ FlowsAreBound'
           /\ MarkerIsHeld' /\ OneInvocationPerKey' /\ AttemptsAreCounted'
<1>1. LocalsAreSet'
  <2>1. \A c \in Callers :
          /\ callers'[c].pc \notin {"idle", "dead"} =>
                callers'[c].key \in Keys /\ callers'[c].req \in Requests
          /\ callers'[c].pc \notin {"idle", "dead", "claim"} =>
                subs'[callers'[c].key].state # "none"
          /\ callers'[c].pc # "dead" => ProcessOf[c] \in up'
    BY DEF LaunchInv, LocalsAreSet
  <2>2. \A f \in Flows :
          IF flows'[f].pc = "none"
          THEN flows'[f].key = None /\ flows'[f].proc = None
          ELSE flows'[f].key \in Keys
    BY DEF LaunchInv, LocalsAreSet, FlowEnded
  <2>3. operator'.pc = "bind" =>
          /\ operator'.key \in Keys /\ operator'.flow \in Flows
          /\ subs'[operator'.key].state \notin {"none", "claimed", "invoking"}
    BY DEF LaunchInv, LocalsAreSet
  <2> QED
    BY <2>1, <2>2, <2>3 DEF LocalsAreSet
<1>2. RunsAreOwned'
  BY DEF LaunchInv, RunsAreOwned
<1>3. FlowsAreBound'
  BY DEF LaunchInv, FlowsAreBound, LocalsAreSet, FlowEnded
<1>4. MarkerIsHeld'
  BY DEF LaunchInv, MarkerIsHeld, DispatchPcs, LocalsAreSet
<1>5. OneInvocationPerKey'
  BY DEF LaunchInv, OneInvocationPerKey, FlowEnded
<1>6. AttemptsAreCounted'
  BY DEF LaunchInv, AttemptsAreCounted, RunsAreOwned, FlowEnded
<1> QED
  BY <1>1, <1>2, <1>3, <1>4, <1>5, <1>6

-----------------------------------------------------------------------------
(* Every action keeps LaunchInv *)

LEMMA CallerMoveInv ==
    ASSUME LaunchInv, TypeOK', NEW c \in Callers,
           \/ ClaimReplay(c) \/ ClaimRefused(c) \/ Prepare(c)
           \/ InvokeRaises(c) \/ InvocationEnds(c) \/ LaunchTimesOut(c)
           \/ VerifyAcknowledged(c) \/ CallerContention(c)
           \/ BuildManifest(c) \/ PersistReproductionManifest(c)
    PROVE  LaunchInv'
<1>1. TypeOK /\ LocalsAreSet
  BY DEF LaunchInv
<1>2. UNCHANGED <<runs, subs, up, flows, operator>>
  BY DEF ClaimReplay, ClaimRefused, Prepare, InvokeRaises, InvocationEnds,
         LaunchTimesOut, VerifyAcknowledged, CallerContention, BuildManifest,
         PersistReproductionManifest, runVars
<1>3. callers[c].pc \notin {"dead", "idle"}
  BY DEF ClaimReplay, ClaimRefused, Prepare, InvokeRaises, InvocationEnds,
         LaunchTimesOut, VerifyAcknowledged, CallerContention, BuildManifest,
         PersistReproductionManifest
<1>4. \/ Leave(c)
      \/ ReturnResult(c) /\ subs[callers[c].key].state # "none"
      \/ /\ subs[callers[c].key].state # "none"
         /\ \/ \E pc \in {"prepare", "dispatch", "build", "manifest"} : Goto(c, pc)
            \/ /\ \E pc \in {"verify", "mark"} : Goto(c, pc)
               /\ callers[c].pc \in DispatchPcs
      \/ BuildManifest(c)
  BY <1>1, <1>3
     DEF ClaimReplay, ClaimRefused, Prepare, InvokeRaises, InvocationEnds,
         LaunchTimesOut, VerifyAcknowledged, CallerContention,
         PersistReproductionManifest, LocalsAreSet, DispatchPcs
<1>5. /\ \A b \in Callers \ {c} : callers'[b] = callers[b]
      /\ \/ callers'[c].pc = "idle"
         \/ /\ callers'[c].key = callers[c].key
            /\ callers'[c].req = callers[c].req
            /\ callers'[c].pc \notin {"idle", "dead", "claim"}
            /\ subs[callers[c].key].state # "none"
            /\ callers'[c].pc \in DispatchPcs =>
                  /\ callers[c].pc \in DispatchPcs
                  /\ callers'[c].pc # "invoke"
  <2>1. CASE Leave(c)
    BY <1>1, <2>1, LeaveEffect
  <2>2. CASE ReturnResult(c) /\ subs[callers[c].key].state # "none"
    BY <1>1, <2>2, LeaveEffect, GotoEffect DEF ReturnResult, DispatchPcs
  <2>3. ASSUME NEW pc \in {"prepare", "dispatch", "build", "manifest"},
               Goto(c, pc), subs[callers[c].key].state # "none"
        PROVE  <1>5!:
    BY <1>1, <2>3, GotoEffect DEF DispatchPcs
  <2>4. ASSUME NEW pc \in {"verify", "mark"}, Goto(c, pc),
               subs[callers[c].key].state # "none", callers[c].pc \in DispatchPcs
        PROVE  <1>5!:
    BY <1>1, <2>4, GotoEffect
  <2>5. CASE BuildManifest(c)
    <3>1. \/ Leave(c)
          \/ \E n : callers' = [callers EXCEPT ![c].pc = "manifest",
                                               ![c].built = n]
      BY <2>5 DEF BuildManifest
    <3>2. callers[c].pc = "build"
      BY <2>5 DEF BuildManifest
    <3>3. subs[callers[c].key].state # "none"
      BY <1>1, <3>2 DEF LocalsAreSet
    <3>4. ASSUME NEW n, callers' = [callers EXCEPT ![c].pc = "manifest",
                                                   ![c].built = n]
          PROVE  <1>5!:
      <4>1. /\ \A b \in Callers \ {c} : callers'[b] = callers[b]
            /\ callers'[c] = [callers[c] EXCEPT !.pc = "manifest", !.built = n]
            /\ callers[c] \in CallerRecord
        BY <1>1, <3>4 DEF TypeOK
      <4>2. /\ callers'[c].pc = "manifest"
            /\ callers'[c].key = callers[c].key
            /\ callers'[c].req = callers[c].req
        BY <4>1 DEF CallerRecord
      <4> QED
        BY <3>3, <4>1, <4>2 DEF DispatchPcs
    <3> QED
      BY <2>1, <3>1, <3>4
  <2> QED
    BY <1>4, <2>1, <2>2, <2>3, <2>4, <2>5
<1> QED
  BY <1>2, <1>3, <1>5, CallerMoveKeeps DEF LaunchInv

LEMMA LaunchKeeps ==
    ASSUME LaunchInv, TypeOK', NEW c \in Callers, NEW k \in Keys,
           NEW q \in Requests, Launch(c, k, q)
    PROVE  LaunchInv'
<1>1. /\ callers[c].pc = "idle"
      /\ \A b \in Callers \ {c} : callers'[b] = callers[b]
      /\ callers'[c].pc = "claim"
      /\ callers'[c].key = k /\ callers'[c].req = q
  BY DEF Launch, LaunchInv, TypeOK, CallerRecord
<1>2. UNCHANGED <<runs, subs, up, flows, operator>>
  BY DEF Launch, runVars
<1>3. LocalsAreSet'
  BY <1>1, <1>2 DEF LaunchInv, LocalsAreSet
<1>4. MarkerIsHeld' /\ OneInvocationPerKey'
  BY <1>1, <1>2 DEF LaunchInv, MarkerIsHeld, OneInvocationPerKey, DispatchPcs
<1>5. RunsAreOwned' /\ StatusFollowsSubmission' /\ FlowsAreBound'
      /\ AttemptsAreCounted'
  BY <1>2 DEF LaunchInv, RunsAreOwned, StatusFollowsSubmission, FlowsAreBound,
              AttemptsAreCounted
<1> QED
  BY <1>3, <1>4, <1>5 DEF LaunchInv

LEMMA ClaimNewKeeps ==
    ASSUME LaunchInv, TypeOK', NEW c \in Callers, ClaimNew(c)
    PROVE  LaunchInv'
<1> DEFINE k == callers[c].key
           q == callers[c].req
<1>1. k \in Keys /\ q \in Requests /\ subs[k].state = "none"
  BY DEF ClaimNew, LaunchInv, LocalsAreSet
<1>2. PICK r \in Runs :
        /\ runs[r].status = "absent"
        /\ runs' = [runs EXCEPT ![r].status = "created",
                                ![r].config = q.config]
        /\ subs' = [subs EXCEPT ![k].state = "claimed", ![k].run = r,
                                ![k].req = q]
  BY DEF ClaimNew
<1>3. /\ \A b \in Callers \ {c} : callers'[b] = callers[b]
      /\ callers[c].pc = "claim" /\ callers'[c].pc = "prepare"
      /\ callers'[c].key = k /\ callers'[c].req = q
  BY GotoEffect DEF ClaimNew, LaunchInv
<1>4. UNCHANGED <<up, flows, operator>>
  BY DEF ClaimNew
<1> HIDE DEF k, q
<1>5. /\ \A j \in Keys \ {k} : subs'[j] = subs[j]
      /\ subs'[k].state = "claimed" /\ subs'[k].run = r /\ subs'[k].req = q
  <2>1. subs \in [Keys -> SubRecord]
    BY DEF LaunchInv, TypeOK
  <2> QED
    BY <1>1, <1>2, <2>1 DEF SubRecord
<1>6. /\ \A x \in Runs \ {r} : runs'[x] = runs[x]
      /\ runs[r].status = "absent" /\ runs'[r].status = "created"
      /\ runs'[r].attempts = runs[r].attempts
  BY <1>2 DEF LaunchInv, TypeOK, RunRecord
<1>7. \A j \in Keys \ {k} : subs[j].run # r
  BY <1>6, NoneAssumption
     DEF LaunchInv, RunsAreOwned, StatusFollowsSubmission, Terminal
<1>8. LocalsAreSet'
  BY <1>1, <1>3, <1>4, <1>5 DEF LaunchInv, LocalsAreSet
<1>9. RunsAreOwned'
  BY <1>1, <1>5, <1>7 DEF LaunchInv, RunsAreOwned
<1>10. StatusFollowsSubmission'
  BY <1>5, <1>6, <1>7 DEF LaunchInv, StatusFollowsSubmission, RunsAreOwned
<1>11. FlowsAreBound'
  BY <1>1, <1>4, <1>5 DEF LaunchInv, FlowsAreBound, LocalsAreSet
<1>12. MarkerIsHeld' /\ OneInvocationPerKey'
  <2>1. MarkerIsHeld'
    BY <1>1, <1>3, <1>5 DEF LaunchInv, MarkerIsHeld, DispatchPcs, LocalsAreSet
  <2>2. OneInvocationPerKey'
    BY <1>3, <1>4, <1>6 DEF LaunchInv, OneInvocationPerKey
  <2> QED
    BY <2>1, <2>2
<1>13. AttemptsAreCounted'
  BY <1>4, <1>5, <1>6, <1>7
     DEF LaunchInv, AttemptsAreCounted, RunsAreOwned
<1> QED
  BY <1>8, <1>9, <1>10, <1>11, <1>12, <1>13 DEF LaunchInv

LEMMA BeginDispatchKeeps ==
    ASSUME LaunchInv, TypeOK', NEW c \in Callers, BeginDispatch(c)
    PROVE  LaunchInv'
<1> DEFINE k == callers[c].key
<1>1. k \in Keys /\ callers[c].req \in Requests /\ subs[k].state # "none"
  BY DEF BeginDispatch, LaunchInv, LocalsAreSet
<1>2. callers[c].pc = "dispatch" /\ UNCHANGED <<runs, up, flows, operator>>
  BY DEF BeginDispatch, runVars
<1>3. TypeOK /\ subs \in [Keys -> SubRecord]
  BY DEF LaunchInv, TypeOK
<1>4. CASE MarkerFree(k) /\ PersistedClaimValid(k, TRUE, TRUE)
  <2>1. /\ subs' = [subs EXCEPT ![k].state = "invoking",
                                ![k].dispatcher = ProcessOf[c]]
        /\ Goto(c, "invoke")
        /\ subs[k].state = "claimed"
    BY <1>4 DEF BeginDispatch, MarkerFree
  <2>2. /\ \A b \in Callers \ {c} : callers'[b] = callers[b]
        /\ callers'[c].pc = "invoke" /\ callers'[c].key = k
        /\ callers'[c].req = callers[c].req
    BY <1>3, <2>1, GotoEffect
  <2> HIDE DEF k
  <2>3. /\ \A j \in Keys \ {k} : subs'[j] = subs[j]
        /\ subs[k].state = "claimed"
        /\ subs'[k].state = "invoking" /\ subs'[k].dispatcher = ProcessOf[c]
        /\ subs'[k].run = subs[k].run /\ subs'[k].req = subs[k].req
    BY <1>1, <1>3, <2>1 DEF SubRecord
  <2>4. LocalsAreSet' /\ RunsAreOwned'
    <3>1. LocalsAreSet'
      BY <1>1, <1>2, <2>2, <2>3 DEF LaunchInv, LocalsAreSet
    <3>2. RunsAreOwned'
      BY <1>1, <2>3 DEF LaunchInv, RunsAreOwned
    <3> QED
      BY <3>1, <3>2
  <2>5. StatusFollowsSubmission'
    BY <1>2, <2>3 DEF LaunchInv, StatusFollowsSubmission
  <2>6. FlowsAreBound' /\ \A f \in Flows : flows[f].key # k
    BY <1>1, <1>2, <2>3, NoneAssumption
       DEF LaunchInv, FlowsAreBound, LocalsAreSet
  <2>7. MarkerIsHeld'
    BY <1>1, <2>2, <2>3 DEF LaunchInv, MarkerIsHeld, DispatchPcs, LocalsAreSet
  <2>8. OneInvocationPerKey'
    BY <1>1, <1>2, <2>2, <2>3, <2>6
       DEF LaunchInv, OneInvocationPerKey, MarkerIsHeld, DispatchPcs
  <2>9. AttemptsAreCounted'
    BY <1>1, <1>2, <2>3 DEF LaunchInv, AttemptsAreCounted
  <2> QED
    BY <2>4, <2>5, <2>6, <2>7, <2>8, <2>9 DEF LaunchInv
<1>5. CASE ~(MarkerFree(k) /\ PersistedClaimValid(k, TRUE, TRUE))
  <2>1. subs' = subs /\ (Leave(c) \/ ReturnResult(c))
    BY <1>5 DEF BeginDispatch
  <2>2. /\ \A b \in Callers \ {c} : callers'[b] = callers[b]
        /\ \/ callers'[c].pc = "idle"
           \/ /\ callers'[c].pc = "build" /\ callers'[c].key = k
              /\ callers'[c].req = callers[c].req
    BY <1>3, <2>1, LeaveEffect, GotoEffect DEF ReturnResult
  <2> QED
    BY <1>1, <1>2, <2>1, <2>2, CallerMoveKeeps DEF LaunchInv, DispatchPcs
<1> QED
  BY <1>4, <1>5

LEMMA InvokeKeeps ==
    ASSUME LaunchInv, TypeOK', NEW c \in Callers, NEW f \in Flows, Invoke(c, f)
    PROVE  LaunchInv'
<1> DEFINE k == callers[c].key
<1>1. /\ k \in Keys /\ callers[c].pc = "invoke" /\ flows[f].pc = "none"
      /\ callers[c].req \in Requests /\ callers[c].key = k
      /\ subs[k].state = "invoking"
      /\ \A g \in Flows : flows[g].key # k
  BY DEF Invoke, LaunchInv, LocalsAreSet, OneInvocationPerKey, MarkerIsHeld,
         DispatchPcs
<1>2. UNCHANGED <<runs, subs, up, operator>>
  BY DEF Invoke, runVars
<1>3. /\ \A b \in Callers \ {c} : callers'[b] = callers[b]
      /\ callers'[c].pc = "wait" /\ callers'[c].key = k
      /\ callers'[c].req = callers[c].req
  BY DEF Invoke, LaunchInv, TypeOK, CallerRecord
<1>4. /\ \A g \in Flows \ {f} : flows'[g] = flows[g]
      /\ flows'[f].pc = "bind" /\ flows'[f].key = k
  BY DEF Invoke, LaunchInv, TypeOK
<1> HIDE DEF k
<1>5. LocalsAreSet'
  BY <1>1, <1>2, <1>3, <1>4 DEF LaunchInv, LocalsAreSet
<1>6. RunsAreOwned' /\ StatusFollowsSubmission'
  BY <1>2 DEF LaunchInv, RunsAreOwned, StatusFollowsSubmission
<1>7. FlowsAreBound'
  BY <1>1, <1>2, <1>4 DEF LaunchInv, FlowsAreBound
<1>8. MarkerIsHeld'
  BY <1>1, <1>2, <1>3 DEF LaunchInv, MarkerIsHeld, DispatchPcs
<1>9. OneInvocationPerKey'
  <2>1. \A b \in Callers : callers'[b].pc = "invoke" => callers'[b].key # k
    BY <1>1, <1>3 DEF LaunchInv, MarkerIsHeld, DispatchPcs
  <2> QED
    BY <1>1, <1>2, <1>3, <1>4, <2>1 DEF LaunchInv, OneInvocationPerKey
<1>10. AttemptsAreCounted'
  BY <1>1, <1>2, <1>4, NoneAssumption
     DEF LaunchInv, AttemptsAreCounted, LocalsAreSet
<1> QED
  BY <1>5, <1>6, <1>7, <1>8, <1>9, <1>10 DEF LaunchInv

LEMMA MarkKeeps ==
    ASSUME LaunchInv, TypeOK', NEW c \in Callers, MarkInvocationUnknown(c)
    PROVE  LaunchInv'
<1> DEFINE k == callers[c].key
<1>1. k \in Keys /\ callers[c].pc = "mark"
  BY DEF MarkInvocationUnknown, LaunchInv, LocalsAreSet
<1>2. UNCHANGED <<runs, up, flows, operator>>
  BY DEF MarkInvocationUnknown, runVars
<1>3. TypeOK /\ subs \in [Keys -> SubRecord]
  BY DEF LaunchInv, TypeOK
<1>4. /\ \A b \in Callers \ {c} : callers'[b] = callers[b]
      /\ callers'[c].pc = "idle"
  BY <1>3, LeaveEffect DEF MarkInvocationUnknown
<1>5. \/ subs' = subs
      \/ /\ subs' = [subs EXCEPT ![k].state = "submission_unknown"]
         /\ subs[k].state = "invoking"
  BY DEF MarkInvocationUnknown, MayMarkUnknown
<1>6. \A b \in Callers : callers[b].key = k => callers[b].pc # "invoke"
  BY <1>1 DEF LaunchInv, MarkerIsHeld, DispatchPcs
<1> HIDE DEF k
<1>7. /\ \A j \in Keys : subs'[j].run = subs[j].run /\ subs'[j].req = subs[j].req
                          /\ subs'[j].dispatcher = subs[j].dispatcher
      /\ \A j \in Keys :
            \/ subs'[j].state = subs[j].state
            \/ /\ j = k /\ subs[k].state = "invoking"
               /\ subs'[k].state = "submission_unknown"
  BY <1>1, <1>3, <1>5 DEF SubRecord
<1>8. StatusFollowsSubmission'
  BY <1>2, <1>7 DEF LaunchInv, StatusFollowsSubmission
<1> QED
  BY <1>1, <1>2, <1>4, <1>6, <1>7, <1>8, SubmissionMoveKeeps DEF LaunchInv

\* A binding, by the flow itself or by the operator.
LEMMA BindEffect ==
    ASSUME LaunchInv, NEW k \in Keys, NEW f \in Flows, NEW api \in ApiUrls,
           subs[k].state # "none", BindPrefectIdentity(k, f, api)
    PROVE  /\ \A j \in Keys : subs'[j].run = subs[j].run
                             /\ subs'[j].req = subs[j].req
                             /\ subs'[j].dispatcher = subs[j].dispatcher
           /\ \A j \in Keys :
                 \/ subs'[j].state = subs[j].state
                 \/ /\ j = k
                    /\ subs[k].state \in {"invoking", "submission_unknown"}
                    /\ subs'[k].state = "acknowledged"
           /\ BindAccepted(k, f, api) => subs'[k].state = "acknowledged"
           /\ \A r \in Runs : runs'[r].attempts = runs[r].attempts
           /\ \A r \in Runs :
                 runs'[r].status = "absent" => runs[r].status = "absent"
           /\ StatusFollowsSubmission'
<1> DEFINE r == subs[k].run
<1>1. /\ r \in Runs /\ runs \in [Runs -> RunRecord]
      /\ subs \in [Keys -> SubRecord]
  BY DEF LaunchInv, TypeOK, RunsAreOwned
<1>2. CASE BindOutcome(k, f, api) = "bound"
  <2>1. /\ subs' = [subs EXCEPT ![k].state = "acknowledged",
                                ![k].flow = f, ![k].api = api]
        /\ runs' = [runs EXCEPT ![r].env = f, ![r].status = "running"]
    BY <1>2 DEF BindPrefectIdentity
  <2>2. subs[k].state \in {"invoking", "submission_unknown"}
    BY <1>2 DEF BindOutcome
  <2> HIDE DEF r
  <2>3. /\ \A j \in Keys \ {k} : subs'[j] = subs[j]
        /\ subs'[k].state = "acknowledged" /\ subs'[k].run = subs[k].run
        /\ subs'[k].req = subs[k].req
        /\ subs'[k].dispatcher = subs[k].dispatcher
    BY <1>1, <2>1 DEF SubRecord
  <2>4. /\ \A x \in Runs \ {r} : runs'[x] = runs[x]
        /\ runs'[r].status = "running" /\ runs'[r].attempts = runs[r].attempts
    BY <1>1, <2>1 DEF RunRecord
  <2>5. r = subs[k].run
    BY DEF r
  <2>6. StatusFollowsSubmission'
    BY <1>1, <2>3, <2>4, <2>5, NoneAssumption
       DEF LaunchInv, StatusFollowsSubmission, RunsAreOwned
  <2> QED
    BY <2>2, <2>3, <2>4, <2>6
<1>3. CASE BindOutcome(k, f, api) # "bound"
  <2>1. UNCHANGED <<subs, runs>>
    BY <1>3 DEF BindPrefectIdentity
  <2>2. BindOutcome(k, f, api) = "replayed" => subs[k].state = "acknowledged"
    BY DEF BindOutcome
  <2>3. StatusFollowsSubmission'
    BY <2>1 DEF LaunchInv, StatusFollowsSubmission
  <2> QED
    BY <1>3, <2>1, <2>2, <2>3 DEF BindAccepted
<1> QED
  BY <1>2, <1>3

LEMMA FlowBindKeeps ==
    ASSUME LaunchInv, TypeOK', NEW f \in Flows, FlowBind(f)
    PROVE  LaunchInv'
<1> DEFINE k == flows[f].key
<1>1. k \in Keys /\ flows[f].pc = "bind" /\ subs[k].state \notin {"none", "claimed"}
  BY DEF FlowBind, LaunchInv, LocalsAreSet, FlowsAreBound
<1>2. "url" \in ApiUrls /\ BindPrefectIdentity(k, f, "url")
      /\ UNCHANGED <<up, callers, operator>>
  BY DEF FlowBind, ApiUrls
<1>3. /\ \A g \in Flows \ {f} : flows'[g] = flows[g]
      /\ flows'[f].key = k
      /\ flows'[f].pc = IF BindAccepted(k, f, "url") THEN "attempt" ELSE "raised"
  BY DEF FlowBind, FlowGoto, LaunchInv, TypeOK, FlowRecord
<1>4. \A c \in Callers : callers[c].key = k => callers[c].pc # "invoke"
  BY DEF LaunchInv, OneInvocationPerKey
<1> HIDE DEF k
<1>5. flows[f].key = k
  BY DEF k
<1> QED
  BY <1>1, <1>2, <1>3, <1>4, <1>5, BindEffect, SubmissionMoveKeeps
     DEF LaunchInv, FlowEnded

LEMMA ReconcileBindKeeps ==
    ASSUME LaunchInv, TypeOK', ReconcileBind
    PROVE  LaunchInv'
<1> DEFINE k == operator.key
<1>1. /\ k \in Keys /\ operator.flow \in Flows /\ operator.api \in ApiUrls
      /\ subs[k].state \notin {"none", "claimed", "invoking"}
  BY DEF ReconcileBind, LaunchInv, LocalsAreSet, TypeOK, OperatorRecord
<1>2. /\ BindPrefectIdentity(k, operator.flow, operator.api)
      /\ operator'.pc = "idle"
      /\ UNCHANGED <<up, callers, flows>>
  BY DEF ReconcileBind, IdleOperator
<1>3. \A c \in Callers : callers[c].key = k => callers[c].pc # "invoke"
  BY <1>1 DEF LaunchInv, MarkerIsHeld, DispatchPcs
<1> HIDE DEF k
<1> QED
  BY <1>1, <1>2, <1>3, BindEffect, SubmissionMoveKeeps DEF LaunchInv

LEMMA ResolveKeeps ==
    ASSUME LaunchInv, TypeOK', NEW k \in Keys,
           AbandonUnknown(k) \/ FailBeforeSubmission(k)
    PROVE  LaunchInv'
<1> DEFINE r == subs[k].run
<1>1. PICK to \in {"abandoned", "failed_before_submission"} :
        /\ subs' = [subs EXCEPT ![k].state = to]
        /\ runs' = [runs EXCEPT ![r].status = "failed"]
  BY DEF AbandonUnknown, FailBeforeSubmission, ResolveWithoutFlow, Transition
<1>2. /\ subs[k].state \in {"claimed", "submission_unknown"}
      /\ UNCHANGED <<up, callers, flows, operator>>
  BY DEF AbandonUnknown, FailBeforeSubmission, ResolveWithoutFlow
<1>3. /\ r \in Runs /\ runs \in [Runs -> RunRecord]
      /\ subs \in [Keys -> SubRecord]
  BY <1>2 DEF LaunchInv, TypeOK, RunsAreOwned
<1>4. \A c \in Callers : callers[c].key = k => callers[c].pc # "invoke"
  BY <1>2 DEF LaunchInv, MarkerIsHeld, DispatchPcs
<1> HIDE DEF r
<1>5. /\ \A j \in Keys \ {k} : subs'[j] = subs[j]
      /\ subs'[k].state = to /\ subs'[k].run = subs[k].run
      /\ subs'[k].req = subs[k].req
      /\ subs'[k].dispatcher = subs[k].dispatcher
  BY <1>1, <1>3 DEF SubRecord
<1>6. /\ \A x \in Runs \ {r} : runs'[x] = runs[x]
      /\ runs'[r].status = "failed" /\ runs'[r].attempts = runs[r].attempts
  BY <1>1, <1>3 DEF RunRecord
<1>7. r = subs[k].run
  BY DEF r
<1>8. StatusFollowsSubmission'
  BY <1>3, <1>5, <1>6, <1>7, NoneAssumption
     DEF LaunchInv, StatusFollowsSubmission, RunsAreOwned
<1> QED
  BY <1>2, <1>4, <1>5, <1>6, <1>8, SubmissionMoveKeeps DEF LaunchInv

LEMMA RecoverKeeps ==
    ASSUME LaunchInv, TypeOK', NEW k \in Keys, NEW d \in Dispatchers,
           RecoverInvokingAfterProcessExit(k, d)
    PROVE  LaunchInv'
<1>1. /\ subs' = [subs EXCEPT ![k].state = "submission_unknown",
                              ![k].evidence = TRUE]
      /\ d \notin up /\ subs[k].state = "invoking" /\ subs[k].dispatcher = d
      /\ UNCHANGED <<runs, up, callers, flows, operator>>
  BY DEF RecoverInvokingAfterProcessExit, runVars
<1>2. subs \in [Keys -> SubRecord]
  BY DEF LaunchInv, TypeOK
<1>3. \A c \in Callers : callers[c].key = k => callers[c].pc # "invoke"
  BY <1>1 DEF LaunchInv, MarkerIsHeld, DispatchPcs, LocalsAreSet
<1>4. /\ \A j \in Keys \ {k} : subs'[j] = subs[j]
      /\ subs'[k].state = "submission_unknown" /\ subs'[k].run = subs[k].run
      /\ subs'[k].req = subs[k].req
      /\ subs'[k].dispatcher = subs[k].dispatcher
  BY <1>1, <1>2 DEF SubRecord
<1>5. StatusFollowsSubmission'
  BY <1>1, <1>4 DEF LaunchInv, StatusFollowsSubmission
<1> QED
  BY <1>1, <1>3, <1>4, <1>5, SubmissionMoveKeeps DEF LaunchInv

LEMMA OperatorKeeps ==
    ASSUME LaunchInv, TypeOK', OperatorStep
    PROVE  LaunchInv'
<1>1. ASSUME NEW k \in Keys, NEW f \in Flows, NEW api \in ApiUrls,
             ReconcileRead(k, f, api)
      PROVE  LaunchInv'
  <2>1. /\ UNCHANGED <<runs, subs, up, callers, flows>>
        /\ operator' = [pc |-> "bind", key |-> k, flow |-> f, api |-> api]
        /\ subs[k].state \notin {"none", "claimed", "invoking"}
    BY <1>1 DEF ReconcileRead, runVars
  <2>2. LocalsAreSet'
    BY <2>1 DEF LaunchInv, LocalsAreSet
  <2> QED
    BY <2>1, <2>2
       DEF LaunchInv, RunsAreOwned, StatusFollowsSubmission, FlowsAreBound,
           MarkerIsHeld, OneInvocationPerKey, AttemptsAreCounted
<1>2. ASSUME \/ \E k \in Keys : RequestCancellation(k)
             \/ \E g \in Configs : SetLaunchable(g)
      PROVE  LaunchInv'
  <2>1. UNCHANGED <<runs, subs, up, callers, flows, operator>>
    BY <1>2 DEF RequestCancellation, SetLaunchable, runVars
  <2> QED
    BY <2>1
       DEF LaunchInv, LocalsAreSet, RunsAreOwned, StatusFollowsSubmission,
           FlowsAreBound, MarkerIsHeld, OneInvocationPerKey, AttemptsAreCounted
<1> QED
  BY <1>1, <1>2, ReconcileBindKeeps, ResolveKeeps, RecoverKeeps DEF OperatorStep

\* A flow's steps after the binding, except the count of the attempt.
LEMMA FlowMoveInv ==
    ASSUME LaunchInv, TypeOK', NEW f \in Flows,
           \/ FlowCheckCancellation(f) \/ FlowAcknowledgeCancellation(f)
           \/ FlowWork(f) \/ FlowPersistResult(f) \/ FlowRegisterArtifact(f)
           \/ FlowPersistManifest(f) \/ FlowReconcileRead(f)
           \/ FlowReconcileApply(f) \/ FlowException(f)
           \/ FlowFailureNotRecorded(f)
    PROVE  LaunchInv'
<1>1. PICK pc \in FlowPc \ {"none", "bind", "attempt"} : FlowGoto(f, pc)
  BY DEF FlowCheckCancellation, FlowAcknowledgeCancellation, FlowWork,
         FlowPersistResult, FlowRegisterArtifact, FlowPersistManifest,
         FlowReconcileRead, FlowReconcileApply, FlowException,
         FlowFailureNotRecorded, FlowPc
<1>2. /\ flows[f].pc \notin {"none"} \cup FlowEnded
      /\ flows[f].pc = "bind" => pc = "raised"
  <2>1. CASE FlowException(f)
    <3>1. flows \in [Flows -> FlowRecord]
      BY DEF LaunchInv, TypeOK
    <3>2. flows'[f].pc = pc
      BY <1>1, <3>1 DEF FlowGoto, FlowRecord
    <3>3. flows'[f].pc = IF flows[f].pc = "bind" THEN "raised" ELSE "failing"
      BY <2>1, <3>1 DEF FlowException, FlowGoto, FlowRecord
    <3> QED
      BY <2>1, <3>2, <3>3 DEF FlowException, FlowEnded
  <2> QED
    BY <2>1
       DEF FlowCheckCancellation, FlowAcknowledgeCancellation, FlowWork,
           FlowPersistResult, FlowRegisterArtifact, FlowPersistManifest,
           FlowReconcileRead, FlowReconcileApply, FlowFailureNotRecorded,
           FlowEnded
<1>3. /\ \A g \in Flows \ {f} : flows'[g] = flows[g]
      /\ flows'[f].pc = pc /\ flows'[f].key = flows[f].key
  BY <1>1 DEF FlowGoto, LaunchInv, TypeOK, FlowRecord
<1>4. UNCHANGED <<subs, up, callers, operator>>
  BY DEF FlowCheckCancellation, FlowAcknowledgeCancellation, FlowWork,
         FlowPersistResult, FlowRegisterArtifact, FlowPersistManifest,
         FlowReconcileRead, FlowReconcileApply, FlowException,
         FlowFailureNotRecorded
<1>5. \/ runs' = runs
      \/ /\ flows[f].pc # "bind"
         /\ \E s \in Terminal : runs' = [runs EXCEPT ![FlowRun(f)].status = s]
  BY DEF FlowCheckCancellation, FlowAcknowledgeCancellation, FlowWork,
         FlowPersistResult, FlowRegisterArtifact, FlowPersistManifest,
         FlowReconcileRead, FlowReconcileApply, FlowException,
         FlowFailureNotRecorded, Transition, Terminal, runVars
<1>6. \A r \in Runs :
        /\ runs'[r].attempts = runs[r].attempts
        /\ \/ runs'[r].status = runs[r].status
           \/ /\ r = FlowRun(f) /\ runs'[r].status \in Terminal
              /\ flows[f].pc # "bind"
  <2>1. runs \in [Runs -> RunRecord]
    BY DEF LaunchInv, TypeOK
  <2> QED
    BY <1>5, <2>1 DEF RunRecord
<1> QED
  BY <1>2, <1>3, <1>4, <1>6, FlowMoveKeeps DEF LaunchInv, FlowEnded

LEMMA FlowAttemptKeeps ==
    ASSUME LaunchInv, TypeOK', NEW f \in Flows, FlowAttempt(f)
    PROVE  LaunchInv'
<1> DEFINE k == flows[f].key
           r == FlowRun(f)
<1>1. /\ k \in Keys /\ flows[f].pc = "attempt"
      /\ subs[k].state = "acknowledged" /\ subs[k].run = r /\ r \in Runs
  BY DEF FlowAttempt, FlowRun, LaunchInv, LocalsAreSet, FlowsAreBound,
         RunsAreOwned, FlowEnded
<1>2. \A g \in Flows \ {f} : flows[g].key # k
  BY <1>1, NoneAssumption DEF LaunchInv, OneInvocationPerKey
<1>3. runs[r].attempts = 0
  BY <1>1, <1>2 DEF LaunchInv, AttemptsAreCounted
<1>4. /\ \A g \in Flows \ {f} : flows'[g] = flows[g]
      /\ flows'[f].pc = "check" /\ flows'[f].key = k
      /\ UNCHANGED <<subs, up, callers, operator>>
  BY DEF FlowAttempt, FlowGoto, LaunchInv, TypeOK, FlowRecord
<1>5. /\ \A x \in Runs : runs'[x].status = runs[x].status
      /\ \A x \in Runs \ {r} : runs'[x].attempts = runs[x].attempts
      /\ runs'[r].attempts = 1
  <2>1. runs \in [Runs -> RunRecord] /\ runs' = [runs EXCEPT ![r].attempts = @ + 1]
    BY DEF FlowAttempt, LaunchInv, TypeOK
  <2> HIDE DEF r
  <2> QED
    BY <1>1, <1>3, <2>1 DEF RunRecord
<1>6. flows[f].key = k
  OBVIOUS
<1> HIDE DEF k, r
<1>7. LocalsAreSet' /\ RunsAreOwned' /\ MarkerIsHeld'
  BY <1>1, <1>4 DEF LaunchInv, LocalsAreSet, RunsAreOwned, MarkerIsHeld
<1>8. StatusFollowsSubmission'
  BY <1>4, <1>5 DEF LaunchInv, StatusFollowsSubmission, RunsAreOwned
<1>9. FlowsAreBound'
  BY <1>1, <1>4 DEF LaunchInv, FlowsAreBound
<1>10. OneInvocationPerKey'
  BY <1>1, <1>4, <1>5, <1>6 DEF LaunchInv, OneInvocationPerKey
<1>11. AttemptsAreCounted'
  <2>1. runs[r].status # "absent"
    BY <1>1 DEF LaunchInv, StatusFollowsSubmission, Terminal
  <2>2. \A j \in Keys \ {k} : subs[j].run # r
    BY <1>1, NoneAssumption DEF LaunchInv, RunsAreOwned
  <2> QED
    BY <1>1, <1>4, <1>5, <1>6, <2>1, <2>2
       DEF LaunchInv, AttemptsAreCounted, RunsAreOwned
<1> QED
  BY <1>7, <1>8, <1>9, <1>10, <1>11 DEF LaunchInv

LEMMA CrashKeeps ==
    ASSUME LaunchInv, TypeOK', NEW d \in Dispatchers, Crash(d)
    PROVE  LaunchInv'
<1>1. /\ up' = up \ {d}
      /\ UNCHANGED <<runs, subs, operator>>
      /\ \A c \in Callers :
            IF ProcessOf[c] = d THEN callers'[c].pc = "dead"
            ELSE callers'[c] = callers[c]
      /\ \A f \in Flows :
            /\ flows'[f].key = flows[f].key
            /\ flows'[f].pc = flows[f].pc \/ flows'[f].pc = "killed"
  BY DEF Crash, IdleCaller, LaunchInv, TypeOK, FlowRecord, runVars
<1>2. \A f \in Flows : flows[f].pc = "none" => flows'[f] = flows[f]
  BY NoneAssumption DEF Crash, LaunchInv, TypeOK, FlowRecord, LocalsAreSet
<1>3. LocalsAreSet'
  BY <1>1, <1>2 DEF LaunchInv, LocalsAreSet
<1>4. RunsAreOwned' /\ StatusFollowsSubmission'
  BY <1>1 DEF LaunchInv, RunsAreOwned, StatusFollowsSubmission
<1>5. FlowsAreBound'
  BY <1>1, <1>2 DEF LaunchInv, FlowsAreBound, FlowEnded
<1>6. MarkerIsHeld' /\ OneInvocationPerKey'
  BY <1>1 DEF LaunchInv, MarkerIsHeld, OneInvocationPerKey, DispatchPcs
<1>7. AttemptsAreCounted'
  BY <1>1, <1>2 DEF LaunchInv, AttemptsAreCounted
<1> QED
  BY <1>3, <1>4, <1>5, <1>6, <1>7 DEF LaunchInv

LEMMA InitInv == Init => LaunchInv
<1> SUFFICES ASSUME Init PROVE LaunchInv
  OBVIOUS
<1>1. TypeOK
  BY InitTyped
<1>2. /\ \A k \in Keys : subs[k].state = "none" /\ subs[k].run = None
      /\ \A c \in Callers : callers[c].pc = "idle" /\ ProcessOf[c] \in up
      /\ \A f \in Flows : flows[f].pc = "none" /\ flows[f].key = None
                            /\ flows[f].proc = None
      /\ \A r \in Runs : runs[r].attempts = 0
      /\ operator.pc = "idle"
  BY ConstantsAssumption DEF Init, NoSub, IdleCaller, NoRun, IdleOperator
<1> QED
  BY <1>1, <1>2
     DEF LaunchInv, LocalsAreSet, RunsAreOwned, StatusFollowsSubmission,
         FlowsAreBound, MarkerIsHeld, DispatchPcs, OneInvocationPerKey,
         AttemptsAreCounted

LEMMA NextInv == LaunchInv /\ [Next]_vars => LaunchInv'
<1> SUFFICES ASSUME LaunchInv, [Next]_vars PROVE LaunchInv'
  OBVIOUS
<1>1. TypeOK'
  BY NextTyped DEF LaunchInv
<1>2. ASSUME NEW c \in Callers, CallerStep(c)
      PROVE  LaunchInv'
  BY <1>1, <1>2, CallerMoveInv, ClaimNewKeeps, BeginDispatchKeeps, InvokeKeeps,
     MarkKeeps DEF CallerStep
<1>3. ASSUME NEW f \in Flows, FlowStep(f)
      PROVE  LaunchInv'
  <2>1. CASE FlowRetryScheduled(f)
    BY <1>1, <2>1
       DEF FlowRetryScheduled, LaunchInv, LocalsAreSet, RunsAreOwned,
           StatusFollowsSubmission, FlowsAreBound, MarkerIsHeld,
           OneInvocationPerKey, AttemptsAreCounted
  <2> QED
    BY <1>1, <1>3, <2>1, FlowBindKeeps, FlowAttemptKeeps, FlowMoveInv DEF FlowStep
<1>4. CASE UNCHANGED vars
  BY <1>1, <1>4
     DEF vars, runVars, LaunchInv, LocalsAreSet, RunsAreOwned,
         StatusFollowsSubmission, FlowsAreBound, MarkerIsHeld,
         OneInvocationPerKey, AttemptsAreCounted
<1> QED
  BY <1>1, <1>2, <1>3, <1>4, LaunchKeeps, OperatorKeeps, CrashKeeps DEF Next

-----------------------------------------------------------------------------
(* Theorems *)

\* The conjunction of the launch's bookkeeping facts holds in every
\* reachable state, for any number of keys, threads, processes and flows.
THEOREM LaunchInvariant == Spec => []LaunchInv
<1>1. Init => LaunchInv
  BY InitInv
<1>2. LaunchInv /\ [Next]_vars => LaunchInv'
  BY NextInv
<1> QED
  BY <1>1, <1>2, PTL DEF Spec

\* Every table and every thread's locals keep their types.
THEOREM TypeCorrect == Spec => []TypeOK
<1>1. LaunchInv => TypeOK
  BY DEF LaunchInv
<1> QED
  BY <1>1, LaunchInvariant, PTL

\* begin_dispatch's compare-and-set is enough: no interleaving of replays,
\* crashes, timeouts and recoveries invokes a key twice.
THEOREM AtMostOneInvocation == Spec => []OneInvocationPerKey
<1>1. LaunchInv => OneInvocationPerKey
  BY DEF LaunchInv
<1> QED
  BY <1>1, LaunchInvariant, PTL

\* research_run_submissions and experiment_runs, written by different
\* transactions of threads, flows and operators, never contradict.
THEOREM TablesAgree == Spec => []StatusFollowsSubmission
<1>1. LaunchInv => StatusFollowsSubmission
  BY DEF LaunchInv
<1> QED
  BY <1>1, LaunchInvariant, PTL

-----------------------------------------------------------------------------
(* How a launch ends: its identity, its output, its event log and the evidence that a
   process exited.  What was shown above, that a key is invoked once and that the tables
   agree, is used here, and the launch implements RunLifecycle. *)

\* A run exists because a submission claimed it, with its configuration.
RunsAreClaimed ==
    /\ \A r \in Runs :
          IF runs[r].status = "absent" THEN runs[r].env = None
          ELSE \E k \in Keys : subs[k].state # "none" /\ subs[k].run = r
    /\ \A k \in Keys : subs[k].state # "none" =>
          runs[subs[k].run].config = subs[k].req.config

Executing(f) == flows[f].pc \notin {"none"} \cup FlowEnded

\* A submission names a flow once it is acknowledged, its run's environment
\* names the same one, and a flow past the binding is the one they name.
BindingsAreRecorded ==
    /\ \A k \in Keys :
          IF subs[k].state = "acknowledged"
          THEN subs[k].flow \in Flows /\ runs[subs[k].run].env = subs[k].flow
          ELSE /\ subs[k].flow = None
               /\ subs[k].state # "none" => runs[subs[k].run].env = None
    /\ \A j, k \in Keys :
          subs[j].flow = subs[k].flow /\ subs[k].flow # None => j = k
    /\ \A f \in Flows :
          Executing(f) /\ flows[f].pc # "bind" => subs[flows[f].key].flow = f

BeforeResult == {"bind", "attempt", "check", "ack_cancel", "work", "recheck",
                 "persist"}

AfterResult == {"artifact", "manifest", "complete", "apply_succeeded"}

\* How much of the output is written, from where its flow is.
ProgressIsRecorded ==
    /\ \A r \in Runs : outputs[r].row # None => outputs[r].row = runs[r].env
    /\ \A f \in Flows :
          /\ flows[f].pc \in BeforeResult => outputs[FlowRun(f)].row = None
          /\ flows[f].pc \in AfterResult => outputs[FlowRun(f)].row # None
          /\ flows[f].pc = "manifest" =>
                outputs[FlowRun(f)].artifacts = NumArtifacts
          /\ flows[f].pc \in {"complete", "apply_succeeded"}
             /\ runs[FlowRun(f)].config \in SpymConfigs =>
                   outputs[FlowRun(f)].manifest = NumArtifacts

Asked(r) == HasEvent(r, "run_cancellation_requested")

\* Only a flow of its own key ends a running run, as its last step.
EndingsAreLogged ==
    /\ EventLogTellsStatus
    /\ \A f \in Flows :
          /\ Executing(f) /\ subs[flows[f].key].state = "acknowledged" =>
                runs[FlowRun(f)].status = "running"
          /\ flows[f].pc = "ack_cancel" => Asked(FlowRun(f))

\* A flow runs in the process that its submission's marker names.
ProcessesAreKnown ==
    /\ \A f \in Flows :
          /\ flows[f].pc # "none" =>
                flows[f].proc = subs[flows[f].key].dispatcher
          /\ Executing(f) => flows[f].proc \in up
    /\ \A k \in Keys :
          subs[k].evidence =>
             /\ subs[k].dispatcher \notin up
             /\ subs[k].state \notin {"none", "claimed"}

OutcomeInv ==
    /\ RunsAreClaimed
    /\ BindingsAreRecorded
    /\ ProgressIsRecorded
    /\ EndingsAreLogged
    /\ ProcessesAreKnown
    /\ SucceededIsComplete
    /\ ReproductionSourceHolds

-----------------------------------------------------------------------------
(* What a step does to the run lifecycle *)

\* The abstract state of a run is the same after the step.
Keeps(r) ==
    /\ runs'[r].status = runs[r].status
    /\ outputs'[r].row # None <=> outputs[r].row # None
    /\ Asked(r)' <=> Asked(r)

\* The steps of RunLifecycle, in terms of the tables.
Moves(r) ==
    \/ /\ \/ runs[r].status = "absent" /\ runs'[r].status = "created"
          \/ runs[r].status = "created" /\ runs'[r].status = "running"
          \/ /\ runs[r].status \in {"created", "running"}
             /\ runs'[r].status = "failed"
          \/ /\ runs[r].status = "running" /\ runs'[r].status = "succeeded"
             /\ outputs[r].row # None
          \/ /\ runs[r].status = "running" /\ runs'[r].status = "cancelled"
             /\ Asked(r) /\ outputs[r].row = None
       /\ outputs'[r].row # None <=> outputs[r].row # None
       /\ Asked(r)' <=> Asked(r)
    \/ /\ runs[r].status = "running" /\ runs'[r].status = "running"
       /\ outputs[r].row = None /\ outputs'[r].row # None
       /\ Asked(r)' <=> Asked(r)
    \/ /\ runs[r].status = "running" /\ runs'[r].status = "running"
       /\ outputs'[r].row # None <=> outputs[r].row # None
       /\ Asked(r)'

LifecycleStep ==
    \/ \A x \in Runs : Keeps(x)
    \/ \E r \in Runs : Moves(r) /\ \A x \in Runs \ {r} : Keeps(x)

\* Such a step of the tables is a step, or a stutter, of the abstract
\* specification under the refinement mapping.
LEMMA StepMaps ==
    ASSUME LifecycleStep
    PROVE  [Lifecycle!Next]_(Lifecycle!vars)
<1> DEFINE status == [r \in Runs |-> runs[r].status]
           hasResult == [r \in Runs |-> outputs[r].row # None]
           cancelAsked == [r \in Runs |-> Asked(r)]
<1>1. ASSUME \A x \in Runs : Keeps(x)
      PROVE  UNCHANGED Lifecycle!vars
  <2>1. status' = status
    BY <1>1 DEF Keeps
  <2>2. hasResult' = hasResult
    BY <1>1, Zenon DEF Keeps
  <2>3. cancelAsked' = cancelAsked
    BY <1>1, Zenon DEF Keeps, Asked, HasEvent
  <2> QED
    BY <2>1, <2>2, <2>3 DEF Lifecycle!vars, Asked
<1>2. ASSUME NEW r \in Runs, Moves(r), \A x \in Runs \ {r} : Keeps(x)
      PROVE  Lifecycle!Next
  <2>1. /\ status' = [status EXCEPT ![r] = runs'[r].status]
        /\ runs'[r].status = runs[r].status => status' = status
    BY <1>2 DEF Keeps
  <2>2. /\ outputs'[r].row # None =>
              hasResult' = [hasResult EXCEPT ![r] = TRUE]
        /\ (outputs'[r].row # None <=> outputs[r].row # None) =>
              hasResult' = hasResult
    BY <1>2, Zenon DEF Keeps
  <2>3. /\ Asked(r)' => cancelAsked' = [cancelAsked EXCEPT ![r] = TRUE]
        /\ (Asked(r)' <=> Asked(r)) => cancelAsked' = cancelAsked
    BY <1>2, Zenon DEF Keeps, Asked, HasEvent
  <2>4. /\ status[r] = runs[r].status
        /\ hasResult[r] <=> outputs[r].row # None
        /\ cancelAsked[r] <=> Asked(r)
    BY Zenon
  <2> HIDE DEF status, hasResult, cancelAsked
  <2>5. \/ /\ status[r] = "absent"
           /\ status' = [status EXCEPT ![r] = "created"]
           /\ UNCHANGED <<hasResult, cancelAsked>>
        \/ /\ status[r] = "created"
           /\ status' = [status EXCEPT ![r] = "running"]
           /\ UNCHANGED <<hasResult, cancelAsked>>
        \/ /\ status[r] = "running" /\ ~hasResult[r]
           /\ hasResult' = [hasResult EXCEPT ![r] = TRUE]
           /\ UNCHANGED <<status, cancelAsked>>
        \/ /\ status[r] = "running"
           /\ cancelAsked' = [cancelAsked EXCEPT ![r] = TRUE]
           /\ UNCHANGED <<status, hasResult>>
        \/ /\ status[r] = "running" /\ cancelAsked[r] /\ ~hasResult[r]
           /\ status' = [status EXCEPT ![r] = "cancelled"]
           /\ UNCHANGED <<hasResult, cancelAsked>>
        \/ /\ status[r] = "running" /\ hasResult[r]
           /\ status' = [status EXCEPT ![r] = "succeeded"]
           /\ UNCHANGED <<hasResult, cancelAsked>>
        \/ /\ status[r] \in {"created", "running"}
           /\ status' = [status EXCEPT ![r] = "failed"]
           /\ UNCHANGED <<hasResult, cancelAsked>>
    BY <1>2, <2>1, <2>2, <2>3, <2>4 DEF Moves
  <2> USE DEF status, hasResult, cancelAsked
  <2> QED
    BY <2>5, Zenon
       DEF Asked, Lifecycle!Next, Lifecycle!Create, Lifecycle!Start,
           Lifecycle!AcceptResult, Lifecycle!AskCancellation,
           Lifecycle!Cancel, Lifecycle!Succeed, Lifecycle!Fail
<1> QED
  BY <1>1, <1>2 DEF LifecycleStep

-----------------------------------------------------------------------------
(* Lemmas about the event log and about who owns a run *)

LEMMA LogEffect ==
    ASSUME TypeOK, NEW r \in Runs, NEW e \in Events, LogEvent(r, e)
    PROVE  /\ \A x \in Runs \ {r} : events'[x] = events[x]
           /\ events'[r] = Append(events[r], e)
           /\ \A x \in Runs, v \in Events :
                 HasEvent(x, v)' <=> HasEvent(x, v) \/ (x = r /\ v = e)
<1>1. /\ \A x \in Runs \ {r} : events'[x] = events[x]
      /\ events'[r] = Append(events[r], e)
      /\ events[r] \in Seq(Events)
  BY DEF TypeOK, LogEvent
<1>2. /\ Len(events'[r]) = Len(events[r]) + 1
      /\ \A i \in 1..Len(events[r]) : events'[r][i] = events[r][i]
      /\ events'[r][Len(events[r]) + 1] = e
      /\ Len(events[r]) \in Nat
  BY <1>1
<1>3. ASSUME NEW v \in Events
      PROVE  HasEvent(r, v)' <=> HasEvent(r, v) \/ v = e
  BY <1>2 DEF HasEvent
<1>4. ASSUME NEW x \in Runs, x # r, NEW v \in Events
      PROVE  HasEvent(x, v)' <=> HasEvent(x, v)
  BY <1>1, <1>4 DEF HasEvent
<1> QED
  BY <1>1, <1>3, <1>4

\* One event more keeps the log and the status of a run that has not ended
\* together: a terminal one if and only if the step ends the run.
LEMMA LogTells ==
    ASSUME TypeOK, EventLogTellsStatus, NEW r \in Runs, NEW e \in Events,
           LogEvent(r, e), runs[r].status \notin Terminal,
           \A x \in Runs \ {r} : runs'[x].status = runs[x].status,
           IF e \in TerminalEvents THEN runs'[r].status = StatusOf(e)
           ELSE runs'[r].status \notin Terminal
    PROVE  EventLogTellsStatus'
<1>1. /\ \A x \in Runs \ {r} : events'[x] = events[x]
      /\ events'[r] = Append(events[r], e)
      /\ events[r] \in Seq(Events)
  BY LogEffect DEF TypeOK
<1>2. /\ Len(events'[r]) = Len(events[r]) + 1
      /\ \A i \in 1..Len(events[r]) : events'[r][i] = events[r][i]
      /\ events'[r][Len(events[r]) + 1] = e
      /\ events'[r] # <<>>
      /\ Len(events[r]) \in Nat
  BY <1>1
<1>3. \A i \in 1..Len(events[r]) : events[r][i] \notin TerminalEvents
  BY DEF EventLogTellsStatus, StatusOf, Terminal, TerminalEvents
<1>4. ASSUME NEW i \in 1..Len(events'[r]), events'[r][i] \in TerminalEvents
      PROVE  i = Len(events'[r]) /\ events'[r][i] = e
  BY <1>2, <1>3, <1>4
<1>5. /\ runs'[r].status \in Terminal =>
            events'[r][Len(events'[r])] \in TerminalEvents
      /\ \A i \in 1..Len(events'[r]) : events'[r][i] \in TerminalEvents =>
            i = Len(events'[r]) /\ runs'[r].status = StatusOf(events'[r][i])
  BY <1>2, <1>4
<1>6. ASSUME NEW x \in Runs, x # r
      PROVE  events'[x] = events[x] /\ runs'[x].status = runs[x].status
  BY <1>1, <1>6
<1> HIDE DEF EventLogTellsStatus
<1>7. ASSUME NEW x \in Runs
      PROVE  /\ runs'[x].status \in Terminal =>
                  /\ events'[x] # <<>>
                  /\ events'[x][Len(events'[x])] \in TerminalEvents
             /\ \A i \in 1..Len(events'[x]) :
                   events'[x][i] \in TerminalEvents =>
                      /\ i = Len(events'[x])
                      /\ runs'[x].status = StatusOf(events'[x][i])
  <2>1. CASE x = r
    BY <1>2, <1>5, <2>1
  <2>2. CASE x # r
    BY <1>6, <2>2 DEF EventLogTellsStatus
  <2> QED
    BY <2>1, <2>2
<1> QED
  BY <1>7 DEF EventLogTellsStatus, StatusOf

LEMMA LogUnchanged ==
    ASSUME EventLogTellsStatus, UNCHANGED events,
           \A x \in Runs : runs'[x].status = runs[x].status
    PROVE  EventLogTellsStatus'
<1>1. ASSUME NEW x \in Runs
      PROVE  /\ runs'[x].status \in Terminal =>
                  /\ events'[x] # <<>>
                  /\ events'[x][Len(events'[x])] \in TerminalEvents
             /\ \A i \in 1..Len(events'[x]) :
                   events'[x][i] \in TerminalEvents =>
                      /\ i = Len(events'[x])
                      /\ runs'[x].status = StatusOf(events'[x][i])
  BY DEF EventLogTellsStatus
<1> QED
  BY <1>1 DEF EventLogTellsStatus, StatusOf

\* No two flows carry one key, so no two work for one run.
LEMMA FlowsApart ==
    ASSUME LaunchInv, NEW f \in Flows, flows[f].pc # "none"
    PROVE  /\ flows[f].key \in Keys
           /\ subs[flows[f].key].state \notin {"none", "claimed"}
           /\ FlowRun(f) \in Runs
           /\ runs[FlowRun(f)].status # "absent"
           /\ \A g \in Flows \ {f} :
                 /\ flows[g].key # flows[f].key
                 /\ flows[g].pc # "none" => FlowRun(g) # FlowRun(f)
           /\ Executing(f) /\ flows[f].pc # "bind" =>
                 subs[flows[f].key].state = "acknowledged"
<1>1. /\ \A g \in Flows : flows[g].pc # "none" =>
            /\ flows[g].key \in Keys
            /\ subs[flows[g].key].state \notin {"none", "claimed"}
            /\ FlowRun(g) \in Runs
      /\ \A g \in Flows \ {f} : flows[g].key # flows[f].key
      /\ Executing(f) /\ flows[f].pc # "bind" =>
            subs[flows[f].key].state = "acknowledged"
  BY NoneAssumption
     DEF LaunchInv, LocalsAreSet, FlowsAreBound, RunsAreOwned,
         OneInvocationPerKey, FlowRun, Executing
<1>2. runs[FlowRun(f)].status # "absent"
  BY <1>1 DEF LaunchInv, StatusFollowsSubmission, FlowRun, Terminal
<1>3. ASSUME NEW g \in Flows \ {f}, flows[g].pc # "none"
      PROVE  FlowRun(g) # FlowRun(f)
  BY <1>1, <1>3, NoneAssumption DEF LaunchInv, RunsAreOwned, FlowRun
<1> QED
  BY <1>1, <1>2, <1>3

-----------------------------------------------------------------------------
(* Steps of a flow on its own run *)

\* A step of flow f touches its own record and that of its run r; nobody's
\* configuration, identity or cancellation request is lost.
OwnRunOnly(f, r) ==
    /\ UNCHANGED <<subs, up>>
    /\ \A g \in Flows \ {f} : flows'[g] = flows[g]
    /\ flows'[f].key = flows[f].key /\ flows'[f].proc = flows[f].proc
    /\ \A x \in Runs :
          /\ runs'[x].config = runs[x].config
          /\ runs'[x].env = runs[x].env
          /\ Asked(x) => Asked(x)'
    /\ \A x \in Runs \ {r} :
          runs'[x].status = runs[x].status /\ outputs'[x] = outputs[x]

\* Where the flow is after the step agrees with what its run has.
Advances(f, r) ==
    LET pc == flows'[f].pc IN
    /\ pc \notin {"none", "bind"}
    /\ pc \notin FlowEnded =>
          flows[f].pc # "bind" /\ runs'[r].status = "running"
    /\ pc \in BeforeResult => outputs'[r].row = None
    /\ pc \in AfterResult => outputs'[r].row # None
    /\ pc = "manifest" => outputs'[r].artifacts = NumArtifacts
    /\ pc \in {"complete", "apply_succeeded"}
       /\ runs[r].config \in SpymConfigs =>
             outputs'[r].manifest = NumArtifacts
    /\ pc = "ack_cancel" => Asked(r)'
    /\ outputs'[r].row \in {outputs[r].row, runs[r].env}
    /\ runs'[r].status # "absent"
    /\ runs'[r].status = "succeeded" =>
          /\ outputs'[r].row # None
          /\ runs[r].config \in SpymConfigs =>
                outputs'[r].manifest = NumArtifacts
    /\ runs[r].status = "succeeded" =>
          runs'[r].status = "succeeded" /\ outputs'[r] = outputs[r]

LEMMA OwnRunStep ==
    ASSUME LaunchInv, OutcomeInv, NEW f \in Flows, NEW r \in Runs,
           r = FlowRun(f), Executing(f), OwnRunOnly(f, r), Advances(f, r),
           EventLogTellsStatus'
    PROVE  OutcomeInv'
<1>1. /\ flows[f].key \in Keys /\ subs[flows[f].key].state # "none"
      /\ runs[r].status # "absent"
      /\ \A g \in Flows \ {f} : flows[g].pc # "none" => FlowRun(g) # r
      /\ flows[f].pc # "none" /\ flows[f].pc \notin FlowEnded
  BY FlowsApart DEF Executing
<1>2. /\ \A g \in Flows : FlowRun(g)' = FlowRun(g)
      /\ \A g \in Flows : flows[g].pc # "none" => FlowRun(g) \in Runs
  BY FlowsApart DEF OwnRunOnly, FlowRun
<1>3. RunsAreClaimed'
  <2>1. \A k \in Keys : subs[k].state # "none" => subs[k].run \in Runs
    BY DEF LaunchInv, RunsAreOwned
  <2> QED
    BY <1>1, <2>1 DEF OutcomeInv, RunsAreClaimed, OwnRunOnly, Advances
<1>4. BindingsAreRecorded'
  <2>1. \A k \in Keys : subs[k].state # "none" =>
           /\ subs[k].run \in Runs
           /\ runs'[subs[k].run].env = runs[subs[k].run].env
    BY DEF LaunchInv, RunsAreOwned, OwnRunOnly
  <2>2. \A g \in Flows : Executing(g)' /\ flows'[g].pc # "bind" =>
           Executing(g) /\ flows[g].pc # "bind" /\ flows'[g].key = flows[g].key
    BY <1>1 DEF OwnRunOnly, Advances, Executing
  <2> QED
    BY <2>1, <2>2 DEF OutcomeInv, BindingsAreRecorded, OwnRunOnly
<1>5. ProgressIsRecorded'
  <2>1. \A x \in Runs :
           outputs'[x].row # None => outputs'[x].row = runs'[x].env
    BY DEF OutcomeInv, ProgressIsRecorded, OwnRunOnly, Advances
  <2>2. ASSUME NEW g \in Flows, g # f, flows[g].pc # "none"
        PROVE  /\ flows'[g] = flows[g] /\ FlowRun(g)' = FlowRun(g)
               /\ outputs'[FlowRun(g)] = outputs[FlowRun(g)]
               /\ runs'[FlowRun(g)].config = runs[FlowRun(g)].config
    BY <1>1, <1>2, <2>2 DEF OwnRunOnly
  <2>3. FlowRun(f)' = r /\ runs'[r].config = runs[r].config
    BY <1>2 DEF OwnRunOnly
  <2>4. \A g \in Flows : g # f /\ flows[g].pc = "none" => flows'[g].pc = "none"
    BY DEF OwnRunOnly
  <2> QED
    BY <2>1, <2>2, <2>3, <2>4
       DEF OutcomeInv, ProgressIsRecorded, Advances, BeforeResult, AfterResult
<1>6. EndingsAreLogged'
  <2>1. ASSUME NEW g \in Flows, g # f, flows[g].pc # "none"
        PROVE  /\ flows'[g] = flows[g] /\ FlowRun(g)' = FlowRun(g)
               /\ runs'[FlowRun(g)].status = runs[FlowRun(g)].status
               /\ Asked(FlowRun(g)) => Asked(FlowRun(g))'
    <3>1. PICK x \in Runs : x = FlowRun(g)
      BY <1>2, <2>1
    <3>2. Asked(x) => Asked(x)'
      BY DEF OwnRunOnly
    <3>3. FlowRun(g)' = x /\ x # r
      BY <1>1, <1>2, <2>1, <3>1
    <3> QED
      BY <2>1, <3>1, <3>2, <3>3 DEF OwnRunOnly, Asked, HasEvent
  <2>2. \A g \in Flows : g # f /\ flows[g].pc = "none" => flows'[g].pc = "none"
    BY DEF OwnRunOnly
  <2>3. /\ Executing(f)' => runs'[r].status = "running"
        /\ flows'[f].pc = "ack_cancel" => Asked(r)'
        /\ FlowRun(f)' = r
    BY <1>2 DEF Advances, Executing
  <2>4. flows'[f].pc = "ack_cancel" => Asked(FlowRun(f))'
    BY <2>3 DEF Asked, HasEvent
  <2>5. UNCHANGED subs
    BY DEF OwnRunOnly
  <2> QED
    BY <2>1, <2>2, <2>3, <2>4, <2>5 DEF OutcomeInv, EndingsAreLogged, Executing
<1>7. ProcessesAreKnown'
  BY <1>1 DEF OutcomeInv, ProcessesAreKnown, OwnRunOnly, Advances, Executing
<1>8. SucceededIsComplete'
  BY DEF OutcomeInv, SucceededIsComplete, OwnRunOnly, Advances
<1>9. ReproductionSourceHolds'
  <2>1. \A x \in Runs : runs[x].status = "succeeded" =>
           runs'[x].status = "succeeded" /\ outputs'[x] = outputs[x]
    BY DEF OwnRunOnly, Advances
  <2>2. ASSUME NEW k \in Keys, subs[k].state # "none",
               subs[k].req.op = "reproduction"
        PROVE  subs[k].req.source \in Runs /\ subs[k].run \in Runs
    BY <2>2 DEF LaunchInv, RunsAreOwned, Requests
  <2> QED
    BY <2>1, <2>2 DEF OutcomeInv, ReproductionSourceHolds, OwnRunOnly
<1> QED
  BY <1>3, <1>4, <1>5, <1>6, <1>7, <1>8, <1>9 DEF OutcomeInv, EndingsAreLogged

LEMMA FlowGotoEffect ==
    ASSUME TypeOK, NEW f \in Flows, NEW pc, FlowGoto(f, pc)
    PROVE  /\ \A g \in Flows \ {f} : flows'[g] = flows[g]
           /\ flows'[f].pc = pc
           /\ flows'[f].key = flows[f].key /\ flows'[f].proc = flows[f].proc
BY DEF TypeOK, FlowGoto, FlowRecord

\* A flow that executes past the binding finds its run running.
LEMMA ExecutingFlow ==
    ASSUME LaunchInv, OutcomeInv, NEW f \in Flows, Executing(f)
    PROVE  /\ TypeOK
           /\ FlowRun(f) \in Runs
           /\ runs[FlowRun(f)].status # "absent"
           /\ flows[f].pc # "bind" =>
                 /\ runs[FlowRun(f)].status = "running"
                 /\ runs[FlowRun(f)].env = f
<1>1. /\ TypeOK /\ FlowRun(f) \in Runs /\ runs[FlowRun(f)].status # "absent"
      /\ flows[f].key \in Keys
      /\ flows[f].pc # "bind" => subs[flows[f].key].state = "acknowledged"
  BY FlowsApart DEF LaunchInv, Executing
<1>2. ASSUME flows[f].pc # "bind"
      PROVE  /\ runs[FlowRun(f)].status = "running"
             /\ runs[FlowRun(f)].env = f
  BY <1>1, <1>2
     DEF OutcomeInv, EndingsAreLogged, BindingsAreRecorded, FlowRun
<1> QED
  BY <1>1, <1>2

\* Steps of a flow that read its run and move on, and the attempt's count.
LEMMA FlowMovesOn ==
    ASSUME LaunchInv, OutcomeInv, NEW f \in Flows,
           \/ FlowAttempt(f) \/ FlowCheckCancellation(f) \/ FlowWork(f)
           \/ FlowReconcileRead(f) \/ FlowException(f)
           \/ FlowFailureNotRecorded(f)
    PROVE  OutcomeInv' /\ LifecycleStep
<1>1. Executing(f)
  BY DEF FlowAttempt, FlowCheckCancellation, FlowWork, FlowReconcileRead,
         FlowException, FlowFailureNotRecorded, Executing, FlowEnded
<1>2. /\ TypeOK
      /\ FlowRun(f) \in Runs
      /\ runs[FlowRun(f)].status # "absent"
      /\ flows[f].pc # "bind" => runs[FlowRun(f)].status = "running"
  BY <1>1, ExecutingFlow
<1>3. PICK r \in Runs : r = FlowRun(f)
  BY <1>2
<1>4. UNCHANGED <<subs, up, outputs, events>>
  BY DEF FlowAttempt, FlowCheckCancellation, FlowWork, FlowReconcileRead,
         FlowException, FlowFailureNotRecorded, runVars
<1>5. \A x \in Runs : /\ runs'[x].status = runs[x].status
                      /\ runs'[x].config = runs[x].config
                      /\ runs'[x].env = runs[x].env
  <2>1. \/ runs' = runs
        \/ runs' = [runs EXCEPT ![FlowRun(f)].attempts = @ + 1]
    BY DEF FlowAttempt, FlowCheckCancellation, FlowWork, FlowReconcileRead,
           FlowException, FlowFailureNotRecorded, runVars
  <2>2. runs \in [Runs -> RunRecord]
    BY <1>2 DEF TypeOK
  <2> QED
    BY <1>3, <2>1, <2>2 DEF RunRecord
<1>6. \A x \in Runs : Asked(x)' <=> Asked(x)
  BY <1>4 DEF Asked, HasEvent
<1>7. /\ \A g \in Flows \ {f} : flows'[g] = flows[g]
      /\ flows'[f].key = flows[f].key /\ flows'[f].proc = flows[f].proc
      /\ \/ /\ flows[f].pc \in {"attempt", "check", "work", "recheck"}
            /\ flows'[f].pc \in {"check", "work", "recheck", "persist"}
         \/ /\ flows[f].pc \in {"check", "recheck"}
            /\ flows'[f].pc = "ack_cancel" /\ Asked(r)
         \/ flows[f].pc = "complete" /\ flows'[f].pc = "apply_succeeded"
         \/ /\ flows[f].pc # "bind"
            /\ flows'[f].pc \in {"failing", "apply_failed"}
         \/ flows'[f].pc \in {"raised", "returned"}
  <2>1. CASE FlowAttempt(f)
    BY <1>2, <2>1, FlowGotoEffect DEF FlowAttempt
  <2>2. CASE FlowCheckCancellation(f)
    BY <1>2, <1>3, <2>2, FlowGotoEffect DEF FlowCheckCancellation, Asked
  <2>3. CASE FlowWork(f)
    BY <1>2, <2>3, FlowGotoEffect DEF FlowWork
  <2>4. CASE FlowReconcileRead(f)
    BY <1>2, <2>4, FlowGotoEffect DEF FlowReconcileRead
  <2>5. CASE FlowException(f)
    BY <1>2, <2>5, FlowGotoEffect DEF FlowException
  <2>6. CASE FlowFailureNotRecorded(f)
    BY <1>2, <2>6, FlowGotoEffect DEF FlowFailureNotRecorded
  <2> QED
    BY <2>1, <2>2, <2>3, <2>4, <2>5, <2>6
<1>8. OwnRunOnly(f, r)
  BY <1>4, <1>5, <1>6, <1>7 DEF OwnRunOnly
<1>9. Advances(f, r)
  <2>1. /\ flows[f].pc \in BeforeResult => outputs[r].row = None
        /\ flows[f].pc \in AfterResult => outputs[r].row # None
        /\ flows[f].pc \in {"complete", "apply_succeeded"}
           /\ runs[r].config \in SpymConfigs =>
                 outputs[r].manifest = NumArtifacts
        /\ runs[r].status = "succeeded" =>
              /\ outputs[r].row # None
              /\ runs[r].config \in SpymConfigs =>
                    outputs[r].manifest = NumArtifacts
    BY <1>3 DEF OutcomeInv, ProgressIsRecorded, SucceededIsComplete
  <2>2. /\ flows'[f].pc \notin {"none", "bind", "artifact", "manifest",
                               "complete"}
        /\ flows'[f].pc \notin FlowEnded => flows[f].pc # "bind"
        /\ flows'[f].pc \in BeforeResult => flows[f].pc \in BeforeResult
        /\ flows'[f].pc \in AfterResult =>
              flows[f].pc = "complete" /\ flows'[f].pc = "apply_succeeded"
        /\ flows'[f].pc = "ack_cancel" => Asked(r)
    BY <1>7 DEF BeforeResult, AfterResult, FlowEnded
  <2>3. {"complete", "apply_succeeded"} \subseteq AfterResult
    BY DEF AfterResult
  <2>4. Asked(r) => Asked(r)'
    BY <1>6
  <2>5. /\ runs'[r].status = runs[r].status
        /\ runs[r].status \notin {"absent"}
        /\ flows[f].pc # "bind" => runs[r].status = "running"
        /\ outputs'[r] = outputs[r]
    BY <1>2, <1>3, <1>4, <1>5
  <2> QED
    BY <2>1, <2>2, <2>3, <2>4, <2>5 DEF Advances
<1>10. EventLogTellsStatus'
  BY <1>4, <1>5, LogUnchanged DEF OutcomeInv, EndingsAreLogged
<1>11. LifecycleStep
  BY <1>4, <1>5, <1>6 DEF LifecycleStep, Keeps
<1> QED
  BY <1>1, <1>3, <1>8, <1>9, <1>10, <1>11, OwnRunStep

\* Steps of a flow that write its run's output.
LEMMA FlowWritesOutput ==
    ASSUME LaunchInv, OutcomeInv, NEW f \in Flows,
           \/ FlowPersistResult(f) \/ FlowRegisterArtifact(f)
           \/ FlowPersistManifest(f)
    PROVE  OutcomeInv' /\ LifecycleStep
<1>1. Executing(f) /\ flows[f].pc # "bind"
  BY DEF FlowPersistResult, FlowRegisterArtifact, FlowPersistManifest,
         Executing, FlowEnded
<1>2. /\ TypeOK
      /\ FlowRun(f) \in Runs
      /\ runs[FlowRun(f)].status = "running"
      /\ runs[FlowRun(f)].env = f
  BY <1>1, ExecutingFlow
<1>3. PICK r \in Runs : r = FlowRun(f)
  BY <1>2
<1>4. UNCHANGED <<subs, up, runs, events>>
  BY DEF FlowPersistResult, FlowRegisterArtifact, FlowPersistManifest
<1>5. \A x \in Runs : Asked(x)' <=> Asked(x)
  BY <1>4 DEF Asked, HasEvent
<1>6. /\ \A g \in Flows \ {f} : flows'[g] = flows[g]
      /\ flows'[f].key = flows[f].key /\ flows'[f].proc = flows[f].proc
      /\ \A x \in Runs \ {r} : outputs'[x] = outputs[x]
      /\ \/ flows'[f].pc = "failing" /\ outputs' = outputs
         \/ /\ flows[f].pc = "persist"
            /\ outputs[r].row = None /\ outputs'[r].row = f
            /\ \/ flows'[f].pc = "artifact"
               \/ /\ flows'[f].pc = "complete"
                  /\ runs[r].config \notin SpymConfigs
         \/ /\ flows[f].pc = "artifact" /\ outputs'[r].row = outputs[r].row
            /\ \/ flows'[f].pc = "artifact"
               \/ /\ flows'[f].pc = "manifest"
                  /\ outputs'[r].artifacts = NumArtifacts
         \/ /\ flows[f].pc = "manifest" /\ flows'[f].pc = "complete"
            /\ outputs'[r].row = outputs[r].row
            /\ outputs'[r].manifest = outputs[r].artifacts
  <2>0. outputs \in [Runs -> OutputRecord]
    BY <1>2 DEF TypeOK
  <2>1. CASE FlowPersistResult(f)
    BY <1>2, <1>3, <2>0, <2>1, FlowGotoEffect
       DEF FlowPersistResult, OutputRecord
  <2>2. CASE FlowRegisterArtifact(f)
    BY <1>2, <1>3, <2>0, <2>2, FlowGotoEffect
       DEF FlowRegisterArtifact, OutputRecord
  <2>3. CASE FlowPersistManifest(f)
    BY <1>2, <1>3, <2>0, <2>3, FlowGotoEffect
       DEF FlowPersistManifest, OutputRecord
  <2> QED
    BY <2>1, <2>2, <2>3
<1>7. OwnRunOnly(f, r)
  BY <1>4, <1>5, <1>6 DEF OwnRunOnly
<1>8. Advances(f, r)
  <2>1. /\ flows[f].pc \in AfterResult => outputs[r].row # None
        /\ flows[f].pc = "manifest" => outputs[r].artifacts = NumArtifacts
    BY <1>3 DEF OutcomeInv, ProgressIsRecorded
  <2>2. f # None
    BY NoneAssumption
  <2> QED
    BY <1>1, <1>2, <1>3, <1>4, <1>6, <2>1, <2>2
       DEF Advances, BeforeResult, AfterResult, FlowEnded
<1>9. EventLogTellsStatus'
  BY <1>4, LogUnchanged DEF OutcomeInv, EndingsAreLogged
<1>10. LifecycleStep
  <2>1. CASE outputs[r].row = None /\ outputs'[r].row = f
    <3>1. Moves(r)
      BY <1>2, <1>3, <1>4, <1>5, <2>1, NoneAssumption DEF Moves
    <3> QED
      BY <1>4, <1>5, <1>6, <3>1 DEF LifecycleStep, Keeps
  <2>2. CASE outputs'[r].row = outputs[r].row
    BY <1>4, <1>5, <1>6, <2>2 DEF LifecycleStep, Keeps
  <2> QED
    BY <1>6, <2>1, <2>2
<1> QED
  BY <1>1, <1>3, <1>7, <1>8, <1>9, <1>10, OwnRunStep

\* Steps of a flow that end its run: a cancellation, a success, a failure.
LEMMA FlowEndsRun ==
    ASSUME LaunchInv, OutcomeInv, NEW f \in Flows,
           FlowAcknowledgeCancellation(f) \/ FlowReconcileApply(f)
    PROVE  OutcomeInv' /\ LifecycleStep
<1>1. Executing(f) /\ flows[f].pc # "bind"
  BY DEF FlowAcknowledgeCancellation, FlowReconcileApply, Executing, FlowEnded
<1>2. /\ TypeOK
      /\ FlowRun(f) \in Runs
      /\ runs[FlowRun(f)].status = "running"
      /\ runs[FlowRun(f)].env = f
  BY <1>1, ExecutingFlow
<1>3. PICK r \in Runs : r = FlowRun(f)
  BY <1>2
<1>4. UNCHANGED <<subs, up, outputs>>
  BY DEF FlowAcknowledgeCancellation, FlowReconcileApply
<1>5. PICK s \in Terminal, e \in TerminalEvents :
        /\ Transition(r, s, e) /\ s = StatusOf(e)
        /\ s = "succeeded" => flows[f].pc = "apply_succeeded"
        /\ s = "cancelled" => flows[f].pc = "ack_cancel"
        /\ \/ FlowGoto(f, "raised")
           \/ FlowGoto(f, "returned")
  <2>1. CASE FlowAcknowledgeCancellation(f)
    BY <1>2, <1>3, <2>1
       DEF FlowAcknowledgeCancellation, Terminal, TerminalEvents, StatusOf
  <2>2. CASE FlowReconcileApply(f)
    <3>1. TransitionAllowed("running", "succeeded")
          /\ TransitionAllowed("running", "failed")
      BY DEF TransitionAllowed, Terminal
    <3> QED
      BY <1>2, <1>3, <2>2, <3>1
         DEF FlowReconcileApply, Terminal, TerminalEvents, StatusOf
  <2> QED
    BY <2>1, <2>2
<1>6. /\ e \in Events /\ LogEvent(r, e) /\ e # "run_cancellation_requested"
      /\ "run_cancellation_requested" \in Events
  BY <1>5 DEF TerminalEvents, Events, Transition
<1>7. /\ \A x \in Runs : Asked(x)' <=> Asked(x)
  BY <1>2, <1>6, LogEffect DEF Asked
<1>8. /\ \A g \in Flows \ {f} : flows'[g] = flows[g]
      /\ flows'[f].key = flows[f].key /\ flows'[f].proc = flows[f].proc
      /\ flows'[f].pc \in {"raised", "returned"}
  BY <1>2, <1>5, FlowGotoEffect
<1>9. /\ \A x \in Runs \ {r} : runs'[x] = runs[x]
      /\ runs'[r].status = s
      /\ runs'[r].config = runs[r].config /\ runs'[r].env = runs[r].env
  <2>1. runs \in [Runs -> RunRecord]
    BY <1>2 DEF TypeOK
  <2> QED
    BY <1>5, <2>1 DEF Transition, RunRecord
<1>10. OwnRunOnly(f, r)
  BY <1>4, <1>7, <1>8, <1>9 DEF OwnRunOnly
<1>11. /\ s = "cancelled" => outputs[r].row = None /\ Asked(r)
       /\ s = "succeeded" =>
             /\ outputs[r].row # None
             /\ runs[r].config \in SpymConfigs =>
                   outputs[r].manifest = NumArtifacts
  <2>1. CASE s = "cancelled"
    BY <1>3, <1>5, <2>1
       DEF OutcomeInv, ProgressIsRecorded, EndingsAreLogged, BeforeResult,
           Asked, HasEvent
  <2>2. CASE s = "succeeded"
    BY <1>3, <1>5, <2>2 DEF OutcomeInv, ProgressIsRecorded, AfterResult
  <2> QED
    BY <2>1, <2>2
<1>12. Advances(f, r)
  BY <1>2, <1>3, <1>4, <1>8, <1>9, <1>11
     DEF Advances, BeforeResult, AfterResult, FlowEnded, Terminal
<1>13. EventLogTellsStatus'
  BY <1>2, <1>3, <1>5, <1>6, <1>9, LogTells
     DEF OutcomeInv, EndingsAreLogged, Terminal
<1>14. LifecycleStep
  <2>1. Moves(r)
    BY <1>2, <1>3, <1>4, <1>7, <1>9, <1>11 DEF Moves, Terminal
  <2> QED
    BY <1>4, <1>7, <1>9, <2>1 DEF LifecycleStep, Keeps
<1> QED
  BY <1>1, <1>3, <1>10, <1>12, <1>13, <1>14, OwnRunStep

\* An event that does not end its run: a scheduled retry or a request to
\* cancel, logged while the run is running.
LEMMA EventLogged ==
    ASSUME LaunchInv, OutcomeInv,
           \/ \E f \in Flows : FlowRetryScheduled(f)
           \/ \E k \in Keys : RequestCancellation(k)
    PROVE  OutcomeInv' /\ LifecycleStep
<1>1. UNCHANGED <<runs, outputs, subs, up, flows>>
  BY DEF FlowRetryScheduled, RequestCancellation
<1>2. PICK r \in Runs, e \in {"run_retry_scheduled",
                              "run_cancellation_requested"} :
        runs[r].status = "running" /\ LogEvent(r, e)
  <2>1. ASSUME NEW f \in Flows, FlowRetryScheduled(f)
        PROVE  /\ FlowRun(f) \in Runs /\ runs[FlowRun(f)].status = "running"
               /\ LogEvent(FlowRun(f), "run_retry_scheduled")
    <3>1. Executing(f) /\ flows[f].pc # "bind"
      BY <2>1 DEF FlowRetryScheduled, Executing, FlowEnded
    <3> QED
      BY <2>1, <3>1, ExecutingFlow DEF FlowRetryScheduled
  <2>2. ASSUME NEW k \in Keys, RequestCancellation(k)
        PROVE  /\ subs[k].run \in Runs /\ runs[subs[k].run].status = "running"
               /\ LogEvent(subs[k].run, "run_cancellation_requested")
    BY <2>2 DEF RequestCancellation, LaunchInv, RunsAreOwned
  <2> QED
    BY <2>1, <2>2
<1>3. /\ TypeOK
      /\ e \in Events /\ "run_cancellation_requested" \in Events
      /\ e \notin TerminalEvents
  BY DEF LaunchInv, Events, TerminalEvents
<1>4. \A x \in Runs : Asked(x)' <=>
         Asked(x) \/ (x = r /\ e = "run_cancellation_requested")
  BY <1>2, <1>3, LogEffect DEF Asked
<1>5. EventLogTellsStatus'
  BY <1>1, <1>2, <1>3, LogTells DEF OutcomeInv, EndingsAreLogged, Terminal
<1>6. EndingsAreLogged'
  <2>1. ASSUME NEW f \in Flows, flows[f].pc = "ack_cancel"
        PROVE  Asked(FlowRun(f))'
    <3>1. FlowRun(f) \in Runs /\ Asked(FlowRun(f))
      BY <2>1, FlowsApart DEF OutcomeInv, EndingsAreLogged
    <3>2. PICK x \in Runs : x = FlowRun(f)
      BY <3>1
    <3>3. Asked(x)' /\ FlowRun(f)' = x
      BY <1>1, <1>4, <3>1, <3>2 DEF FlowRun, Asked, HasEvent
    <3> QED
      BY <3>3 DEF Asked, HasEvent
  <2> QED
    BY <1>1, <1>5, <2>1 DEF OutcomeInv, EndingsAreLogged, Executing, FlowRun
<1>7. /\ RunsAreClaimed' /\ BindingsAreRecorded' /\ ProgressIsRecorded'
      /\ ProcessesAreKnown' /\ SucceededIsComplete' /\ ReproductionSourceHolds'
  BY <1>1
     DEF OutcomeInv, RunsAreClaimed, BindingsAreRecorded, ProgressIsRecorded,
         ProcessesAreKnown, SucceededIsComplete, ReproductionSourceHolds,
         Executing, FlowRun
<1>8. LifecycleStep
  <2>1. CASE e = "run_cancellation_requested"
    <3>1. Moves(r)
      BY <1>1, <1>2, <1>4, <2>1 DEF Moves
    <3> QED
      BY <1>1, <1>4, <3>1 DEF LifecycleStep, Keeps
  <2>2. CASE e # "run_cancellation_requested"
    BY <1>1, <1>4, <2>2 DEF LifecycleStep, Keeps
  <2> QED
    BY <2>1, <2>2
<1> QED
  BY <1>6, <1>7, <1>8 DEF OutcomeInv

-----------------------------------------------------------------------------
(* The binding of an identity, by the flow or by an operator *)

\* What bind_prefect_identity changes: nothing that matters here, or it
\* acknowledges the submission and starts its run.
LEMMA BindChanges ==
    ASSUME LaunchInv, OutcomeInv, NEW k \in Keys, NEW f \in Flows,
           NEW api \in ApiUrls, NEW r \in Runs, r = subs[k].run,
           subs[k].state # "none", BindPrefectIdentity(k, f, api)
    PROVE  \/ /\ UNCHANGED <<subs, runs, events, outputs>>
              /\ BindAccepted(k, f, api) =>
                    subs[k].state = "acknowledged" /\ subs[k].flow = f
           \/ /\ subs[k].state \in {"invoking", "submission_unknown"}
              /\ subs'[k].state = "acknowledged" /\ subs'[k].flow = f
              /\ subs'[k].run = r /\ subs'[k].req = subs[k].req
              /\ subs'[k].dispatcher = subs[k].dispatcher
              /\ subs'[k].evidence = subs[k].evidence
              /\ \A j \in Keys \ {k} : subs'[j] = subs[j] /\ subs[j].flow # f
              /\ \A x \in Runs \ {r} : runs'[x] = runs[x]
              /\ runs[r].status = "created" /\ runs'[r].status = "running"
              /\ runs'[r].env = f /\ runs'[r].config = runs[r].config
              /\ LogEvent(r, "run_started") /\ UNCHANGED outputs
<1>1. runs \in [Runs -> RunRecord] /\ subs \in [Keys -> SubRecord]
  BY DEF LaunchInv, TypeOK
<1>2. CASE BindOutcome(k, f, api) = "bound"
  <2>1. /\ subs' = [subs EXCEPT ![k].state = "acknowledged",
                                ![k].flow = f, ![k].api = api]
        /\ runs' = [runs EXCEPT ![r].env = f, ![r].status = "running"]
        /\ LogEvent(r, "run_started")
        /\ UNCHANGED outputs
    BY <1>2 DEF BindPrefectIdentity
  <2>2. /\ subs[k].state \in {"invoking", "submission_unknown"}
        /\ ~BoundElsewhere(k, f)
    BY <1>2 DEF BindOutcome
  <2>3. runs[r].status = "created"
    BY <2>2 DEF LaunchInv, StatusFollowsSubmission
  <2>4. /\ subs'[k].state = "acknowledged" /\ subs'[k].flow = f
        /\ subs'[k].run = r /\ subs'[k].req = subs[k].req
        /\ subs'[k].dispatcher = subs[k].dispatcher
        /\ subs'[k].evidence = subs[k].evidence
        /\ \A j \in Keys \ {k} : subs'[j] = subs[j] /\ subs[j].flow # f
    BY <1>1, <2>1, <2>2 DEF SubRecord, BoundElsewhere
  <2>5. /\ \A x \in Runs \ {r} : runs'[x] = runs[x]
        /\ runs'[r].status = "running"
        /\ runs'[r].env = f /\ runs'[r].config = runs[r].config
    BY <1>1, <2>1 DEF RunRecord
  <2> QED
    BY <2>1, <2>2, <2>3, <2>4, <2>5
<1>3. CASE BindOutcome(k, f, api) # "bound"
  <2>1. UNCHANGED <<subs, runs, events, outputs>>
    BY <1>3 DEF BindPrefectIdentity
  <2>2. BindOutcome(k, f, api) = "replayed" =>
           subs[k].state = "acknowledged" /\ subs[k].flow = f
    BY DEF BindOutcome
  <2> QED
    BY <1>3, <2>1, <2>2 DEF BindAccepted
<1> QED
  BY <1>2, <1>3

\* A flow g may leave the binding in the same step: into its first attempt,
\* when the submission names it, or out.
LEMMA BindKeepsOutcome ==
    ASSUME LaunchInv, OutcomeInv, NEW k \in Keys, NEW f \in Flows,
           NEW api \in ApiUrls, subs[k].state # "none",
           BindPrefectIdentity(k, f, api), UNCHANGED up,
           \A g \in Flows :
              \/ flows'[g] = flows[g]
              \/ /\ flows[g].pc = "bind"
                 /\ flows'[g].key = flows[g].key
                 /\ flows'[g].proc = flows[g].proc
                 /\ \/ flows'[g].pc = "raised"
                    \/ /\ flows'[g].pc = "attempt" /\ g = f
                       /\ flows[g].key = k /\ BindAccepted(k, f, api)
    PROVE  OutcomeInv' /\ LifecycleStep
<1>1. subs[k].run \in Runs /\ TypeOK
  BY DEF LaunchInv, RunsAreOwned
<1>2. PICK r \in Runs : r = subs[k].run
  BY <1>1
<1>3. /\ \A g \in Flows : /\ flows'[g].key = flows[g].key
                          /\ flows'[g].proc = flows[g].proc
                          /\ flows[g].pc = "none" <=> flows'[g].pc = "none"
                          /\ Executing(g)' => Executing(g)
                          /\ flows'[g].pc # flows[g].pc =>
                                /\ flows[g].pc = "bind"
                                /\ flows'[g].pc \in {"attempt", "raised"}
      /\ \A g \in Flows :
            flows'[g].pc \notin {flows[g].pc, "raised"} =>
               g = f /\ flows[g].key = k /\ BindAccepted(k, f, api)
  BY DEF Executing, FlowEnded
<1>4. /\ \A g \in Flows : flows[g].pc # "none" =>
            /\ flows[g].key \in Keys /\ FlowRun(g) \in Runs
            /\ subs[flows[g].key].state # "none"
            /\ Executing(g) /\ flows[g].pc # "bind" =>
                  subs[flows[g].key].state = "acknowledged"
      /\ \A j \in Keys : subs[j].state # "none" =>
            /\ subs[j].run \in Runs
            /\ j # k => subs[j].run # r
            /\ subs[j].req \in Requests
  <2>1. \A j \in Keys : subs[j].state # "none" =>
            /\ subs[j].run \in Runs
            /\ j # k => subs[j].run # r
            /\ subs[j].req \in Requests
    BY <1>2, NoneAssumption DEF LaunchInv, RunsAreOwned
  <2> QED
    BY <2>1, FlowsApart
<1>5. CASE /\ UNCHANGED <<subs, runs, events, outputs>>
           /\ BindAccepted(k, f, api) =>
                 subs[k].state = "acknowledged" /\ subs[k].flow = f
  <2>1. \A g \in Flows : FlowRun(g)' = FlowRun(g)
    BY <1>3, <1>5 DEF FlowRun
  <2>2. RunsAreClaimed' /\ SucceededIsComplete' /\ ReproductionSourceHolds'
    BY <1>5
       DEF OutcomeInv, RunsAreClaimed, SucceededIsComplete,
           ReproductionSourceHolds
  <2>3. BindingsAreRecorded'
    BY <1>3, <1>5 DEF OutcomeInv, BindingsAreRecorded, Executing, FlowEnded
  <2>4. ProgressIsRecorded'
    BY <1>3, <1>5, <2>1
       DEF OutcomeInv, ProgressIsRecorded, BeforeResult, AfterResult
  <2>5. EndingsAreLogged'
    <3>1. EventLogTellsStatus'
      BY <1>5, LogUnchanged DEF OutcomeInv, EndingsAreLogged
    <3>2. ASSUME NEW g \in Flows, flows'[g].pc = "ack_cancel"
          PROVE  Asked(FlowRun(g))'
      BY <1>3, <1>5, <2>1, <3>2
         DEF OutcomeInv, EndingsAreLogged, Asked, HasEvent
    <3> QED
      BY <1>3, <1>5, <2>1, <3>1, <3>2 DEF OutcomeInv, EndingsAreLogged
  <2>6. ProcessesAreKnown'
    BY <1>3, <1>5 DEF OutcomeInv, ProcessesAreKnown
  <2>7. LifecycleStep
    BY <1>5 DEF LifecycleStep, Keeps, Asked, HasEvent
  <2> QED
    BY <2>2, <2>3, <2>4, <2>5, <2>6, <2>7 DEF OutcomeInv
<1>6. CASE /\ subs[k].state \in {"invoking", "submission_unknown"}
           /\ subs'[k].state = "acknowledged" /\ subs'[k].flow = f
           /\ subs'[k].run = r /\ subs'[k].req = subs[k].req
           /\ subs'[k].dispatcher = subs[k].dispatcher
           /\ subs'[k].evidence = subs[k].evidence
           /\ \A j \in Keys \ {k} : subs'[j] = subs[j] /\ subs[j].flow # f
           /\ \A x \in Runs \ {r} : runs'[x] = runs[x]
           /\ runs[r].status = "created" /\ runs'[r].status = "running"
           /\ runs'[r].env = f /\ runs'[r].config = runs[r].config
           /\ LogEvent(r, "run_started") /\ UNCHANGED outputs
  <2>1. /\ \A g \in Flows : flows[g].pc # "none" => FlowRun(g)' = FlowRun(g)
        /\ \A g \in Flows : flows[g].pc # "none" /\ flows[g].key # k =>
              FlowRun(g) # r
        /\ \A g \in Flows : flows[g].key = k => FlowRun(g) = r
        /\ \A g \in Flows : Executing(g) /\ flows[g].pc # "bind" =>
              flows[g].key # k
    BY <1>2, <1>3, <1>4, <1>6 DEF FlowRun, Executing
  <2>2. /\ "run_started" \in Events \ TerminalEvents
        /\ "run_cancellation_requested" \in Events
    BY DEF Events, TerminalEvents
  <2>3. \A x \in Runs : Asked(x)' <=> Asked(x)
    BY <1>1, <1>6, <2>2, LogEffect DEF Asked
  <2>4. outputs[r].row = None
    BY <1>2, <1>6
       DEF OutcomeInv, BindingsAreRecorded, ProgressIsRecorded
  <2>5. RunsAreClaimed'
    <3>1. ASSUME NEW x \in Runs, x # r
          PROVE  IF runs'[x].status = "absent" THEN runs'[x].env = None
                 ELSE \E j \in Keys :
                         subs'[j].state # "none" /\ subs'[j].run = x
      BY <1>2, <1>6, <3>1 DEF OutcomeInv, RunsAreClaimed
    <3>2. \A j \in Keys : subs'[j].state # "none" =>
             runs'[subs'[j].run].config = subs'[j].req.config
      BY <1>2, <1>4, <1>6 DEF OutcomeInv, RunsAreClaimed
    <3>3. /\ subs'[k].state # "none" /\ subs'[k].run = r
          /\ runs'[r].status = "running"
      BY <1>6
    <3> QED
      BY <3>1, <3>2, <3>3 DEF RunsAreClaimed
  <2>6. BindingsAreRecorded'
    <3>1. ASSUME NEW j \in Keys
          PROVE  IF subs'[j].state = "acknowledged"
                 THEN subs'[j].flow \in Flows
                      /\ runs'[subs'[j].run].env = subs'[j].flow
                 ELSE /\ subs'[j].flow = None
                      /\ subs'[j].state # "none" =>
                            runs'[subs'[j].run].env = None
      BY <1>2, <1>4, <1>6 DEF OutcomeInv, BindingsAreRecorded
    <3>2. \A i, j \in Keys :
             subs'[i].flow = subs'[j].flow /\ subs'[j].flow # None => i = j
      BY <1>6 DEF OutcomeInv, BindingsAreRecorded
    <3>3. ASSUME NEW g \in Flows, Executing(g)', flows'[g].pc # "bind"
          PROVE  subs'[flows'[g].key].flow = g
      <4>1. CASE flows'[g].pc = flows[g].pc
        BY <1>3, <1>4, <1>6, <2>1, <3>3, <4>1
           DEF OutcomeInv, BindingsAreRecorded, Executing
      <4>2. CASE flows'[g].pc # flows[g].pc
        <5>1. g = f /\ flows'[g].key = k
          BY <1>3, <3>3, <4>2 DEF Executing, FlowEnded
        <5> QED
          BY <1>6, <5>1
      <4> QED
        BY <4>1, <4>2
    <3> QED
      BY <3>1, <3>2, <3>3 DEF BindingsAreRecorded
  <2>7. ProgressIsRecorded'
    <3>1. \A x \in Runs :
             outputs'[x].row # None => outputs'[x].row = runs'[x].env
      BY <1>6, <2>4 DEF OutcomeInv, ProgressIsRecorded
    <3>2. \A g \in Flows : flows[g].pc # "none" =>
             runs'[FlowRun(g)].config = runs[FlowRun(g)].config
      BY <1>4, <1>6
    <3> QED
      BY <1>3, <1>6, <2>1, <3>1, <3>2
         DEF OutcomeInv, ProgressIsRecorded, BeforeResult, AfterResult
  <2>8. EndingsAreLogged'
    <3>1. EventLogTellsStatus'
      BY <1>1, <1>6, <2>2, LogTells DEF OutcomeInv, EndingsAreLogged, Terminal
    <3>2. ASSUME NEW g \in Flows, flows'[g].pc = "ack_cancel"
          PROVE  Asked(FlowRun(g))'
      <4>1. flows[g].pc = "ack_cancel" /\ FlowRun(g) \in Runs
            /\ FlowRun(g)' = FlowRun(g)
        BY <1>3, <1>4, <2>1, <3>2
      <4>2. PICK x \in Runs : x = FlowRun(g)
        BY <4>1
      <4>3. Asked(x)' /\ FlowRun(g)' = x
        BY <2>3, <4>1, <4>2 DEF OutcomeInv, EndingsAreLogged
      <4> QED
        BY <4>3 DEF Asked, HasEvent
    <3>3. ASSUME NEW g \in Flows, Executing(g)',
                 subs'[flows'[g].key].state = "acknowledged"
          PROVE  runs'[FlowRun(g)'].status = "running"
      <4>1. Executing(g) /\ flows[g].pc # "none" /\ FlowRun(g)' = FlowRun(g)
            /\ flows'[g].key = flows[g].key /\ flows[g].key \in Keys
        BY <1>3, <1>4, <2>1, <3>3 DEF Executing
      <4>2. CASE flows[g].key = k
        BY <1>6, <2>1, <4>1, <4>2
      <4>3. CASE flows[g].key # k
        BY <1>4, <1>6, <2>1, <3>3, <4>1, <4>3 DEF OutcomeInv, EndingsAreLogged
      <4> QED
        BY <4>2, <4>3
    <3> QED
      BY <3>1, <3>2, <3>3 DEF EndingsAreLogged
  <2>9. ProcessesAreKnown'
    BY <1>3, <1>4, <1>6 DEF OutcomeInv, ProcessesAreKnown
  <2>10. SucceededIsComplete'
    BY <1>6 DEF OutcomeInv, SucceededIsComplete
  <2>11. ReproductionSourceHolds'
    <3>1. \A j \in Keys : /\ subs'[j].req = subs[j].req
                          /\ subs'[j].run = subs[j].run
                          /\ subs'[j].state # "none" => subs[j].state # "none"
      BY <1>2, <1>6
    <3>2. \A j \in Keys :
             subs[j].state # "none" /\ subs[j].req.op = "reproduction" =>
                subs[j].req.source \in Runs
      BY <1>4 DEF Requests
    <3>3. \A x \in Runs : runs[x].status = "succeeded" => runs'[x] = runs[x]
      BY <1>6
    <3>4. \A x \in Runs : runs'[x].config = runs[x].config
      BY <1>6
    <3> QED
      BY <1>4, <1>6, <3>1, <3>2, <3>3, <3>4
         DEF OutcomeInv, ReproductionSourceHolds
  <2>12. LifecycleStep
    <3>1. Moves(r)
      BY <1>6, <2>3 DEF Moves
    <3> QED
      BY <1>6, <2>3, <3>1 DEF LifecycleStep, Keeps
  <2> QED
    BY <2>5, <2>6, <2>7, <2>8, <2>9, <2>10, <2>11, <2>12 DEF OutcomeInv
<1> QED
  BY <1>2, <1>5, <1>6, BindChanges

LEMMA FlowBindOutcome ==
    ASSUME LaunchInv, OutcomeInv, NEW f \in Flows, FlowBind(f)
    PROVE  OutcomeInv' /\ LifecycleStep
<1> DEFINE k == flows[f].key
<1>1. /\ flows[f].pc = "bind" /\ TypeOK /\ UNCHANGED up
      /\ k \in Keys /\ subs[k].state # "none"
      /\ BindPrefectIdentity(k, f, "url") /\ "url" \in ApiUrls
  BY FlowsApart DEF FlowBind, LaunchInv, ApiUrls
<1>2. PICK j \in Keys : j = k
  BY <1>1
<1>3. /\ \A g \in Flows \ {f} : flows'[g] = flows[g]
      /\ flows'[f].pc = IF BindAccepted(j, f, "url")
                        THEN "attempt" ELSE "raised"
      /\ flows'[f].key = flows[f].key /\ flows'[f].proc = flows[f].proc
  BY <1>1, <1>2, FlowGotoEffect DEF FlowBind
<1> QED
  BY <1>1, <1>2, <1>3, BindKeepsOutcome

LEMMA ReconcileBindOutcome ==
    ASSUME LaunchInv, OutcomeInv, ReconcileBind
    PROVE  OutcomeInv' /\ LifecycleStep
<1>1. /\ operator.key \in Keys /\ operator.flow \in Flows
      /\ operator.api \in ApiUrls
      /\ subs[operator.key].state # "none"
  BY DEF ReconcileBind, LaunchInv, LocalsAreSet, TypeOK, OperatorRecord
<1>2. PICK k \in Keys, f \in Flows, api \in ApiUrls :
        k = operator.key /\ f = operator.flow /\ api = operator.api
  BY <1>1
<1>3. /\ BindPrefectIdentity(k, f, api) /\ UNCHANGED <<up, flows>>
      /\ subs[k].state # "none"
  BY <1>1, <1>2 DEF ReconcileBind
<1> QED
  BY <1>3, BindKeepsOutcome

-----------------------------------------------------------------------------
(* The other steps: threads, operators and crashes *)

\* Steps that change no table and no flow.
LEMMA QuietKeepsOutcome ==
    ASSUME LaunchInv, OutcomeInv, UNCHANGED <<runVars, subs, up, flows>>
    PROVE  OutcomeInv' /\ LifecycleStep
<1>1. UNCHANGED <<runs, events, outputs, subs, up, flows>>
  BY DEF runVars
<1>2. EndingsAreLogged'
  <2>1. EventLogTellsStatus'
    BY <1>1, LogUnchanged DEF OutcomeInv, EndingsAreLogged
  <2> QED
    BY <1>1, <2>1
       DEF OutcomeInv, EndingsAreLogged, Executing, FlowRun, Asked, HasEvent
<1>3. /\ RunsAreClaimed' /\ BindingsAreRecorded' /\ ProgressIsRecorded'
      /\ ProcessesAreKnown' /\ SucceededIsComplete' /\ ReproductionSourceHolds'
  BY <1>1
     DEF OutcomeInv, RunsAreClaimed, BindingsAreRecorded, ProgressIsRecorded,
         ProcessesAreKnown, SucceededIsComplete, ReproductionSourceHolds,
         Executing, FlowRun
<1>4. LifecycleStep
  BY <1>1 DEF LifecycleStep, Keeps, Asked, HasEvent
<1> QED
  BY <1>2, <1>3, <1>4 DEF OutcomeInv

\* The submission goes on before anything acknowledges it; its dispatcher
\* is set once, and evidence is recorded when that process is gone.
MarkerMoves(k) ==
    /\ \A j \in Keys \ {k} : subs'[j] = subs[j]
    /\ subs[k].state \in {"claimed", "invoking"}
    /\ subs'[k].state \in {"invoking", "submission_unknown"}
    /\ subs'[k].run = subs[k].run /\ subs'[k].req = subs[k].req
    /\ subs'[k].flow = subs[k].flow
    /\ subs[k].state # "claimed" =>
          subs'[k].dispatcher = subs[k].dispatcher
    /\ subs'[k].evidence =>
          \/ subs[k].evidence
          \/ subs'[k].dispatcher \notin up

\* The marker, its report and its recovery move a submission that no flow
\* has acknowledged.
LEMMA MarkerKeepsOutcome ==
    ASSUME LaunchInv, OutcomeInv,
           \/ \E c \in Callers : BeginDispatch(c) \/ MarkInvocationUnknown(c)
           \/ \E k \in Keys, d \in Dispatchers :
                 RecoverInvokingAfterProcessExit(k, d)
    PROVE  OutcomeInv' /\ LifecycleStep
<1>1. UNCHANGED <<runVars, up, flows>>
  BY DEF BeginDispatch, MarkInvocationUnknown, RecoverInvokingAfterProcessExit
<1>2. subs \in [Keys -> SubRecord]
  BY DEF LaunchInv, TypeOK
<1>3. \/ subs' = subs
      \/ \E k \in Keys : MarkerMoves(k)
  <2>1. ASSUME NEW c \in Callers, BeginDispatch(c), subs' # subs
        PROVE  \E k \in Keys : MarkerMoves(k)
    <3>1. /\ subs' = [subs EXCEPT ![callers[c].key].state = "invoking",
                                  ![callers[c].key].dispatcher = ProcessOf[c]]
          /\ subs[callers[c].key].state = "claimed"
      BY <2>1 DEF BeginDispatch, MarkerFree
    <3>2. callers[c].key \in Keys
      BY <2>1 DEF BeginDispatch, LaunchInv, LocalsAreSet
    <3>3. PICK k \in Keys : k = callers[c].key
      BY <3>2
    <3>4. /\ \A j \in Keys \ {k} : subs'[j] = subs[j]
          /\ subs[k].state = "claimed" /\ subs'[k].state = "invoking"
          /\ subs'[k].run = subs[k].run /\ subs'[k].req = subs[k].req
          /\ subs'[k].flow = subs[k].flow
          /\ subs'[k].evidence = subs[k].evidence
      BY <1>2, <3>1, <3>3 DEF SubRecord
    <3> QED
      BY <3>4 DEF MarkerMoves
  <2>2. ASSUME NEW c \in Callers, MarkInvocationUnknown(c), subs' # subs
        PROVE  \E k \in Keys : MarkerMoves(k)
    <3>1. /\ subs' = [subs EXCEPT ![callers[c].key].state =
                                       "submission_unknown"]
          /\ subs[callers[c].key].state = "invoking"
      BY <2>2 DEF MarkInvocationUnknown, MayMarkUnknown
    <3>2. callers[c].key \in Keys
      BY <2>2 DEF MarkInvocationUnknown, LaunchInv, LocalsAreSet
    <3>3. PICK k \in Keys : k = callers[c].key
      BY <3>2
    <3>4. /\ \A j \in Keys \ {k} : subs'[j] = subs[j]
          /\ subs[k].state = "invoking"
          /\ subs'[k].state = "submission_unknown"
          /\ subs'[k].run = subs[k].run /\ subs'[k].req = subs[k].req
          /\ subs'[k].flow = subs[k].flow
          /\ subs'[k].dispatcher = subs[k].dispatcher
          /\ subs'[k].evidence = subs[k].evidence
      BY <1>2, <3>1, <3>3 DEF SubRecord
    <3> QED
      BY <3>4 DEF MarkerMoves
  <2>3. ASSUME NEW k \in Keys, NEW d \in Dispatchers,
               RecoverInvokingAfterProcessExit(k, d)
        PROVE  MarkerMoves(k)
    <3>1. /\ subs' = [subs EXCEPT ![k].state = "submission_unknown",
                                  ![k].evidence = TRUE]
          /\ subs[k].state = "invoking" /\ subs[k].dispatcher \notin up
      BY <2>3 DEF RecoverInvokingAfterProcessExit
    <3>2. /\ \A j \in Keys \ {k} : subs'[j] = subs[j]
          /\ subs'[k].state = "submission_unknown"
          /\ subs'[k].run = subs[k].run /\ subs'[k].req = subs[k].req
          /\ subs'[k].flow = subs[k].flow
          /\ subs'[k].dispatcher = subs[k].dispatcher
      BY <1>2, <3>1 DEF SubRecord
    <3> QED
      BY <3>1, <3>2 DEF MarkerMoves
  <2> QED
    BY <2>1, <2>2, <2>3
<1>4. CASE subs' = subs
  BY <1>1, <1>4, QuietKeepsOutcome
<1>5. CASE \E k \in Keys : MarkerMoves(k)
  <2>1. PICK k \in Keys : MarkerMoves(k)
    BY <1>5
  <2>2. /\ UNCHANGED <<runs, events, outputs, up, flows>>
        /\ \A j \in Keys : /\ subs'[j].run = subs[j].run
                           /\ subs'[j].req = subs[j].req
                           /\ subs'[j].flow = subs[j].flow
                           /\ subs'[j].state = "none" <=>
                                 subs[j].state = "none"
                           /\ subs'[j].state = "acknowledged" <=>
                                 subs[j].state = "acknowledged"
    BY <1>1, <2>1 DEF runVars, MarkerMoves
  <2>3. \A f \in Flows : flows[f].pc # "none" =>
           flows[f].key \in Keys /\ subs[flows[f].key].state # "claimed"
    BY FlowsApart
  <2>4. \A f \in Flows : flows[f].pc # "none" => FlowRun(f)' = FlowRun(f)
    BY <2>2, <2>3 DEF FlowRun
  <2>5. RunsAreClaimed' /\ SucceededIsComplete' /\ ReproductionSourceHolds'
    BY <2>2
       DEF OutcomeInv, RunsAreClaimed, SucceededIsComplete,
           ReproductionSourceHolds
  <2>6. BindingsAreRecorded'
    BY <2>2, <2>3 DEF OutcomeInv, BindingsAreRecorded, Executing
  <2>7. ProgressIsRecorded'
    BY <2>2, <2>4
       DEF OutcomeInv, ProgressIsRecorded, BeforeResult, AfterResult
  <2>8. EndingsAreLogged'
    <3>1. EventLogTellsStatus'
      BY <2>2, LogUnchanged DEF OutcomeInv, EndingsAreLogged
    <3>2. ASSUME NEW f \in Flows, flows'[f].pc = "ack_cancel"
          PROVE  Asked(FlowRun(f))'
      BY <2>2, <2>4, <3>2 DEF OutcomeInv, EndingsAreLogged, Asked, HasEvent
    <3> QED
      BY <2>2, <2>3, <2>4, <3>1, <3>2
         DEF OutcomeInv, EndingsAreLogged, Executing
  <2>9. ProcessesAreKnown'
    BY <2>1, <2>2, <2>3
       DEF OutcomeInv, ProcessesAreKnown, Executing, MarkerMoves
  <2>10. LifecycleStep
    BY <2>2 DEF LifecycleStep, Keeps, Asked, HasEvent
  <2> QED
    BY <2>5, <2>6, <2>7, <2>8, <2>9, <2>10 DEF OutcomeInv
<1> QED
  BY <1>3, <1>4, <1>5

LEMMA ClaimNewOutcome ==
    ASSUME LaunchInv, OutcomeInv, NEW c \in Callers, ClaimNew(c)
    PROVE  OutcomeInv' /\ LifecycleStep
<1>1. /\ callers[c].key \in Keys /\ callers[c].req \in Requests
      /\ subs \in [Keys -> SubRecord] /\ runs \in [Runs -> RunRecord]
      /\ TypeOK
  BY DEF ClaimNew, LaunchInv, LocalsAreSet, TypeOK
<1>2. PICK k \in Keys, q \in Requests :
        k = callers[c].key /\ q = callers[c].req
  BY <1>1
<1>3. /\ subs[k].state = "none" /\ SourceValid(q)
      /\ UNCHANGED <<outputs, up, flows>>
  BY <1>2 DEF ClaimNew
<1>4. PICK r \in Runs :
        /\ runs[r].status = "absent"
        /\ runs' = [runs EXCEPT ![r].status = "created",
                                ![r].config = q.config]
        /\ LogEvent(r, "run_created")
        /\ subs' = [subs EXCEPT ![k].state = "claimed", ![k].run = r,
                                ![k].req = q]
  BY <1>2 DEF ClaimNew
<1>5. /\ \A j \in Keys \ {k} : subs'[j] = subs[j]
      /\ subs'[k].state = "claimed" /\ subs'[k].run = r /\ subs'[k].req = q
      /\ subs'[k].flow = subs[k].flow /\ subs'[k].evidence = subs[k].evidence
  BY <1>1, <1>4 DEF SubRecord
<1>6. /\ \A x \in Runs \ {r} : runs'[x] = runs[x]
      /\ runs'[r].status = "created" /\ runs'[r].config = q.config
      /\ runs'[r].env = runs[r].env
  BY <1>1, <1>4 DEF RunRecord
<1>7. \A j \in Keys : subs[j].state # "none" =>
         /\ subs[j].run \in Runs /\ subs[j].run # r /\ j # k
         /\ subs[j].req \in Requests
  BY <1>3, <1>4 DEF LaunchInv, RunsAreOwned, StatusFollowsSubmission, Terminal
<1>8. \A f \in Flows : flows[f].pc # "none" =>
         /\ flows[f].key \in Keys \ {k}
         /\ FlowRun(f)' = FlowRun(f) /\ FlowRun(f) \in Runs \ {r}
  BY <1>3, <1>4, <1>5, FlowsApart DEF FlowRun
<1>9. runs[r].env = None /\ outputs[r].row = None
  BY <1>4 DEF OutcomeInv, RunsAreClaimed, ProgressIsRecorded
<1>10. /\ "run_created" \in Events \ TerminalEvents
       /\ "run_cancellation_requested" \in Events
  BY DEF Events, TerminalEvents
<1>11. \A x \in Runs : Asked(x)' <=> Asked(x)
  BY <1>1, <1>4, <1>10, LogEffect DEF Asked
<1>12. RunsAreClaimed'
  <2>1. ASSUME NEW x \in Runs, x # r
        PROVE  IF runs'[x].status = "absent" THEN runs'[x].env = None
               ELSE \E j \in Keys : subs'[j].state # "none" /\ subs'[j].run = x
    BY <1>3, <1>5, <1>6, <2>1 DEF OutcomeInv, RunsAreClaimed
  <2>2. \A j \in Keys : subs'[j].state # "none" =>
           runs'[subs'[j].run].config = subs'[j].req.config
    BY <1>5, <1>6, <1>7 DEF OutcomeInv, RunsAreClaimed
  <2> QED
    BY <1>5, <1>6, <2>1, <2>2 DEF RunsAreClaimed
<1>13. BindingsAreRecorded'
  <2>1. ASSUME NEW j \in Keys
        PROVE  IF subs'[j].state = "acknowledged"
               THEN subs'[j].flow \in Flows
                    /\ runs'[subs'[j].run].env = subs'[j].flow
               ELSE /\ subs'[j].flow = None
                    /\ subs'[j].state # "none" =>
                          runs'[subs'[j].run].env = None
    BY <1>3, <1>5, <1>6, <1>7, <1>9 DEF OutcomeInv, BindingsAreRecorded
  <2>2. \A j \in Keys : subs'[j].flow = subs[j].flow
    BY <1>5
  <2> QED
    BY <1>3, <1>8, <2>1, <2>2 DEF OutcomeInv, BindingsAreRecorded, Executing
<1>14. ProgressIsRecorded'
  BY <1>3, <1>6, <1>8
     DEF OutcomeInv, ProgressIsRecorded, BeforeResult, AfterResult
<1>15. EndingsAreLogged'
  <2>1. EventLogTellsStatus'
    BY <1>1, <1>4, <1>6, <1>10, LogTells
       DEF OutcomeInv, EndingsAreLogged, Terminal
  <2>2. ASSUME NEW f \in Flows, flows'[f].pc = "ack_cancel"
        PROVE  Asked(FlowRun(f))'
    <3>1. flows[f].pc = "ack_cancel" /\ FlowRun(f) \in Runs
          /\ FlowRun(f)' = FlowRun(f)
      BY <1>3, <1>8, <2>2
    <3>2. PICK x \in Runs : x = FlowRun(f)
      BY <3>1
    <3>3. Asked(x)' /\ FlowRun(f)' = x
      BY <1>11, <3>1, <3>2 DEF OutcomeInv, EndingsAreLogged
    <3> QED
      BY <3>3 DEF Asked, HasEvent
  <2>3. ASSUME NEW f \in Flows, Executing(f)',
               subs'[flows'[f].key].state = "acknowledged"
        PROVE  runs'[FlowRun(f)'].status = "running"
    BY <1>3, <1>5, <1>6, <1>8, <2>3 DEF OutcomeInv, EndingsAreLogged, Executing
  <2> QED
    BY <2>1, <2>2, <2>3 DEF EndingsAreLogged
<1>16. ProcessesAreKnown'
  BY <1>3, <1>5, <1>8 DEF OutcomeInv, ProcessesAreKnown, Executing
<1>17. SucceededIsComplete'
  BY <1>3, <1>6 DEF OutcomeInv, SucceededIsComplete
<1>18. ReproductionSourceHolds'
  <2>1. ASSUME NEW j \in Keys, subs'[j].state # "none",
               subs'[j].req.op = "reproduction"
        PROVE  /\ subs'[j].req.source \in Runs
               /\ runs[subs'[j].req.source].status = "succeeded"
               /\ runs[subs'[j].req.source].config = runs'[subs'[j].run].config
               /\ outputs[subs'[j].req.source].manifest # NoManifest
    <3>1. CASE j = k
      BY <1>3, <1>5, <1>6, <2>1, <3>1 DEF SourceValid, Requests
    <3>2. CASE j # k
      BY <1>5, <1>6, <1>7, <2>1, <3>2
         DEF OutcomeInv, ReproductionSourceHolds, Requests
    <3> QED
      BY <3>1, <3>2
  <2> QED
    BY <1>3, <1>4, <1>6, <2>1 DEF ReproductionSourceHolds
<1>19. LifecycleStep
  <2>1. Moves(r)
    BY <1>3, <1>4, <1>6, <1>11 DEF Moves
  <2> QED
    BY <1>3, <1>6, <1>11, <2>1 DEF LifecycleStep, Keeps
<1> QED
  BY <1>12, <1>13, <1>14, <1>15, <1>16, <1>17, <1>18, <1>19 DEF OutcomeInv

LEMMA InvokeOutcome ==
    ASSUME LaunchInv, OutcomeInv, NEW c \in Callers, NEW f \in Flows,
           Invoke(c, f)
    PROVE  OutcomeInv' /\ LifecycleStep
<1>1. /\ callers[c].key \in Keys
      /\ subs[callers[c].key].state = "invoking"
      /\ subs[callers[c].key].dispatcher = ProcessOf[c]
      /\ ProcessOf[c] \in up
  BY DEF Invoke, LaunchInv, LocalsAreSet, MarkerIsHeld, DispatchPcs
<1>2. PICK k \in Keys : k = callers[c].key
  BY <1>1
<1>3. PICK r \in Runs : r = subs[k].run
  BY <1>1, <1>2 DEF LaunchInv, RunsAreOwned
<1>4. /\ UNCHANGED <<runs, events, outputs, subs, up>>
      /\ flows[f].pc = "none"
      /\ flows' = [flows EXCEPT ![f] = [pc |-> "bind", key |-> k,
                                        proc |-> ProcessOf[c]]]
  BY <1>2 DEF Invoke, runVars
<1>5. /\ \A g \in Flows \ {f} : flows'[g] = flows[g]
      /\ flows'[f].pc = "bind" /\ flows'[f].key = k
      /\ flows'[f].proc = ProcessOf[c]
  BY <1>4 DEF LaunchInv, TypeOK
<1>6. /\ \A g \in Flows \ {f} : FlowRun(g)' = FlowRun(g)
      /\ FlowRun(f)' = r
  BY <1>3, <1>4, <1>5 DEF FlowRun
<1>7. outputs[r].row = None
  BY <1>1, <1>2, <1>3
     DEF OutcomeInv, BindingsAreRecorded, ProgressIsRecorded
<1>8. RunsAreClaimed' /\ SucceededIsComplete' /\ ReproductionSourceHolds'
  BY <1>4
     DEF OutcomeInv, RunsAreClaimed, SucceededIsComplete,
         ReproductionSourceHolds
<1>9. BindingsAreRecorded'
  BY <1>4, <1>5 DEF OutcomeInv, BindingsAreRecorded, Executing
<1>10. ProgressIsRecorded'
  BY <1>4, <1>5, <1>6, <1>7
     DEF OutcomeInv, ProgressIsRecorded, BeforeResult, AfterResult
<1>11. EndingsAreLogged'
  <2>1. EventLogTellsStatus'
    BY <1>4, LogUnchanged DEF OutcomeInv, EndingsAreLogged
  <2>2. ASSUME NEW g \in Flows, flows'[g].pc = "ack_cancel"
        PROVE  Asked(FlowRun(g))'
    BY <1>4, <1>5, <1>6, <2>2
       DEF OutcomeInv, EndingsAreLogged, Asked, HasEvent
  <2> QED
    BY <1>1, <1>2, <1>4, <1>5, <1>6, <2>1, <2>2
       DEF OutcomeInv, EndingsAreLogged, Executing
<1>12. ProcessesAreKnown'
  BY <1>1, <1>2, <1>4, <1>5
     DEF OutcomeInv, ProcessesAreKnown, Executing
<1>13. LifecycleStep
  BY <1>4 DEF LifecycleStep, Keeps, Asked, HasEvent
<1> QED
  BY <1>8, <1>9, <1>10, <1>11, <1>12, <1>13 DEF OutcomeInv

\* A reproduction's manifest fills a gap and replaces nothing.
LEMMA ReproductionManifestOutcome ==
    ASSUME LaunchInv, OutcomeInv, NEW c \in Callers,
           PersistReproductionManifest(c)
    PROVE  OutcomeInv' /\ LifecycleStep
<1>1. subs[callers[c].key].run \in Runs /\ outputs \in [Runs -> OutputRecord]
  BY DEF PersistReproductionManifest, LaunchInv, LocalsAreSet, RunsAreOwned,
         TypeOK
<1>2. UNCHANGED <<runs, events, subs, up, flows>>
  BY DEF PersistReproductionManifest
<1>3. \A x \in Runs : /\ outputs'[x].row = outputs[x].row
                      /\ outputs'[x].artifacts = outputs[x].artifacts
                      /\ outputs[x].manifest # NoManifest =>
                            outputs'[x].manifest = outputs[x].manifest
  BY <1>1 DEF PersistReproductionManifest, ManifestAccepted, OutputRecord
<1>4. \A f \in Flows : /\ FlowRun(f)' = FlowRun(f)
                       /\ flows[f].pc # "none" => FlowRun(f) \in Runs
  BY <1>2, FlowsApart DEF FlowRun
<1>5. NumArtifacts # NoManifest
  BY ConstantsAssumption DEF NoManifest
<1>6. RunsAreClaimed' /\ BindingsAreRecorded' /\ ProcessesAreKnown'
  BY <1>2
     DEF OutcomeInv, RunsAreClaimed, BindingsAreRecorded, ProcessesAreKnown,
         Executing
<1>7. ProgressIsRecorded'
  BY <1>2, <1>3, <1>4, <1>5
     DEF OutcomeInv, ProgressIsRecorded, BeforeResult, AfterResult
<1>8. EndingsAreLogged'
  <2>1. EventLogTellsStatus'
    BY <1>2, LogUnchanged DEF OutcomeInv, EndingsAreLogged
  <2> QED
    BY <1>2, <1>4, <2>1
       DEF OutcomeInv, EndingsAreLogged, Executing, Asked, HasEvent
<1>9. SucceededIsComplete'
  BY <1>2, <1>3, <1>5 DEF OutcomeInv, SucceededIsComplete
<1>10. ReproductionSourceHolds'
  <2>1. \A k \in Keys :
           subs[k].state # "none" /\ subs[k].req.op = "reproduction" =>
              subs[k].req.source \in Runs
    BY DEF LaunchInv, RunsAreOwned, Requests
  <2> QED
    BY <1>2, <1>3, <2>1 DEF OutcomeInv, ReproductionSourceHolds
<1>11. LifecycleStep
  BY <1>2, <1>3 DEF LifecycleStep, Keeps, Asked, HasEvent
<1> QED
  BY <1>6, <1>7, <1>8, <1>9, <1>10, <1>11 DEF OutcomeInv

LEMMA ResolveOutcome ==
    ASSUME LaunchInv, OutcomeInv, NEW k \in Keys,
           AbandonUnknown(k) \/ FailBeforeSubmission(k)
    PROVE  OutcomeInv' /\ LifecycleStep
<1>1. /\ subs[k].state \in {"claimed", "submission_unknown"}
      /\ UNCHANGED <<outputs, up, flows>>
      /\ TypeOK /\ subs[k].run \in Runs
      /\ runs[subs[k].run].status = "created"
      /\ subs \in [Keys -> SubRecord] /\ runs \in [Runs -> RunRecord]
  BY DEF AbandonUnknown, FailBeforeSubmission, ResolveWithoutFlow, LaunchInv,
         TypeOK, RunsAreOwned, StatusFollowsSubmission
<1>2. PICK r \in Runs : r = subs[k].run
  BY <1>1
<1>3. PICK to \in {"abandoned", "failed_before_submission"} :
        /\ subs' = [subs EXCEPT ![k].state = to]
        /\ runs' = [runs EXCEPT ![r].status = "failed"]
        /\ LogEvent(r, "run_failed")
  BY <1>2
     DEF AbandonUnknown, FailBeforeSubmission, ResolveWithoutFlow, Transition
<1>4. /\ \A j \in Keys \ {k} : subs'[j] = subs[j]
      /\ subs'[k].state = to
      /\ \A j \in Keys : /\ subs'[j].run = subs[j].run
                         /\ subs'[j].req = subs[j].req
                         /\ subs'[j].flow = subs[j].flow
                         /\ subs'[j].dispatcher = subs[j].dispatcher
                         /\ subs'[j].evidence = subs[j].evidence
                         /\ subs'[j].state = "none" <=> subs[j].state = "none"
                         /\ subs'[j].state = "acknowledged" <=>
                               subs[j].state = "acknowledged"
                         /\ subs'[j].state = "claimed" =>
                               subs[j].state = "claimed"
  BY <1>1, <1>3 DEF SubRecord
<1>5. /\ \A x \in Runs \ {r} : runs'[x] = runs[x]
      /\ runs'[r].status = "failed" /\ runs[r].status = "created"
      /\ \A x \in Runs : /\ runs'[x].config = runs[x].config
                         /\ runs'[x].env = runs[x].env
                         /\ runs'[x].status = "absent" <=>
                               runs[x].status = "absent"
                         /\ runs'[x].status = "succeeded" <=>
                               runs[x].status = "succeeded"
                         /\ runs[x].status = "running" =>
                               runs'[x].status = "running"
  BY <1>1, <1>2, <1>3 DEF RunRecord
<1>6. \A f \in Flows : /\ flows[f].pc # "none" => flows[f].key \in Keys
                       /\ flows[f].pc # "none" => FlowRun(f)' = FlowRun(f)
                       /\ flows[f].pc # "none" => FlowRun(f) \in Runs
  BY <1>1, <1>4, FlowsApart DEF FlowRun
<1>7. /\ "run_failed" \in Events /\ "run_failed" \in TerminalEvents
      /\ StatusOf("run_failed") = "failed"
      /\ "run_cancellation_requested" \in Events
  BY DEF Events, TerminalEvents, StatusOf
<1>8. \A x \in Runs : Asked(x)' <=> Asked(x)
  BY <1>1, <1>3, <1>7, LogEffect DEF Asked
<1>9. \A j \in Keys : subs[j].state # "none" =>
         subs[j].run \in Runs /\ subs[j].req \in Requests
  BY DEF LaunchInv, RunsAreOwned
<1>10. RunsAreClaimed'
  BY <1>4, <1>5, <1>9 DEF OutcomeInv, RunsAreClaimed
<1>11. BindingsAreRecorded'
  <2>1. ASSUME NEW j \in Keys
        PROVE  IF subs'[j].state = "acknowledged"
               THEN subs'[j].flow \in Flows
                    /\ runs'[subs'[j].run].env = subs'[j].flow
               ELSE /\ subs'[j].flow = None
                    /\ subs'[j].state # "none" =>
                          runs'[subs'[j].run].env = None
    <3>1. subs[j].state # "none" =>
             runs'[subs'[j].run].env = runs[subs[j].run].env
      BY <1>4, <1>5, <1>9
    <3> QED
      BY <1>4, <3>1 DEF OutcomeInv, BindingsAreRecorded
  <2>2. \A f \in Flows : Executing(f)' /\ flows'[f].pc # "bind" =>
           subs'[flows'[f].key].flow = f
    BY <1>1, <1>4, <1>6 DEF OutcomeInv, BindingsAreRecorded, Executing
  <2> QED
    BY <1>4, <2>1, <2>2 DEF OutcomeInv, BindingsAreRecorded
<1>12. ProgressIsRecorded'
  BY <1>1, <1>5, <1>6
     DEF OutcomeInv, ProgressIsRecorded, BeforeResult, AfterResult
<1>13. EndingsAreLogged'
  <2>1. EventLogTellsStatus'
    BY <1>1, <1>3, <1>5, <1>7, LogTells
       DEF OutcomeInv, EndingsAreLogged, Terminal
  <2>2. ASSUME NEW f \in Flows, flows'[f].pc = "ack_cancel"
        PROVE  Asked(FlowRun(f))'
    <3>1. flows[f].pc = "ack_cancel" /\ FlowRun(f) \in Runs
          /\ FlowRun(f)' = FlowRun(f)
      BY <1>1, <1>6, <2>2
    <3>2. PICK x \in Runs : x = FlowRun(f)
      BY <3>1
    <3>3. Asked(x)' /\ FlowRun(f)' = x
      BY <1>8, <3>1, <3>2 DEF OutcomeInv, EndingsAreLogged
    <3> QED
      BY <3>3 DEF Asked, HasEvent
  <2>3. ASSUME NEW f \in Flows, Executing(f)',
               subs'[flows'[f].key].state = "acknowledged"
        PROVE  runs'[FlowRun(f)'].status = "running"
    BY <1>1, <1>4, <1>5, <1>6, <2>3
       DEF OutcomeInv, EndingsAreLogged, Executing
  <2> QED
    BY <2>1, <2>2, <2>3 DEF EndingsAreLogged
<1>14. ProcessesAreKnown'
  BY <1>1, <1>4, <1>6 DEF OutcomeInv, ProcessesAreKnown, Executing
<1>15. SucceededIsComplete'
  BY <1>1, <1>5 DEF OutcomeInv, SucceededIsComplete
<1>16. ReproductionSourceHolds'
  BY <1>1, <1>4, <1>5, <1>9 DEF OutcomeInv, ReproductionSourceHolds, Requests
<1>17. LifecycleStep
  <2>1. Moves(r)
    BY <1>1, <1>5, <1>8 DEF Moves
  <2> QED
    BY <1>1, <1>5, <1>8, <2>1 DEF LifecycleStep, Keeps
<1> QED
  BY <1>10, <1>11, <1>12, <1>13, <1>14, <1>15, <1>16, <1>17 DEF OutcomeInv

LEMMA CrashOutcome ==
    ASSUME LaunchInv, OutcomeInv, NEW d \in Dispatchers, Crash(d)
    PROVE  OutcomeInv' /\ LifecycleStep
<1>1. /\ UNCHANGED <<runs, events, outputs, subs>> /\ up' = up \ {d}
      /\ \A f \in Flows :
            /\ flows'[f].key = flows[f].key /\ flows'[f].proc = flows[f].proc
            /\ \/ flows'[f].pc = flows[f].pc
                  /\ (flows[f].proc # d \/ flows[f].pc \in FlowEnded)
               \/ flows'[f].pc = "killed" /\ flows[f].proc = d
  BY DEF Crash, LaunchInv, TypeOK, FlowRecord, runVars
<1>2. \A f \in Flows :
         /\ FlowRun(f)' = FlowRun(f)
         /\ Executing(f)' => /\ Executing(f) /\ flows'[f].pc = flows[f].pc
                             /\ flows[f].proc # d
         /\ flows'[f].pc = flows[f].pc \/ flows'[f].pc = "killed"
         /\ flows'[f].pc # "none" => flows[f].pc # "none"
  <2>1. \A f \in Flows : flows[f].pc = "none" => flows[f].proc # d
    BY NoneAssumption DEF LaunchInv, LocalsAreSet
  <2> QED
    BY <1>1, <2>1 DEF Executing, FlowEnded, FlowRun
<1>3. RunsAreClaimed' /\ SucceededIsComplete' /\ ReproductionSourceHolds'
  BY <1>1
     DEF OutcomeInv, RunsAreClaimed, SucceededIsComplete,
         ReproductionSourceHolds
<1>4. BindingsAreRecorded'
  BY <1>1, <1>2 DEF OutcomeInv, BindingsAreRecorded
<1>5. ProgressIsRecorded'
  BY <1>1, <1>2
     DEF OutcomeInv, ProgressIsRecorded, BeforeResult, AfterResult
<1>6. EndingsAreLogged'
  <2>1. EventLogTellsStatus'
    BY <1>1, LogUnchanged DEF OutcomeInv, EndingsAreLogged
  <2>2. ASSUME NEW f \in Flows, flows'[f].pc = "ack_cancel"
        PROVE  Asked(FlowRun(f))'
    BY <1>1, <1>2, <2>2 DEF OutcomeInv, EndingsAreLogged, Asked, HasEvent
  <2> QED
    BY <1>1, <1>2, <2>1, <2>2 DEF OutcomeInv, EndingsAreLogged
<1>7. ProcessesAreKnown'
  BY <1>1, <1>2 DEF OutcomeInv, ProcessesAreKnown
<1>8. LifecycleStep
  BY <1>1 DEF LifecycleStep, Keeps, Asked, HasEvent
<1> QED
  BY <1>3, <1>4, <1>5, <1>6, <1>7, <1>8 DEF OutcomeInv

-----------------------------------------------------------------------------
(* Putting the steps together *)

LEMMA InitOutcome == Init => OutcomeInv
<1> SUFFICES ASSUME Init PROVE OutcomeInv
  OBVIOUS
<1>1. /\ \A k \in Keys : subs[k] = NoSub
      /\ \A f \in Flows : flows[f].pc = "none"
      /\ \A r \in Runs : /\ runs[r] = NoRun /\ events[r] = <<>>
                         /\ outputs[r] = NoOutput
  BY DEF Init
<1>2. EventLogTellsStatus
  BY <1>1 DEF EventLogTellsStatus, NoRun, Terminal
<1>3. \A k \in Keys : /\ subs[k].state = "none" /\ subs[k].flow = None
                      /\ subs[k].evidence = FALSE
  BY <1>1 DEF NoSub
<1>4. \A r \in Runs : /\ runs[r].status = "absent" /\ runs[r].env = None
                      /\ outputs[r].row = None
  BY <1>1 DEF NoRun, NoOutput
<1> QED
  BY <1>1, <1>2, <1>3, <1>4
     DEF OutcomeInv, RunsAreClaimed, BindingsAreRecorded, ProgressIsRecorded,
         EndingsAreLogged, ProcessesAreKnown, SucceededIsComplete,
         ReproductionSourceHolds, Executing, BeforeResult, AfterResult

LEMMA NextOutcome ==
    ASSUME LaunchInv, OutcomeInv, [Next]_vars
    PROVE  OutcomeInv' /\ LifecycleStep
<1>1. ASSUME \/ \E c \in Callers, k \in Keys, q \in Requests : Launch(c, k, q)
             \/ \E c \in Callers :
                   \/ ClaimReplay(c) \/ ClaimRefused(c) \/ Prepare(c)
                   \/ InvokeRaises(c) \/ InvocationEnds(c)
                   \/ LaunchTimesOut(c) \/ VerifyAcknowledged(c)
                   \/ BuildManifest(c) \/ CallerContention(c)
             \/ \E k \in Keys, f \in Flows, api \in ApiUrls :
                   ReconcileRead(k, f, api)
             \/ \E g \in Configs : SetLaunchable(g)
             \/ UNCHANGED vars
      PROVE  UNCHANGED <<runVars, subs, up, flows>>
  BY <1>1
     DEF Launch, ClaimReplay, ClaimRefused, Prepare, InvokeRaises,
         InvocationEnds, LaunchTimesOut, VerifyAcknowledged, BuildManifest,
         CallerContention, ReconcileRead, SetLaunchable, vars
<1>2. ASSUME NEW c \in Callers, CallerStep(c)
      PROVE  OutcomeInv' /\ LifecycleStep
  BY <1>1, <1>2, QuietKeepsOutcome, ClaimNewOutcome, InvokeOutcome,
     MarkerKeepsOutcome, ReproductionManifestOutcome DEF CallerStep
<1>3. ASSUME NEW f \in Flows, FlowStep(f)
      PROVE  OutcomeInv' /\ LifecycleStep
  BY <1>3, FlowMovesOn, FlowWritesOutput, FlowEndsRun, EventLogged,
     FlowBindOutcome DEF FlowStep
<1>4. ASSUME OperatorStep
      PROVE  OutcomeInv' /\ LifecycleStep
  BY <1>1, <1>4, QuietKeepsOutcome, ReconcileBindOutcome, ResolveOutcome,
     EventLogged, MarkerKeepsOutcome DEF OperatorStep
<1> QED
  BY <1>1, <1>2, <1>3, <1>4, QuietKeepsOutcome, CrashOutcome DEF Next

\* Only PersistReproductionManifest and FlowPersistManifest write a
\* manifest, and both compare what is stored.
LEMMA ManifestStep ==
    ASSUME TypeOK, [Next]_vars, NEW r \in Runs,
           outputs[r].manifest # NoManifest
    PROVE  outputs'[r].manifest = outputs[r].manifest
<1>1. outputs \in [Runs -> OutputRecord]
  BY DEF TypeOK
<1>2. ASSUME NEW c \in Callers, PersistReproductionManifest(c)
      PROVE  outputs'[r].manifest = outputs[r].manifest
  BY <1>1, <1>2 DEF PersistReproductionManifest, ManifestAccepted, OutputRecord
<1>3. ASSUME NEW f \in Flows, FlowStep(f)
      PROVE  outputs'[r].manifest = outputs[r].manifest
  <2>1. \/ outputs' = outputs
        \/ \E x : \/ outputs' = [outputs EXCEPT ![x].row = f]
                  \/ outputs' = [outputs EXCEPT ![x].artifacts = @ + 1]
                  \/ /\ ManifestAccepted(x, outputs[x].artifacts)
                     /\ outputs' = [outputs EXCEPT
                                       ![x].manifest = outputs[x].artifacts]
    BY <1>3
       DEF FlowStep, FlowBind, BindPrefectIdentity, FlowAttempt,
           FlowCheckCancellation, FlowAcknowledgeCancellation,
           FlowRetryScheduled, FlowWork, FlowPersistResult,
           FlowRegisterArtifact, FlowPersistManifest, FlowReconcileRead,
           FlowReconcileApply, FlowException, FlowFailureNotRecorded, runVars
  <2> QED
    BY <1>1, <2>1 DEF ManifestAccepted, OutputRecord
<1>4. ASSUME \/ \E c \in Callers :
                   CallerStep(c) /\ ~PersistReproductionManifest(c)
             \/ \E c \in Callers, k \in Keys, q \in Requests : Launch(c, k, q)
             \/ OperatorStep
             \/ \E d \in Dispatchers : Crash(d)
             \/ UNCHANGED vars
      PROVE  outputs' = outputs
  BY <1>4
     DEF CallerStep, Launch, ClaimReplay, ClaimNew, ClaimRefused, Prepare,
         BeginDispatch, Invoke, InvokeRaises, InvocationEnds, LaunchTimesOut,
         VerifyAcknowledged, MarkInvocationUnknown, BuildManifest,
         CallerContention, OperatorStep, ReconcileRead, ReconcileBind,
         BindPrefectIdentity, AbandonUnknown, FailBeforeSubmission,
         ResolveWithoutFlow, RequestCancellation,
         RecoverInvokingAfterProcessExit, SetLaunchable, Crash, vars, runVars
<1> QED
  BY <1>2, <1>3, <1>4 DEF Next

-----------------------------------------------------------------------------
(* Theorems *)

\* How far a launch's records agree with one another, in every reachable
\* state: the identity in the submission, the run and its output, the
\* progress of the output, the event log and the processes.
THEOREM OutcomeInvariant == Spec => [](LaunchInv /\ OutcomeInv)
<1>1. Init => LaunchInv /\ OutcomeInv
  BY InitInv, InitOutcome
<1>2. LaunchInv /\ OutcomeInv /\ [Next]_vars => (LaunchInv /\ OutcomeInv)'
  BY NextInv, NextOutcome
<1> QED
  BY <1>1, <1>2, PTL DEF Spec

\* A run ends once, its event log says how, and no flow of a submission
\* recovered with exit evidence can still act
\* (transition_run_with_operator_event, recover_invoking_after_process_exit).
THEOREM EndingsFinal == Spec => []EndingsAreFinal
<1>1. LaunchInv /\ OutcomeInv => EndingsAreFinal
  <2> SUFFICES ASSUME LaunchInv, OutcomeInv PROVE EndingsAreFinal
    OBVIOUS
  <2>1. ExitEvidenceIsFinal
    BY NoneAssumption
       DEF LaunchInv, LocalsAreSet, OutcomeInv, ProcessesAreKnown,
           ExitEvidenceIsFinal, Executing
  <2> QED
    BY <2>1 DEF OutcomeInv, EndingsAreLogged, EndingsAreFinal
<1> QED
  BY <1>1, OutcomeInvariant, PTL

\* The flow that a submission, its run and its output name is one and the
\* same (bind_prefect_identity, require_active_run_for_completion).
THEOREM IdentityOne == Spec => []IdentityIsOne
<1>1. LaunchInv /\ OutcomeInv => IdentityIsOne
  <2> SUFFICES ASSUME LaunchInv, OutcomeInv PROVE IdentityIsOne
    OBVIOUS
  <2>1. BindingIsUnique
    BY NoneAssumption DEF OutcomeInv, BindingsAreRecorded, BindingIsUnique
  <2>2. ASSUME NEW r \in Runs, outputs[r].row # None
        PROVE  /\ outputs[r].row = runs[r].env
               /\ \E k \in Keys : /\ subs[k].run = r
                                  /\ subs[k].state = "acknowledged"
                                  /\ subs[k].flow = outputs[r].row
    <3>1. outputs[r].row = runs[r].env
      BY <2>2 DEF OutcomeInv, ProgressIsRecorded
    <3>2. PICK k \in Keys : subs[k].state # "none" /\ subs[k].run = r
      BY <2>2, <3>1 DEF OutcomeInv, RunsAreClaimed
    <3>3. subs[k].state = "acknowledged" /\ subs[k].flow = runs[r].env
      BY <2>2, <3>1, <3>2 DEF OutcomeInv, BindingsAreRecorded
    <3> QED
      BY <3>1, <3>2, <3>3
  <2> QED
    BY <2>1, <2>2 DEF IdentityIsOne, ResultIsAttributable
<1> QED
  BY <1>1, OutcomeInvariant, PTL

\* A succeeded run has its output and its manifest, and a reproduction
\* rests on such a run (persist_run_manifest, _derive_source_lineage).
THEOREM ReproductionsRest == Spec => []ReproductionsRestOnCompleteRuns
<1>1. OutcomeInv => ReproductionsRestOnCompleteRuns
  BY DEF OutcomeInv, ReproductionsRestOnCompleteRuns
<1> QED
  BY <1>1, OutcomeInvariant, PTL

\* What a persisted manifest lists is never replaced (persist_run_manifest).
THEOREM ManifestStays == Spec => ManifestIsImmutable
<1>1. TypeOK /\ [Next]_vars =>
         [\A r \in Runs : outputs[r].manifest # NoManifest =>
             outputs'[r].manifest = outputs[r].manifest]_vars
  BY ManifestStep
<1> QED
  BY <1>1, TypeCorrect, PTL DEF Spec, ManifestIsImmutable

\* Every status change, result and cancellation of a run is a step that
\* RunLifecycle allows, whichever thread, flow or operator takes it.
THEOREM LaunchImplementsLifecycle == Spec => ImplementsRunLifecycle
<1>1. Init => Lifecycle!Init
  <2> SUFFICES ASSUME Init PROVE Lifecycle!Init
    OBVIOUS
  <2>1. /\ \A r \in Runs : runs[r].status = "absent"
        /\ \A r \in Runs : ~(outputs[r].row # None)
        /\ \A r \in Runs : ~HasEvent(r, "run_cancellation_requested")
    BY DEF Init, NoRun, NoOutput, HasEvent
  <2>2. [r \in Runs |-> runs[r].status] = [r \in Runs |-> "absent"]
    BY <2>1
  <2>3. [r \in Runs |-> outputs[r].row # None] = [r \in Runs |-> FALSE]
    BY <2>1
  <2>4. [r \in Runs |-> HasEvent(r, "run_cancellation_requested")] =
           [r \in Runs |-> FALSE]
    BY <2>1 DEF HasEvent
  <2> QED
    BY <2>2, <2>3, <2>4, Zenon DEF Lifecycle!Init
<1>2. LaunchInv /\ OutcomeInv /\ [Next]_vars =>
         [Lifecycle!Next]_(Lifecycle!vars)
  BY NextOutcome, StepMaps
<1> QED
  BY <1>1, <1>2, OutcomeInvariant, PTL
     DEF Spec, ImplementsRunLifecycle, Lifecycle!Spec
=============================================================================
