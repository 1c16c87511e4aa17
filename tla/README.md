# Quant-Factory in TLA+

Quant-Factory tests trading ideas: an agent or the owner submits an idea, a
gateway stores it, a campaign turns it into a setup and launches a screening
run, a chain of four validation stages examines the run, and a gate decides
whether the candidate survives. A deployment tool replaces the code under all
of this while it runs. Durable state is two SQLite databases (research and
gateway), a directory of artifact files, and the JSON state of the deploy tool.

This directory models two sides of the program. The parts that own durable state
and are driven by several threads, processes or people are state machines: what
is claimed, launched, recorded, recovered and switched, and in which order. The
parts that decide what a result means (experiments, strategies, rules, splits,
robustness, evidence documents, price files) are operators over small histories,
run by a machine that answers one request at a time.

    tlc -workers 2 -config ResearchLaunch_one.cfg MCResearchLaunch
    tlc -workers 2 -config Calculations_all.cfg MCCalculations
    tlapm ResearchLaunchProofs.tla

`PROJECT.json` lists the components, runs, hazards, findings and theorems, the
source lines behind each definition, and for each property a plausible bug in
a mapped definition that makes TLC refute it.

## 1. Inventory

| Component (code) | State | Operations | Correct when |
|---|---|---|---|
| Research launch claims (`orchestration/research_launch_claims.py`) | `research_run_submissions`, one row per idempotency key | claim, begin dispatch, bind flow, mark unknown, reconcile, abandon, recover after exit, fail before submission | a key starts at most one flow; the row never contradicts its run; nothing resolved is reopened |
| Run service and fixture flow (`orchestration/run_service.py`, `prefect_spike/fixture_flow.py`) | launching threads, process lives, flow states | launch, replay, reproduce, request cancellation, execute | a succeeded run has its whole output; a reproduction's source still holds; a live invocation is settled |
| Run and artifact persistence (`persistence/service.py`, `repositories.py`) | `experiment_runs`, events, artifacts, manifests, handoffs | status transitions, registration, manifest, retrieval | the event log tells the status; a manifest is written once |
| Filter chain (`orchestration/filter_chain.py`) | stage runs, handoffs | reserve, invoke adapter, complete, fail, replay | one adapter call per stage; stages in order; an ended stage stays ended |
| Candidate pipeline and lockbox gate (`orchestration/candidate_pipeline_runtime.py`, `backtesting/validation/...`) | decision events, gate result, survivor marker | drive the chain, decide, gate, mark | all decisions agree; a survivor has readable evidence; chain and gate agree |
| Automatic campaign (`agent_gateway/auto_campaign.py`, `orchestration/auto_campaign*.py`) | campaign events, draft links, launches, child process | queue pass, gates, link, launch, decide, retest, requeue, restart | bounded launches; rules tested once; a result is lost only to a retest; every idea settles |
| Gateway (`agent_gateway/service.py`, `store.py`, `candidate_workflow.py`) | audit rows, identities, notes, control events, drafts | submit, note, pause, resume, reads | a request id has one effect and one answer; an accepted change is durable |
| Release deployment (`deployment/release/qf_deploy.py`) | `deployed.json`, drain marker, releases, containers, privileged files | plan, drain, build, verify, switch, roll back, prune | only verified code is live; a failed switch leaves a whole host; main gets live |
| Artifact files and migrations (`persistence/database.py`, `manifest.py`, `backtesting/validation/*_artifacts/persistence.py`, durable scripts) | staged and backup files, artifact rows, manifest, schema version | migrate, file transaction, register, validate, retrieve, end a run elsewhere | evidence is recorded as a whole or not at all; a reader accepts registered bytes only; one migration per version |
| Experiments and screening (`backtesting/experiments`, `screening`, `validation/gates.py`) | a signal cache | gate, align, sweep in chunks, cap, rank | a setting's result is its own; nothing acts on a bar it was computed from |
| Strategies and rules (`strategies`, `rule_language`, `research_intake`) | a node cache per sweep | generate, check a specification, import and decide a packet | at most one position per session, closed in it; what the checker accepts can be run |
| Stage methods (`out_of_sample`, `walk_forward`, `robustness`, `monte_carlo`, `portability`) | locks of earlier stages | split, lock, evaluate, stress, resample, judge | no look at the test; worse evidence never passes; a plan is what it announces |
| Evidence documents (`backtesting/validation`) | stored documents | build, normalize, validate, gate, decide, review | a document is believed only for the run and lineage it was built for |
| Price files (`market_data`) | library slots and manifest, working copy, daily cache, purchased file | top up, commit, read, reuse, purchase | a crash at any file operation leaves the committed bars readable, or is refused |
| Dashboard, gateway reads, tools | read models | project, display | – |

**How they interact.** The gateway and the research side share no transaction:
a submission is three transactions over two databases. The campaign is a thread
of the gateway process that starts one child process per test; the child writes
to the research database and the parent to the gateway's event log. A launch
claims a key, marks it invoking, and calls a flow that binds itself by a later
transaction, maybe after the caller has given up. A flow, a worker and a replay
of the launch may drive the same filter chain. The deploy tool asks the
campaign to stop starting tests through a marker file and then recreates the
container both live in.

**What is hard.** Replays of one key by several processes; calls that time out
and go on; processes that die between two transactions; an operator who
reconciles while the flow binds; evidence files that change after they were
referred to; requests repeated after a lost answer; a restart between a request
and its effect; a deploy killed between two switches; a file operation that no
transaction covers; caches that settings share; cuts of a history in the middle
of a session; builders and readers of a document that disagree. There is no consensus and
no message passing except the gateway's socket: nearly every hazard is a
decision taken in one transaction and acted on in another. The hazards are
listed, each at its line, in `PROJECT.json`.

## 2. Modules

| Module | Models | Composition |
|---|---|---|
| `RunLifecycle` | the abstract life of an experiment run: which status changes there are, when output is accepted, when a run may be cancelled | abstract specification |
| `ResearchLaunch` | claims, dispatch, flows, operators, process death, reproduction | implements `RunLifecycle` (`ImplementsRunLifecycle`) |
| `ResearchLaunchProofs`, `FilterChainProofs`, `AutoCampaignProofs`, `GatewayRequestsProofs`, `ReleaseDeployProofs`, `ArtifactStoreProofs` | the theorems about the state machines (section 5) | each extends its machine |
| `FilterChain` | stage runs, chain, decision, gate, survivor marker | starts where a bound flow of the launch starts |
| `AutoCampaign` | queue, gates, child process, launches, retests | a launch is one step: its key, its setup and its outcome |
| `GatewayRequests` | the audited request path and the two databases | what it accepts is what `AutoCampaign` finds in its queue |
| `ReleaseDeploy` | the deploy tool, with the campaign as three steps (look at the marker, begin, end) | the drain marker is the one `AutoCampaign` reads |
| `ArtifactStore` | migrations, artifact files, rows and manifest of one run, durable screens, readers | what it registers is the evidence whose files `FilterChain` may find changed |
| `Values` | the null value and helpers on sequences | |
| `Experiments` | gates, alignment, sweep, cache, cap, session equity, rules and ranking | |
| `Strategies` | the built-in strategies, their ledger checks, parameter governance | |
| `RuleStrategies`, `RuleLanguage` | the evaluation of declarative rules; the checker that admits them and the packet that carries them | `RuleLanguage` extends `RuleStrategies` |
| `StageMethods` | out of sample, walk forward, low-frequency folds | extends `Experiments` |
| `Robustness` | locks, neighbourhoods, regimes, cost stress, fixed rules, Monte Carlo, portability | extends `StageMethods` and `Strategies` |
| `EvidenceDocuments` | stored documents, lockbox gate, review context, decision | extends `StageMethods` |
| `MarketData` | price library, daily cache, purchases | |
| `Calculations` | one request at a time to any operation of the above, and their properties | extends all of them |
| `CalculationProofs`, `FoldProofs` | the theorems about the calculations: documents, partitions and sessions in the one, what a trial on unseen data may depend on in the other | extend `Calculations` one after the other |
| `MC*` | instances for TLC | |

In the state machines **one action is one transaction**, or one call on which the code
can be interrupted. A locked database, an exception, a process death and an
operator's intervention are actions of their own, allowed by a constant of the
module, so that an instance says which disturbances it admits. In the
calculations one action is one request, answered by the operators that stand for
the functions of the code; a property compares the answer with a definition that
knows nothing of how it was computed, or two answers with each other.

### ResearchLaunch

`subs` is `research_run_submissions`, `runs`, `events`, `alerts` and `outputs`
are the tables the run service writes, `callers` are threads with their program
counter and locals, `flows` the flow runs with theirs, `up` the live processes,
`launchable` the configurations that may be launched and `operator` the
reconciliation in progress. A caller goes claim → prepare → dispatch → invoke →
wait → verify or mark, and after a reproduction build → manifest; each step is
a transaction of a method of `DurableResearchLaunchService` or the run service.
`begin_dispatch` is the compare-and-set from `claimed` to `invoking`. A flow
goes bind → attempt → check → work → recheck → persist → artifact → manifest →
complete, looks at the cancellation request in the two checks as the code does,
and may outlive the caller that waits for it. Recovery names a dispatcher and
requires it to be gone: that is the evidence that
`recover_invoking_after_process_exit` is handed. The fixture's computation is a
nondeterministic success or exception.

### FilterChain

`screening` is the screening run; `stages` holds for each of oos, walk_forward,
robustness and monte_carlo its run status, inputs, verdict, registration,
manifest, completion event and the state of its artifact file; `survivors` counts
the survivor markers; `chains` are the processes (a flow, a worker, a replay) inside `_run`. A stage
is reserved by inserting its run, its adapter is invoked by the winner alone,
and completion, failure and event are the code's separate transactions. The
verdict of a stage is encoded twice in the code, once for the chain and once for
the gate; both encodings are modelled. `DamageFile` loses or changes an
artifact file at most `MaxDamage` times.

### AutoCampaign

`drafts` are ideas with their packet and linked configuration, `log` the latest
campaign event of each, `starts` and `recent` the counts of tests begun,
`launched` the pipeline launches, and `camp` the campaign thread and its child:
program counter, the queue of the pass and the locals of the test under way.
`Judge` is `_process` up to the start of the child, `Begin`/`Link`/`Launch`/
`Decide`/`Send` are `run_auto_test` in the child, `Report` its end in the
parent. `RetestRead`/`RequeueRead` and `OperatorWrite` are the two halves of the
operator's requests, which read and then append. `all_settled` is a sequence of
single retests.

### GatewayRequests

The socket server serves one request at a time: `Receive`, `LookUp` (the audit
row of the request id), `Dispatch`, then the transactions of the operation, then
`WriteAudit` and `Answer`. `Fault` makes any of these transactions fail,
`Restart` cuts the server off at any point. `effects` counts the changes
committed for each request id, `cut` how often an accepted one was left
unaudited, `torn` the contents whose submission stopped between its transactions.

### ReleaseDeploy

`state` is `deployed.json`, `host` what really runs (the environment file, the
containers, the `current` link, the Dashboard), `infra` the installed privileged
files, `releases` the directories on disk, `marker` the drain marker, and `dep` the
program counter and locals of the one deploy run the lock admits. Runs are started
by the timer or an administrator; any step may fail (`MaxFaults`) and any run may be
killed (`MaxCrashes`). Two of the five privileged file groups stand for all. The try
block that rolls back ends with the last switch; `deployed.json` is written after it
(`qf_deploy.py:459`), so a failure there goes to the outer handler, which records
the target as failed and leaves the host on it (`StepFails` at `write`). `intact` is
false, until the next successful deploy, of a host on which that happened, on which
a run was killed between its first switch and `deployed.json`, on which a rollback
failed, or on which `install_infra` failed half way: `HostIsWhole` claims nothing of
these.

### ArtifactStore

`schema` and `applied` are the schema version and how often each migration was
committed; `files` are the bytes in the artifact directory, `copies` the staged and
backup copies, `rows` and `manifest` what the database says of them, `run` the
status and results, `lock` the write lock and `proc` the processes with their role
and program counter. The roles are the writers of the code: stage evidence and
fixture artifacts (file first, then row), the review context (file before the
registration that may refuse it), the decision (file transaction inside a
database transaction) and the durable screens (staged directory, rename, rows);
plus an opener who migrates, a reader, and an ending of the run by somebody else.
A process may die between any two steps. The database transaction of a decision is the
inner one: when it is refused, its rows go and the write lock is released
(`RollBackDecision`, `database.py:359-361`), and only then does the file transaction
unlink the new file (`UnlinkFile`, 401-406) or put the old one back (`RestoreFile`,
422-424); its clean-up may fail. `Undoing` are the processes between the two.

### The calculations

A history is a function from times to bars of small integer prices; a session is
an interval of times, and a missing bar is a time without one. Percentages are
integers, quotients are rounded, and what is only compared is kept as its order.
The portfolio engine is external and stands for what it returns of one column.

- `Experiments` follows `execute_experiment`: gates, signals from the cache or
  generated, alignment to the next bar, chunks, cap, metrics, rules, ranking.
- `Strategies` has each `generate_signals` as the set of trades [side, at, exit]
  it emits, so that entries and exits are paired by construction only where the
  code pairs them.
- `RuleStrategies` evaluates a node once per key and sweep, as the shared
  cache does; `RuleLanguage` is the checker. A rule is a tree, evaluated and
  checked by functions on the nodes up to the depth that the code admits (`MaxRuleDepth`).
- `StageMethods` and `Robustness` take an experiment and return partitions, locks
  and verdicts; `EvidenceDocuments` stores them and reads them back. An identity
  hash is the content it is taken of, so a changed field is a changed hash.
- `MarketData` turns each writer into the sequence of states it leaves on disk;
  a death is a prefix of it, and the next call starts from there.

## 3. Runs

| Run | What it shows |
|---|---|
| `launch_one_key` | Two threads of two processes replay one key, for a SPYM configuration or one whose flow retries itself, under crashes, timeouts, exceptions, cancellation and operators. The key is invoked at most once; row and run status agree; an ending stays and the event log tells it; the run follows `RunLifecycle`; every invocation is settled and every bound flow ends its run unless the process dies. |
| `launch_cross_keys` | Two keys, flows that outlive their caller, a configuration that is deactivated and reactivated, an operator who may bind any flow to any submission, reproductions and their replays: a flow belongs to one submission and a result to the key that asked for it, success means complete output, the source of a reproduction is a succeeded run, a manifest never changes. |
| `filter_chain_race` | A flow, a worker and a replay drive one chain with exceptions and deaths: one adapter call per stage, stages in order, one decision, one supported survivor marker, an ended stage stays ended. |
| `filter_chain_store` | Evidence may be lost or changed: absent Monte Carlo evidence passes the chain and never the gate; on an intact store a qualified candidate becomes a recorded survivor whatever is raised on the way, unless the flow's process dies or a worker overtakes the flow. |
| `campaign_one_idea` | One idea under restarts, retest, requeue, a new method, a changed packet and a hand-built setup: bounded launches, each with its own key, each on the setup of its rules. |
| `campaign_two_ideas` | Two ideas with the same rules: never two results, never duplicates of each other, no result lost but to a retest, at most one test after a pause; every idea settles and a duplicate of an owner without a result is taken up. |
| `campaign_retest` | **Violated.** See Findings. |
| `gateway_requests` | Nine requests of three agents, repeated without limit: one effect and one answer per id except where the audit row was lost, accepted changes on record, agreement of the two databases, every valid submission saved or its id lost to it. |
| `deploy_switch` | Timer and administrator, two failing steps, one killed run, tests starting at will: only verified code is live, a host whose deploy failed and was rolled back is whole, live releases survive pruning, main goes live in the end. |
| `deploy_drain` | **Violated.** See Findings. |
| `artifact_store` | Two writers of any two roles, and a reader or a third opener, one of whom may die: each migration once, evidence whole or absent, registered bytes accepted only, every opener connected in the end; what a decision meets that overtakes the rollback of another one is the exception. |
| `calculations` | About 90,000 requests, each one case of one operation; see the table below. |

| Property of `calculations` | What is compared |
|---|---|
| `SettingsAreIndependent` | a setting in a sweep, in any chunk, with a cache that drops entries, against the same setting alone; that a sweep is refused exactly when one of its settings alone is, a session close that cannot be measured included; a rule beside other rules against the rule alone; the ranking |
| `NoLookAhead` | two histories that agree before a bar, for every strategy, rule and regime label |
| `SessionLimitsHold` | trades per session against the cap; entries and exits of each session strategy, early closes and missing bars and bars of no session included |
| `AccountsAgree` | session equity against the closing bars that exist; the ledger of the engine against the trades the two fixed candidates planned, contract rolls included |
| `FoldsNeverLeak` | every partition of every splitter; the locked setting on two histories that differ in the test only; the lock a later stage loads |
| `WorseEvidenceNeverPasses` | the verdict on a neighbourhood, a regime, costs or folds against the one on worse evidence; the costs that a stress hands to its document |
| `PlansAreExact` | neighbourhoods and matrices against the settings and pairs they announce |
| `AcceptedRulesRun` | what the checker accepts, evaluated at every setting of its grid; packets and their decisions |
| `EvidenceIsRevalidated` | a document against its reading by the same run, another run, after a change and with a forged status; gates, contexts and decisions after a change of what they refer to |
| `PricesAreWhole` | the library after a top-up that died anywhere, and after the next one, for every kind of top-up: which stored bars it may drop, where it may end, which cut rows it counts; caches and purchases likewise |

### Bounds and why they are enough

- *Launch*: one or two keys and runs, two threads in two processes, two flows,
  one artifact; two configurations with one key (one of each kind of flow), one
  with two. Every race in the code is between two transactions on one row,
  so two contenders show it; a second key is needed only for cross-binding, and
  has a run of its own. Theorems remove these bounds for what they state. Keys,
  runs and flows are interchangeable in the cross run (`LaunchSymmetry`),
  which checks no liveness.
- *Filter chain*: three processes of three kinds; the stages are the code's
  four. One damaged file: each stage is read on its own.
- *Campaign*: one idea with up to two restarts, a retest and a requeue
  exhausts the attempts; `MaxAttempts` is 2 where the code has 3, which
  changes how often the loop turns and no branch. Two ideas suffice for
  ownership of rules, which is a relation of pairs. `Allowance` bounds each
  disturbance.
- *Gateway*: one failing transaction and one restart. Requests are not bounded:
  ids are audited, so the states stay finite.
- *Deploy*: two revisions after the first, one kept release (the boundary of
  pruning), two faults (a failing step and a failing rollback), one killed run
  and one administrator's run.
- *Artifact store*: two documents (the same and another), two writers, a reader
  or third opener, two schema versions, one death. Conflicts are between two
  writers; a reader adds the read between two writes.
- *Calculations*: histories of four to seven bars with closes from three prices,
  one to three sessions, missing bars, early closes and a contract roll; sweeps
  of three settings in every chunk size with caches that hold none, one or all;
  splits of every size on those histories; rules of depth three; libraries of
  three days with a listing gap and an adjustment change, cut at every file
  operation. A history is as long as the longest window plus one session on
  either side of a cut, which is where an index can be wrong by one. The
  calculations have no state between requests except the caches, the files and
  the documents, which are part of a request.

Deadlock is checked except in the instances in which all threads end, or the
request is answered, and nothing else is asked for.

### Fairness

- *Launch*: weak fairness of each thread and each flow of a live process: the
  operating system schedules them and the code has no unbounded wait apart from
  the join, which has a timeout or ends with the flow. Operators, crashes and
  new launches are never owed. Contention is excluded, because
  `mark_invocation_unknown` itself can lose to a locked database, and then the row
  stays at `invoking` until it is recovered.
- *Filter chain*: a process that entered goes on unless it dies. No replay is owed:
  the campaign retries under a new key (`orchestration/auto_campaign.py:228-231`), so
  that nothing in the code submits the launch of a dead process again.
- *Campaign*: the thread loops, a test's pipeline ends, an operator's call ends,
  a drain marker is removed or, after two hours, ignored.
- *Gateway*: the server loop runs; a client with a valid submission keeps
  sending it (strong fairness, since other requests take turns).
- *Deploy*: the timer fires again and again, a run goes on unless killed, and a
  test ends.
- *Artifact store*: a process that opens the database and does not die takes its
  next step; a loser of the migration tries again because its caller does.

The liveness properties name their exceptions instead of assuming them away: a dead
process, a flow that a worker overtook, an owner's pause, a setup linked by hand
that no campaign event knows, a request id that is bound to another request or to
its own failure, a revision that failed, waits for an administrator or is pinned
away, and an administrator's run that broke off on a host the timer believes to be
on main.

## 4. Findings

1. **A restart undoes a retest's fresh build** (`campaign_retest`,
   `RetestBuildsAfresh`). `requeue_after_restart` appends its own reason over a
   pending retest's, and the reason of the latest event alone decides whether
   the setup is built afresh. `orchestration/auto_campaign.py:191` says "build the
   setup afresh, never re-run the old one".
2. **A deploy interrupts a test it waited for** (`deploy_drain`,
   `SwitchSparesTests`). The drain marker is cleared before the image is built
   and verified; a test may begin in these minutes and the switch recreates its
   container. The comment at `deployment/release/qf_deploy.py:429` names the
   interruption as the reason for draining.

Also visible in the models, with no line of the repository that says otherwise:
a transient failure of a submission is audited and replayed to the Dashboard,
which derives its request ids from the payload, for ever; a pruning failure
records a live revision as failed, and so does a `deployed.json` that cannot be
written after the switch, with the old revision left in it; an idea linked by hand
before its first campaign event is never tested by the campaign.

With a line that says otherwise, and stated as an exception of the property instead of in a run of
its own: a decision that begins after another's was rolled back and before its file
was undone can lose its file to the late rollback, while its row and its audit entry stay
(`Overtaken` in `ArtifactStore`; `DecisionIsWhole`, `AcceptedIsRegistered`).
`persistence/database.py:417` says "Keep artifact-file state aligned with a
surrounding database transaction".

Of the calculations:

- The builder of a walk-forward document accepts a short last test window under
  `incomplete_final_window == "include"` (`evidence_adapters.py:284`) and the
  validator refuses the document on reading; Monte Carlo and robustness documents
  built with a passed status under spent or inapplicable data progress by themselves
  and are refused likewise. The cost stress of a whole-share rule is written with
  `fees` and `slippage` (`fixed_rule.py:141`), and the reader looks for
  `fixed_fee_per_contract_per_side` and `slippage_ticks`
  (`robustness_artifacts/validator.py:262`), so that every such document is refused.
  `EvidenceIsRevalidated` names the three. A decision without a source lock or with
  a blank reason is stored and can never be read. The rolling step is checked only
  when it is shorter than the training window (`evidence_adapters.py:239`).
- A refetch after a change of adjustment (`alpaca_sip.py:351`) is not checked
  with `ends_at_or_after`, so a shorter one drops stored bars, which its docstring
  (line 252) rules out for refetches: `LibraryIsWhole` names it as the one top-up that
  may end earlier than the library. A working copy that was pulled again and
  not committed fails the prefix check of every later top-up. A ticker that is used
  again is cut at the listing gap by every incremental top-up with the saved copy, which counts
  the rows each time; the other writers count them once, and the property says so.
- A death between the two renames of `cache.py:72` leaves prices under the
  metadata of another request. A purchase that dies before its digest is in the
  manifest is refused by every later acquisition.
- In "relative" mode a robustness neighbour must meet the absolute limit too, and
  the trades of a regime are counted by the label of the bar that fills them
  while its returns use the label before.

## 5. Proofs

Every theorem holds for all values of the constants that satisfy the named
assumptions of its module, so for any number of processes, keys, ideas, requests
or revisions and any number of disturbances; of the calculations, for any set of
requests, histories of any length and any number of settings. Each module of proofs has an
inductive invariant, a theorem `Spec => []...Inv`, and the properties of the runs
follow from it. TLC checked each invariant on the instances of the runs before
it was proved.

| Module | Invariant | Properties of runs it proves |
|---|---|---|
| `ResearchLaunchProofs` | `LaunchInv`, then `OutcomeInv` beside it | `OneInvocationPerKey`, `StatusFollowsSubmission`; `EndingsAreFinal`, `IdentityIsOne`, `ReproductionsRestOnCompleteRuns`, `ManifestIsImmutable`, `ImplementsRunLifecycle` |
| `FilterChainProofs` | `ChainInv` | `StagesRunOnceInOrder`, `SurvivorIsEvidenced`, `ReadyIsReadable`, `OneDecision`, `EndedStagesStay` |
| `AutoCampaignProofs` | `CampaignInv` | `LaunchesAreCounted`, `LaunchSetupHolds`, `RulesAreTestedOnce`, `PauseStopsTesting`, `ResultsStay` |
| `GatewayRequestsProofs` | `GatewayInv` | `OneRequestOneEffect`, `RecordsAreKept` |
| `ReleaseDeployProofs` | `DeployInv` | `OnlyVerifiedIsLive`, `HostStaysWhole` |
| `ArtifactStoreProofs` | `StoreInv` | `MigratedOnce`, `EvidenceIsWhole`, `AcceptedIsRegistered` |
| `CalculationProofs` | `AnswerInv` | `EvidenceIsRevalidated`, `SessionLimitsHold`; of `FoldsNeverLeak` the part about partitions (`PartitionsAreClean`) |
| `FoldProofs` | `AnswerInv` | `FoldsNeverLeak` |

`Spec => []TypeOK` is proved of each state machine. Two more action properties are
stated in the modules of proofs alone: `NothingIsTakenBack` (no step of the gateway,
a restart included, removes or changes a Candidate, a note, an audit row or a draft)
and `RegisteredForGood` (no step removes or changes a committed artifact row or
manifest).

**Assumptions.** The null value differs from what it stands beside
(`NoneAssumption`, `AbsentAssumption`); disturbances and budgets are natural
numbers; beyond that, what the comment at each `ASSUME` says, of which the
important ones are: a thread belongs to one process and a run has at least one
artifact (`ResearchLaunch`), a request id is bound to one payload
(`GatewayRequests`), packets
are records with the four fields the campaign reads (`AutoCampaign`). Sets may
be infinite unless the module counts them.

In `Calculations` the assumptions say what inputs the callers build, since a property of an
answer holds only of inputs the program can be in. TLC evaluates each of them on every
case of the run.

- `StageCases`: a stage runs on the rows of its history, sorted unless the splitter refuses
  them, under a configuration that passed its own `__post_init__`. Prices are numbers or
  missing, stops and signals come as series, and a series may have the wrong length, which the gates
  examine. The two histories that are compared agree before a row, and so does what the
  strategy generates from them: that the strategies of this repository are such is
  what `NoLookAhead` checks; the theorem shows that nothing after the strategy adds a leak.
  `Null` is not a lock and not what is reported of one.
- `DocumentCases`, `ReviewCases`: a document is built of what its stage
  returned (windows in order, reasons that the code spells out, the costs of a stress
  raised and under the names of its plan, `IsStress`); this is what the builders write,
  not what the readers check. `WorseEvidenceNeverPasses` checks the costs on the
  stresses that `Robustness` computes. A review is stored with
  its audit row in one transaction, by a named reviewer.
- `ColumnCases`: `_session_ids` numbers the bars of full sessions in order and
  gives -1 to the others (the cap starts from -2); the maximum hold of a column is
  one constant from the first entry on, as the rule strategies broadcast it.
- `TradeCases`: sessions follow each other as exchange calendars have them; the numbers
  of a strategy fit its sessions as those its module fixes do (a run-exhaustion window ends
  well before the close, a gap trade ends before any early close); the momentum
  candidate reads a history of regular hours only, which its data contract demands.
- `NullAssumption`, `RefusalAssumption`: no value and no refusal is the null value.

**How a proof is laid out.** First what each helper or action leaves behind (its
effect on the fields that matter), then that the types are kept, then one lemma
for each part of the invariant with a case for each action that can disturb it,
then the theorems. Definitions are expanded only where a step needs them.

**Why the invariants are needed.**

- *Launch.* That the winner of `begin_dispatch` is alone says nothing of the threads it
  will meet. `LocalsAreSet` and `RunsAreOwned` (a submission owns one run and no
  two share it) carry a fact about one key past a step of another;
  `MarkerIsHeld` says that between `begin_dispatch` and its return a thread is
  the recorded dispatcher and alone with its key; `FlowsAreBound` that the key of
  a flow has left `claimed` and that a bound flow belongs to an acknowledged
  submission, which an operator cannot abandon; `AttemptsAreCounted` that only
  such a flow counts an attempt.
- *How a launch ends.* A flow past the binding is the one its submission and
  the run's environment name (`BindingsAreRecorded`), and where it is tells how
  much of the output is written (`ProgressIsRecorded`): nothing up to the result
  transaction, all artifacts before the manifest, the manifest before the success.
  `EndingsAreLogged` says that a run stays `running` while its flow executes, so that nothing is
  logged after a terminal event and the flow's reread of the status never finds the
  run ended by another. `ProcessesAreKnown` (a flow runs in the process its
  marker names) makes evidence about that process evidence about every flow of the key.
  From the same invariant each step is mapped: `LifecycleStep` names, in terms
  of the tables, the seven steps of `RunLifecycle` and the stutter, every action
  is shown to be one of them, and `StepMaps` carries that through the mapping.
- *Filter chain.* `OneOwner`: a stage is in the adapter of one chain, the one that
  inserted its run; what that chain has done so far (`StageInSteps`) and what
  stands on record of the stage (`StageRecorded`) then move together. A chain
  keeps what it has passed (`PassedOnRecord`) although other chains run beside
  it, since an ended stage keeps its verdict. `OneDecision` compares two chains:
  on an intact store each of them has handed off what the stages alone determine
  (`DoneFollows`), so both stop at the first stage that may not progress.
- *Campaign.* A duplicate is closed on account of an idea that was looked at one
  step earlier, and the result is recorded many steps later: `OthersAreKnown`
  says what the thread still knows of the other ideas at each step, which holds
  since only an operator's retest changes their events meanwhile.
  `StartsAreCounted` pays each start with the budget or with a retest that was
  written (a restart may lose one that was only read); `KeysAreOwn` makes
  the key of a launch name the rules of the idea's setup, so that
  launches inject into the numbers below the bound. `RequeuesAreIdle` says that nobody
  requeues an idea under way, and `Turn` what each step of the child relies on.
- *Gateway.* `EffectsAreCounted` allows a request id one effect beyond the ones that a
  cut left unaudited, which is the audited one or the one about to be
  audited; `NotAuditedYet` and `Durable` tie the answer to the stores while it is
  on its way. `DraftIsOwned` says which drafts may have no identity.
- *Deploy.* `SwitchedSoFar` follows the four switches whatever the host looked like
  before; `WayBack` says of a host that was whole that each step of a rollback
  undoes one of them, and `InstalledIsKnown` that what a handler does not know of, it
  did not replace. That pruning keeps what is linked rests on `Kept`, a selection
  from a sequence, whose lemmas are proved by a least counterexample.
- *Artifact store.* The write lock is a step of a decision or nobody's
  (`LockInSteps`), so what lies in the file of a decision or a screen follows from
  its writer's step until the lock is released; `UndoInSteps` says of the steps
  after it that there is no row while a file is undone, unless a decision overtook;
  a migration is decided on and committed under one lock (`SchemaInSteps`);
  `ReadInSteps` says what a reader has validated between its two looks at a file.
- *Calculations.* `AnswerInv` ties the answer to the request; what is hard is inside
  one request, where the same pattern returns over rounds and bars instead of steps.
  `BuiltSoFar` holds after each round of the walk-forward splitter: the windows
  built are cut between sessions, of the declared sizes, and each test begins where
  the round says. `CapIsKept` follows a capped column bar by bar: the count is the
  number of the session's trades opened so far, and the side of the last one is held
  until something ends it, which needs that the bars of a session are contiguous.
  For a document, that the reader of a native part recomputes what the builder
  normalized (`EvidenceRevalidated`) is shown stage by stage; what the two disagree
  on is derived, not assumed: a short final test, a part that would progress by
  itself, and a stress of whole shares (`StressHolds`: the reader's check holds of a
  stress exactly when its costs are a contract's) are the three exceptions the
  property names. That choices ignore the tests (`FoldProofs`) is a fact about two
  runs of one experiment, *twins*, whose histories agree before a row. It is carried
  through every operator between the signals and the lock: a normalized, aligned and
  cut signal of the twins is the same if the window ends before the row, so are the
  columns of a chunk and their metrics, and so the ranking, a stable sort that is
  equal on equal rows. Each turn of the loop over chunks and each fold of a walk
  forward keeps a *sound* signal cache: what it holds of a setting is what the
  strategy generates for it, so the twins may differ in what they hold. The lock of
  a report is taken exactly when its test passed because `LockRefusals` reads the
  fields that the report writes. Folds of a fixed candidate pass together only when
  enough do, which needs that a drawdown is a number and at most zero. A session
  strategy closes what it opens by one lemma per strategy, each from the bar that
  its window or its close selects.

**What a proof attempt showed.** `ResultsStay` was stated without its condition
`NeverEdited` and is false without it: `requeue_interrupted`
(`src/agent_gateway/results.py:158`) reads the latest event of an idea and
appends its own later; when the packet is edited and decided in between, the
result is replaced. The disturbances of the run never allowed the three steps
together. `NeverEdited` names the exception.

**Induction.** The induction theorems of the library take an operator as a
parameter, which the installed provers cannot instantiate. Where a set has a
least element, that is enough: `SetInduction` in `ReleaseDeployProofs` and
`IdeaIsQueued` in `AutoCampaignProofs` (the oldest queued idea exists) take a
counterexample minimal for a well-founded order. What the code accumulates in a loop is a
recursive function of the round, the bar, the chunk or the fold in the model, so that the same
argument (`LeastNumber` in `CalculationProofs`) carries a fact from each round to the next.

**Model-checked only.** All liveness (fairness and `ENABLED` are out of the
prover's reach): `LaunchesSettle`, `SurvivorIsRecorded`, `IdeasAreServed`,
`SubmissionSettles`, `SwitchSparesTests`, `MainGoesLive`, `OpenersConnect`, the
last two about steps that must come. Of the calculations:

- `SettingsAreIndependent` compares a column of a chunk with the same setting alone. Every
  setting of a sweep shares the simulation with others there, so that the twins of
  `FoldProofs`, two chunks of the same settings, do not cover it.
- `NoLookAhead` is a fact about each strategy and rule of its own.
- `AcceptedRulesRun` is a fact about every tree of a rule, an induction over data.
- `AccountsAgree` and `PricesAreWhole` rest on sums over a set and on sorted or selected
  sequences (`FoldSet`, `SortSeq`, `SelectSeq`), which the provers cannot expand.
- `WorseEvidenceNeverPasses` and `PlansAreExact` multiply and divide unknown numbers or
  count a product of sets by folds.

## 6. Not modelled

- Floating point: ratios, drawdown curves, deflated Sharpe and PBO statistics,
  percentiles of long samples, exponential averages beyond what a signal compares.
  The random draws of Monte Carlo are choices; the portfolio engine is external.
- Of a cost stress, whether `accumulate` agrees with the lock. Of the session metrics, the
  refusal of an annualized return that is not finite.
- Assembly of stage inputs (`candidate_runtime_robustness.py` and its
  neighbours), stock universe and committed price files: read-only lookups.
- Time: the two hours of the drain marker, busy timeouts and the deploy timer's
  period. `QF_DEPLOY_FORCE` and the pruning of environments.
- Requests with one id and different payloads (`PayloadAssumption`; the
  repository's clients never send them), transport authentication and rates.
- The transport of the price providers, the third path that reads yfinance,
  the research context document, text formats, columns of a migration.
- Dashboard, gateway reads, paper handoff: projections that keep no state.
  Containers and development tools.

## 7. Plan

Done, in this order, the behaviour that costs most when wrong first:
`RunLifecycle`, `ResearchLaunch` and its proofs, `FilterChain`, `AutoCampaign`,
`ReleaseDeploy`, `GatewayRequests`, `ArtifactStore`, and the calculations from
the experiment to the evidence documents and price files.

Next, the model:

1. `FilterChain` as an implementation of `RunLifecycle` for its stage runs, and
   an abstract `OneResultPerRules` specification for the campaign.
2. An abstract store, "a registered artifact is the file it was registered with,
   or retrieval says that it is not", implemented by `ArtifactStore`.
3. The stage builders between the stored screening run and the stages.
4. The status projections of the dashboard against the run lifecycle.

Next, the theorems: every safety and action property that the runs of the state
machines check is proved, and of the calculations `EvidenceIsRevalidated`,
`SessionLimitsHold` and `FoldsNeverLeak`. Left are the parts of `NoLookAhead`
strategy by strategy, which would discharge the assumption of `FoldsLeakNothing`
about what is generated, `SettingsAreIndependent` with the lemmas of `FoldProofs`
about chunks, and the proofs that the two new abstract specifications above are
implemented.
