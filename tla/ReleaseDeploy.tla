---------------------------- MODULE ReleaseDeploy ----------------------------
(***************************************************************************)
(* qf-deploy: the job that puts GitHub's main live on the host.  A timer   *)
(* runs it every three minutes, an administrator now and then; a file lock *)
(* keeps the runs apart, but every run may fail or be killed between any   *)
(* two of its steps.  It switches two things that users see (the research  *)
(* containers and the Dashboard) and two kinds of privileged files, and    *)
(* rolls back when a switch fails.                                         *)
(*                                                                         *)
(* Switching the containers restarts the gateway, and with it the campaign *)
(* of AutoCampaign, which is reduced here to what the deploy can observe:  *)
(* it looks at the drain marker, begins a test, and ends it.               *)
(***************************************************************************)
EXTENDS Integers, Sequences, FiniteSets

CONSTANTS
    NRevisions,    \* revisions merged to main after revision 0
    InfraOf,       \* the privileged files' content, per revision
    KeepReleases,  \* KEEP_RELEASES
    MaxAdmin,      \* administrator's runs
    MaxFaults,     \* steps that fail
    MaxCrashes,    \* runs that are killed
    None

Revisions == 0..NRevisions

\* Two of the keys of INFRA: compose.yaml and the Dashboard unit.
InfraFiles == {"compose", "unit"}

ASSUME RevisionsAssumption ==
    NRevisions \in Nat /\ InfraOf \in [Revisions -> Nat]

ASSUME DeployBounds ==
    /\ KeepReleases \in Nat \ {0}
    /\ MaxAdmin \in Nat /\ MaxFaults \in Nat
    /\ MaxCrashes \in Nat

ASSUME NoneIsNoRevision == None \notin Revisions

VARIABLES
    main,        \* the tip of GitHub's main
    state,       \* deployed.json
    host,        \* .env revision, containers, "current" link, Dashboard
    infra,       \* the installed privileged files
    releases,    \* exported releases, newest first
    marker,      \* the drain marker exists
    dep,         \* the run that holds the lock: program counter and locals
    tests,       \* the campaign: idle, past its drain check, or testing
    used,        \* administrator's runs, faults and crashes so far
    verified,    \* history: revisions whose licensed tests passed
    intact,      \* history: no run has left the host half switched
    interrupted  \* history: tests cut short by a switch

vars == <<main, state, host, infra, releases, marker, dep, tests, used,
          verified, intact, interrupted>>

-----------------------------------------------------------------------------
(* Records *)

StateRecord ==
    [revision : Revisions, failed : Revisions \cup {None},
     pinned : Revisions \cup {None}, pending : BOOLEAN]

HostRecord ==
    [env : Revisions, containers : Revisions, current : Revisions,
     dashboard : Revisions]

\* The options of one run.
Options ==
    [admin : BOOLEAN, force : BOOLEAN, unpin : BOOLEAN,
     requested : Revisions \cup {None}]

TimerOptions ==
    [admin |-> FALSE, force |-> FALSE, unpin |-> FALSE, requested |-> None]

SwitchPc == {"infra", "reload", "env", "compose", "current", "dashboard"}

RollbackPc == {"rb_infra", "rb_env", "rb_compose", "rb_current",
               "rb_dashboard"}

DeployPc == {"off", "plan", "drain", "clear", "build", "verify", "previous",
             "write", "prune", "failed"} \cup SwitchPc \cup RollbackPc

\* revision is the deployed revision read at the start, drift the files still
\* to install, installed the ones already replaced, before and backups what a
\* rollback returns to, restored the files it puts back.
DeployRecord ==
    [pc : DeployPc, opts : Options, target : Revisions, revision : Revisions,
     drift : SUBSET InfraFiles, before : HostRecord,
     backups : [InfraFiles -> Nat], installed : SUBSET InfraFiles,
     restored : SUBSET InfraFiles]

Off ==
    [pc |-> "off", opts |-> TimerOptions, target |-> 0, revision |-> 0,
     drift |-> {}, before |-> [env |-> 0, containers |-> 0, current |-> 0,
     dashboard |-> 0], backups |-> [f \in InfraFiles |-> 0],
     installed |-> {}, restored |-> {}]

Goto(pc) == dep' = [dep EXCEPT !.pc = pc]

Spend(what, max) ==
    /\ used[what] < max
    /\ used' = [used EXCEPT ![what] = @ + 1]

InSeq(r, s) == \E i \in 1..Len(s) : s[i] = r

\* The members of S that s has, in its order.
Kept(s, S) ==
    LET kept[n \in 0..Len(s)] ==
            IF n = 0 THEN <<>>
            ELSE IF s[n] \in S THEN Append(kept[n - 1], s[n])
                 ELSE kept[n - 1]
    IN  kept[Len(s)]

Without(r, s) == Kept(s, Revisions \ {r})

-----------------------------------------------------------------------------
(* deploy *)

\* main: a run starts when no other holds the lock.
TimerRun ==
    /\ dep.pc = "off"
    /\ dep' = [Off EXCEPT !.pc = "plan"]
    /\ UNCHANGED <<main, state, host, infra, releases, marker, tests, used,
                   verified, intact, interrupted>>

AdminRun ==
    /\ dep.pc = "off"
    /\ Spend("admin", MaxAdmin)
    /\ \E opts \in Options :
          /\ opts.requested \in (0..main) \cup {None}
          /\ dep' = [Off EXCEPT !.pc = "plan", !.opts = opts]
    /\ UNCHANGED <<main, state, host, infra, releases, marker, tests,
                   verified, intact, interrupted>>

\* infra_drift
Drift(r) == {f \in InfraFiles : infra[f] /= InfraOf[r]}

\* export_release: a release that is there is used as it is.
Export(r) == IF InSeq(r, releases) THEN releases ELSE <<r>> \o releases

\* resolve_target
Target == IF dep.opts.requested = None THEN main ELSE dep.opts.requested

\* A pin, or a target that failed before, ends the run at once.
Refused ==
    \/ state.pinned /= None /\ dep.opts.requested = None /\ ~dep.opts.unpin
    \/ state.failed = Target /\ ~dep.opts.force

\* deploy up to the drain check: also privileged files that wait for an
\* administrator, and a target that is live already, end the run.
Plan ==
    LET opts   == dep.opts
        target == Target
        waits  == Drift(target) /= {} /\ ~opts.admin
        live   == state.revision = target /\ Drift(target) = {} /\ ~opts.force
    IN
    /\ dep.pc = "plan"
    /\ \/ /\ Refused
          /\ dep' = Off
          /\ UNCHANGED <<state, releases, marker>>
       \/ /\ ~Refused /\ waits
          /\ releases' = Export(target)
          /\ state' = [state EXCEPT !.pending = TRUE]
          /\ dep' = Off
          /\ UNCHANGED marker
       \/ /\ ~Refused /\ ~waits /\ live
          /\ releases' = Export(target)
          /\ state' = [state EXCEPT !.pinned = IF opts.unpin THEN None ELSE @]
          /\ marker' = FALSE
          /\ dep' = Off
       \/ /\ ~Refused /\ ~waits /\ ~live
          /\ releases' = Export(target)
          /\ dep' = [dep EXCEPT !.pc = "drain", !.target = target,
                  !.revision = state.revision, !.drift = Drift(target)]
          /\ UNCHANGED <<state, marker>>
    /\ UNCHANGED <<main, host, infra, tests, used, verified, intact,
                   interrupted>>

\* Mutant: the run is deferred without asking the campaign to drain.
DrainCheckMutant ==
    /\ dep.pc = "drain"
    /\ IF tests = "running" THEN dep' = Off ELSE Goto("clear")
    /\ UNCHANGED <<main, state, host, infra, releases, marker, tests, used,
                   verified, intact, interrupted>>

\* running_auto_tests: the deploy is put off while a test runs.
DrainCheck ==
    /\ dep.pc = "drain"
    /\ IF tests = "running"
       THEN marker' = TRUE /\ dep' = Off
       ELSE Goto("clear") /\ UNCHANGED marker
    /\ UNCHANGED <<main, state, host, infra, releases, tests, used, verified,
                   intact, interrupted>>

\* The store cannot be read: the deploy goes on without the check.
DrainCheckBlind ==
    /\ dep.pc = "drain"
    /\ Spend("fault", MaxFaults)
    /\ Goto("clear")
    /\ UNCHANGED <<main, state, host, infra, releases, marker, tests,
                   verified, intact, interrupted>>

ClearMarker ==
    /\ dep.pc = "clear"
    /\ marker' = FALSE
    /\ Goto("build")
    /\ UNCHANGED <<main, state, host, infra, releases, tests, used, verified,
                   intact, interrupted>>

-----------------------------------------------------------------------------
(* _switch *)

\* ensure_venv and ensure_image; the release directory is touched.
Build ==
    /\ dep.pc = "build"
    /\ releases' = <<dep.target>> \o Without(dep.target, releases)
    /\ Goto("verify")
    /\ UNCHANGED <<main, state, host, infra, marker, tests, used, verified,
                   intact, interrupted>>

\* Mutant: the exit code of the licensed lane is not looked at.
VerifyMutant ==
    /\ dep.pc = "verify"
    /\ verified' \in {verified, verified \cup {dep.target}}
    /\ Goto("previous")
    /\ UNCHANGED <<main, state, host, infra, releases, marker, tests, used,
                   intact, interrupted>>

\* verify_image: the licensed tests pass.
Verify ==
    /\ dep.pc = "verify"
    /\ verified' = verified \cup {dep.target}
    /\ Goto("previous")
    /\ UNCHANGED <<main, state, host, infra, releases, marker, tests, used,
                   intact, interrupted>>

\* What a rollback returns to is what the host says now.
ReadPrevious ==
    /\ dep.pc = "previous"
    /\ dep' = [dep EXCEPT !.before = host, !.backups = infra,
                          !.pc = IF dep.drift = {} THEN "env" ELSE "infra"]
    /\ UNCHANGED <<main, state, host, infra, releases, marker, tests, used,
                   verified, intact, interrupted>>

\* install_infra: backup and copy, file by file,
InstallInfra ==
    /\ dep.pc = "infra"
    /\ \E f \in dep.drift :
          /\ infra' = [infra EXCEPT ![f] = InfraOf[dep.target]]
          /\ dep' = [dep EXCEPT !.drift = @ \ {f},
                                !.installed = @ \cup {f},
                                !.pc = IF dep.drift = {f}
                                       THEN "reload" ELSE "infra"]
    /\ UNCHANGED <<main, state, host, releases, marker, tests, used, verified,
                   intact, interrupted>>

\* and daemon-reload; only now does the caller know what was replaced.
ReloadInfra ==
    /\ dep.pc = "reload"
    /\ dep' = [dep EXCEPT !.pc = "env", !.restored = dep.installed]
    /\ UNCHANGED <<main, state, host, infra, releases, marker, tests, used,
                   verified, intact, interrupted>>

SwitchEnv ==
    /\ dep.pc = "env"
    /\ host' = [host EXCEPT !.env = dep.target]
    /\ Goto("compose")
    /\ UNCHANGED <<main, state, infra, releases, marker, tests, used,
                   verified, intact, interrupted>>

\* compose up: containers of another revision are recreated, which ends the
\* gateway and whatever test runs in it.
Recreate(r) ==
    /\ host' = [host EXCEPT !.containers = r]
    /\ IF host.containers /= r
       THEN /\ tests' = "idle"
            /\ interrupted' = interrupted + (IF tests = "running" THEN 1 ELSE 0)
       ELSE UNCHANGED <<tests, interrupted>>

ComposeUp ==
    /\ dep.pc = "compose"
    /\ Recreate(host.env)
    /\ Goto("current")
    /\ UNCHANGED <<main, state, infra, releases, marker, used, verified,
                   intact>>

SwitchCurrent ==
    /\ dep.pc = "current"
    /\ host' = [host EXCEPT !.current = dep.target]
    /\ Goto("dashboard")
    /\ UNCHANGED <<main, state, infra, releases, marker, tests, used,
                   verified, intact, interrupted>>

\* systemctl restart and wait_for_dashboard
RestartDashboard ==
    /\ dep.pc = "dashboard"
    /\ host' = [host EXCEPT !.dashboard = host.current]
    /\ Goto("write")
    /\ UNCHANGED <<main, state, infra, releases, marker, tests, used,
                   verified, intact, interrupted>>

\* write_state: deployed.json is replaced as a whole.
WriteState ==
    /\ dep.pc = "write"
    /\ state' = [revision |-> dep.target, failed |-> None, pending |-> FALSE,
                 pinned |-> dep.opts.requested]
    /\ intact' = TRUE
    /\ Goto("prune")
    /\ UNCHANGED <<main, host, infra, releases, marker, tests, used, verified,
                   interrupted>>

\* Mutant: the oldest releases are kept.
PrunedMutant(keep) == SubSeq(releases, Len(releases), Len(releases))

\* prune: the newest releases stay, and the ones to keep.
Pruned(keep) ==
    LET newest == {i \in 1..Len(releases) : i <= KeepReleases}
    IN  Kept(releases, keep \cup {releases[i] : i \in newest})

Prune ==
    /\ dep.pc = "prune"
    /\ releases' = Pruned({dep.target, dep.revision})
    /\ dep' = Off
    /\ UNCHANGED <<main, state, host, infra, marker, tests, used, verified,
                   intact, interrupted>>

-----------------------------------------------------------------------------
(* Failures *)

\* An exception before anything is switched, or after all of it is: the handler
\* of deploy rolls nothing back, so that a deployed.json that could not be
\* written leaves the host on a revision that it does not name.
StepFails ==
    /\ dep.pc \in {"build", "verify", "previous", "write", "prune"}
    /\ Spend("fault", MaxFaults)
    /\ intact' = (intact /\ dep.pc /= "write")
    /\ releases' \in IF dep.pc = "prune"
                     THEN {releases, Pruned({dep.target, dep.revision})}
                     ELSE {releases}
    /\ Goto("failed")
    /\ UNCHANGED <<main, state, host, infra, marker, tests, verified,
                   interrupted>>

\* An exception that no handler of deploy records: GitHub, the export or
\* write_state fails while the run is planned, or write_state fails in the
\* handler itself.
RunFails ==
    /\ dep.pc \in {"plan", "failed"}
    /\ Spend("fault", MaxFaults)
    /\ releases' \in {releases} \cup (IF dep.pc = "plan" /\ ~Refused
                                      THEN {Export(Target)} ELSE {})
    /\ dep' = Off
    /\ UNCHANGED <<main, state, host, infra, marker, tests, verified, intact,
                   interrupted>>

\* A switch fails, before or after it took effect, and is rolled back.  What
\* install_infra had replaced is not known to the handler.
SwitchFails ==
    /\ dep.pc \in SwitchPc
    /\ Spend("fault", MaxFaults)
    /\ Goto("rb_infra")
    /\ \/ UNCHANGED <<host, tests, interrupted>>
       \/ dep.pc = "compose" /\ Recreate(host.env)
       \/ /\ dep.pc = "dashboard"
          /\ host' = [host EXCEPT !.dashboard = host.current]
          /\ UNCHANGED <<tests, interrupted>>
    /\ intact' = (intact /\ dep.installed = dep.restored)
    /\ UNCHANGED <<main, state, infra, releases, marker, verified>>

\* rollback: the privileged files, then the containers, then the Dashboard.
RollbackInfra ==
    /\ dep.pc = "rb_infra"
    /\ infra' = [f \in InfraFiles |->
                    IF f \in dep.restored THEN dep.backups[f] ELSE infra[f]]
    /\ Goto("rb_env")
    /\ UNCHANGED <<main, state, host, releases, marker, tests, used, verified,
                   intact, interrupted>>

RollbackEnv ==
    /\ dep.pc = "rb_env"
    /\ host' = [host EXCEPT !.env = dep.before.env]
    /\ Goto("rb_compose")
    /\ UNCHANGED <<main, state, infra, releases, marker, tests, used,
                   verified, intact, interrupted>>

RollbackCompose ==
    /\ dep.pc = "rb_compose"
    /\ Recreate(host.env)
    /\ Goto("rb_current")
    /\ UNCHANGED <<main, state, infra, releases, marker, used, verified,
                   intact>>

RollbackCurrent ==
    /\ dep.pc = "rb_current"
    /\ host' = [host EXCEPT !.current = dep.before.current]
    /\ Goto("rb_dashboard")
    /\ UNCHANGED <<main, state, infra, releases, marker, tests, used,
                   verified, intact, interrupted>>

RollbackDashboard ==
    /\ dep.pc = "rb_dashboard"
    /\ host' = [host EXCEPT !.dashboard = host.current]
    /\ Goto("failed")
    /\ UNCHANGED <<main, state, infra, releases, marker, tests, used,
                   verified, intact, interrupted>>

\* The rollback itself raises; the rest of it does not happen.
RollbackFails ==
    /\ dep.pc \in RollbackPc
    /\ Spend("fault", MaxFaults)
    /\ Goto("failed")
    /\ intact' = FALSE
    /\ UNCHANGED <<main, state, host, infra, releases, marker, tests,
                   verified, interrupted>>

\* The handler in deploy: failed_revision, so that the timer does not retry.
RecordFailure ==
    /\ dep.pc = "failed"
    /\ state' = [state EXCEPT !.failed = dep.target]
    /\ dep' = Off
    /\ UNCHANGED <<main, host, infra, releases, marker, tests, used, verified,
                   intact, interrupted>>

\* The run is killed (its 45 minutes are over, the host reboots).
Killed ==
    /\ dep.pc /= "off"
    /\ Spend("crash", MaxCrashes)
    /\ dep' = Off
    /\ intact' = (intact /\ dep.pc \notin SwitchPc \cup RollbackPc \cup {"write"})
    /\ UNCHANGED <<main, state, host, infra, releases, marker, tests,
                   verified, interrupted>>

-----------------------------------------------------------------------------
(* The campaign, and GitHub *)

\* run_once of the campaign asks drain_requested before each test,
CheckDrain ==
    /\ tests = "idle" /\ ~marker
    /\ tests' = "checked"
    /\ UNCHANGED <<main, state, host, infra, releases, marker, dep, used,
                   verified, intact, interrupted>>

\* _process records "running" some time later,
BeginTest ==
    /\ tests = "checked"
    /\ tests' = "running"
    /\ UNCHANGED <<main, state, host, infra, releases, marker, dep, used,
                   verified, intact, interrupted>>

\* and the test ends.
EndTest ==
    /\ tests = "running"
    /\ tests' = "idle"
    /\ UNCHANGED <<main, state, host, infra, releases, marker, dep, used,
                   verified, intact, interrupted>>

\* Something is merged.
Merge ==
    /\ main < NRevisions
    /\ main' = main + 1
    /\ UNCHANGED <<state, host, infra, releases, marker, dep, tests, used,
                   verified, intact, interrupted>>

-----------------------------------------------------------------------------

\* Revision 0 is live.
Init ==
    /\ main = 0
    /\ state = [revision |-> 0, failed |-> None, pinned |-> None,
                pending |-> FALSE]
    /\ host = [env |-> 0, containers |-> 0, current |-> 0, dashboard |-> 0]
    /\ infra = [f \in InfraFiles |-> InfraOf[0]]
    /\ releases = <<0>>
    /\ marker = FALSE
    /\ dep = Off
    /\ tests = "idle"
    /\ used = [what \in {"admin", "fault", "crash"} |-> 0]
    /\ verified = {0}
    /\ intact = TRUE
    /\ interrupted = 0

DeployStep ==
    \/ Plan \/ DrainCheck \/ ClearMarker \/ Build \/ Verify \/ ReadPrevious
    \/ InstallInfra \/ ReloadInfra \/ SwitchEnv \/ ComposeUp \/ SwitchCurrent
    \/ RestartDashboard \/ WriteState \/ Prune
    \/ RollbackInfra \/ RollbackEnv \/ RollbackCompose \/ RollbackCurrent
    \/ RollbackDashboard \/ RecordFailure

Next ==
    \/ TimerRun \/ AdminRun \/ DeployStep
    \/ DrainCheckBlind \/ StepFails \/ RunFails \/ SwitchFails \/ RollbackFails
    \/ Killed \/ CheckDrain \/ BeginTest \/ EndTest
    \/ Merge

Spec == Init /\ [][Next]_vars

\* The timer fires again and again, a run goes on unless it is killed, and a
\* test ends (within the two hours after which the marker would be ignored).
Fairness ==
    /\ WF_vars(TimerRun)
    /\ WF_vars(DeployStep)
    /\ WF_vars(EndTest)

FairSpec == Spec /\ Fairness

-----------------------------------------------------------------------------
(* Properties *)

TypeOK ==
    /\ main \in Revisions
    /\ state \in StateRecord
    /\ host \in HostRecord
    /\ infra \in [InfraFiles -> Nat]
    /\ releases \in Seq(Revisions)
    /\ marker \in BOOLEAN
    /\ dep \in DeployRecord
    /\ tests \in {"idle", "checked", "running"}
    /\ used \in [{"admin", "fault", "crash"} -> Nat]
    /\ verified \subseteq Revisions
    /\ intact \in BOOLEAN
    /\ interrupted \in Nat

Live == {host.env, host.containers, host.current, host.dashboard}

\* Whatever fails, is killed or is rolled back, only revisions whose licensed
\* tests passed are ever on the host ("Before anything switches, the licensed
\* VectorBT test lane runs inside the newly built research image").
OnlyVerifiedIsLive == Live \subseteq verified

\* Between two runs the host is on one revision, the one deployed.json names,
\* with that revision's privileged files: also after a switch that failed at
\* any step and was rolled back.  Excluded, until the next successful deploy,
\* are hosts on which a run was killed between its first switch and
\* deployed.json, a rollback failed, install_infra failed half way, or
\* deployed.json could not be written after the switch.
HostIsWhole ==
    (dep.pc = "off" /\ intact) =>
        /\ Live = {state.revision}
        /\ \A f \in InfraFiles : infra[f] = InfraOf[state.revision]

\* prune never removes a release that is linked, running, or that a rollback
\* of the deploy under way would link.
LiveReleaseKept ==
    /\ InSeq(host.current, releases)
    /\ InSeq(host.dashboard, releases)
    /\ InSeq(state.revision, releases)
    /\ dep.pc \in RollbackPc => InSeq(dep.before.current, releases)

\* A host is whole and what it needs to stay so is kept: both of the above.
HostStaysWhole == HostIsWhole /\ LiveReleaseKept

\* What the deploy defers for: "Recreating the gateway interrupts a running
\* test", so "no new tests start".  A switch interrupts no test.
SwitchSparesTests == interrupted = 0

\* Main is put live in the end, on containers and Dashboard alike, although
\* tests keep starting and runs are killed half way, unless the revision
\* failed, waits for an administrator or a pin holds it back, or an
\* administrator's run of another revision broke off half way on a host that
\* was on main: the timer compares main with deployed.json, not with the host.
MainGoesLive ==
    <>[](\/ Live = {main}
         \/ state.failed = main
         \/ state.pending
         \/ state.pinned /= None
         \/ state.revision = main /\ ~intact)

=============================================================================
