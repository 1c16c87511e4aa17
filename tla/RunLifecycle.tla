---------------------------- MODULE RunLifecycle ----------------------------
(***************************************************************************)
(* What every component that drives an experiment run promises about it:   *)
(* the status walks RUN_STATUS_TRANSITIONS, completion output is accepted  *)
(* only while the run is running and only once, success needs that output, *)
(* and a run is cancelled only on request and before it has output.        *)
(*                                                                         *)
(* Launchers and pipelines implement this specification; they say who may  *)
(* take a step and when, this module says which steps there are.           *)
(***************************************************************************)
CONSTANT Runs

VARIABLES
    status,         \* the run's RunStatus, or "absent"
    hasResult,      \* whether completion output is persisted
    cancelAsked     \* whether a cancellation request is recorded

vars == <<status, hasResult, cancelAsked>>

Statuses == {"absent", "created", "running", "succeeded", "failed",
             "cancelled"}

TypeOK ==
    /\ status \in [Runs -> Statuses]
    /\ hasResult \in [Runs -> BOOLEAN]
    /\ cancelAsked \in [Runs -> BOOLEAN]

Init ==
    /\ status = [r \in Runs |-> "absent"]
    /\ hasResult = [r \in Runs |-> FALSE]
    /\ cancelAsked = [r \in Runs |-> FALSE]

\* RunRepository.create
Create(r) ==
    /\ status[r] = "absent"
    /\ status' = [status EXCEPT ![r] = "created"]
    /\ UNCHANGED <<hasResult, cancelAsked>>

Start(r) ==
    /\ status[r] = "created"
    /\ status' = [status EXCEPT ![r] = "running"]
    /\ UNCHANGED <<hasResult, cancelAsked>>

\* require_active_run_for_completion and the rows it guards
AcceptResult(r) ==
    /\ status[r] = "running"
    /\ ~hasResult[r]
    /\ hasResult' = [hasResult EXCEPT ![r] = TRUE]
    /\ UNCHANGED <<status, cancelAsked>>

\* request_run_cancellation
AskCancellation(r) ==
    /\ status[r] = "running"
    /\ cancelAsked' = [cancelAsked EXCEPT ![r] = TRUE]
    /\ UNCHANGED <<status, hasResult>>

\* acknowledge_run_cancellation
Cancel(r) ==
    /\ status[r] = "running"
    /\ cancelAsked[r]
    /\ ~hasResult[r]
    /\ status' = [status EXCEPT ![r] = "cancelled"]
    /\ UNCHANGED <<hasResult, cancelAsked>>

Succeed(r) ==
    /\ status[r] = "running"
    /\ hasResult[r]
    /\ status' = [status EXCEPT ![r] = "succeeded"]
    /\ UNCHANGED <<hasResult, cancelAsked>>

Fail(r) ==
    /\ status[r] \in {"created", "running"}
    /\ status' = [status EXCEPT ![r] = "failed"]
    /\ UNCHANGED <<hasResult, cancelAsked>>

Next == \E r \in Runs :
    \/ Create(r) \/ Start(r) \/ AcceptResult(r) \/ AskCancellation(r)
    \/ Cancel(r) \/ Succeed(r) \/ Fail(r)

Spec == Init /\ [][Next]_vars
=============================================================================
