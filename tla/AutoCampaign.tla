----------------------------- MODULE AutoCampaign -----------------------------
(***************************************************************************)
(* The automatic test campaign of the agent gateway.  One background       *)
(* thread queues submitted ideas, and tests them one at a time, each in a  *)
(* child process that links the idea to an immutable setup and launches    *)
(* the pipeline under a key of its own.  What happened to an idea is its   *)
(* latest row in the append-only campaign_events log; a start is counted   *)
(* there too.                                                              *)
(*                                                                         *)
(* Beside the thread: gateway requests of the operator (retest, requeue,   *)
(* pause), changes to drafts, a deploy's drain marker, and restarts of the *)
(* gateway, which kill the thread and its child wherever they are.         *)
(***************************************************************************)
EXTENDS Integers, FiniteSets

CONSTANTS
    NIdeas,       \* number of ideas that will be submitted
    Packets,      \* candidate packets, as records
    MaxAttempts,  \* MAX_ATTEMPTS: starts of one packet between two fixes
    Allowance,    \* how often each disturbance may happen
    None

\* In order of creation.
Ideas == 1..NIdeas

Disturbances == {"restart", "retest", "requeue", "method", "edit", "raise",
                 "pause", "drain", "handbuilt", "broken"}

ASSUME NIdeasAssumption == NIdeas \in Nat

ASSUME AttemptsAssumption == MaxAttempts \in Nat \ {0}

ASSUME AllowanceAssumption == Allowance \in [Disturbances -> Nat]

\* rules names the strategy built from the packet's rule_spec and variables,
\* market its symbol and timeframe; fault is what is wrong with it: it fails
\* intake validation, its rules do not compile, or it has no verified data.
ASSUME PacketsAssumption ==
    \A p \in Packets :
        /\ DOMAIN p = {"rules", "market", "fault", "revision"}
        /\ p.fault \in {"none", "intake", "rules", "data"}

VARIABLES
    drafts,    \* the idea drafts: packet, and the setup each is linked to
    log,       \* latest campaign event per idea
    starts,    \* "running" events per idea and packet
    recent,    \* those since the packet was last requeued after a fix
    method,    \* version of everything else a setup document depends on
    launched,  \* pipeline launches, by key, with the decision they recorded
    camp,      \* the campaign thread and its child: program counter, locals
    operator,  \* a gateway request between its read and its write
    control,   \* pause state and drain marker
    left,      \* disturbances still to come
    fixed,     \* history: method as an idea was last requeued after a fix
    begun      \* history: tests begun since the last pause

vars == <<drafts, log, starts, recent, method, launched, camp, operator,
          control, left, fixed, begun>>

-----------------------------------------------------------------------------
(* Records *)

OpenStates == {"queued", "running"}

ResultStates == {"survivor", "screened_out"}

States == OpenStates \cup ResultStates \cup
          {"duplicate_closed", "implementation_blocked", "failed"}

Rules == {p.rules : p \in Packets}

Documents ==
    [rules : Rules, market : {p.market : p \in Packets}, method : Nat]

Draft == [packet : Packets \cup {None}, link : Documents \cup {None}]

\* reason "interrupted" stands for a run_error whose detail says so.
Reasons == {"waiting", "requeued_after_restart", "requeued_after_fix",
            "requeued_by_agent", "started", "same_rules", "blocked",
            "run_error", "interrupted", "rules_changed", "decided"}

Event == [state : States, reason : Reasons, packet : Packets,
          owner : Ideas \cup {None}]

\* campaign_idempotency_key
Key(i, rules, attempt) == [idea |-> i, rules |-> rules, attempt |-> attempt]

LaunchRecord ==
    [key : [idea : Ideas, rules : Rules, attempt : Nat], document : Documents,
     decision : ResultStates \cup {None}, fixed : Nat]

Outcome ==
    [state : ResultStates \cup {"implementation_blocked", "failed"},
     reason : {"blocked", "run_error", "interrupted", "rules_changed",
               "decided"}]

Pc == {"boot", "idle", "append", "gate", "judge", "begin", "link", "launch",
       "testing", "decided", "report"}

\* queue: the packets of the ideas that this pass has still to test.
CampRecord ==
    [pc : Pc, queue : [Ideas -> Packets \cup {None}], fresh : SUBSET Ideas,
     without : SUBSET Ideas, rebuild : BOOLEAN, attempt : Nat,
     document : Documents \cup {None}, outcome : Outcome \cup {None}]

Rest(pc) ==
    [pc |-> pc, queue |-> [i \in Ideas |-> None], fresh |-> {}, without |-> {},
     rebuild |-> FALSE, attempt |-> 0, document |-> None, outcome |-> None]

NewEvent(state, reason, packet, owner) ==
    [state |-> state, reason |-> reason, packet |-> packet, owner |-> owner]

Spend(d) ==
    /\ left[d] > 0
    /\ left' = [left EXCEPT ![d] = @ - 1]

HasEvent(i) == log[i] /= None

IsOpen(i) == HasEvent(i) /\ log[i].state \in OpenStates

HasResult(i) == HasEvent(i) /\ log[i].state \in ResultStates

IsDuplicate(i) == HasEvent(i) /\ log[i].state = "duplicate_closed"

IsSettled(i) == HasEvent(i) /\ log[i].state \notin OpenStates

Linked(i) == drafts[i].link /= None

Queued(i) == camp.queue[i] /= None

\* The idea under way, which is the oldest, and the packet it was queued with.
Idea == CHOOSE i \in Ideas : Queued(i) /\ \A j \in Ideas : Queued(j) => i <= j

Packet == camp.queue[Idea]

\* The next idea of the pass, with the locals of _process reset.
Advance ==
    camp' = [Rest("gate") EXCEPT !.queue = [camp.queue EXCEPT ![Idea] = None]]

-----------------------------------------------------------------------------
(* The thread: start and queue *)

\* requeue_after_restart, before the thread and the gateway's socket start.
Boot ==
    /\ camp.pc = "boot"
    /\ log' = [i \in Ideas |->
           IF IsOpen(i)
           THEN NewEvent("queued", "requeued_after_restart",
                         log[i].packet, None)
           ELSE log[i]]
    /\ camp' = Rest("idle")
    /\ UNCHANGED <<drafts, starts, recent, method, launched, operator,
                   control, left, fixed, begun>>

\* Mutant: an idea is looked at again although its packet did not change.
ToQueueMutant(i) ==
    /\ drafts[i].packet /= None
    /\ ~(Linked(i) /\ ~HasEvent(i))
    /\ drafts[i].packet.fault /= "intake"

\* Mutant: a duplicate stays closed whatever becomes of its owner.
ToQueueClosedMutant(i) ==
    /\ drafts[i].packet /= None
    /\ ~(Linked(i) /\ (~HasEvent(i) \/ (IsSettled(i) /\ ~IsDuplicate(i))))
    /\ (IsSettled(i) => log[i].packet /= drafts[i].packet)
    /\ drafts[i].packet.fault /= "intake"

\* _queue and _eligible_packet: what one pass takes up.  A linked idea whose
\* test ended, and a hand-built setup, are never touched; a decided idea only
\* when its packet changed or its owner proved to have no result.
ToQueue(i) ==
    /\ drafts[i].packet /= None
    /\ ~(Linked(i) /\ (~HasEvent(i) \/ (IsSettled(i) /\ ~IsDuplicate(i))))
    /\ (IsSettled(i) /\ log[i].packet = drafts[i].packet) =>
           /\ IsDuplicate(i)
           /\ HasEvent(log[i].owner)
           /\ log[log[i].owner].state \notin OpenStates \cup ResultStates
    /\ drafts[i].packet.fault /= "intake"

\* The events and the drafts are read,
QueuePass ==
    /\ camp.pc = "idle"
    /\ camp' = [Rest("append") EXCEPT
           !.queue = [i \in Ideas |->
                         IF ToQueue(i) THEN drafts[i].packet ELSE None],
           !.fresh = {i \in Ideas : ToQueue(i) /\ ~IsOpen(i)}]
    /\ UNCHANGED <<drafts, log, starts, recent, method, launched, operator,
                   control, left, fixed, begun>>

\* and every idea that was not open is appended as waiting.
AppendWaiting ==
    /\ camp.pc = "append"
    /\ log' = [i \in Ideas |->
           IF i \in camp.fresh
           THEN NewEvent("queued", "waiting", camp.queue[i], None)
           ELSE log[i]]
    /\ camp' = [camp EXCEPT !.pc = "gate", !.fresh = {}]
    /\ UNCHANGED <<drafts, starts, recent, method, launched, operator,
                   control, left, fixed, begun>>

-----------------------------------------------------------------------------
(* The thread: one idea *)

\* Mutant: the pause is not looked at between two ideas of a pass.
GateMutant ==
    /\ camp.pc = "gate"
    /\ camp' = IF (\A i \in Ideas : ~Queued(i)) \/ control.drain
               THEN Rest("idle")
               ELSE [camp EXCEPT !.pc = "judge"]
    /\ UNCHANGED <<drafts, log, starts, recent, method, launched, operator,
                   control, left, fixed, begun>>

\* run_once between two ideas: a drain or a pause ends the pass.
Gate ==
    /\ camp.pc = "gate"
    /\ camp' = IF \/ \A i \in Ideas : ~Queued(i)
                  \/ control.drain \/ control.paused
               THEN Rest("idle")
               ELSE [camp EXCEPT !.pc = "judge"]
    /\ UNCHANGED <<drafts, log, starts, recent, method, launched, operator,
                   control, left, fixed, begun>>

\* record, and the end of this idea's turn.
RecordEnd(state, reason, owner) ==
    /\ log' = [log EXCEPT ![Idea] = NewEvent(state, reason, Packet, owner)]
    /\ Advance

WithoutResult == {i \in Ideas : IsSettled(i) /\ ~HasResult(i)}

\* The rules are compiled, and the ideas without a result are read.
Judge ==
    /\ camp.pc = "judge"
    /\ IF Packet.fault = "rules"
       THEN RecordEnd("implementation_blocked", "blocked", None)
       ELSE /\ camp' = [camp EXCEPT !.pc = "begin", !.without = WithoutResult]
            /\ UNCHANGED log
    /\ UNCHANGED <<drafts, starts, recent, method, launched, operator,
                   control, left, fixed, begun>>

\* Mutant: the owner is looked for without regard to ideas that failed.
OwnersMutant(i, p, without) ==
    {j \in Ideas \ {i} :
        /\ j < i
        /\ Linked(j) /\ drafts[j].link.rules = p.rules
        /\ j \notin without
        /\ drafts[j].packet.market = p.market}

\* earlier_owner_of_strategy: the ideas linked to a setup of these rules on
\* this market, of which the oldest owns them.
Owners(i, p, without) ==
    {j \in Ideas \ {i} :
        /\ Linked(j) /\ drafts[j].link.rules = p.rules
        /\ j \notin without
        /\ drafts[j].packet.market = p.market}

\* campaign_attempts_since_requeue against MAX_ATTEMPTS.
BudgetSpent(i, p) == recent[i][p] >= MaxAttempts

\* Mutant: only the starts since the last fix number the launch keys.
AttemptMutant(i, p) == recent[i][p]

\* campaign_attempts
Attempt(i, p) == starts[i][p]

\* The rest of _process before the child starts.
Begin ==
    LET i      == Idea
        p      == Packet
        owners == Owners(i, p, camp.without)
    IN
    /\ camp.pc = "begin"
    /\ \/ /\ owners /= {}
          /\ RecordEnd("duplicate_closed", "same_rules",
                       CHOOSE j \in owners : \A k \in owners : j <= k)
          /\ UNCHANGED <<starts, recent, begun>>
       \/ /\ owners = {} /\ p.fault = "data"
          /\ RecordEnd("implementation_blocked", "blocked", None)
          /\ UNCHANGED <<starts, recent, begun>>
       \/ /\ owners = {} /\ p.fault /= "data" /\ BudgetSpent(i, p)
          /\ RecordEnd("failed", "interrupted", None)
          /\ UNCHANGED <<starts, recent, begun>>
       \/ /\ owners = {} /\ p.fault /= "data" /\ ~BudgetSpent(i, p)
          /\ camp' = [camp EXCEPT !.pc = "link",
                  !.rebuild = log[i].reason = "requeued_after_fix",
                  !.attempt = Attempt(i, p)]
          /\ log' = [log EXCEPT ![i] = NewEvent("running", "started", p, None)]
          /\ starts' = [starts EXCEPT ![i][p] = @ + 1]
          /\ recent' = [recent EXCEPT ![i][p] = @ + 1]
          /\ begun' = IF control.paused THEN begun + 1 ELSE begun
    /\ UNCHANGED <<drafts, method, launched, operator, control, left, fixed>>

-----------------------------------------------------------------------------
(* The child: run_auto_test *)

Return(state, reason) ==
    camp' = [camp EXCEPT !.pc = "report",
                         !.outcome = [state |-> state, reason |-> reason]]

\* Mutant: the linked setup is run again whatever its rules are.
LinkRulesMutant ==
    LET i   == Idea
        old == drafts[i].link
        doc == [rules |-> Packet.rules, market |-> Packet.market,
                method |-> method]
        chosen == IF old = None \/ camp.rebuild THEN doc ELSE old
    IN
    /\ camp.pc = "link"
    /\ drafts' = [drafts EXCEPT ![i].link = chosen]
    /\ camp' = [camp EXCEPT !.pc = "launch", !.document = chosen]
    /\ UNCHANGED <<log, starts, recent, method, launched, operator, control,
                   left, fixed, begun>>

\* The setup to run: the idea's own document when it has no other, the setup
\* it is linked to when only the method moved, unless the test is a retest.
Link ==
    LET i   == Idea
        old == drafts[i].link
        doc == [rules |-> Packet.rules, market |-> Packet.market,
                method |-> method]
        new == old = None \/ old = doc
    IN
    /\ camp.pc = "link"
    /\ IF ~new /\ old.rules /= doc.rules
       THEN /\ Return("failed", "rules_changed")
            /\ UNCHANGED drafts
       ELSE LET chosen == IF new \/ camp.rebuild THEN doc ELSE old IN
            /\ drafts' = [drafts EXCEPT ![i].link = chosen]
            /\ camp' = [camp EXCEPT !.pc = "launch", !.document = chosen]
    /\ UNCHANGED <<log, starts, recent, method, launched, operator, control,
                   left, fixed, begun>>

\* The rules do not install, or the verified data cannot be read.
ChildBlocked ==
    /\ camp.pc = "link"
    /\ Spend("broken")
    /\ Return("implementation_blocked", "blocked")
    /\ UNCHANGED <<drafts, log, starts, recent, method, launched, operator,
                   control, fixed, begun>>

LaunchKey == Key(Idea, Packet.rules, camp.attempt)

Launches(key) == {l \in launched : l.key = key}

\* CandidatePipelineRuntime.launch: a new key starts a run; a known one only
\* reopens what its run decided.
Launch ==
    /\ camp.pc = "launch"
    /\ \/ /\ Launches(LaunchKey) = {}
          /\ launched' = launched \cup
                 {[key |-> LaunchKey, document |-> camp.document,
                   decision |-> None, fixed |-> fixed[Idea]]}
          /\ camp' = [camp EXCEPT !.pc = "testing"]
       \/ \E l \in Launches(LaunchKey) :
             /\ IF l.decision = None
                THEN Return("failed", "interrupted")
                ELSE Return(l.decision, "decided")
             /\ UNCHANGED launched
    /\ UNCHANGED <<drafts, log, starts, recent, method, operator, control,
                   left, fixed, begun>>

\* The pipeline decides, and records its decision with the run.
Decide ==
    /\ camp.pc = "testing"
    /\ \E l \in Launches(LaunchKey), d \in ResultStates :
          /\ launched' = (launched \ {l}) \cup {[l EXCEPT !.decision = d]}
          /\ camp' = [camp EXCEPT !.pc = "decided",
                          !.outcome = [state |-> d, reason |-> "decided"]]
    /\ UNCHANGED <<drafts, log, starts, recent, method, operator, control,
                   left, fixed, begun>>

\* _child_main sends the outcome.
Send ==
    /\ camp.pc = "decided"
    /\ camp' = [camp EXCEPT !.pc = "report"]
    /\ UNCHANGED <<drafts, log, starts, recent, method, launched, operator,
                   control, left, fixed, begun>>

\* The child raises or dies; run_in_child turns either into a run_error.
ChildFails ==
    /\ camp.pc \in {"link", "launch", "testing", "decided"}
    /\ Spend("raise")
    /\ Return("failed", "run_error")
    /\ UNCHANGED <<drafts, log, starts, recent, method, launched, operator,
                   control, fixed, begun>>

Report ==
    /\ camp.pc = "report"
    /\ RecordEnd(camp.outcome.state, camp.outcome.reason, None)
    /\ UNCHANGED <<drafts, starts, recent, method, launched, operator,
                   control, left, fixed, begun>>

\* An exception out of _process is recorded as this idea's failure; when the
\* log cannot be written either, the pass ends and the idea stays open.
ProcessRaises ==
    /\ camp.pc \in {"judge", "begin", "report"}
    /\ Spend("raise")
    /\ \/ RecordEnd("failed", "run_error", None)
       \/ camp' = Rest("idle") /\ UNCHANGED log
    /\ UNCHANGED <<drafts, starts, recent, method, launched, operator,
                   control, fixed, begun>>

-----------------------------------------------------------------------------
(* Requests and changes from outside *)

Serving == camp.pc /= "boot"

\* persist_submitted_candidate: a new draft, later than the ones before it.
Submit(i) ==
    /\ drafts[i].packet = None
    /\ \A j \in Ideas : j < i => drafts[j].packet /= None
    /\ \E p \in Packets : drafts' = [drafts EXCEPT ![i].packet = p]
    /\ UNCHANGED <<log, starts, recent, method, launched, camp, operator,
                   control, left, fixed, begun>>

\* set_candidate_packet: refused once the draft is linked.
EditPacket(i) ==
    /\ drafts[i].packet /= None /\ ~Linked(i)
    /\ Spend("edit")
    /\ \E p \in Packets \ {drafts[i].packet} :
           drafts' = [drafts EXCEPT ![i].packet = p]
    /\ UNCHANGED <<log, starts, recent, method, launched, camp, operator,
                   control, fixed, begun>>

\* A setup is built by hand and linked to the draft.
HandBuild(i) ==
    /\ drafts[i].packet /= None /\ ~Linked(i)
    /\ Spend("handbuilt")
    /\ \E r \in Rules :
           drafts' = [drafts EXCEPT ![i].link =
               [rules |-> r, market |-> drafts[i].packet.market,
                method |-> method]]
    /\ UNCHANGED <<log, starts, recent, method, launched, camp, operator,
                   control, fixed, begun>>

\* The data cut-off, the costs or the testing method moves.
MethodChanges ==
    /\ Spend("method")
    /\ method' = method + 1
    /\ UNCHANGED <<drafts, log, starts, recent, launched, camp, operator,
                   control, fixed, begun>>

\* retest_settled and requeue_interrupted read the latest event first.
RetestRead(i) ==
    /\ Serving /\ operator = None
    /\ IsSettled(i)
    /\ Spend("retest")
    /\ operator' = [idea |-> i, reason |-> "requeued_after_fix",
                    packet |-> log[i].packet]
    /\ UNCHANGED <<drafts, log, starts, recent, method, launched, camp,
                   control, fixed, begun>>

RequeueRead(i) ==
    /\ Serving /\ operator = None
    /\ HasEvent(i) /\ log[i].state = "failed" /\ log[i].reason = "interrupted"
    /\ Spend("requeue")
    /\ operator' = [idea |-> i, reason |-> "requeued_by_agent",
                    packet |-> log[i].packet]
    /\ UNCHANGED <<drafts, log, starts, recent, method, launched, camp,
                   control, fixed, begun>>

\* The event is appended.  A fix resets the packet's budget.
OperatorWrite ==
    /\ operator /= None
    /\ LET i   == operator.idea
           fix == operator.reason = "requeued_after_fix"
       IN  /\ log' = [log EXCEPT ![i] =
                  NewEvent("queued", operator.reason, operator.packet, None)]
           /\ recent' = IF fix
                        THEN [recent EXCEPT ![i][operator.packet] = 0]
                        ELSE recent
           /\ fixed' = IF fix THEN [fixed EXCEPT ![i] = method] ELSE fixed
    /\ operator' = None
    /\ UNCHANGED <<drafts, starts, method, launched, camp, control, left,
                   begun>>

\* set_campaign_paused
Pause ==
    /\ Serving /\ ~control.paused
    /\ Spend("pause")
    /\ control' = [control EXCEPT !.paused = TRUE]
    /\ begun' = 0
    /\ UNCHANGED <<drafts, log, starts, recent, method, launched, camp,
                   operator, fixed>>

Resume ==
    /\ Serving /\ control.paused
    /\ control' = [control EXCEPT !.paused = FALSE]
    /\ UNCHANGED <<drafts, log, starts, recent, method, launched, camp,
                   operator, left, fixed, begun>>

\* A deploy sets its marker, and removes it or lets it grow stale.
SetDrain ==
    /\ ~control.drain
    /\ Spend("drain")
    /\ control' = [control EXCEPT !.drain = TRUE]
    /\ UNCHANGED <<drafts, log, starts, recent, method, launched, camp,
                   operator, fixed, begun>>

ClearDrain ==
    /\ control.drain
    /\ control' = [control EXCEPT !.drain = FALSE]
    /\ UNCHANGED <<drafts, log, starts, recent, method, launched, camp,
                   operator, left, fixed, begun>>

\* The gateway restarts: the thread, its child and a request are gone.
Restart ==
    /\ Serving
    /\ Spend("restart")
    /\ camp' = Rest("boot")
    /\ operator' = None
    /\ UNCHANGED <<drafts, log, starts, recent, method, launched, control,
                   fixed, begun>>

-----------------------------------------------------------------------------

Init ==
    /\ drafts = [i \in Ideas |-> [packet |-> None, link |-> None]]
    /\ log = [i \in Ideas |-> None]
    /\ starts = [i \in Ideas |-> [p \in Packets |-> 0]]
    /\ recent = [i \in Ideas |-> [p \in Packets |-> 0]]
    /\ method = 0
    /\ launched = {}
    /\ camp = Rest("boot")
    /\ operator = None
    /\ control = [paused |-> FALSE, drain |-> FALSE]
    /\ left = Allowance
    /\ fixed = [i \in Ideas |-> 0]
    /\ begun = 0

CampaignStep ==
    \/ Boot \/ QueuePass \/ AppendWaiting \/ Gate \/ Judge \/ Begin
    \/ Link \/ Launch \/ Decide \/ Send \/ Report

Next ==
    \/ CampaignStep
    \/ ChildBlocked \/ ChildFails \/ ProcessRaises
    \/ \E i \in Ideas :
           \/ Submit(i) \/ EditPacket(i) \/ HandBuild(i)
           \/ RetestRead(i) \/ RequeueRead(i)
    \/ OperatorWrite
    \/ MethodChanges \/ Pause \/ Resume \/ SetDrain \/ ClearDrain \/ Restart

Spec == Init /\ [][Next]_vars

\* The thread loops for as long as the gateway runs, a test has no timeout but
\* its pipeline ends, a request is answered, and a drain marker is removed or
\* ignored after two hours.
Fairness ==
    /\ WF_vars(CampaignStep)
    /\ WF_vars(OperatorWrite)
    /\ WF_vars(ClearDrain)

FairSpec == Spec /\ Fairness

-----------------------------------------------------------------------------
(* Properties *)

\* What an operator asked for.
Request == [idea : Ideas, packet : Packets,
            reason : {"requeued_after_fix", "requeued_by_agent"}]

ASSUME NoneAssumption ==
    /\ None \notin Packets \cup Documents \cup Event \cup Request
    /\ None \notin Ideas \cup Outcome \cup ResultStates

TypeOK ==
    /\ drafts \in [Ideas -> Draft]
    /\ log \in [Ideas -> Event \cup {None}]
    /\ starts \in [Ideas -> [Packets -> Nat]]
    /\ recent \in [Ideas -> [Packets -> Nat]]
    /\ method \in Nat
    /\ launched \subseteq LaunchRecord
    /\ camp \in CampRecord
    /\ operator \in Request \cup {None}
    /\ control \in [paused : BOOLEAN, drain : BOOLEAN]
    /\ left \in [Disturbances -> Nat]
    /\ fixed \in [Ideas -> Nat]
    /\ begun \in Nat

NeverEdited == left["edit"] = Allowance["edit"]

\* The launches an idea costs are bounded however often the gateway restarts,
\* the log cannot be written or an agent requeues it: MAX_ATTEMPTS between two
\* fixes of the operator.
LaunchBudget ==
    \A i \in Ideas :
        Cardinality({l \in launched : l.key.idea = i}) <=
            MaxAttempts * (1 + Allowance["retest"] - left["retest"])

\* A test of an idea whose packet never changed is launched under a key of
\* its own, after restarts, requeues and retests too: "a rerun after an
\* interrupted attempt needs its own key".
OwnLaunchKey ==
    (NeverEdited /\ camp.pc = "launch") => Launches(LaunchKey) = {}

\* Launches are counted and told apart: both of the above.
LaunchesAreCounted == LaunchBudget /\ OwnLaunchKey

\* Ideas of the same rules and market never both hold a result: the later one
\* is closed as a duplicate whatever was retested or restarted in between.
OneResultPerRules ==
    NeverEdited =>
        \A i, j \in Ideas :
            (i /= j /\ HasResult(i) /\ HasResult(j)) =>
                \/ log[i].packet.rules /= log[j].packet.rules
                \/ log[i].packet.market /= log[j].packet.market

\* No two ideas are closed as duplicates of each other, so that their rules
\* would never be tested at all.
NoMutualDuplicates ==
    \A i, j \in Ideas :
        (IsDuplicate(i) /\ IsDuplicate(j)) =>
            ~(log[i].owner = j /\ log[j].owner = i)

\* Closing duplicates neither lets two ideas of the same rules through nor
\* locks both out: both of the above.
RulesAreTestedOnce == OneResultPerRules /\ NoMutualDuplicates

\* A pause lets at most the one test begin that was past its check.
PauseStopsTesting == begun <= 1

\* A result is only given up for an operator's retest: neither a queue pass
\* nor a restart, a duplicate or a late child replaces it.  Nor does an agent's
\* requeue, unless it was read before the packet was edited and is written
\* after the edited packet was decided (requeue_interrupted).
ResultsStay ==
    [][\A i \in Ideas :
           (NeverEdited /\ HasResult(i)) =>
               \/ log'[i] = log[i]
               \/ log'[i].reason = "requeued_after_fix"]_vars

\* Runs of one setup stay comparable: unless the operator asked for a retest,
\* every launch of an idea uses the document of its first.
SetupIsKept ==
    left["retest"] = Allowance["retest"] =>
        \A l, m \in launched :
            (l.key.idea = m.key.idea /\ NeverEdited) =>
                l.document = m.document

\* A run is launched on a setup of the rules its key names, although the idea
\* may have been linked to other rules by hand, or its packet changed between
\* the queue pass that took it up and the link.
LaunchRunsItsRules == \A l \in launched : l.document.rules = l.key.rules

\* What a test runs is settled by its launch key and the setup of the idea:
\* both of the above.
LaunchSetupHolds == LaunchRunsItsRules /\ SetupIsKept

\* What AutoTestRequest.rebuild says: "an operator retest after a method fix:
\* build the setup afresh, never re-run the old one".  Every launch after a
\* retest uses a document at least as new as the fix.
RetestBuildsAfresh ==
    \A l \in launched : l.document.method >= l.fixed

\* Every submitted idea that passes intake is settled, or the owner's pause or
\* a setup built by hand keeps it waiting.
EveryIdeaSettles ==
    \A i \in Ideas :
        (drafts[i].packet /= None /\ drafts[i].packet.fault /= "intake")
            ~> (IsSettled(i) \/ control.paused \/ (Linked(i) /\ ~HasEvent(i)))

\* An owner that ends without a result gives its rules back: a duplicate
\* closed on its account is taken up again, unless the owner is retested
\* first or testing is paused.
DuplicatesAreServed ==
    \A i, j \in Ideas :
        (IsDuplicate(i) /\ log[i].owner = j /\ IsSettled(j) /\ ~HasResult(j))
            ~> (~IsDuplicate(i) \/ IsOpen(j) \/ HasResult(j) \/ control.paused)

\* No idea is left waiting for good: both of the above.
IdeasAreServed == EveryIdeaSettles /\ DuplicatesAreServed

=============================================================================
