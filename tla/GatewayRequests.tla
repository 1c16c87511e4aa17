--------------------------- MODULE GatewayRequests ---------------------------
(***************************************************************************)
(* The request path of the agent gateway.  One server process takes        *)
(* connections from a Unix socket one at a time.  A state-changing request *)
(* is looked up in the audit table, dispatched, and audited with its       *)
(* response, so that the same request id can be sent again; each of these  *)
(* is a transaction of its own, in one of two databases.                   *)
(*                                                                         *)
(* Clients may send any request any number of times, a transaction can     *)
(* fail on a locked database, and a restart of the gateway loses the       *)
(* request being served.  A connection that waits has no effect before it  *)
(* is taken, so the queue of the socket is not part of the state.          *)
(***************************************************************************)
EXTENDS Integers, Sequences

CONSTANTS
    Agents,       \* registered identities; each has one transport
    LevelOf,      \* the authority_level of each identity
    Contents,     \* candidate documents, named by their content hash
    Invalid,      \* the ones that fail intake validation
    Requests,     \* what clients send, as records
    MaxFaults,    \* transactions that fail
    MaxRestarts,  \* restarts of the gateway
    None

\* OPERATION_LEVELS, for one operation of each kind; the campaign's own
\* requests (retest, requeue) are actions of AutoCampaign.
OperationLevel ==
    [op \in {"candidate.get", "candidate.submit", "research.note.add",
             "campaign.pause", "campaign.resume", "run.request"} |->
        CASE op = "candidate.get" -> 0
          [] op = "run.request" -> 2
          [] OTHER -> 1]

\* _STATE_CHANGING
StateChanging == DOMAIN OperationLevel \ {"candidate.get"}

Ids == {r.id : r \in Requests}

ASSUME BoundsAssumption ==
    MaxFaults \in Nat /\ MaxRestarts \in Nat

ASSUME LevelAssumption == LevelOf \in [Agents -> 0..2]

ASSUME ContentsAssumption == Invalid \subseteq Contents

\* parent is the Candidate a submission names as its lineage.
ASSUME RequestsAssumption ==
    \A r \in Requests :
        /\ DOMAIN r = {"id", "agent", "op", "content", "parent"}
        /\ r.agent \in Agents /\ r.op \in DOMAIN OperationLevel
        /\ r.content \in Contents /\ r.parent \in Contents \cup {None}

\* The audit table compares agent, transport and operation, not the payload:
\* a client that uses an id again sends the same payload (the command line
\* draws a fresh id, the dashboard derives it from the payload).
ASSUME PayloadAssumption ==
    \A r, s \in Requests :
        (r.id = s.id /\ r.agent = s.agent /\ r.op = s.op) => r = s

VARIABLES
    drafts,      \* research database: idea drafts, as their attribution
    identities,  \* gateway database: candidate_identities and lineage
    notes,       \* research_notes, in order
    control,     \* campaign_control, in order: paused or not
    audit,       \* gateway_audit, by request id
    server,      \* the request being served: program counter and locals
    left,        \* faults and restarts still to come
    effects,     \* history: changes committed for each request id
    cut,         \* history: times it was accepted and not audited
    torn         \* history: contents whose submission stopped half way

vars == <<drafts, identities, notes, control, audit, server, left, effects,
           cut, torn>>

stores == <<drafts, identities, notes, control, audit>>

-----------------------------------------------------------------------------
(* Responses.                                                              *)

Accepted == {"created", "duplicate", "noted", "set", "found"}

\* GatewayError codes and the two internal errors.
Refused == {"authority_denied", "candidate_invalid", "lineage_invalid",
            "not_found", "run_unavailable", "request_conflict",
            "internal_error"}

Steps == {"idle", "lookup", "dispatch", "import", "origin", "record", "note",
          "append", "audit", "answer"}

\* Steps that open a transaction, or the store itself.
Transactions == {"lookup", "import", "origin", "record", "note", "append",
                 "audit"}

\* Rows of candidate_identities and of gateway_audit.
IdentityRow == [agent : Agents, parent : Contents \cup {None}]

AuditRow ==
    [agent : Agents, op : StateChanging, response : Accepted \cup Refused]

ASSUME NoneAssumption ==
    /\ None \notin Requests \cup Seq(Agents)
    /\ None \notin IdentityRow \cup AuditRow

TypeOK ==
    /\ drafts \in [Contents -> Seq(Agents) \cup {None}]
    /\ identities \in [Contents -> IdentityRow \cup {None}]
    /\ notes \in Seq([content : Contents, agent : Agents])
    /\ control \in Seq(BOOLEAN)
    /\ audit \in [Ids -> AuditRow \cup {None}]
    /\ server \in [pc : Steps, req : Requests \cup {None},
                   response : Accepted \cup Refused \cup {None}]
    /\ left \in [{"fault", "restart"} -> Nat]
    /\ effects \in [Ids -> Nat] /\ cut \in [Ids -> Nat]
    /\ torn \subseteq Contents

Idle == [pc |-> "idle", req |-> None, response |-> None]

Init ==
    /\ drafts = [c \in Contents |-> None]
    /\ identities = [c \in Contents |-> None]
    /\ notes = <<>> /\ control = <<>>
    /\ audit = [q \in Ids |-> None]
    /\ server = Idle
    /\ left = [fault |-> MaxFaults, restart |-> MaxRestarts]
    /\ effects = [q \in Ids |-> 0] /\ cut = [q \in Ids |-> 0]
    /\ torn = {}

-----------------------------------------------------------------------------
(* Helpers.                                                                *)

Req == server.req

At(step) == server.pc = step

GoTo(step) == server' = [server EXCEPT !.pc = step]

\* handle: a result or an error of _dispatch; a state-changing operation is
\* audited before it is answered.
Respond(response) ==
    server' = [server EXCEPT
                  !.response = response,
                  !.pc = IF Req.op \in StateChanging THEN "audit"
                                                     ELSE "answer"]

CountEffect == effects' = [effects EXCEPT ![Req.id] = @ + 1]

\* The operation is done and its audit row is not written yet.
Unaudited == At("audit") /\ server.response \in {"created", "noted", "set"}
                         /\ audit[Req.id] = None

\* campaign_control_state: no row means running.
Paused == control /= <<>> /\ control[Len(control)]

-----------------------------------------------------------------------------
(* The server.                                                             *)

\* UnixStreamServer takes one connection and serves it to the end, whether
\* its client still waits or has given up and sent the request again.
Receive(r) ==
    /\ At("idle")
    /\ server' = [Idle EXCEPT !.pc = "lookup", !.req = r]
    /\ UNCHANGED <<stores, left, effects, cut, torn>>

\* Mutant: the row is replayed to whoever uses its id.
LookUpAnyCaller ==
    /\ At("lookup")
    /\ IF Req.op \in StateChanging /\ audit[Req.id] /= None
       THEN server' = [server EXCEPT !.pc = "answer",
                                     !.response = audit[Req.id].response]
       ELSE GoTo("dispatch")
    /\ UNCHANGED <<stores, left, effects, cut, torn>>

\* audited_request: a known id is answered from its row, for its own caller
\* and operation only.
LookUp ==
    /\ At("lookup")
    /\ IF Req.op \in StateChanging /\ audit[Req.id] /= None
       THEN LET row == audit[Req.id] IN
            server' = [server EXCEPT !.pc = "answer", !.response =
                IF row.agent = Req.agent /\ row.op = Req.op
                THEN row.response ELSE "request_conflict"]
       ELSE GoTo("dispatch")
    /\ UNCHANGED <<stores, left, effects, cut, torn>>

\* _candidate_submit: validation, the content hash, the lineage's parent.
SubmitCheck ==
    CASE Req.content \in Invalid -> Respond("candidate_invalid")
      [] Req.content \notin Invalid /\ identities[Req.content] /= None ->
             Respond("duplicate")
      [] OTHER ->
             IF Req.parent /= None /\ drafts[Req.parent] = None
             THEN Respond("lineage_invalid") ELSE GoTo("import")

\* _note_add: the Candidate must have a draft.
NoteCheck ==
    IF drafts[Req.content] = None THEN Respond("not_found") ELSE GoTo("note")

\* _candidate_get
GetCandidate ==
    Respond(IF drafts[Req.content] = None THEN "not_found" ELSE "found")

\* set_campaign_paused: a row is appended only if it changes the state.
ControlRead ==
    IF Paused /= (Req.op = "campaign.pause") THEN GoTo("append")
                                             ELSE Respond("set")

\* _dispatch: authority, then the reads each handler begins with.
\* run.request is refused whether or not a launcher is configured.
Dispatch ==
    /\ At("dispatch")
    /\ IF LevelOf[Req.agent] < OperationLevel[Req.op]
       THEN Respond("authority_denied")
       ELSE CASE Req.op = "candidate.submit" -> SubmitCheck
              [] Req.op = "research.note.add" -> NoteCheck
              [] Req.op = "candidate.get" -> GetCandidate
              [] Req.op = "run.request" -> Respond("run_unavailable")
              [] OTHER -> ControlRead
    /\ UNCHANGED <<stores, left, effects, cut, torn>>

\* Mutant: a draft that is there counts as submitted.
ImportOnce ==
    /\ At("import")
    /\ IF drafts[Req.content] = None
       THEN /\ drafts' = [drafts EXCEPT ![Req.content] = <<>>]
            /\ GoTo("origin")
       ELSE Respond("duplicate") /\ UNCHANGED drafts
    /\ UNCHANGED <<identities, notes, control, audit, left, effects, cut,
                   torn>>

\* save_candidate_idea: creates the draft or returns the one that is there.
ImportIdea ==
    /\ At("import")
    /\ drafts' = [drafts EXCEPT ![Req.content] = IF @ = None THEN <<>> ELSE @]
    /\ GoTo("origin")
    /\ UNCHANGED <<identities, notes, control, audit, left, effects, cut,
                   torn>>

\* Mutant: an attribution that is there is kept.
WriteOriginOnce ==
    /\ At("origin")
    /\ drafts' = [drafts EXCEPT ![Req.content] =
           IF @ = <<>> THEN <<Req.agent>> ELSE @]
    /\ GoTo("record")
    /\ UNCHANGED <<identities, notes, control, audit, left, effects, cut,
                   torn>>

\* save_idea_draft: the submitter is written before what stood there.
WriteOrigin ==
    /\ At("origin")
    /\ drafts' = [drafts EXCEPT ![Req.content] = <<Req.agent>> \o @]
    /\ GoTo("record")
    /\ UNCHANGED <<identities, notes, control, audit, left, effects, cut,
                   torn>>

\* record_candidate: identity and lineage in one transaction, if the content
\* has none.
RecordCandidate ==
    /\ At("record")
    /\ IF identities[Req.content] = None
       THEN /\ identities' = [identities EXCEPT ![Req.content] =
                   [agent |-> Req.agent, parent |-> Req.parent]]
            /\ CountEffect
            /\ Respond("created")
       ELSE Respond("duplicate") /\ UNCHANGED <<identities, effects>>
    /\ UNCHANGED <<drafts, notes, control, audit, left, cut, torn>>

AddNote ==
    /\ At("note")
    /\ notes' = Append(notes, [content |-> Req.content, agent |-> Req.agent])
    /\ CountEffect
    /\ Respond("noted")
    /\ UNCHANGED <<drafts, identities, control, audit, left, cut, torn>>

ControlAppend ==
    /\ At("append")
    /\ control' = Append(control, Req.op = "campaign.pause")
    /\ CountEffect
    /\ Respond("set")
    /\ UNCHANGED <<drafts, identities, notes, audit, left, cut, torn>>

\* store.audit: INSERT OR IGNORE.
WriteAudit ==
    /\ At("audit")
    /\ audit' = [audit EXCEPT ![Req.id] =
           IF @ = None
           THEN [agent |-> Req.agent, op |-> Req.op,
                 response |-> server.response]
           ELSE @]
    /\ GoTo("answer")
    /\ UNCHANGED <<drafts, identities, notes, control, left, effects, cut,
                   torn>>

\* The line is written, whether its client still reads or not.
Answer ==
    /\ At("answer")
    /\ server' = Idle
    /\ UNCHANGED <<stores, left, effects, cut, torn>>

-----------------------------------------------------------------------------
(* Failures.                                                               *)

\* History of a request that stops here.
Stops ==
    /\ cut' = [q \in Ids |->
           IF Req /= None /\ q = Req.id /\ Unaudited THEN cut[q] + 1
                                                     ELSE cut[q]]
    /\ torn' = torn \cup
           (IF At("origin") \/ At("record") THEN {Req.content} ELSE {})

\* A transaction fails.  Inside _dispatch that is a response to audit like
\* any other; opening the store and writing the audit row are outside, and
\* the transport answers.
Fault ==
    /\ server.pc \in Transactions /\ left["fault"] > 0
    /\ left' = [left EXCEPT !["fault"] = @ - 1]
    /\ IF server.pc \in {"lookup", "audit"}
       THEN server' = [server EXCEPT !.response = "internal_error",
                                     !.pc = "answer"]
       ELSE Respond("internal_error")
    /\ Stops
    /\ UNCHANGED <<stores, effects>>

\* The process is killed and started again.
Restart ==
    /\ left["restart"] > 0
    /\ left' = [left EXCEPT !["restart"] = @ - 1]
    /\ server' = Idle
    /\ Stops
    /\ UNCHANGED <<stores, effects>>

-----------------------------------------------------------------------------
Serve ==
    \/ LookUp \/ Dispatch
    \/ ImportIdea \/ WriteOrigin \/ RecordCandidate
    \/ AddNote \/ ControlAppend
    \/ WriteAudit \/ Answer

Next ==
    \/ \E r \in Requests : Receive(r)
    \/ Serve
    \/ Fault \/ Restart

Spec == Init /\ [][Next]_vars

\* The server loop runs, and a client that wants an idea saved keeps sending
\* it until its turn comes.
FairSpec ==
    /\ Spec
    /\ WF_vars(Serve)
    /\ \A r \in Requests :
           (r.op = "candidate.submit" /\ r.content \notin Invalid) =>
               SF_vars(Receive(r))

-----------------------------------------------------------------------------
(* Properties.                                                             *)

\* test_notes_are_idempotent_by_request: a request id has its effect once,
\* however often it is but for the times the effect was committed and
\* the audit row was not.
EffectOnce == \A q \in Ids : effects[q] <= 1 + cut[q]

\* Whatever handle returns for an audited id is the audited response, or the
\* id belongs to another caller or operation and the answer is the conflict;
\* only a store that cannot be opened answers otherwise.
RequestIdIsBound ==
    (At("answer") /\ Req.op \in StateChanging /\ audit[Req.id] /= None) =>
        LET row == audit[Req.id] IN
        server.response \in
            {IF row.agent = Req.agent /\ row.op = Req.op
             THEN row.response ELSE "request_conflict", "internal_error"}

\* A request id stands for one effect and one answer: both of the above.
OneRequestOneEffect == EffectOnce /\ RequestIdIsBound

\* An accepted change is on record before its caller is told: the audit row
\* holds the response, a submitted Candidate has its identity, a note is in
\* the table.
AcceptedIsDurable ==
    (At("answer") /\ server.response \in Accepted
                  /\ Req.op \in StateChanging) =>
        /\ audit[Req.id] /= None
        /\ Req.op = "candidate.submit" => identities[Req.content] /= None
        /\ Req.op = "research.note.add" =>
               \E n \in 1..Len(notes) :
                   notes[n] = [content |-> Req.content, agent |-> Req.agent]

\* The two databases have no common transaction, and submissions of the same
\* content can be cut off between them.  A Candidate with an identity has its
\* draft, the agent its draft names first is the one its identity names, and
\* its parent is a Candidate too unless the parent's own submission stopped
\* half way.
CandidateRecordsAgree ==
    \A c \in Contents :
        LET row == identities[c] IN
        row /= None =>
            /\ drafts[c] /= None /\ drafts[c] /= <<>>
            /\ Head(drafts[c]) = row.agent
            /\ row.parent /= None =>
                   identities[row.parent] /= None \/ row.parent \in torn

\* What was accepted is on record, in both databases alike: both of the above.
RecordsAreKept == AcceptedIsDurable /\ CandidateRecordsAgree

\* A valid submission that is sent until its turn comes ends as a Candidate,
\* or its request id is lost to it: bound to another request, or to a failure
\* of its own, for a failed transaction is audited like a refusal and
\* replayed ever after.
SubmissionSettles ==
    \A r \in Requests :
        (r.op = "candidate.submit" /\ r.content \notin Invalid) =>
            <>(\/ identities[r.content] /= None
               \/ /\ audit[r.id] /= None
                  /\ \/ audit[r.id].response \in Refused
                     \/ audit[r.id].agent /= r.agent
                     \/ audit[r.id].op /= r.op)

=============================================================================
