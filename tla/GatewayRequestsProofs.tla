------------------------ MODULE GatewayRequestsProofs ------------------------
(***************************************************************************)
(* Proofs about the request path of the gateway, for every set of agents,  *)
(* Candidates and requests and any number of faults and restarts.          *)
(***************************************************************************)
EXTENDS GatewayRequests, TLAPS

-----------------------------------------------------------------------------
(* The inductive invariant *)

\* A response to request r is borne out by the stores.
Durable(r, response) ==
    response \in Accepted =>
        /\ r.op = "candidate.submit" => identities[r.content] # None
        /\ r.op = "research.note.add" =>
              \E n \in 1..Len(notes) :
                  notes[n] = [content |-> r.content, agent |-> r.agent]

\* The steps of a submission, from its lineage check to its identity.
Importing == {"import", "origin", "record"}

\* A draft that is there is a Candidate's, unless its submission stopped half
\* way or is being served.
DraftIsOwned(c) ==
    drafts[c] # None =>
        \/ identities[c] # None
        \/ c \in torn
        \/ server.pc \in {"origin", "record"} /\ Req.content = c

\* The server's step fits the request it serves.
ServedInSteps ==
    /\ ~At("idle") => Req \in Requests
    /\ server.pc \in Importing =>
          /\ Req.op = "candidate.submit" /\ identities[Req.content] = None
          /\ Req.parent # None =>
                identities[Req.parent] # None \/ Req.parent \in torn
    /\ server.pc \in {"origin", "record"} => drafts[Req.content] # None
    /\ At("record") =>
          drafts[Req.content] # <<>> /\ Head(drafts[Req.content]) = Req.agent
    /\ At("note") => Req.op = "research.note.add"
    /\ At("append") => Req.op \in {"campaign.pause", "campaign.resume"}
    /\ At("audit") => Req.op \in StateChanging

\* Until its audit row is written a request that changes something has none,
\* for no other is served meanwhile.
NotAuditedYet ==
    (server.pc \in Steps \ {"idle", "lookup", "answer"}
        /\ Req.op \in StateChanging) => audit[Req.id] = None

\* An audit row is some request's, with a response that holds.
RowsHold ==
    \A q \in Ids : audit[q] # None =>
        \E r \in Requests :
            /\ r.id = q /\ r.agent = audit[q].agent /\ r.op = audit[q].op
            /\ Durable(r, audit[q].response)

\* So does the response on its way to the audit table.
ResponseHolds ==
    At("audit") =>
        /\ server.response \in Accepted \cup Refused
        /\ Durable(Req, server.response)

\* One effect at most is not accounted for by a cut: the audited one, or the
\* one about to be audited.
EffectsAreCounted ==
    \A q \in Ids :
        effects[q] <= cut[q] + (IF audit[q] # None
                                   \/ (Unaudited /\ Req.id = q)
                                THEN 1 ELSE 0)

GatewayInv ==
    /\ TypeOK
    /\ ServedInSteps
    /\ \A c \in Contents : DraftIsOwned(c)
    /\ NotAuditedYet
    /\ RowsHold
    /\ ResponseHolds
    /\ EffectsAreCounted
    /\ OneRequestOneEffect
    /\ RecordsAreKept

-----------------------------------------------------------------------------
(* Type correctness *)

\* What the helpers leave in the server's locals.
LEMMA GoToEffect ==
    ASSUME TypeOK, NEW step \in Steps, GoTo(step)
    PROVE  /\ server' \in [pc : Steps, req : Requests \cup {None},
                           response : Accepted \cup Refused \cup {None}]
           /\ server'.pc = step /\ server'.req = server.req
           /\ server'.response = server.response
BY DEF TypeOK, GoTo

LEMMA RespondEffect ==
    ASSUME TypeOK, NEW response \in Accepted \cup Refused, Respond(response)
    PROVE  /\ server' \in [pc : Steps, req : Requests \cup {None},
                           response : Accepted \cup Refused \cup {None}]
           /\ server'.pc = IF Req.op \in StateChanging THEN "audit"
                                                       ELSE "answer"
           /\ server'.req = server.req /\ server'.response = response
BY DEF TypeOK, Respond, Steps

LEMMA RequestTyped ==
    ASSUME NEW r \in Requests
    PROVE  /\ r.id \in Ids /\ r.agent \in Agents
           /\ r.op \in DOMAIN OperationLevel
           /\ r.content \in Contents /\ r.parent \in Contents \cup {None}
           /\ r # None
BY RequestsAssumption, NoneAssumption DEF Ids

\* Dispatch goes on to one of the handlers' first writes, or answers.
LEMMA DispatchEffect ==
    ASSUME TypeOK, ServedInSteps, Dispatch
    PROVE  \/ \E response \in Accepted \cup Refused :
                 /\ Respond(response)
                 /\ response \in Accepted =>
                       \/ Req.op = "candidate.submit"
                             /\ response = "duplicate"
                             /\ identities[Req.content] # None
                       \/ Req.op \notin
                             {"candidate.submit", "research.note.add"}
           \/ /\ GoTo("import")
              /\ Req.op = "candidate.submit"
              /\ identities[Req.content] = None
              /\ Req.parent # None => drafts[Req.parent] # None
           \/ GoTo("note") /\ Req.op = "research.note.add"
           \/ GoTo("append")
                 /\ Req.op \in {"campaign.pause", "campaign.resume"}
<1>1. Req \in Requests
  BY DEF Dispatch, At, ServedInSteps
<1>2. Req.op \in {"candidate.get", "candidate.submit", "research.note.add",
                  "campaign.pause", "campaign.resume", "run.request"}
  BY <1>1, RequestTyped DEF OperationLevel
<1>3. CASE LevelOf[Req.agent] < OperationLevel[Req.op]
  BY <1>3 DEF Dispatch, Refused, Accepted
<1>4. CASE /\ ~(LevelOf[Req.agent] < OperationLevel[Req.op])
           /\ Req.op = "candidate.submit"
  <2>1. SubmitCheck
    BY <1>4 DEF Dispatch
  <2> QED
    BY <2>1, <1>4 DEF SubmitCheck, Refused, Accepted
<1>5. CASE /\ ~(LevelOf[Req.agent] < OperationLevel[Req.op])
           /\ Req.op = "research.note.add"
  <2>1. NoteCheck
    BY <1>5 DEF Dispatch
  <2> QED
    BY <2>1, <1>5 DEF NoteCheck, Refused, Accepted
<1>6. CASE /\ ~(LevelOf[Req.agent] < OperationLevel[Req.op])
           /\ Req.op = "candidate.get"
  <2>1. GetCandidate
    BY <1>6 DEF Dispatch
  <2> QED
    BY <2>1, <1>6 DEF GetCandidate, Refused, Accepted
<1>7. CASE /\ ~(LevelOf[Req.agent] < OperationLevel[Req.op])
           /\ Req.op = "run.request"
  <2>1. Respond("run_unavailable")
    BY <1>7 DEF Dispatch
  <2> QED
    BY <2>1, <1>7 DEF Refused, Accepted
<1>8. CASE /\ ~(LevelOf[Req.agent] < OperationLevel[Req.op])
           /\ Req.op \in {"campaign.pause", "campaign.resume"}
  <2>1. ControlRead
    BY <1>8 DEF Dispatch
  <2> QED
    BY <2>1, <1>8 DEF ControlRead, Refused, Accepted
<1> QED
  BY <1>2, <1>3, <1>4, <1>5, <1>6, <1>7, <1>8

LEMMA InitTyped == Init => TypeOK
<1> SUFFICES ASSUME Init PROVE TypeOK
  OBVIOUS
<1>1. Idle \in [pc : Steps, req : Requests \cup {None},
                response : Accepted \cup Refused \cup {None}]
  BY DEF Idle, Steps
<1>2. [fault |-> MaxFaults, restart |-> MaxRestarts]
          \in [{"fault", "restart"} -> Nat]
  BY BoundsAssumption
<1> QED
  BY <1>1, <1>2 DEF Init, TypeOK

LEMMA StopsTyped ==
    ASSUME TypeOK, ServedInSteps, Stops
    PROVE  cut' \in [Ids -> Nat] /\ torn' \subseteq Contents
<1>1. cut' \in [Ids -> Nat]
  BY DEF TypeOK, Stops
<1>2. At("origin") \/ At("record") => Req.content \in Contents
  BY RequestTyped DEF ServedInSteps, At
<1> QED
  BY <1>1, <1>2 DEF TypeOK, Stops

LEMMA EffectTyped ==
    ASSUME TypeOK, Req \in Requests, CountEffect
    PROVE  effects' \in [Ids -> Nat]
BY RequestTyped DEF TypeOK, CountEffect

LEMMA NextTyped ==
    ASSUME TypeOK, ServedInSteps, ResponseHolds, [Next]_vars
    PROVE  TypeOK'
<1> DEFINE ServerTyped ==
      server' \in [pc : Steps, req : Requests \cup {None},
                   response : Accepted \cup Refused \cup {None}]
<1>1. ASSUME UNCHANGED vars
      PROVE  TypeOK'
  BY <1>1 DEF TypeOK, vars, stores
<1>2. ASSUME NEW r \in Requests, Receive(r)
      PROVE  TypeOK'
  <2>1. ServerTyped
    BY <1>2 DEF Receive, Idle, Steps
  <2> QED
    BY <1>2, <2>1 DEF TypeOK, Receive, stores
<1>3. ASSUME LookUp
      PROVE  TypeOK'
  <2>1. CASE Req.op \in StateChanging /\ audit[Req.id] # None
    <3>1. Req.id \in Ids
      BY <1>3, RequestTyped DEF LookUp, At, ServedInSteps
    <3>2. audit[Req.id] \in AuditRow
      BY <2>1, <3>1 DEF TypeOK
    <3>3. audit[Req.id].response \in Accepted \cup Refused
      BY <3>2 DEF AuditRow
    <3>4. "request_conflict" \in Refused
      BY DEF Refused
    <3>5. ServerTyped
      BY <1>3, <2>1, <3>3, <3>4 DEF LookUp, TypeOK, Steps
    <3> QED
      BY <1>3, <3>5 DEF TypeOK, LookUp, stores
  <2>2. CASE ~(Req.op \in StateChanging /\ audit[Req.id] # None)
    <3>1. GoTo("dispatch")
      BY <1>3, <2>2 DEF LookUp
    <3>2. ServerTyped
      BY <3>1, GoToEffect DEF Steps
    <3> QED
      BY <1>3, <3>2 DEF TypeOK, LookUp, stores
  <2> QED
    BY <2>1, <2>2
<1>4. ASSUME Dispatch
      PROVE  TypeOK'
  <2>1. ServerTyped
    BY <1>4, DispatchEffect, GoToEffect, RespondEffect DEF Steps
  <2> QED
    BY <1>4, <2>1 DEF TypeOK, Dispatch, stores
<1>5. ASSUME ImportIdea
      PROVE  TypeOK'
  <2>1. ServerTyped
    BY <1>5, GoToEffect DEF ImportIdea, Steps
  <2>2. drafts' \in [Contents -> Seq(Agents) \cup {None}]
    <3>1. <<>> \in Seq(Agents)
      OBVIOUS
    <3> QED
      BY <1>5, <3>1 DEF TypeOK, ImportIdea
  <2> QED
    BY <1>5, <2>1, <2>2 DEF TypeOK, ImportIdea
<1>6. ASSUME WriteOrigin
      PROVE  TypeOK'
  <2>1. ServerTyped
    BY <1>6, GoToEffect DEF WriteOrigin, Steps
  <2>2. Req \in Requests /\ drafts[Req.content] # None
    BY <1>6 DEF WriteOrigin, At, ServedInSteps
  <2>3. <<Req.agent>> \o drafts[Req.content] \in Seq(Agents)
    BY <2>2, RequestTyped DEF TypeOK
  <2>4. drafts' \in [Contents -> Seq(Agents) \cup {None}]
    BY <1>6, <2>3 DEF TypeOK, WriteOrigin
  <2> QED
    BY <1>6, <2>1, <2>4 DEF TypeOK, WriteOrigin
<1>7. ASSUME RecordCandidate
      PROVE  TypeOK'
  <2>1. Req \in Requests
    BY <1>7 DEF RecordCandidate, At, ServedInSteps
  <2>2. ServerTyped
    BY <1>7, RespondEffect DEF RecordCandidate, Accepted
  <2>3. [agent |-> Req.agent, parent |-> Req.parent] \in IdentityRow
    BY <2>1, RequestTyped DEF IdentityRow
  <2>4. identities' \in [Contents -> IdentityRow \cup {None}]
    BY <1>7, <2>3 DEF TypeOK, RecordCandidate
  <2>5. effects' \in [Ids -> Nat]
    BY <1>7, <2>1, EffectTyped DEF TypeOK, RecordCandidate
  <2> QED
    BY <1>7, <2>2, <2>4, <2>5 DEF TypeOK, RecordCandidate
<1>8. ASSUME AddNote
      PROVE  TypeOK'
  <2>1. Req \in Requests
    BY <1>8 DEF AddNote, At, ServedInSteps
  <2>2. ServerTyped
    BY <1>8, RespondEffect DEF AddNote, Accepted
  <2>3. notes' \in Seq([content : Contents, agent : Agents])
    BY <1>8, <2>1, RequestTyped DEF TypeOK, AddNote
  <2>4. effects' \in [Ids -> Nat]
    BY <1>8, <2>1, EffectTyped DEF AddNote
  <2> QED
    BY <1>8, <2>2, <2>3, <2>4 DEF TypeOK, AddNote
<1>9. ASSUME ControlAppend
      PROVE  TypeOK'
  <2>1. Req \in Requests
    BY <1>9 DEF ControlAppend, At, ServedInSteps
  <2>2. ServerTyped
    BY <1>9, RespondEffect DEF ControlAppend, Accepted
  <2>3. (Req.op = "campaign.pause") \in BOOLEAN
    OBVIOUS
  <2>4. control' \in Seq(BOOLEAN)
    BY <1>9, <2>3 DEF TypeOK, ControlAppend
  <2>5. effects' \in [Ids -> Nat]
    BY <1>9, <2>1, EffectTyped DEF ControlAppend
  <2> QED
    BY <1>9, <2>2, <2>4, <2>5 DEF TypeOK, ControlAppend
<1>10. ASSUME WriteAudit
       PROVE  TypeOK'
  <2>1. Req \in Requests /\ Req.op \in StateChanging
    BY <1>10 DEF WriteAudit, At, ServedInSteps
  <2>2. ServerTyped
    BY <1>10, GoToEffect DEF WriteAudit, Steps
  <2>5. server.response \in Accepted \cup Refused
    BY <1>10 DEF WriteAudit, ResponseHolds
  <2>3. [agent |-> Req.agent, op |-> Req.op, response |-> server.response]
            \in AuditRow
    BY <2>1, <2>5, RequestTyped DEF AuditRow
  <2>4. audit' \in [Ids -> AuditRow \cup {None}]
    BY <1>10, <2>3 DEF TypeOK, WriteAudit
  <2> QED
    BY <1>10, <2>2, <2>4 DEF TypeOK, WriteAudit
<1>11. ASSUME Answer
       PROVE  TypeOK'
  BY <1>11 DEF Answer, TypeOK, stores, Idle, Steps
<1>12. ASSUME Fault
       PROVE  TypeOK'
  <2>1. ServerTyped
    <3>1. "internal_error" \in Accepted \cup Refused
      BY DEF Refused
    <3>2. CASE server.pc \in {"lookup", "audit"}
      BY <1>12, <3>1, <3>2 DEF Fault, TypeOK, Steps
    <3>3. CASE server.pc \notin {"lookup", "audit"}
      BY <1>12, <3>1, <3>3, RespondEffect DEF Fault
    <3> QED
      BY <3>2, <3>3
  <2>2. left' \in [{"fault", "restart"} -> Nat]
    BY <1>12 DEF TypeOK, Fault
  <2> QED
    BY <1>12, <2>1, <2>2, StopsTyped DEF TypeOK, Fault, stores
<1>13. ASSUME Restart
       PROVE  TypeOK'
  <2>1. ServerTyped
    BY <1>13 DEF Restart, Idle, Steps
  <2>2. left' \in [{"fault", "restart"} -> Nat]
    BY <1>13 DEF TypeOK, Restart
  <2> QED
    BY <1>13, <2>1, <2>2, StopsTyped DEF TypeOK, Restart, stores
<1> QED
  BY <1>1, <1>2, <1>3, <1>4, <1>5, <1>6, <1>7, <1>8, <1>9, <1>10, <1>11,
     <1>12, <1>13 DEF Next, Serve

-----------------------------------------------------------------------------
(* What a step keeps *)

\* Nothing that is in the stores is taken back.
StoresGrow ==
    /\ \A c \in Contents :
          /\ identities[c] # None => identities'[c] = identities[c]
          /\ drafts[c] # None => drafts'[c] # None
    /\ Len(notes) <= Len(notes')
    /\ \A n \in 1..Len(notes) : notes'[n] = notes[n]
    /\ \A q \in Ids : audit[q] # None => audit'[q] = audit[q]
    /\ torn \subseteq torn'

LEMMA StoresOnlyGrow ==
    ASSUME TypeOK, ServedInSteps, [Next]_vars
    PROVE  StoresGrow
<1> USE DEF StoresGrow
<1>0. Len(notes) \in Nat
  BY DEF TypeOK
<1>1. CASE UNCHANGED <<drafts, identities, notes, control, audit, torn>>
  BY <1>0, <1>1
<1>2. ASSUME ImportIdea
      PROVE  StoresGrow
  <2>1. <<>> # None
    <3>1. <<>> \in Seq(Agents)
      OBVIOUS
    <3> QED
      BY <3>1, NoneAssumption
  <2> QED
    BY <1>0, <1>2, <2>1 DEF ImportIdea, TypeOK
<1>3. ASSUME WriteOrigin
      PROVE  StoresGrow
  <2>1. Req \in Requests /\ drafts[Req.content] # None
    BY <1>3 DEF WriteOrigin, At, ServedInSteps
  <2>2. <<Req.agent>> \o drafts[Req.content] \in Seq(Agents)
    BY <2>1, RequestTyped DEF TypeOK
  <2>3. <<Req.agent>> \o drafts[Req.content] # None
    BY <2>2, NoneAssumption
  <2> QED
    BY <1>0, <1>3, <2>3 DEF WriteOrigin, TypeOK
<1>4. ASSUME RecordCandidate
      PROVE  StoresGrow
  BY <1>0, <1>4 DEF RecordCandidate, TypeOK
<1>5. ASSUME AddNote
      PROVE  StoresGrow
  BY <1>0, <1>5 DEF AddNote, TypeOK
<1>6. ASSUME ControlAppend
      PROVE  StoresGrow
  BY <1>0, <1>6 DEF ControlAppend
<1>7. ASSUME WriteAudit
      PROVE  StoresGrow
  BY <1>0, <1>7 DEF WriteAudit, TypeOK
<1>8. ASSUME Fault \/ Restart
      PROVE  StoresGrow
  BY <1>0, <1>8 DEF Fault, Restart, Stops, stores
<1> QED
  BY <1>1, <1>2, <1>3, <1>4, <1>5, <1>6, <1>7, <1>8
     DEF Next, Serve, vars, Receive, LookUp, Dispatch, Answer, stores

\* A response that holds goes on holding.
LEMMA DurableStays ==
    ASSUME TypeOK, StoresGrow, TypeOK',
           NEW r \in Requests, NEW response, Durable(r, response)
    PROVE  Durable(r, response)'
<1>1. r.content \in Contents
  BY RequestTyped
<1>2. Len(notes) \in Nat /\ Len(notes') \in Nat
  BY DEF TypeOK
<1> QED
  BY <1>1, <1>2 DEF Durable, StoresGrow

\* The request stays the one being served until it is answered.
LEMMA RequestStays ==
    ASSUME TypeOK, ServedInSteps, Serve \/ Fault, ~Answer
    PROVE  Req' = Req /\ ~At("idle") /\ Req \in Requests
<1>1. Req' = Req
  <2>1. ASSUME NEW step \in Steps, GoTo(step)
        PROVE  Req' = Req
    BY <2>1, GoToEffect DEF Req
  <2>2. ASSUME NEW response \in Accepted \cup Refused, Respond(response)
        PROVE  Req' = Req
    BY <2>2, RespondEffect DEF Req
  <2>3. CASE LookUp
    BY <2>1, <2>3 DEF LookUp, TypeOK, Steps, Req
  <2>4. CASE Dispatch
    BY <2>1, <2>2, <2>4, DispatchEffect DEF Steps
  <2>5. CASE ImportIdea \/ WriteOrigin \/ WriteAudit
    BY <2>1, <2>5 DEF ImportIdea, WriteOrigin, WriteAudit, Steps
  <2>6. CASE RecordCandidate \/ AddNote \/ ControlAppend
    BY <2>2, <2>6 DEF RecordCandidate, AddNote, ControlAppend, Accepted
  <2>7. CASE Fault
    BY <2>2, <2>7 DEF Fault, TypeOK, Refused, Req
  <2> QED
    BY <2>3, <2>4, <2>5, <2>6, <2>7 DEF Serve
<1>2. ~At("idle")
  BY DEF Serve, At, LookUp, Dispatch, ImportIdea, WriteOrigin, WriteAudit,
         RecordCandidate, AddNote, ControlAppend, Answer, Fault, Transactions
<1> QED
  BY <1>1, <1>2 DEF ServedInSteps

-----------------------------------------------------------------------------
(* The server's steps *)

\* A step's place fits its request.
LEMMA ServedStep ==
    ASSUME GatewayInv, [Next]_vars, TypeOK', StoresGrow
    PROVE  ServedInSteps'
<1> USE DEF GatewayInv
<1>1. CASE UNCHANGED vars
  BY <1>1 DEF vars, stores, ServedInSteps, At, Req
<1>2. CASE \E r \in Requests : Receive(r)
  BY <1>2 DEF Receive, Idle, ServedInSteps, Importing, At, Req
<1>3. CASE Answer \/ Restart
  BY <1>3 DEF Answer, Restart, Idle, ServedInSteps, Importing, At
<1>4. ASSUME Serve \/ Fault, ~Answer
      PROVE  ServedInSteps'
  <2>1. Req' = Req /\ ~At("idle") /\ Req \in Requests
    BY <1>4, RequestStays
  <2>2. /\ Req.content \in Contents
        /\ Req.parent \in Contents \cup {None}
    BY <2>1, RequestTyped
  <2>3. ASSUME NEW response \in Accepted \cup Refused, Respond(response)
        PROVE  ServedInSteps'
    <3>1. /\ server'.pc \in {"audit", "answer"}
          /\ server'.pc = "audit" => Req.op \in StateChanging
      BY <2>3, RespondEffect
    <3> QED
      BY <2>1, <3>1 DEF ServedInSteps, Importing, At
  <2>4. CASE LookUp
    <3>1. server'.pc \in {"answer", "dispatch"}
      BY <2>4, GoToEffect DEF LookUp, TypeOK, Steps
    <3> QED
      BY <2>1, <3>1 DEF ServedInSteps, Importing, At
  <2>5. CASE Dispatch
    <3>1. UNCHANGED <<stores, torn>>
      BY <2>5 DEF Dispatch
    <3>2. ASSUME GoTo("import"), Req.op = "candidate.submit",
                 identities[Req.content] = None,
                 Req.parent # None => drafts[Req.parent] # None
          PROVE  ServedInSteps'
      <4>1. server'.pc = "import"
        BY <3>2, GoToEffect DEF Steps
      <4>2. At("dispatch")
        BY <2>5 DEF Dispatch
      <4>3. Req.parent # None =>
                identities[Req.parent] # None \/ Req.parent \in torn
        BY <2>2, <3>2, <4>2 DEF DraftIsOwned, At
      <4> QED
        BY <2>1, <3>1, <3>2, <4>1, <4>3
           DEF ServedInSteps, Importing, At, stores
    <3>3. ASSUME GoTo("note"), Req.op = "research.note.add"
          PROVE  ServedInSteps'
      BY <2>1, <3>3, GoToEffect DEF ServedInSteps, Importing, At, Steps
    <3>4. ASSUME GoTo("append"),
                 Req.op \in {"campaign.pause", "campaign.resume"}
          PROVE  ServedInSteps'
      BY <2>1, <3>4, GoToEffect DEF ServedInSteps, Importing, At, Steps
    <3> QED
      BY <2>3, <2>5, <3>2, <3>3, <3>4, DispatchEffect
  <2>6. CASE ImportIdea
    <3>1. server'.pc = "origin"
      BY <2>6, GoToEffect DEF ImportIdea, Steps
    <3>2. drafts'[Req.content] # None
      <4>1. <<>> # None
        <5>1. <<>> \in Seq(Agents)
          OBVIOUS
        <5> QED
          BY <5>1, NoneAssumption
      <4> QED
        BY <2>2, <2>6, <4>1 DEF ImportIdea, TypeOK
    <3> QED
      BY <2>1, <2>6, <3>1, <3>2
         DEF ServedInSteps, Importing, At, ImportIdea
  <2>7. CASE WriteOrigin
    <3>1. server'.pc = "record"
      BY <2>7, GoToEffect DEF WriteOrigin, Steps
    <3>2. drafts[Req.content] # None
      BY <2>7 DEF WriteOrigin, ServedInSteps, At
    <3>3. drafts[Req.content] \in Seq(Agents) /\ Req.agent \in Agents
      BY <2>1, <2>2, <3>2, RequestTyped DEF TypeOK
    <3>4. drafts'[Req.content] = <<Req.agent>> \o drafts[Req.content]
      BY <2>2, <2>7 DEF WriteOrigin, TypeOK
    <3>5. /\ drafts'[Req.content] # <<>>
          /\ Head(drafts'[Req.content]) = Req.agent
      BY <3>3, <3>4
    <3>6. drafts'[Req.content] # None
      BY <2>2, <3>2 DEF StoresGrow
    <3> QED
      BY <2>1, <2>7, <3>1, <3>5, <3>6
         DEF ServedInSteps, Importing, At, WriteOrigin
  <2>8. CASE RecordCandidate \/ AddNote \/ ControlAppend
    BY <2>3, <2>8 DEF RecordCandidate, AddNote, ControlAppend, Accepted
  <2>9. CASE WriteAudit
    BY <2>1, <2>9, GoToEffect
       DEF WriteAudit, ServedInSteps, Importing, At, Steps
  <2>10. CASE Fault
    <3>1. CASE server.pc \in {"lookup", "audit"}
      <4>1. server'.pc = "answer"
        BY <2>10, <3>1 DEF Fault, TypeOK
      <4> QED
        BY <2>1, <4>1 DEF ServedInSteps, Importing, At
    <3>2. CASE server.pc \notin {"lookup", "audit"}
      BY <2>3, <2>10, <3>2 DEF Fault, Refused
    <3> QED
      BY <3>1, <3>2
  <2> QED
    BY <1>4, <2>4, <2>5, <2>6, <2>7, <2>8, <2>9, <2>10 DEF Serve
<1> QED
  BY <1>1, <1>2, <1>3, <1>4 DEF Next, Serve

\* A draft without a Candidate is a stopped submission's or the served one's.
LEMMA DraftStep ==
    ASSUME GatewayInv, [Next]_vars, TypeOK', StoresGrow, NEW c \in Contents
    PROVE  DraftIsOwned(c)'
<1> USE DEF GatewayInv
<1>1. DraftIsOwned(c)
  OBVIOUS
<1>2. CASE UNCHANGED vars
  BY <1>1, <1>2 DEF vars, stores, DraftIsOwned, Req
<1>3. CASE drafts' = drafts /\ server.pc \notin {"origin", "record"}
  BY <1>1, <1>3 DEF DraftIsOwned, StoresGrow
<1>4. CASE ImportIdea
  <2>1. Req' = Req /\ Req \in Requests /\ server'.pc = "origin"
    BY <1>4, RequestStays, GoToEffect
       DEF Serve, ImportIdea, Steps, At, Answer
  <2>2. c # Req.content => drafts'[c] = drafts[c]
    BY <1>4 DEF ImportIdea, TypeOK
  <2> QED
    BY <1>1, <1>4, <2>1, <2>2 DEF DraftIsOwned, ImportIdea, At
<1>5. CASE WriteOrigin
  <2>1. Req' = Req /\ Req \in Requests /\ server'.pc = "record"
    BY <1>5, RequestStays, GoToEffect
       DEF Serve, WriteOrigin, Steps, At, Answer
  <2>2. c # Req.content => drafts'[c] = drafts[c]
    BY <1>5 DEF WriteOrigin, TypeOK
  <2> QED
    BY <1>1, <1>5, <2>1, <2>2 DEF DraftIsOwned, WriteOrigin, At
<1>6. CASE RecordCandidate
  <2>1. Req \in Requests /\ At("record")
    BY <1>6 DEF RecordCandidate, At, ServedInSteps
  <2>2. identities[Req.content] = None /\ Req.content \in Contents
    BY <2>1, RequestTyped DEF ServedInSteps, Importing, At
  <2>3. identities'[Req.content]
            = [agent |-> Req.agent, parent |-> Req.parent]
    BY <1>6, <2>2 DEF RecordCandidate, TypeOK
  <2>4. [agent |-> Req.agent, parent |-> Req.parent] \in IdentityRow
    BY <2>1, RequestTyped DEF IdentityRow
  <2>5. identities'[Req.content] # None
    BY <2>3, <2>4, NoneAssumption
  <2> QED
    BY <1>1, <1>6, <2>1, <2>5
       DEF DraftIsOwned, RecordCandidate, StoresGrow, At
<1>7. CASE Fault \/ Restart
  BY <1>1, <1>7 DEF DraftIsOwned, StoresGrow, Fault, Restart, Stops, At,
                    stores
<1> QED
  BY <1>2, <1>3, <1>4, <1>5, <1>6, <1>7
     DEF Next, Serve, Receive, LookUp, Dispatch, AddNote, ControlAppend,
         WriteAudit, Answer, stores, At

-----------------------------------------------------------------------------
(* Responses and audit rows *)

\* A request being dispatched has no audit row.
LEMMA AuditStep ==
    ASSUME GatewayInv, [Next]_vars, TypeOK', StoresGrow
    PROVE  NotAuditedYet'
<1> USE DEF GatewayInv
<1>1. CASE UNCHANGED vars
  BY <1>1 DEF vars, stores, NotAuditedYet, Req
<1>2. CASE \E r \in Requests : Receive(r)
  BY <1>2 DEF Receive, Idle, NotAuditedYet
<1>3. CASE Answer \/ Restart
  BY <1>3 DEF Answer, Restart, Idle, NotAuditedYet
<1>4. CASE LookUp
  <2>1. Req' = Req
    BY <1>4, RequestStays DEF Serve, LookUp, At, Answer
  <2>2. CASE Req.op \in StateChanging /\ audit[Req.id] # None
    <3>1. server'.pc = "answer"
      BY <1>4, <2>2 DEF LookUp, TypeOK
    <3> QED
      BY <3>1 DEF NotAuditedYet
  <2> QED
    BY <1>4, <2>1, <2>2 DEF LookUp, NotAuditedYet, stores
<1>5. CASE WriteAudit
  <2>1. server'.pc = "answer"
    BY <1>5, GoToEffect DEF WriteAudit, Steps
  <2> QED
    BY <2>1 DEF NotAuditedYet
<1>6. ASSUME Serve \/ Fault, ~Answer, ~LookUp, ~WriteAudit
      PROVE  NotAuditedYet'
  <2>1. Req' = Req /\ ~At("idle") /\ Req \in Requests
    BY <1>6, RequestStays
  <2>2. audit' = audit
    BY <1>6 DEF Serve, Fault, Dispatch, ImportIdea, WriteOrigin,
                RecordCandidate, AddNote, ControlAppend, stores
  <2>3. CASE server.pc \in {"lookup", "answer"}
    <3>1. At("lookup") /\ Fault
      BY <1>6, <2>3
         DEF Serve, Fault, At, Dispatch, ImportIdea, WriteOrigin,
             RecordCandidate, AddNote, ControlAppend, Transactions
    <3>2. server'.pc = "answer"
      BY <3>1 DEF Fault, At, TypeOK
    <3> QED
      BY <3>2 DEF NotAuditedYet
  <2> QED
    BY <2>1, <2>2, <2>3 DEF NotAuditedYet, TypeOK, At
<1> QED
  BY <1>1, <1>2, <1>3, <1>4, <1>5, <1>6 DEF Next, Serve

\* What a handler responds holds, and so it does until it is audited.
LEMMA ResponseStep ==
    ASSUME GatewayInv, [Next]_vars, TypeOK', StoresGrow
    PROVE  ResponseHolds'
<1> USE DEF GatewayInv
<1>1. CASE UNCHANGED vars
  BY <1>1 DEF vars, stores, ResponseHolds, Durable, At, Req
<1>2. CASE \E r \in Requests : Receive(r)
  BY <1>2 DEF Receive, Idle, ResponseHolds, At
<1>3. CASE Answer \/ Restart
  BY <1>3 DEF Answer, Restart, Idle, ResponseHolds, At
<1>4. ASSUME Serve \/ Fault, ~Answer
      PROVE  ResponseHolds'
  <2>1. Req' = Req /\ ~At("idle") /\ Req \in Requests
    BY <1>4, RequestStays
  <2>2. ASSUME NEW response \in Accepted \cup Refused, Respond(response),
               Durable(Req, response)'
        PROVE  ResponseHolds'
    BY <2>1, <2>2, RespondEffect DEF ResponseHolds
  <2>3. ASSUME NEW step \in Steps \ {"audit"}, GoTo(step)
        PROVE  ResponseHolds'
    BY <2>3, GoToEffect DEF ResponseHolds, At
  <2>4. ASSUME NEW response \in Refused
        PROVE  Durable(Req, response)'
    BY <2>4 DEF Durable, Accepted, Refused
  <2>5. Req.content \in Contents
    BY <2>1, RequestTyped
  <2>6. CASE LookUp
    <3>1. server'.pc \in {"answer", "dispatch"}
      BY <2>6, GoToEffect DEF LookUp, TypeOK, Steps
    <3> QED
      BY <3>1 DEF ResponseHolds, At
  <2>7. CASE Dispatch
    <3>1. ASSUME NEW response \in Accepted \cup Refused, Respond(response),
                 \/ Req.op = "candidate.submit"
                       /\ response = "duplicate"
                       /\ identities[Req.content] # None
                 \/ Req.op \notin {"candidate.submit", "research.note.add"}
          PROVE  ResponseHolds'
      <4>1. Durable(Req, response)
        BY <3>1 DEF Durable
      <4> QED
        BY <2>1, <2>2, <3>1, <4>1, DurableStays
    <3> QED
      BY <2>2, <2>3, <2>4, <2>7, <3>1, DispatchEffect DEF Steps
  <2>8. CASE ImportIdea \/ WriteOrigin \/ WriteAudit
    BY <2>3, <2>8 DEF ImportIdea, WriteOrigin, WriteAudit, Steps
  <2>9. CASE RecordCandidate
    <3>1. Req.op = "candidate.submit" /\ identities[Req.content] = None
      BY <2>9 DEF RecordCandidate, ServedInSteps, Importing, At
    <3>2. identities'[Req.content]
              = [agent |-> Req.agent, parent |-> Req.parent]
      BY <2>5, <2>9, <3>1 DEF RecordCandidate, TypeOK
    <3>3. [agent |-> Req.agent, parent |-> Req.parent] \in IdentityRow
      BY <2>1, RequestTyped DEF IdentityRow
    <3>4. identities'[Req.content] # None
      BY <3>2, <3>3, NoneAssumption
    <3>5. Durable(Req, "created")'
      BY <2>1, <3>1, <3>4 DEF Durable
    <3> QED
      BY <2>2, <2>9, <3>1, <3>5 DEF RecordCandidate, Accepted
  <2>10. CASE AddNote
    <3>1. Req.op = "research.note.add"
      BY <2>10 DEF AddNote, ServedInSteps
    <3>2. Len(notes) + 1 \in 1..Len(notes')
      BY <2>10 DEF AddNote, TypeOK
    <3>3. notes'[Len(notes) + 1]
              = [content |-> Req.content, agent |-> Req.agent]
      BY <2>10 DEF AddNote, TypeOK
    <3>4. Durable(Req, "noted")'
      BY <2>1, <3>1, <3>2, <3>3 DEF Durable
    <3> QED
      BY <2>2, <2>10, <3>4 DEF AddNote, Accepted
  <2>11. CASE ControlAppend
    <3>1. Req.op \in {"campaign.pause", "campaign.resume"}
      BY <2>11 DEF ControlAppend, ServedInSteps
    <3>2. Durable(Req, "set")'
      BY <2>1, <3>1 DEF Durable
    <3> QED
      BY <2>2, <2>11, <3>2 DEF ControlAppend, Accepted
  <2>12. CASE Fault
    <3>1. CASE server.pc \in {"lookup", "audit"}
      <4>1. server'.pc = "answer"
        BY <2>12, <3>1 DEF Fault, TypeOK
      <4> QED
        BY <4>1 DEF ResponseHolds, At
    <3>2. CASE server.pc \notin {"lookup", "audit"}
      BY <2>2, <2>4, <2>12, <3>2 DEF Fault, Refused
    <3> QED
      BY <3>1, <3>2
  <2> QED
    BY <1>4, <2>6, <2>7, <2>8, <2>9, <2>10, <2>11, <2>12 DEF Serve
<1> QED
  BY <1>1, <1>2, <1>3, <1>4 DEF Next, Serve

\* The audit table gets a row from the response that holds.
LEMMA RowStep ==
    ASSUME GatewayInv, [Next]_vars, TypeOK', StoresGrow
    PROVE  RowsHold'
<1> USE DEF GatewayInv
<1> SUFFICES ASSUME NEW q \in Ids, audit'[q] # None
             PROVE  (\E r \in Requests :
                        /\ r.id = q /\ r.agent = audit[q].agent
                        /\ r.op = audit[q].op
                        /\ Durable(r, audit[q].response))'
  BY DEF RowsHold
<1>1. CASE audit[q] # None
  <2>1. PICK r \in Requests :
            /\ r.id = q /\ r.agent = audit[q].agent /\ r.op = audit[q].op
            /\ Durable(r, audit[q].response)
    BY <1>1 DEF RowsHold
  <2>2. audit'[q] = audit[q]
    BY <1>1 DEF StoresGrow
  <2>3. PICK response : response = audit[q].response
    OBVIOUS
  <2>4. Durable(r, response)
    BY <2>1, <2>3 DEF Durable
  <2>5. Durable(r, response)'
    BY <2>4, DurableStays
  <2> QED
    BY <2>1, <2>2, <2>3, <2>5 DEF Durable
<1>2. CASE audit[q] = None
  <2>1. WriteAudit
    BY <1>2 DEF Next, Serve, vars, stores, Receive, LookUp, Dispatch,
                ImportIdea, WriteOrigin, RecordCandidate, AddNote,
                ControlAppend, Answer, Fault, Restart
  <2>2. At("audit") /\ Req \in Requests
    BY <2>1 DEF WriteAudit, ServedInSteps, At
  <2>3. Req.id = q
    BY <1>2, <2>1 DEF WriteAudit, TypeOK
  <2>4. audit'[q] = [agent |-> Req.agent, op |-> Req.op,
                     response |-> server.response]
    BY <1>2, <2>1, <2>3 DEF WriteAudit, TypeOK
  <2>5. PICK r \in Requests : r = Req
    BY <2>2
  <2>6. PICK response : response = server.response
    OBVIOUS
  <2>7. Durable(r, response)
    BY <2>2, <2>5, <2>6 DEF ResponseHolds, Durable
  <2>8. Durable(r, response)'
    BY <2>7, DurableStays
  <2> QED
    BY <2>3, <2>4, <2>5, <2>6, <2>8 DEF Durable
<1> QED
  BY <1>1, <1>2

-----------------------------------------------------------------------------
(* Effects *)

\* An effect is counted only on the way to the audit table, a cut wherever an
\* effect is left unaudited.
LEMMA EffectsStep ==
    ASSUME GatewayInv, [Next]_vars, TypeOK', StoresGrow
    PROVE  EffectsAreCounted'
<1> USE DEF GatewayInv
<1> SUFFICES ASSUME NEW q \in Ids
             PROVE  (effects[q] <= cut[q] + (IF audit[q] # None
                                                \/ (Unaudited /\ Req.id = q)
                                             THEN 1 ELSE 0))'
  BY DEF EffectsAreCounted
<1>1. /\ effects[q] <= cut[q] + (IF audit[q] # None
                                    \/ (Unaudited /\ Req.id = q)
                                 THEN 1 ELSE 0)
      /\ effects[q] \in Nat /\ cut[q] \in Nat
      /\ effects'[q] \in Nat /\ cut'[q] \in Nat
  BY DEF EffectsAreCounted, TypeOK
<1>2. audit[q] # None => audit'[q] # None
  BY DEF StoresGrow
<1>3. CASE UNCHANGED vars
  BY <1>1, <1>3 DEF vars, stores, Unaudited, At, Req
<1>4. ASSUME \/ \E r \in Requests : Receive(r)
             \/ LookUp \/ Dispatch \/ ImportIdea \/ WriteOrigin \/ Answer
      PROVE  effects'[q] = effects[q] /\ cut'[q] = cut[q] /\ ~Unaudited
  BY <1>4 DEF Receive, LookUp, Dispatch, ImportIdea, WriteOrigin, Answer,
              Unaudited, At
<1>5. CASE RecordCandidate \/ AddNote \/ ControlAppend
  <2>1. Req' = Req /\ Req \in Requests /\ ~Unaudited
    BY <1>5, RequestStays
       DEF Serve, RecordCandidate, AddNote, ControlAppend, Unaudited, At,
           Answer
  <2>2. Req.id \in Ids
    BY <2>1, RequestTyped
  <2>3. Req.op \in StateChanging
    BY <1>5 DEF RecordCandidate, AddNote, ControlAppend, At, ServedInSteps,
                Importing, StateChanging, OperationLevel
  <2>4. audit[Req.id] = None
    BY <1>5, <2>3 DEF RecordCandidate, AddNote, ControlAppend, At,
                      NotAuditedYet, Steps
  <2>5. audit' = audit /\ cut' = cut
    BY <1>5 DEF RecordCandidate, AddNote, ControlAppend
  <2>6. CASE effects' = effects
    BY <1>1, <2>1, <2>5, <2>6
  <2>7. CASE effects' # effects
    <3>1. /\ CountEffect
          /\ \E response \in {"created", "noted", "set"} : Respond(response)
      BY <1>5, <2>7 DEF RecordCandidate, AddNote, ControlAppend
    <3>2. PICK response \in {"created", "noted", "set"} : Respond(response)
      BY <3>1
    <3>3. server'.pc = "audit" /\ server'.response = response
      BY <2>3, <3>2, RespondEffect DEF Accepted
    <3>4. Unaudited'
      BY <2>1, <2>4, <2>5, <3>3 DEF Unaudited, At
    <3>5. /\ effects'[Req.id] = effects[Req.id] + 1
          /\ q # Req.id => effects'[q] = effects[q]
      BY <2>2, <3>1 DEF CountEffect, TypeOK
    <3> QED
      BY <1>1, <2>1, <2>4, <2>5, <3>4, <3>5
  <2> QED
    BY <2>6, <2>7
<1>6. CASE WriteAudit
  <2>1. Req \in Requests
    BY <1>6 DEF WriteAudit, At, ServedInSteps
  <2>2. effects' = effects /\ cut' = cut
    BY <1>6 DEF WriteAudit
  <2>3. Req.id = q => audit'[q] # None
    <3>1. Req.op \in StateChanging
      BY <1>6 DEF WriteAudit, ServedInSteps
    <3>2. server.response \in Accepted \cup Refused
      BY <1>6 DEF WriteAudit, ResponseHolds
    <3>3. [agent |-> Req.agent, op |-> Req.op, response |-> server.response]
              \in AuditRow
      BY <2>1, <3>1, <3>2, RequestTyped DEF AuditRow
    <3> QED
      BY <1>2, <1>6, <3>3, NoneAssumption DEF WriteAudit, TypeOK
  <2> QED
    BY <1>1, <1>2, <2>2, <2>3
<1>7. CASE Fault \/ Restart
  <2>1. effects' = effects /\ audit' = audit /\ Stops
    BY <1>7 DEF Fault, Restart, stores
  <2>2. CASE Unaudited /\ Req.id = q
    <3>1. Req \in Requests
      BY <2>2 DEF Unaudited, At, ServedInSteps
    <3>2. cut'[q] = cut[q] + 1
      BY <2>1, <2>2, <3>1, RequestTyped DEF Stops
    <3> QED
      BY <1>1, <2>1, <2>2, <3>2
  <2>3. CASE ~(Unaudited /\ Req.id = q)
    <3>1. cut'[q] = cut[q]
      BY <2>1, <2>3 DEF Stops
    <3> QED
      BY <1>1, <2>1, <2>3, <3>1
  <2> QED
    BY <2>2, <2>3
<1> QED
  BY <1>1, <1>2, <1>3, <1>4, <1>5, <1>6, <1>7 DEF Next, Serve

-----------------------------------------------------------------------------
(* The two invariants of the runs *)

\* The answer to a request is the one on record, and it holds.
LEMMA AnswerStep ==
    ASSUME GatewayInv, [Next]_vars, TypeOK', StoresGrow
    PROVE  RequestIdIsBound' /\ AcceptedIsDurable'
<1> USE DEF GatewayInv
<1>1. CASE UNCHANGED vars
  BY <1>1 DEF vars, stores, RequestIdIsBound, AcceptedIsDurable, At, Req,
              OneRequestOneEffect, RecordsAreKept
<1>2. CASE \E r \in Requests : Receive(r)
  BY <1>2 DEF Receive, Idle, RequestIdIsBound, AcceptedIsDurable, At
<1>3. CASE Answer \/ Restart
  BY <1>3 DEF Answer, Restart, Idle, RequestIdIsBound, AcceptedIsDurable, At
<1>4. CASE LookUp
  <2>1. Req' = Req /\ Req \in Requests
    BY <1>4, RequestStays DEF Serve, LookUp, At, Answer
  <2>2. UNCHANGED stores
    BY <1>4 DEF LookUp
  <2>3. CASE Req.op \in StateChanging /\ audit[Req.id] # None
    <3>1. server'.response =
              IF audit[Req.id].agent = Req.agent /\ audit[Req.id].op = Req.op
              THEN audit[Req.id].response ELSE "request_conflict"
      BY <1>4, <2>3 DEF LookUp, TypeOK
    <3>2. RequestIdIsBound'
      BY <2>1, <2>2, <3>1 DEF RequestIdIsBound, stores
    <3>3. CASE server'.response \in Accepted
      <4>1. /\ audit[Req.id].agent = Req.agent /\ audit[Req.id].op = Req.op
            /\ server'.response = audit[Req.id].response
        BY <3>1, <3>3 DEF Accepted
      <4>2. PICK r \in Requests :
                /\ r.id = Req.id /\ r.agent = Req.agent /\ r.op = Req.op
                /\ Durable(r, audit[Req.id].response)
        BY <2>1, <2>3, <4>1, RequestTyped DEF RowsHold
      <4>3. r = Req
        BY <2>1, <4>2, PayloadAssumption
      <4> QED
        BY <2>1, <2>2, <2>3, <3>2, <3>3, <4>1, <4>2, <4>3
           DEF AcceptedIsDurable, Durable, stores
    <3> QED
      BY <3>2, <3>3 DEF AcceptedIsDurable
  <2>4. CASE ~(Req.op \in StateChanging /\ audit[Req.id] # None)
    <3>1. server'.pc = "dispatch"
      BY <1>4, <2>4, GoToEffect DEF LookUp, Steps
    <3> QED
      BY <3>1 DEF RequestIdIsBound, AcceptedIsDurable, At
  <2> QED
    BY <2>3, <2>4
<1>5. CASE WriteAudit
  <2>1. /\ Req' = Req /\ Req \in Requests
        /\ server'.response = server.response
    BY <1>5, RequestStays, GoToEffect
       DEF Serve, WriteAudit, At, Answer, Steps
  <2>2. Req.op \in StateChanging /\ audit[Req.id] = None
    BY <1>5 DEF WriteAudit, ServedInSteps, NotAuditedYet, At, Steps
  <2>3. server.response \in Accepted \cup Refused /\ Durable(Req, server.response)
    BY <1>5 DEF WriteAudit, ResponseHolds
  <2>4. audit'[Req.id] = [agent |-> Req.agent, op |-> Req.op,
                          response |-> server.response]
    BY <1>5, <2>1, <2>2, RequestTyped DEF WriteAudit, TypeOK
  <2>5. audit'[Req.id] \in AuditRow
    BY <2>1, <2>2, <2>3, <2>4, RequestTyped DEF AuditRow
  <2>6. RequestIdIsBound'
    BY <2>1, <2>4 DEF RequestIdIsBound
  <2>7. AcceptedIsDurable'
    BY <1>5, <2>1, <2>3, <2>5, NoneAssumption
       DEF AcceptedIsDurable, Durable, WriteAudit
  <2> QED
    BY <2>6, <2>7
<1>6. ASSUME Serve \/ Fault, ~LookUp, ~WriteAudit, ~Answer,
             server'.pc = "answer", Req'.op \in StateChanging
      PROVE  server'.response = "internal_error"
  <2>1. Req' = Req
    BY <1>6, RequestStays
  <2>2. ASSUME NEW response \in Accepted \cup Refused
        PROVE  ~Respond(response)
    BY <1>6, <2>1, <2>2, RespondEffect
  <2>3. ASSUME NEW step \in Steps \ {"answer"}
        PROVE  ~GoTo(step)
    BY <1>6, <2>3, GoToEffect
  <2>4. ~Dispatch
    BY <2>2, <2>3, DispatchEffect DEF Steps
  <2>5. ~ImportIdea /\ ~WriteOrigin
    BY <2>3 DEF ImportIdea, WriteOrigin, Steps
  <2>6. ~RecordCandidate /\ ~AddNote /\ ~ControlAppend
    BY <2>2 DEF RecordCandidate, AddNote, ControlAppend, Accepted
  <2>7. Fault
    BY <1>6, <2>4, <2>5, <2>6 DEF Serve
  <2>8. server.pc \in {"lookup", "audit"}
    BY <2>2, <2>7 DEF Fault, Refused
  <2> QED
    BY <2>7, <2>8 DEF Fault, TypeOK
<1>7. ASSUME Serve \/ Fault, ~LookUp, ~WriteAudit, ~Answer
      PROVE  RequestIdIsBound' /\ AcceptedIsDurable'
  BY <1>6, <1>7 DEF RequestIdIsBound, AcceptedIsDurable, At, Accepted
<1> QED
  BY <1>1, <1>2, <1>3, <1>4, <1>5, <1>7 DEF Next, Serve

\* A submission writes its draft first, and under its submitter's name.
LEMMA CandidateStep ==
    ASSUME GatewayInv, [Next]_vars, TypeOK', StoresGrow
    PROVE  CandidateRecordsAgree'
<1> USE DEF GatewayInv
<1> SUFFICES ASSUME NEW c \in Contents, identities'[c] # None
             PROVE  /\ drafts'[c] # None /\ drafts'[c] # <<>>
                    /\ Head(drafts'[c]) = identities'[c].agent
                    /\ identities'[c].parent # None =>
                          \/ identities'[identities'[c].parent] # None
                          \/ identities'[c].parent \in torn'
  BY DEF CandidateRecordsAgree
<1>1. CASE identities[c] # None
  <2>1. /\ drafts[c] # None /\ drafts[c] # <<>>
        /\ Head(drafts[c]) = identities[c].agent
        /\ identities[c].parent # None =>
              \/ identities[identities[c].parent] # None
              \/ identities[c].parent \in torn
    BY <1>1 DEF RecordsAreKept, CandidateRecordsAgree
  <2>2. identities'[c] = identities[c]
    BY <1>1 DEF StoresGrow
  <2>3. identities[c].parent \in Contents \cup {None}
    BY <1>1 DEF TypeOK, IdentityRow
  <2>4. drafts'[c] = drafts[c]
    <3>1. CASE ImportIdea
      BY <2>1, <3>1 DEF ImportIdea, TypeOK
    <3>2. CASE WriteOrigin
      <4>1. Req \in Requests /\ identities[Req.content] = None
        BY <3>2 DEF WriteOrigin, ServedInSteps, Importing, At
      <4> QED
        BY <1>1, <3>2, <4>1 DEF WriteOrigin, TypeOK
    <3>3. CASE ~ImportIdea /\ ~WriteOrigin
      BY <3>3 DEF Next, Serve, vars, stores, Receive, LookUp, Dispatch,
                  RecordCandidate, AddNote, ControlAppend, WriteAudit,
                  Answer, Fault, Restart
    <3> QED
      BY <3>1, <3>2, <3>3
  <2> QED
    BY <2>1, <2>2, <2>3, <2>4 DEF StoresGrow
<1>2. CASE identities[c] = None
  <2>1. RecordCandidate
    BY <1>2 DEF Next, Serve, vars, stores, Receive, LookUp, Dispatch,
                ImportIdea, WriteOrigin, AddNote, ControlAppend, WriteAudit,
                Answer, Fault, Restart
  <2>2. At("record") /\ Req \in Requests
    BY <2>1 DEF RecordCandidate, ServedInSteps, At
  <2>3. /\ Req.content = c /\ drafts' = drafts
        /\ identities'[c] = [agent |-> Req.agent, parent |-> Req.parent]
    BY <1>2, <2>1 DEF RecordCandidate, TypeOK
  <2>4. Req.parent \in Contents \cup {None}
    BY <2>2, RequestTyped
  <2>5. /\ drafts[c] # None /\ drafts[c] # <<>>
        /\ Head(drafts[c]) = Req.agent
        /\ Req.parent # None =>
              identities[Req.parent] # None \/ Req.parent \in torn
    BY <2>2, <2>3 DEF ServedInSteps, Importing, At
  <2>6. Req.parent # None =>
            identities'[Req.parent] # None \/ Req.parent \in torn'
    BY <2>4, <2>5 DEF StoresGrow
  <2> QED
    BY <2>3, <2>5, <2>6
<1> QED
  BY <1>1, <1>2

-----------------------------------------------------------------------------
(* The theorems *)

LEMMA InitInv == Init => GatewayInv
<1> SUFFICES ASSUME Init PROVE GatewayInv
  OBVIOUS
<1>1. TypeOK
  BY InitTyped
<1>2. \A c \in Contents : drafts[c] = None /\ identities[c] = None
  BY DEF Init
<1>3. \A q \in Ids : audit[q] = None /\ effects[q] = 0 /\ cut[q] = 0
  BY DEF Init
<1>4. server.pc = "idle"
  BY DEF Init, Idle
<1>5. ServedInSteps /\ NotAuditedYet /\ RowsHold /\ ResponseHolds
  BY <1>3, <1>4
     DEF ServedInSteps, NotAuditedYet, RowsHold, ResponseHolds, At, Importing
<1>6. EffectsAreCounted /\ EffectOnce
  BY <1>3, <1>4 DEF EffectsAreCounted, EffectOnce, Unaudited, At
<1>7. RequestIdIsBound /\ AcceptedIsDurable /\ CandidateRecordsAgree
  BY <1>2, <1>4
     DEF RequestIdIsBound, AcceptedIsDurable, CandidateRecordsAgree, At
<1>8. \A c \in Contents : DraftIsOwned(c)
  BY <1>2 DEF DraftIsOwned
<1> QED
  BY <1>1, <1>5, <1>6, <1>7, <1>8
     DEF GatewayInv, OneRequestOneEffect, RecordsAreKept

LEMMA NextInv ==
    ASSUME GatewayInv, [Next]_vars
    PROVE  GatewayInv'
<1>1. TypeOK'
  BY NextTyped DEF GatewayInv
<1>2. StoresGrow
  BY StoresOnlyGrow DEF GatewayInv
<1>3. /\ ServedInSteps' /\ NotAuditedYet' /\ ResponseHolds' /\ RowsHold'
      /\ EffectsAreCounted' /\ RequestIdIsBound' /\ AcceptedIsDurable'
      /\ CandidateRecordsAgree'
  BY <1>1, <1>2, ServedStep, AuditStep, ResponseStep, RowStep, EffectsStep,
     AnswerStep, CandidateStep
<1>4. (\A c \in Contents : DraftIsOwned(c))'
  BY <1>1, <1>2, DraftStep
<1>5. EffectOnce'
  BY <1>1, <1>3 DEF EffectsAreCounted, EffectOnce, TypeOK
<1> QED
  BY <1>1, <1>3, <1>4, <1>5
     DEF GatewayInv, OneRequestOneEffect, RecordsAreKept

\* The invariant from which the theorems below follow.
THEOREM GatewayInvariant == Spec => []GatewayInv
<1>1. Init => GatewayInv
  BY InitInv
<1>2. GatewayInv /\ [Next]_vars => GatewayInv'
  BY NextInv
<1> QED
  BY <1>1, <1>2, PTL DEF Spec

\* The stores hold rows of their tables, the server one request at a time.
THEOREM GatewayTypeCorrect == Spec => []TypeOK
<1>1. GatewayInv => TypeOK
  BY DEF GatewayInv
<1> QED
  BY <1>1, GatewayInvariant, PTL

\* A request id stands for one effect and one answer, whichever transactions
\* fail and however often the gateway is restarted.
THEOREM OneEffectPerRequest == Spec => []OneRequestOneEffect
<1>1. GatewayInv => OneRequestOneEffect
  BY DEF GatewayInv
<1> QED
  BY <1>1, GatewayInvariant, PTL

\* What the gateway accepted is on record, and its two databases agree on
\* every Candidate although no transaction spans them.
THEOREM AcceptedIsOnRecord == Spec => []RecordsAreKept
<1>1. GatewayInv => RecordsAreKept
  BY DEF GatewayInv
<1> QED
  BY <1>1, GatewayInvariant, PTL

\* No step of the gateway takes back a Candidate, a note, an audit row or a
\* draft: a restart and a retry only add to what is there.
THEOREM NothingIsTakenBack == Spec => [][StoresGrow]_vars
<1>1. GatewayInv /\ [Next]_vars => StoresGrow
  BY StoresOnlyGrow DEF GatewayInv
<1> QED
  BY <1>1, GatewayInvariant, PTL DEF Spec

=============================================================================
