-------------------------- MODULE FilterChainProofs --------------------------
(***************************************************************************)
(* Proofs about the validation filter chain, for every set of workers and  *)
(* replays, every choice of disturbances and any amount of file damage.    *)
(***************************************************************************)
EXTENDS FilterChain, TLAPS

-----------------------------------------------------------------------------
(* The inductive invariant *)

\* Where a chain has not looked at any stage yet.
ScreeningPc == {"compute", "evidence", "screening_manifest", "succeed"}

EntryPc == ScreeningPc \cup {"idle", "screening_except", "start"}

\* Where a chain holds the stage it reserved, and where it is at a stage.
OwnerPc == AdapterPc \cup {"except", "announce"}

StagePc == OwnerPc \cup {"look", "reserve", "validate", "handoff"}

Owns(c, s) == chains[c].pc \in OwnerPc /\ StageOf(c) = s

ScreeningPassed ==
    /\ screening.status = "succeeded" /\ screening.rows = "passed"
    /\ screening.evidence /\ screening.manifest

\* The flow writes the screening step by step, and nobody else does.
ScreeningInSteps ==
    /\ \A c \in Chains :
          /\ chains[c].pc \in ScreeningPc \cup {"screening_except"}
                => c \in Flows
          /\ chains[c].pc \in ScreeningPc => screening.status = "running"
          /\ chains[c].pc \in ScreeningPc \ {"compute"}
                => screening.rows # "none"
          /\ chains[c].pc \in {"screening_manifest", "succeed"}
                => screening.evidence
          /\ chains[c].pc = "succeed" => screening.manifest
    /\ screening.status = "succeeded" =>
          screening.rows # "none" /\ screening.evidence /\ screening.manifest

\* The locals of a chain that has not begun.
Untouched(c) ==
    /\ chains[c].n = 1 /\ chains[c].done = <<>> /\ ~chains[c].lock
    /\ chains[c].read = <<>> /\ chains[c].outcome = "none"
    /\ chains[c].unreadable = {}

\* A chain's locals fit its program counter.
InPlace(c) ==
    /\ chains[c].pc \in EntryPc => Untouched(c)
    /\ chains[c].pc \in StagePc =>
          /\ chains[c].n <= 4 /\ chains[c].outcome = "none"
          /\ ScreeningPassed
    /\ chains[c].pc \in {"gate", "decide"} =>
          chains[c].n = 5 /\ chains[c].outcome = "none"
    /\ chains[c].pc = "gate" => Len(chains[c].read) <= 2
    /\ chains[c].pc = "decide" => Len(chains[c].read) = 3
    /\ chains[c].pc = "handoff" => stages[StageOf(c)].status = "succeeded"

\* One chain at a time holds a stage, and only a stage nobody reserved has
\* not been computed.
OneOwner ==
    /\ \A s \in Stages :
          /\ invoked[s] <= 1
          /\ stages[s].status = "absent" => invoked[s] = 0
    /\ \A c \in Chains, s \in Stages : Owns(c, s) => stages[s].status # "absent"
    /\ \A c, d \in Chains, s \in Stages : Owns(c, s) /\ Owns(d, s) => c = d

\* What stands on record of a stage,
StageRecorded(s) ==
    /\ stages[s].status = "succeeded" => stages[s].manifest
    /\ stages[s].manifest => stages[s].registered
    /\ stages[s].registered =>
          stages[s].file # "none" /\ stages[s].status # "absent"
    /\ stages[s].file \in {"gone", "bad"} => damaged > 0

\* and what its owner has done to it so far.
StageInSteps(c, s) ==
    Owns(c, s) =>
        /\ chains[c].pc \in {"prepare", "inputs", "evaluate", "register"}
              => ~stages[s].registered
        /\ chains[c].pc \in {"prepare", "inputs", "evaluate", "register",
                             "manifest"} => ~stages[s].manifest
        /\ chains[c].pc = "register" => stages[s].file = "ok"
        /\ chains[c].pc = "manifest" => stages[s].registered
        /\ chains[c].pc = "complete" => stages[s].manifest

\* What a chain has passed is on record.
PassedOnRecord(c) ==
    /\ (chains[c].n > 1 \/ chains[c].outcome = "stopped") => ScreeningPassed
    /\ \A j \in 1..4 : j < chains[c].n =>
          /\ stages[Order[j]].status = "succeeded"
          /\ j <= 3 => StageMayProgress(Order[j], stages[Order[j]].verdict)
    /\ chains[c].n > 1 => chains[c].lock
    /\ chains[c].lock => stages["oos"].verdict = "passed" /\ chains[c].n > 1
    /\ chains[c].outcome = "screened_out" =>
          /\ screening.status = "succeeded" /\ screening.rows = "rejected"
          /\ chains[c].n = 1

\* What the gate has read is what is on record.
ReadOnRecord(c) ==
    /\ chains[c].n <= 4 => chains[c].read = <<>> /\ chains[c].unreadable = {}
    /\ Len(chains[c].read) <= 3
    /\ \A s \in chains[c].unreadable : stages[s].file \in {"gone", "bad"}
    /\ \A i \in 1..3 :
          (i <= Len(chains[c].read) /\ chains[c].read[i] = "passed") =>
             /\ GateOrder[i] \notin chains[c].unreadable
             /\ GateStageStatus(GateOrder[i], stages[GateOrder[i]].verdict)
                   = "passed"
    /\ chains[c].outcome = "ready" =>
          /\ chains[c].n = 5
          /\ Len(chains[c].read) = 3
          /\ \A i \in 1..3 : chains[c].read[i] = "passed"

\* The status a chain hands off when it can read the evidence.
HandedOff(i) ==
    IF i = 1
    THEN IF stages["oos"].verdict = "passed" THEN "passed" ELSE "invalid"
    ELSE stages[Order[i]].verdict

\* With an intact store, what a chain has handed off and read follows from
\* the stages alone, and so does where it stopped.
DoneFollows(c) ==
    LET n    == chains[c].n
        stop == chains[c].outcome = "stopped"
    IN
    /\ Len(chains[c].done) = IF stop THEN n ELSE n - 1
    /\ \A i \in 1..4 :
          i <= Len(chains[c].done) =>
             /\ chains[c].done[i] = HandedOff(i)
             /\ stages[Order[i]].status = "succeeded"
    /\ \A i \in 1..4 : i < n => StageMayProgress(Order[i], HandedOff(i))
    /\ stop => n <= 4 /\ ~StageMayProgress(Order[n], HandedOff(n))
    /\ \A i \in 1..3 : i <= Len(chains[c].read) => chains[c].read[i] = "passed"
    /\ n = 5 => chains[c].outcome \in {"none", "ready"}

ChainInv ==
    /\ TypeOK
    /\ ScreeningInSteps
    /\ OneOwner
    /\ \A s \in Stages : StageRecorded(s)
    /\ \A c \in Chains, s \in Stages : StageInSteps(c, s)
    /\ StagesInOrder
    /\ \A c \in Chains : InPlace(c) /\ PassedOnRecord(c) /\ ReadOnRecord(c)
    /\ damaged = 0 => \A c \in Chains : DoneFollows(c)
    /\ SurvivorIsEvidenced

-----------------------------------------------------------------------------
(* Type correctness *)

LEMMA OrderIs ==
    /\ Order[1] = "oos" /\ Order[2] = "walk_forward"
    /\ Order[3] = "robustness" /\ Order[4] = "monte_carlo"
    /\ Stages = {"oos", "walk_forward", "robustness", "monte_carlo"}
    /\ GateOrder[1] = "walk_forward" /\ GateOrder[2] = "monte_carlo"
    /\ GateOrder[3] = "robustness"
    /\ \A s \in Stages : \E i \in 1..4 : Order[i] = s
    /\ \A i, j \in 1..4 : Order[i] = Order[j] => i = j
    /\ \A i \in 1..4 : Order[i] \in Stages
    /\ \A i \in 1..3 : GateOrder[i] \in Stages
<1>1. /\ Order[1] = "oos" /\ Order[2] = "walk_forward"
      /\ Order[3] = "robustness" /\ Order[4] = "monte_carlo"
  BY DEF Order
<1>2. /\ GateOrder[1] = "walk_forward" /\ GateOrder[2] = "monte_carlo"
      /\ GateOrder[3] = "robustness"
  BY DEF GateOrder
<1>3. \A i \in 1..4 : i = 1 \/ i = 2 \/ i = 3 \/ i = 4
  OBVIOUS
<1>4. Stages = {"oos", "walk_forward", "robustness", "monte_carlo"}
  BY <1>1, <1>3 DEF Stages
<1>5. \A i, j \in 1..4 : Order[i] = Order[j] => i = j
  BY <1>1, <1>3
<1>6. \A s \in Stages : \E i \in 1..4 : Order[i] = s
  BY DEF Stages
<1>7. \A i \in 1..4 : Order[i] \in Stages
  BY DEF Stages
<1>8. \A i \in 1..3 : GateOrder[i] \in Stages
  BY <1>2, <1>4
<1> QED
  BY <1>1, <1>2, <1>4, <1>5, <1>6, <1>7, <1>8

\* A move of the program counter changes one chain, and of it nothing else.
LEMMA GotoEffect ==
    ASSUME TypeOK, NEW c \in Chains, NEW pc \in ChainPc, Goto(c, pc)
    PROVE  /\ chains' \in [Chains -> ChainRecord]
           /\ chains'[c] = [chains[c] EXCEPT !.pc = pc]
           /\ \A d \in Chains : d # c => chains'[d] = chains[d]
BY DEF TypeOK, Goto, ChainRecord

LEMMA EndEffect ==
    ASSUME TypeOK, NEW c \in Chains, NEW o \in Outcomes, End(c, o)
    PROVE  /\ chains' \in [Chains -> ChainRecord]
           /\ chains'[c].outcome = o
           /\ chains'[c].pc = IF o \in Decisions /\ c \notin Workers
                              THEN "record" ELSE "done"
           /\ chains'[c].n = chains[c].n /\ chains'[c].done = chains[c].done
           /\ chains'[c].lock = chains[c].lock
           /\ chains'[c].read = chains[c].read
           /\ chains'[c].unreadable = chains[c].unreadable
           /\ \A d \in Chains : d # c => chains'[d] = chains[d]
<1>1. "record" \in ChainPc /\ "done" \in ChainPc
  BY DEF ChainPc
<1> QED
  BY <1>1 DEF TypeOK, End, ChainRecord

LEMMA UpdateTyped ==
    ASSUME TypeOK, NEW s \in Stages
    PROVE  /\ \A v \in RunStatus :
                 Update(s, "status", v) => stages' \in [Stages -> StageRecord]
           /\ \A v \in Files :
                 Update(s, "file", v) => stages' \in [Stages -> StageRecord]
           /\ \A f \in {"inputs", "registered", "manifest", "announced"} :
                 Update(s, f, TRUE) => stages' \in [Stages -> StageRecord]
<1>1. /\ \A v \in RunStatus :
            [stages EXCEPT ![s].status = v] \in [Stages -> StageRecord]
      /\ \A v \in Files :
            [stages EXCEPT ![s].file = v] \in [Stages -> StageRecord]
      /\ [stages EXCEPT ![s].inputs = TRUE] \in [Stages -> StageRecord]
      /\ [stages EXCEPT ![s].registered = TRUE] \in [Stages -> StageRecord]
      /\ [stages EXCEPT ![s].manifest = TRUE] \in [Stages -> StageRecord]
      /\ [stages EXCEPT ![s].announced = TRUE] \in [Stages -> StageRecord]
  BY DEF TypeOK, StageRecord
<1> QED
  BY <1>1 DEF Update

LEMMA VerdictsTyped ==
    ASSUME TypeOK, NEW s \in Stages
    PROVE  /\ VerdictsOf(s) \subseteq Verdicts
           /\ StageOutcome(s) \in Verdicts
           /\ GateReads(s) \in Verdicts
<1>1. VerdictsOf(s) \subseteq Verdicts
  BY DEF VerdictsOf, Verdicts
<1>2. stages[s].verdict \in Verdicts
  BY DEF TypeOK, StageRecord
<1>3. MissingEvidenceStatus(Retrieval(s)) \in Verdicts
  BY DEF MissingEvidenceStatus, Verdicts
<1>4. GateStageStatus(s, stages[s].verdict) \in Verdicts
  BY <1>2 DEF GateStageStatus, Verdicts
<1> QED
  BY <1>1, <1>2, <1>3, <1>4 DEF StageOutcome, GateReads

LEMMA StageOfTyped ==
    ASSUME TypeOK, NEW c \in Chains, InPlace(c), chains[c].pc \in StagePc
    PROVE  /\ chains[c].n \in 1..4
           /\ StageOf(c) \in Stages
<1>1. chains[c].n \in 1..4
  BY DEF TypeOK, ChainRecord, InPlace
<1> QED
  BY <1>1, OrderIs DEF StageOf

LEMMA InitTyped == Init => TypeOK
<1> SUFFICES ASSUME Init PROVE TypeOK
  OBVIOUS
<1>1. NoStage \in StageRecord
  BY DEF NoStage, StageRecord, RunStatus, Files, Verdicts
<1>2. \A pc \in ChainPc : FreshChain(pc) \in ChainRecord
  BY DEF FreshChain, ChainRecord, Outcomes
<1>3. "compute" \in ChainPc /\ "idle" \in ChainPc
  BY DEF ChainPc
<1>4. \A c \in Chains :
          FreshChain(IF c \in Flows THEN "compute" ELSE "idle") \in ChainRecord
  BY <1>2, <1>3
<1>5. screening \in ScreeningRecord
  BY DEF Init, ScreeningRecord
<1> QED
  BY <1>1, <1>4, <1>5, ChainDisturbances DEF Init, TypeOK

\* The handoff and the gate reads, whose locals are sequences.
LEMMA HandoffTyped ==
    ASSUME ChainInv, NEW c \in Chains, Handoff(c)
    PROVE  chains' \in [Chains -> ChainRecord]
<1> DEFINE s  == StageOf(c)
           v  == IF s = "oos"
                 THEN IF SourceLockRetrievable THEN "passed" ELSE "invalid"
                 ELSE StageOutcome(s)
           go == StageMayProgress(s, v)
           pc == CASE ~go -> IF c \in Workers THEN "done" ELSE "record"
                   [] go /\ chains[c].n = 4 -> "gate"
                   [] OTHER                 -> "look"
           un == {t \in Stages : go /\ s = "monte_carlo"
                                 /\ stages[t].file /= "ok"}
<1>1. TypeOK /\ InPlace(c) /\ chains[c].pc = "handoff"
  BY DEF ChainInv, Handoff
<1>2. s \in Stages /\ chains[c].n \in 1..4
  BY <1>1, StageOfTyped DEF StagePc
<1>3. v \in Verdicts
  BY <1>1, <1>2, VerdictsTyped DEF Verdicts
<1>4. chains[c] \in ChainRecord
  BY <1>1 DEF TypeOK
<1>5. Append(chains[c].done, v) \in Seq(Verdicts)
  BY <1>3, <1>4 DEF ChainRecord
<1>6. pc \in ChainPc
  BY DEF ChainPc
<1>7. /\ (chains[c].lock \/ (s = "oos" /\ go)) \in BOOLEAN
      /\ (IF go THEN chains[c].n + 1 ELSE chains[c].n) \in 1..5
      /\ (IF go THEN chains[c].outcome ELSE "stopped") \in Outcomes
      /\ un \in SUBSET Stages
  BY <1>2, <1>4 DEF ChainRecord, Outcomes
<1>8. chains' = [chains EXCEPT
           ![c].done = Append(@, v),
           ![c].lock = @ \/ (s = "oos" /\ go),
           ![c].n = IF go THEN @ + 1 ELSE @,
           ![c].outcome = IF go THEN @ ELSE "stopped",
           ![c].unreadable = un,
           ![c].pc = pc]
  BY DEF Handoff
<1> HIDE DEF v, go, pc, un, s
<1>9. [chains[c] EXCEPT
           !.done = Append(@, v),
           !.lock = @ \/ (s = "oos" /\ go),
           !.n = IF go THEN @ + 1 ELSE @,
           !.outcome = IF go THEN @ ELSE "stopped",
           !.unreadable = un,
           !.pc = pc] \in ChainRecord
  BY <1>4, <1>5, <1>6, <1>7 DEF ChainRecord
<1> QED
  BY <1>1, <1>8, <1>9 DEF TypeOK

LEMMA GateReadTyped ==
    ASSUME ChainInv, NEW c \in Chains, GateRead(c)
    PROVE  chains' \in [Chains -> ChainRecord]
<1> DEFINE i == Len(chains[c].read) + 1
           pc == IF Len(chains[c].read) = 2 THEN "decide" ELSE "gate"
<1>1. TypeOK /\ InPlace(c) /\ chains[c].pc = "gate"
  BY DEF ChainInv, GateRead
<1>2. chains[c] \in ChainRecord /\ i \in 1..3
  BY <1>1 DEF TypeOK, ChainRecord, InPlace
<1>3. GateReads(GateOrder[i]) \in Verdicts
  BY <1>1, <1>2, OrderIs, VerdictsTyped
<1>4. Append(chains[c].read, GateReads(GateOrder[i])) \in Seq(Verdicts)
  BY <1>2, <1>3 DEF ChainRecord
<1>5. pc \in ChainPc
  BY DEF ChainPc
<1>6. chains' = [chains EXCEPT
          ![c].read = Append(@, GateReads(GateOrder[i])), ![c].pc = pc]
  BY <1>2 DEF GateRead, ChainRecord, TypeOK
<1> HIDE DEF i, pc
<1>7. [chains[c] EXCEPT !.read = Append(@, GateReads(GateOrder[i])),
                        !.pc = pc] \in ChainRecord
  BY <1>2, <1>4, <1>5 DEF ChainRecord
<1> QED
  BY <1>1, <1>6, <1>7 DEF TypeOK

\* Reserve and Evaluate change a stage in more than one field.
LEMMA StageWorkTyped ==
    ASSUME ChainInv, NEW c \in Chains, Reserve(c) \/ Evaluate(c)
    PROVE  /\ stages' \in [Stages -> StageRecord]
           /\ invoked' \in [Stages -> Nat]
           /\ chains' \in [Chains -> ChainRecord]
<1> DEFINE s == StageOf(c)
<1>1. TypeOK /\ InPlace(c) /\ chains[c].pc \in StagePc
  BY DEF ChainInv, Reserve, Evaluate, StagePc, OwnerPc, AdapterPc
<1>2. s \in Stages
  BY <1>1, StageOfTyped
<1>3. {"prepare", "validate", "register", "except"} \subseteq ChainPc
  BY DEF ChainPc, AdapterPc
<1>4. CASE Reserve(c)
  <2>1. chains' \in [Chains -> ChainRecord]
    BY <1>1, <1>3, <1>4, GotoEffect DEF Reserve
  <2>2. "created" \in RunStatus
    BY DEF RunStatus
  <2>3. stages' \in [Stages -> StageRecord]
    BY <1>1, <1>2, <1>4, <2>2, UpdateTyped DEF Reserve, TypeOK
  <2>4. invoked' \in [Stages -> Nat]
    BY <1>1, <1>2, <1>4 DEF Reserve, TypeOK
  <2> QED
    BY <2>1, <2>3, <2>4
<1>5. CASE Evaluate(c)
  <2>1. chains' \in [Chains -> ChainRecord]
    BY <1>1, <1>3, <1>5, GotoEffect DEF Evaluate
  <2>2. \A v \in VerdictsOf(s) :
            [stages EXCEPT ![s].verdict = v, ![s].file = "ok"]
               \in [Stages -> StageRecord]
    <3>1. VerdictsOf(s) \subseteq Verdicts /\ "ok" \in Files
      BY <1>1, <1>2, VerdictsTyped DEF Files
    <3> QED
      BY <1>1, <3>1 DEF TypeOK, StageRecord
  <2>3. stages' \in [Stages -> StageRecord]
    BY <1>1, <1>5, <2>2 DEF Evaluate, TypeOK
  <2> QED
    BY <1>1, <1>5, <2>1, <2>3 DEF Evaluate, TypeOK
<1> QED
  BY <1>4, <1>5

LEMMA NextTyped == ChainInv /\ [Next]_vars => TypeOK'
<1> SUFFICES ASSUME ChainInv, [Next]_vars PROVE TypeOK'
  OBVIOUS
<1>0. TypeOK
  BY DEF ChainInv
<1>a. /\ {"evidence", "screening_manifest", "succeed", "start", "look",
          "reserve", "inputs", "evaluate", "manifest", "complete", "returned",
          "validate", "except", "announce", "handoff", "done", "dead",
          "screening_except"} \subseteq ChainPc
      /\ {"created", "running", "succeeded", "failed"} \subseteq RunStatus
      /\ {"screening_failed", "incomplete", "refused", "screened_out",
          "unknown", "ready", "stopped"} \subseteq Outcomes
  BY DEF ChainPc, AdapterPc, RunStatus, Outcomes
<1>1. ASSUME NEW c \in Chains,
             \/ PersistInputs(c) \/ PersistScreeningEvidence(c)
             \/ PersistScreeningManifest(c) \/ SucceedScreening(c)
             \/ FailScreening(c) \/ ScreeningRaises(c)
      PROVE  TypeOK'
  <2>1. chains' \in [Chains -> ChainRecord]
    BY <1>0, <1>1, <1>a, GotoEffect, EndEffect
       DEF PersistInputs, PersistScreeningEvidence, PersistScreeningManifest,
           SucceedScreening, FailScreening, ScreeningRaises
  <2>2. screening' \in ScreeningRecord
    BY <1>0, <1>1
       DEF PersistInputs, PersistScreeningEvidence, PersistScreeningManifest,
           SucceedScreening, FailScreening, ScreeningRaises, TypeOK,
           ScreeningRecord
  <2> QED
    BY <1>0, <1>1, <2>1, <2>2
       DEF PersistInputs, PersistScreeningEvidence, PersistScreeningManifest,
           SucceedScreening, FailScreening, ScreeningRaises, TypeOK
<1>2. ASSUME NEW c \in Chains, Enter(c)
      PROVE  TypeOK'
  <2>1. FreshChain("start") \in ChainRecord
    BY <1>a DEF FreshChain, ChainRecord, Outcomes
  <2> QED
    BY <1>0, <1>2, <2>1 DEF Enter, TypeOK
<1>3. ASSUME NEW c \in Chains,
             \/ Start(c) \/ Look(c) \/ AdapterReturns(c)
             \/ ValidateReference(c) \/ AdapterRaises(c) \/ Crash(c)
      PROVE  TypeOK'
  <2>1. chains' \in [Chains -> ChainRecord]
    BY <1>0, <1>3, <1>a, GotoEffect, EndEffect
       DEF Start, Look, AdapterReturns, ValidateReference, AdapterRaises, Crash
  <2> QED
    BY <1>0, <1>3, <2>1
       DEF Start, Look, AdapterReturns, ValidateReference, AdapterRaises,
           Crash, TypeOK
<1>4. ASSUME NEW c \in Chains, Reserve(c) \/ Evaluate(c)
      PROVE  TypeOK'
  BY <1>0, <1>4, StageWorkTyped DEF Reserve, Evaluate, TypeOK
<1>5. ASSUME NEW c \in Chains,
             \/ PrepareStage(c) \/ AttachInputs(c) \/ RegisterEvidence(c)
             \/ ManifestEvidence(c) \/ CompleteStage(c) \/ HandleException(c)
             \/ AnnounceFailure(c)
      PROVE  TypeOK'
  <2>1. chains[c].pc \in StagePc /\ InPlace(c)
    BY <1>5 DEF ChainInv, StagePc, OwnerPc, AdapterPc, PrepareStage,
                AttachInputs, RegisterEvidence, ManifestEvidence,
                CompleteStage, HandleException, AnnounceFailure
  <2>2. StageOf(c) \in Stages
    BY <1>0, <2>1, StageOfTyped
  <2>3. chains' \in [Chains -> ChainRecord]
    BY <1>0, <1>5, <1>a, GotoEffect, EndEffect
       DEF PrepareStage, AttachInputs, RegisterEvidence, ManifestEvidence,
           CompleteStage, HandleException, AnnounceFailure
  <2>4. stages' \in [Stages -> StageRecord]
    BY <1>0, <1>5, <1>a, <2>2, UpdateTyped
       DEF PrepareStage, AttachInputs, RegisterEvidence, ManifestEvidence,
           CompleteStage, HandleException, AnnounceFailure, TypeOK
  <2> QED
    BY <1>0, <1>5, <2>3, <2>4
       DEF PrepareStage, AttachInputs, RegisterEvidence, ManifestEvidence,
           CompleteStage, HandleException, AnnounceFailure, TypeOK
<1>6. ASSUME NEW c \in Chains, Handoff(c) \/ GateRead(c)
      PROVE  TypeOK'
  BY <1>0, <1>6, HandoffTyped, GateReadTyped DEF Handoff, GateRead, TypeOK
<1>7. ASSUME NEW c \in Chains, GateDecide(c) \/ Record(c)
      PROVE  TypeOK'
  <2>1. chains' \in [Chains -> ChainRecord]
    BY <1>0, <1>7, <1>a, GotoEffect, EndEffect DEF GateDecide, Record
  <2> QED
    BY <1>0, <1>7, <2>1 DEF GateDecide, Record, TypeOK
<1>8. ASSUME NEW s \in Stages, DamageFile(s)
      PROVE  TypeOK'
  <2>1. "gone" \in Files /\ "bad" \in Files
    BY DEF Files
  <2>2. stages' \in [Stages -> StageRecord]
    BY <1>0, <1>8, <2>1, UpdateTyped DEF DamageFile
  <2> QED
    BY <1>0, <1>8, <2>2, ChainDisturbances DEF DamageFile, TypeOK
<1>9. CASE UNCHANGED vars
  BY <1>0, <1>9 DEF vars, TypeOK
<1> QED
  BY <1>1, <1>2, <1>3, <1>4, <1>5, <1>6, <1>7, <1>8, <1>9 DEF Next, ChainStep

-----------------------------------------------------------------------------
(* What a step leaves alone *)

\* What is on record stays there.
RecordStays ==
    /\ screening.status = "succeeded" => UNCHANGED screening
    /\ \A s \in Stages :
          /\ stages[s].status \in {"succeeded", "failed"}
                => stages'[s].status = stages[s].status
          /\ stages[s].manifest
                => stages'[s].manifest /\ stages'[s].verdict = stages[s].verdict
          /\ stages[s].registered =>
                /\ stages'[s].registered
                /\ stages[s].file \in {"gone", "bad"}
                      => stages'[s].file \in {"gone", "bad"}
          /\ stages[s].status # "absent" => stages'[s].status # "absent"
    /\ damaged' = 0 => damaged = 0

\* The steps of a stage's owner.
OwnerStep(c) ==
    \/ PrepareStage(c) \/ AttachInputs(c) \/ Evaluate(c) \/ RegisterEvidence(c)
    \/ ManifestEvidence(c) \/ CompleteStage(c) \/ HandleException(c)
    \/ AnnounceFailure(c)

\* The steps that change no stage.
QuietStep(c) ==
    \/ Start(c) \/ Look(c) \/ AdapterReturns(c) \/ AdapterRaises(c)
    \/ ValidateReference(c) \/ Handoff(c) \/ GateRead(c) \/ GateDecide(c)
    \/ Record(c) \/ Crash(c) \/ Enter(c)

ScreeningStep(c) ==
    \/ PersistInputs(c) \/ PersistScreeningEvidence(c)
    \/ PersistScreeningManifest(c) \/ SucceedScreening(c)
    \/ FailScreening(c) \/ ScreeningRaises(c)

LEMMA NextSteps ==
    Next => \/ \E c \in Chains : \/ OwnerStep(c) \/ QuietStep(c)
                                 \/ ScreeningStep(c) \/ Reserve(c)
            \/ \E s \in Stages : DamageFile(s)
BY DEF Next, ChainStep, OwnerStep, QuietStep, ScreeningStep

LEMMA OwnerIsAtStage ==
    ASSUME ChainInv, NEW c \in Chains, chains[c].pc \in OwnerPc
    PROVE  /\ StageOf(c) \in Stages /\ chains[c].n \in 1..4
           /\ Owns(c, StageOf(c)) /\ StageInSteps(c, StageOf(c))
           /\ stages[StageOf(c)] \in StageRecord
           /\ stages[StageOf(c)].status # "absent"
           /\ StageRecorded(StageOf(c))
<1>1. TypeOK /\ InPlace(c) /\ chains[c].pc \in StagePc
  BY DEF ChainInv, StagePc
<1>2. StageOf(c) \in Stages /\ chains[c].n \in 1..4
  BY <1>1, StageOfTyped
<1>3. Owns(c, StageOf(c))
  BY DEF Owns
<1> QED
  BY <1>1, <1>2, <1>3 DEF ChainInv, OneOwner, TypeOK

\* An owner's step changes its own stage only, and that one in order.
LEMMA OwnerStepEffect ==
    ASSUME ChainInv, NEW c \in Chains, OwnerStep(c)
    PROVE  LET s == StageOf(c) IN
           /\ chains[c].pc \in OwnerPc
           /\ UNCHANGED <<screening, survivors, invoked, damaged>>
           /\ \A t \in Stages : t # s => stages'[t] = stages[t]
           /\ stages[s].status \in {"succeeded", "failed"}
                 => stages'[s].status = stages[s].status
           /\ stages'[s].status # "absent"
           /\ stages[s].manifest => /\ stages'[s].manifest
                                    /\ stages'[s].verdict = stages[s].verdict
           /\ stages[s].registered => /\ stages'[s].registered
                                      /\ stages'[s].file = stages[s].file
<1> DEFINE s == StageOf(c)
<1>1. chains[c].pc \in OwnerPc
  BY DEF OwnerStep, PrepareStage, AttachInputs, Evaluate, RegisterEvidence,
         ManifestEvidence, CompleteStage, HandleException, AnnounceFailure,
         OwnerPc, AdapterPc
<1>2. /\ s \in Stages /\ Owns(c, s) /\ StageInSteps(c, s)
      /\ stages[s] \in StageRecord /\ stages[s].status # "absent"
  BY <1>1, OwnerIsAtStage
<1>3. DOMAIN stages = Stages
  BY DEF ChainInv, TypeOK
<1>4. CASE PrepareStage(c)
  BY <1>1, <1>2, <1>3, <1>4 DEF PrepareStage, Update, StageRecord
<1>5. CASE AttachInputs(c)
  BY <1>1, <1>2, <1>3, <1>5 DEF AttachInputs, Update, StageRecord
<1>6. CASE Evaluate(c)
  <2>1. ~stages[s].manifest /\ ~stages[s].registered
    BY <1>2, <1>6 DEF Evaluate, StageInSteps
  <2> QED
    BY <1>1, <1>2, <1>3, <1>6, <2>1 DEF Evaluate, StageRecord
<1>7. CASE RegisterEvidence(c)
  BY <1>1, <1>2, <1>3, <1>7 DEF RegisterEvidence, Update, StageRecord
<1>8. CASE ManifestEvidence(c)
  BY <1>1, <1>2, <1>3, <1>8 DEF ManifestEvidence, Update, StageRecord
<1>9. CASE CompleteStage(c)
  BY <1>1, <1>2, <1>3, <1>9 DEF CompleteStage, Update, StageRecord
<1>10. CASE HandleException(c)
  BY <1>1, <1>2, <1>3, <1>10 DEF HandleException, Update, StageRecord
<1>11. CASE AnnounceFailure(c)
  BY <1>1, <1>2, <1>3, <1>11 DEF AnnounceFailure, Update, StageRecord
<1> QED
  BY <1>4, <1>5, <1>6, <1>7, <1>8, <1>9, <1>10, <1>11 DEF OwnerStep

LEMMA QuietStepEffect ==
    ASSUME NEW c \in Chains, QuietStep(c)
    PROVE  UNCHANGED <<screening, stages, invoked, damaged>>
BY DEF QuietStep, Start, Look, AdapterReturns, AdapterRaises,
       ValidateReference, Handoff, GateRead, GateDecide, Record, Crash, Enter

LEMMA ScreeningStepEffect ==
    ASSUME ChainInv, NEW c \in Chains, ScreeningStep(c)
    PROVE  /\ UNCHANGED <<stages, survivors, invoked, damaged>>
           /\ screening.status = "succeeded" => UNCHANGED screening
<1>1. UNCHANGED <<stages, survivors, invoked, damaged>>
  BY DEF ScreeningStep, PersistInputs, PersistScreeningEvidence,
         PersistScreeningManifest, SucceedScreening, FailScreening,
         ScreeningRaises
<1>2. /\ ScreeningInSteps
      /\ screening \in ScreeningRecord
  BY DEF ChainInv, TypeOK
<1>3. ASSUME chains[c].pc \in ScreeningPc PROVE screening.status = "running"
  BY <1>2, <1>3 DEF ScreeningInSteps
<1>4. CASE FailScreening(c)
  BY <1>1, <1>2, <1>4 DEF FailScreening, ScreeningRecord
<1>5. CASE ScreeningRaises(c)
  BY <1>1, <1>5 DEF ScreeningRaises
<1>6. CASE ~FailScreening(c) /\ ~ScreeningRaises(c)
  BY <1>1, <1>3, <1>6
     DEF ScreeningStep, PersistInputs, PersistScreeningEvidence,
         PersistScreeningManifest, SucceedScreening, ScreeningPc
<1> QED
  BY <1>4, <1>5, <1>6

LEMMA ReserveEffect ==
    ASSUME ChainInv, NEW c \in Chains, Reserve(c)
    PROVE  LET s == StageOf(c) IN
           /\ s \in Stages /\ chains[c].n \in 1..4
           /\ UNCHANGED <<screening, survivors, damaged>>
           /\ \A t \in Stages : t # s => /\ stages'[t] = stages[t]
                                         /\ invoked'[t] = invoked[t]
           /\ stages[s].status = "absent" =>
                 /\ stages'[s] = [stages[s] EXCEPT !.status = "created"]
                 /\ invoked'[s] = invoked[s] + 1
                 /\ Goto(c, "prepare")
           /\ stages[s].status # "absent" =>
                 UNCHANGED <<stages, invoked>> /\ Goto(c, "validate")
<1> DEFINE s == StageOf(c)
<1>1. TypeOK /\ InPlace(c) /\ chains[c].pc \in StagePc
  BY DEF ChainInv, Reserve, StagePc
<1>2. s \in Stages /\ chains[c].n \in 1..4
  BY <1>1, StageOfTyped
<1>3. DOMAIN stages = Stages /\ DOMAIN invoked = Stages
      /\ stages[s] \in StageRecord /\ invoked[s] \in Nat
  BY <1>1, <1>2 DEF TypeOK
<1> QED
  BY <1>2, <1>3 DEF Reserve, Update

LEMMA DamageEffect ==
    ASSUME ChainInv, NEW s \in Stages, DamageFile(s)
    PROVE  /\ UNCHANGED <<screening, chains, survivors, invoked>>
           /\ damaged' = damaged + 1 /\ damaged \in Nat
           /\ \A t \in Stages : t # s => stages'[t] = stages[t]
           /\ stages[s].file = "ok" /\ stages[s].registered
           /\ stages'[s].file \in {"gone", "bad"}
           /\ stages'[s].status = stages[s].status
           /\ stages'[s].verdict = stages[s].verdict
           /\ stages'[s].manifest = stages[s].manifest
           /\ stages'[s].registered = stages[s].registered
<1>1. /\ damaged \in Nat
      /\ DOMAIN stages = Stages /\ stages[s] \in StageRecord
  BY ChainDisturbances DEF ChainInv, TypeOK
<1>2. PICK f \in {"gone", "bad"} : stages' = [stages EXCEPT ![s].file = f]
  BY DEF DamageFile, Update
<1>3. /\ \A t \in Stages : t # s => stages'[t] = stages[t]
      /\ stages'[s] = [stages[s] EXCEPT !.file = f]
  BY <1>1, <1>2
<1>4. /\ stages'[s].file = f
      /\ stages'[s].status = stages[s].status
      /\ stages'[s].verdict = stages[s].verdict
      /\ stages'[s].manifest = stages[s].manifest
      /\ stages'[s].registered = stages[s].registered
  BY <1>1, <1>3 DEF StageRecord
<1> QED
  BY <1>1, <1>3, <1>4 DEF DamageFile

LEMMA RecordKept == ChainInv /\ Next => RecordStays
<1> SUFFICES ASSUME ChainInv, Next PROVE RecordStays
  OBVIOUS
<1>1. ASSUME NEW c \in Chains, OwnerStep(c) PROVE RecordStays
  <2> DEFINE s == StageOf(c)
  <2>1. /\ UNCHANGED <<screening, damaged>>
        /\ \A t \in Stages : t # s => stages'[t] = stages[t]
        /\ stages[s].status \in {"succeeded", "failed"}
              => stages'[s].status = stages[s].status
        /\ stages'[s].status # "absent"
        /\ stages[s].manifest => /\ stages'[s].manifest
                                 /\ stages'[s].verdict = stages[s].verdict
        /\ stages[s].registered => /\ stages'[s].registered
                                   /\ stages'[s].file = stages[s].file
    BY <1>1, OwnerStepEffect
  <2> HIDE DEF s
  <2> QED
    BY <2>1 DEF RecordStays
<1>2. ASSUME NEW c \in Chains, QuietStep(c) PROVE RecordStays
  BY <1>2, QuietStepEffect DEF RecordStays
<1>3. ASSUME NEW c \in Chains, ScreeningStep(c) PROVE RecordStays
  BY <1>3, ScreeningStepEffect DEF RecordStays
<1>4. ASSUME NEW c \in Chains, Reserve(c) PROVE RecordStays
  <2>1. stages[StageOf(c)] \in StageRecord
    BY <1>4, ReserveEffect DEF ChainInv, TypeOK
  <2> DEFINE s == StageOf(c)
  <2>2. /\ UNCHANGED <<screening, damaged>>
        /\ \A t \in Stages : t # s => stages'[t] = stages[t]
        /\ stages[s].status = "absent" =>
              stages'[s] = [stages[s] EXCEPT !.status = "created"]
        /\ stages[s].status # "absent" => UNCHANGED stages
    BY <1>4, ReserveEffect
  <2>3. stages[s].status = "absent" =>
           /\ stages'[s].status = "created"
           /\ stages'[s].verdict = stages[s].verdict
           /\ stages'[s].manifest = stages[s].manifest
           /\ stages'[s].registered = stages[s].registered
           /\ stages'[s].file = stages[s].file
    BY <2>1, <2>2 DEF StageRecord
  <2> HIDE DEF s
  <2>4. CASE stages[s].status = "absent"
    <3>1. ASSUME NEW t \in Stages
          PROVE  /\ stages[t].status # "absent" =>
                        stages'[t].status = stages[t].status
                 /\ stages'[t].status # "absent" \/ t # s
                 /\ stages'[t].verdict = stages[t].verdict
                 /\ stages'[t].manifest = stages[t].manifest
                 /\ stages'[t].registered = stages[t].registered
                 /\ stages'[t].file = stages[t].file
      BY <2>2, <2>3, <2>4
    <3> QED
      BY <2>2, <2>4, <3>1 DEF RecordStays
  <2>5. CASE stages[s].status # "absent"
    BY <2>2, <2>5 DEF RecordStays
  <2> QED
    BY <2>4, <2>5
<1>5. ASSUME NEW s \in Stages, DamageFile(s) PROVE RecordStays
  <2>2. /\ UNCHANGED screening /\ damaged' # 0
        /\ stages'[s].file \in {"gone", "bad"}
        /\ \A t \in Stages : t # s => stages'[t] = stages[t]
    BY <1>5, DamageEffect
  <2>3. /\ stages'[s].status = stages[s].status
        /\ stages'[s].verdict = stages[s].verdict
        /\ stages'[s].manifest = stages[s].manifest
        /\ stages'[s].registered = stages[s].registered
    BY <1>5, DamageEffect
  <2>4. ASSUME NEW t \in Stages
        PROVE  /\ stages'[t].status = stages[t].status
               /\ stages'[t].verdict = stages[t].verdict
               /\ stages'[t].manifest = stages[t].manifest
               /\ stages'[t].registered = stages[t].registered
               /\ stages[t].file \in {"gone", "bad"}
                     => stages'[t].file \in {"gone", "bad"}
    BY <2>2, <2>3
  <2> QED
    BY <2>2, <2>4 DEF RecordStays
<1> QED
  BY <1>1, <1>2, <1>3, <1>4, <1>5, NextSteps

-----------------------------------------------------------------------------
(* What a chain relies on *)

LocalsKept(c) ==
    /\ chains'[c].n = chains[c].n
    /\ chains'[c].done = chains[c].done
    /\ chains'[c].lock = chains[c].lock
    /\ chains'[c].read = chains[c].read
    /\ chains'[c].outcome = chains[c].outcome
    /\ chains'[c].unreadable = chains[c].unreadable

\* The chain ends with outcome o and keeps its other locals.
EndsWith(c, o) ==
    /\ chains'[c].n = chains[c].n
    /\ chains'[c].done = chains[c].done
    /\ chains'[c].lock = chains[c].lock
    /\ chains'[c].read = chains[c].read
    /\ chains'[c].outcome = o
    /\ chains'[c].unreadable = chains[c].unreadable

\* A stage that succeeded keeps what a chain may have read of it.
LEMMA SucceededStays ==
    ASSUME ChainInv, RecordStays, NEW s \in Stages,
           stages[s].status = "succeeded"
    PROVE  /\ stages'[s].status = "succeeded"
           /\ stages[s].manifest /\ stages'[s].manifest
           /\ stages[s].registered /\ stages'[s].registered
           /\ stages'[s].verdict = stages[s].verdict
           /\ stages[s].file \in {"gone", "bad"}
                 => stages'[s].file \in {"gone", "bad"}
<1>1. stages[s].manifest /\ stages[s].registered
  BY DEF ChainInv, StageRecorded
<1> QED
  BY <1>1 DEF RecordStays

\* A chain that has passed all four stages has them on record.
LEMMA AllSucceeded ==
    ASSUME ChainInv, NEW c \in Chains, chains[c].n = 5
    PROVE  /\ \A s \in Stages : stages[s].status = "succeeded"
           /\ \A i \in 1..3 :
                 StageMayProgress(Order[i], stages[Order[i]].verdict)
           /\ ScreeningPassed /\ chains[c].lock
           /\ stages["oos"].verdict = "passed"
<1>1. PassedOnRecord(c)
  BY DEF ChainInv
<1>2. \A j \in 1..4 : j < chains[c].n
  OBVIOUS
<1>3. \A j \in 1..4 : stages[Order[j]].status = "succeeded"
  BY <1>1, <1>2 DEF PassedOnRecord
<1>4. \A i \in 1..3 : StageMayProgress(Order[i], stages[Order[i]].verdict)
  BY <1>1, <1>2 DEF PassedOnRecord
<1> QED
  BY <1>1, <1>3, <1>4, OrderIs DEF PassedOnRecord

LEMMA ScreeningPassedStays ==
    ASSUME RecordStays, ScreeningPassed
    PROVE  ScreeningPassed'
BY DEF RecordStays, ScreeningPassed

LEMMA PassedKept ==
    ASSUME ChainInv, RecordStays, NEW c \in Chains, LocalsKept(c)
    PROVE  PassedOnRecord(c)'
<1>1. PassedOnRecord(c) /\ chains[c].n \in 1..5
  BY DEF ChainInv, TypeOK, ChainRecord
<1>2. (chains[c].n > 1 \/ chains[c].outcome = "stopped") => ScreeningPassed'
  BY <1>1, ScreeningPassedStays DEF PassedOnRecord
<1>3. ASSUME NEW j \in 1..4, j < chains[c].n
      PROVE  /\ stages'[Order[j]].status = "succeeded"
             /\ stages'[Order[j]].verdict = stages[Order[j]].verdict
  BY <1>1, <1>3, OrderIs, SucceededStays DEF PassedOnRecord
<1>4. \A j \in 1..4 : j < chains[c].n =>
          /\ stages'[Order[j]].status = "succeeded"
          /\ j <= 3 => StageMayProgress(Order[j], stages'[Order[j]].verdict)
  BY <1>1, <1>3 DEF PassedOnRecord
<1>5. chains[c].lock => stages'["oos"].verdict = "passed" /\ chains[c].n > 1
  <2>1. chains[c].lock => 1 < chains[c].n /\ stages["oos"].verdict = "passed"
    BY <1>1 DEF PassedOnRecord
  <2> QED
    BY <2>1, <1>3, OrderIs
<1>6. chains[c].n > 1 => chains[c].lock
  BY <1>1 DEF PassedOnRecord
<1>7. chains[c].outcome = "screened_out" =>
          /\ screening'.status = "succeeded" /\ screening'.rows = "rejected"
          /\ chains[c].n = 1
  BY <1>1 DEF PassedOnRecord, RecordStays
<1> QED
  BY <1>2, <1>4, <1>5, <1>6, <1>7 DEF PassedOnRecord, LocalsKept

LEMMA ReadKept ==
    ASSUME ChainInv, RecordStays, NEW c \in Chains, LocalsKept(c)
    PROVE  ReadOnRecord(c)'
<1>1. ReadOnRecord(c) /\ chains[c] \in ChainRecord
  BY DEF ChainInv, TypeOK
<1>2. CASE chains[c].n <= 4
  <2>1. chains[c].read = <<>> /\ chains[c].unreadable = {}
        /\ chains[c].outcome # "ready"
    BY <1>1, <1>2 DEF ReadOnRecord
  <2> QED
    BY <1>2, <2>1 DEF ReadOnRecord, LocalsKept
<1>3. CASE chains[c].n = 5
  <2>1. \A s \in Stages :
            /\ stages'[s].verdict = stages[s].verdict
            /\ stages[s].file \in {"gone", "bad"}
                  => stages'[s].file \in {"gone", "bad"}
    BY <1>3, AllSucceeded, SucceededStays
  <2>2. \A i \in 1..3 : stages'[GateOrder[i]].verdict
                           = stages[GateOrder[i]].verdict
    BY <2>1, OrderIs
  <2>3. \A s \in chains[c].unreadable : stages'[s].file \in {"gone", "bad"}
    BY <1>1, <2>1 DEF ReadOnRecord, ChainRecord
  <2> QED
    BY <1>1, <1>3, <2>2, <2>3 DEF ReadOnRecord, LocalsKept
<1> QED
  BY <1>1, <1>2, <1>3 DEF ChainRecord

LEMMA HandedOffStays ==
    ASSUME ChainInv, RecordStays, NEW i \in 1..4,
           stages[Order[i]].status = "succeeded"
    PROVE  HandedOff(i)' = HandedOff(i)
<1>1. stages'[Order[i]].verdict = stages[Order[i]].verdict
  BY OrderIs, SucceededStays
<1> QED
  BY <1>1, OrderIs DEF HandedOff

LEMMA FollowsKept ==
    ASSUME ChainInv, RecordStays, damaged' = 0, NEW c \in Chains,
           LocalsKept(c)
    PROVE  DoneFollows(c)'
<1> DEFINE n == chains[c].n
<1>1. /\ DoneFollows(c) /\ PassedOnRecord(c) /\ n \in 1..5
      /\ Len(chains[c].done) \in Nat
  BY DEF ChainInv, RecordStays, TypeOK, ChainRecord
<1>2. \A i \in 1..4 : i <= Len(chains[c].done) =>
          /\ HandedOff(i)' = HandedOff(i)
          /\ chains[c].done[i] = HandedOff(i)
          /\ stages'[Order[i]].status = "succeeded"
  BY <1>1, HandedOffStays, SucceededStays, OrderIs DEF DoneFollows
<1>3. \A i \in 1..4 : i < n =>
          /\ HandedOff(i)' = HandedOff(i)
          /\ StageMayProgress(Order[i], HandedOff(i))
  BY <1>1, HandedOffStays DEF PassedOnRecord, DoneFollows
<1>4. chains[c].outcome = "stopped" =>
          \E i \in 1..4 :
             /\ i = n /\ ~StageMayProgress(Order[i], HandedOff(i))
             /\ HandedOff(i)' = HandedOff(i)
  <2>1. chains[c].outcome = "stopped" =>
            /\ n <= 4 /\ Len(chains[c].done) = n
            /\ ~StageMayProgress(Order[n], HandedOff(n))
    BY <1>1 DEF DoneFollows
  <2> HIDE DEF n
  <2> QED
    BY <1>1, <1>2, <2>1
<1>5. /\ Len(chains[c].done) =
            IF chains[c].outcome = "stopped" THEN n ELSE n - 1
      /\ \A i \in 1..3 :
            i <= Len(chains[c].read) => chains[c].read[i] = "passed"
      /\ n = 5 => chains[c].outcome \in {"none", "ready"}
  BY <1>1 DEF DoneFollows
<1> HIDE DEF n
<1>6. /\ chains'[c].n = n /\ chains'[c].done = chains[c].done
      /\ chains'[c].read = chains[c].read
      /\ chains'[c].outcome = chains[c].outcome
  BY DEF LocalsKept, n
<1>7. \A i \in 1..4 :
          i <= Len(chains'[c].done) =>
             /\ chains'[c].done[i] = HandedOff(i)'
             /\ stages'[Order[i]].status = "succeeded"
  BY <1>2, <1>6
<1>8. \A i \in 1..4 :
          i < chains'[c].n => StageMayProgress(Order[i], HandedOff(i)')
  BY <1>3, <1>6
<1>9. chains'[c].outcome = "stopped" =>
          \E i \in 1..4 :
             i = chains'[c].n /\ ~StageMayProgress(Order[i], HandedOff(i)')
  BY <1>4, <1>6
<1>10. \A i \in 1..4 : StageMayProgress(Order[i], HandedOff(i))'
                          <=> StageMayProgress(Order[i], HandedOff(i)')
  BY DEF StageMayProgress
<1>11. chains'[c].outcome = "stopped" =>
          chains'[c].n <= 4
          /\ ~StageMayProgress(Order[chains[c].n], HandedOff(chains[c].n))'
  BY <1>9, <1>10
<1> QED
  BY <1>5, <1>6, <1>7, <1>8, <1>10, <1>11 DEF DoneFollows

-----------------------------------------------------------------------------
(* The screening and the owners of the stages *)

\* Where a chain can be after a step that changes no stage and no screening.
LEMMA QuietMove ==
    ASSUME ChainInv, NEW c \in Chains, QuietStep(c)
    PROVE  /\ \A d \in Chains : d # c => chains'[d] = chains[d]
           /\ chains'[c].pc \in {"start", "look", "reserve", "validate",
                  "except", "handoff", "gate", "decide", "record", "done",
                  "dead"}
           /\ chains'[c].pc = "except" =>
                  chains[c].pc \in OwnerPc /\ chains'[c].n = chains[c].n
<1>0. TypeOK /\ chains[c] \in ChainRecord /\ DOMAIN chains = Chains
  BY DEF ChainInv, TypeOK
<1>a. /\ {"look", "reserve", "validate", "except", "handoff", "done",
          "dead"} \subseteq ChainPc
      /\ {"screened_out", "refused", "incomplete", "ready", "stopped"}
            \subseteq Outcomes
  BY DEF ChainPc, AdapterPc, Outcomes
<1>1. CASE \/ Start(c) \/ Look(c) \/ ValidateReference(c) \/ GateDecide(c)
           \/ AdapterReturns(c) \/ AdapterRaises(c) \/ Record(c) \/ Crash(c)
  <2>1. \/ \E pc \in {"look", "reserve", "validate", "handoff", "done",
                      "dead"} : Goto(c, pc)
        \/ chains[c].pc \in OwnerPc /\ Goto(c, "except")
        \/ \E o \in {"screened_out", "refused", "incomplete", "ready",
                     "stopped"} : End(c, o)
    BY <1>1 DEF Start, Look, ValidateReference, GateDecide, AdapterReturns,
                AdapterRaises, Record, Crash, OwnerPc
  <2>2. CASE \E pc \in {"look", "reserve", "validate", "handoff", "done",
                        "dead"} : Goto(c, pc)
    <3>1. PICK pc \in {"look", "reserve", "validate", "handoff", "done",
                       "dead"} : Goto(c, pc)
      BY <2>2
    <3>2. /\ \A d \in Chains : d # c => chains'[d] = chains[d]
          /\ chains'[c] = [chains[c] EXCEPT !.pc = pc]
      BY <1>0, <1>a, <3>1, GotoEffect
    <3>3. chains'[c].pc = pc
      BY <1>0, <3>2 DEF ChainRecord
    <3> QED
      BY <3>2, <3>3
  <2>3. CASE chains[c].pc \in OwnerPc /\ Goto(c, "except")
    <3>1. /\ \A d \in Chains : d # c => chains'[d] = chains[d]
          /\ chains'[c] = [chains[c] EXCEPT !.pc = "except"]
      BY <1>0, <1>a, <2>3, GotoEffect
    <3>2. chains'[c].pc = "except" /\ chains'[c].n = chains[c].n
      BY <1>0, <3>1 DEF ChainRecord
    <3> QED
      BY <2>3, <3>1, <3>2
  <2>4. CASE \E o \in {"screened_out", "refused", "incomplete", "ready",
                       "stopped"} : End(c, o)
    <3>1. PICK o \in {"screened_out", "refused", "incomplete", "ready",
                      "stopped"} : End(c, o)
      BY <2>4
    <3>2. /\ \A d \in Chains : d # c => chains'[d] = chains[d]
          /\ chains'[c].pc \in {"record", "done"}
      BY <1>0, <1>a, <3>1, EndEffect
    <3> QED
      BY <3>2
  <2> QED
    BY <2>1, <2>2, <2>3, <2>4
<1>2. CASE Handoff(c)
  BY <1>0, <1>2 DEF Handoff, ChainRecord
<1>3. CASE GateRead(c)
  BY <1>0, <1>3 DEF GateRead, ChainRecord
<1>4. CASE Enter(c)
  BY <1>0, <1>4 DEF Enter, FreshChain
<1> QED
  BY <1>1, <1>2, <1>3, <1>4 DEF QuietStep

\* An owner's step moves the owner on, or out of the stage.
LEMMA OwnerMove ==
    ASSUME ChainInv, NEW c \in Chains, OwnerStep(c)
    PROVE  /\ \A d \in Chains : d # c => chains'[d] = chains[d]
           /\ \/ /\ LocalsKept(c)
                 /\ chains'[c].pc \in OwnerPc \cup {"validate"}
                 /\ chains'[c].pc # "prepare"
              \/ /\ chains[c].pc = "announce" /\ chains'[c].pc = "done"
                 /\ EndsWith(c, "unknown")
<1>0. TypeOK /\ chains[c] \in ChainRecord
  BY DEF ChainInv, TypeOK
<1>a. /\ {"inputs", "evaluate", "register", "manifest", "complete",
          "returned", "except", "announce", "validate"} \subseteq ChainPc
      /\ "unknown" \in Outcomes /\ "unknown" \notin Decisions
  BY DEF ChainPc, AdapterPc, Outcomes, Decisions
<1>1. CASE AnnounceFailure(c)
  <2>1. /\ \A d \in Chains : d # c => chains'[d] = chains[d]
        /\ chains'[c].pc = "done" /\ EndsWith(c, "unknown")
    BY <1>0, <1>a, <1>1, EndEffect DEF AnnounceFailure, EndsWith
  <2> QED
    BY <1>1, <2>1 DEF AnnounceFailure
<1>2. CASE ~AnnounceFailure(c)
  <2>1. \E pc \in {"inputs", "evaluate", "register", "manifest", "complete",
                   "returned", "except", "announce", "validate"} : Goto(c, pc)
    BY <1>2 DEF OwnerStep, PrepareStage, AttachInputs, Evaluate,
                RegisterEvidence, ManifestEvidence, CompleteStage,
                HandleException
  <2>2. PICK pc \in {"inputs", "evaluate", "register", "manifest", "complete",
                     "returned", "except", "announce", "validate"} :
               Goto(c, pc)
    BY <2>1
  <2>3. pc \in ChainPc /\ pc \in OwnerPc \cup {"validate"} /\ pc # "prepare"
    BY <1>a DEF OwnerPc, AdapterPc
  <2>4. /\ chains'[c] = [chains[c] EXCEPT !.pc = pc]
        /\ \A d \in Chains : d # c => chains'[d] = chains[d]
    BY <1>0, <2>2, <2>3, GotoEffect
  <2>5. LocalsKept(c) /\ chains'[c].pc = pc
    BY <1>0, <2>4 DEF LocalsKept, ChainRecord
  <2> QED
    BY <2>3, <2>4, <2>5
<1> QED
  BY <1>1, <1>2

\* A reservation makes an owner, or sends the chain to the stage's record.
LEMMA ReserveMove ==
    ASSUME ChainInv, NEW c \in Chains, Reserve(c)
    PROVE  /\ \A d \in Chains : d # c => chains'[d] = chains[d]
           /\ LocalsKept(c)
           /\ chains[c].pc = "reserve"
           /\ chains'[c].pc = IF stages[StageOf(c)].status = "absent"
                              THEN "prepare" ELSE "validate"
<1>0. TypeOK /\ chains[c] \in ChainRecord
  BY DEF ChainInv, TypeOK
<1>1. "prepare" \in ChainPc /\ "validate" \in ChainPc
  BY DEF ChainPc, AdapterPc
<1>2. CASE stages[StageOf(c)].status = "absent"
  <2>1. /\ \A d \in Chains : d # c => chains'[d] = chains[d]
        /\ chains'[c] = [chains[c] EXCEPT !.pc = "prepare"]
    BY <1>0, <1>1, <1>2, GotoEffect DEF Reserve
  <2>2. LocalsKept(c) /\ chains'[c].pc = "prepare"
    BY <1>0, <2>1 DEF LocalsKept, ChainRecord
  <2> QED
    BY <1>2, <2>1, <2>2 DEF Reserve
<1>3. CASE stages[StageOf(c)].status # "absent"
  <2>1. /\ \A d \in Chains : d # c => chains'[d] = chains[d]
        /\ chains'[c] = [chains[c] EXCEPT !.pc = "validate"]
    BY <1>0, <1>1, <1>3, GotoEffect DEF Reserve
  <2>2. LocalsKept(c) /\ chains'[c].pc = "validate"
    BY <1>0, <2>1 DEF LocalsKept, ChainRecord
  <2> QED
    BY <1>3, <2>1, <2>2 DEF Reserve
<1> QED
  BY <1>2, <1>3

\* The flow's own steps.
LEMMA ScreeningMove ==
    ASSUME ChainInv, NEW c \in Chains, ScreeningStep(c)
    PROVE  /\ \A d \in Chains : d # c => chains'[d] = chains[d]
           /\ c \in Flows
           /\ Untouched(c)
           /\ \/ chains'[c].pc \in EntryPc /\ LocalsKept(c)
              \/ chains'[c].pc = "done" /\ EndsWith(c, "screening_failed")
<1>0. /\ TypeOK /\ chains[c] \in ChainRecord
      /\ InPlace(c) /\ ScreeningInSteps
  BY DEF ChainInv, TypeOK
<1>a. /\ {"evidence", "screening_manifest", "succeed", "start",
          "screening_except"} \subseteq ChainPc \cap EntryPc
      /\ "screening_failed" \in Outcomes /\ "screening_failed" \notin Decisions
  BY DEF ChainPc, Outcomes, Decisions, EntryPc, ScreeningPc
<1>1. chains[c].pc \in ScreeningPc \cup {"screening_except"}
  BY DEF ScreeningStep, PersistInputs, PersistScreeningEvidence,
         PersistScreeningManifest, SucceedScreening, FailScreening,
         ScreeningRaises, ScreeningPc
<1>2. c \in Flows /\ Untouched(c)
  BY <1>0, <1>1 DEF ScreeningInSteps, InPlace, EntryPc
<1>3. CASE FailScreening(c)
  <2>1. /\ \A d \in Chains : d # c => chains'[d] = chains[d]
        /\ chains'[c].pc = "done" /\ EndsWith(c, "screening_failed")
    BY <1>0, <1>a, <1>3, EndEffect DEF FailScreening, EndsWith
  <2> QED
    BY <1>2, <2>1
<1>4. CASE ~FailScreening(c)
  <2>1. \E pc \in {"evidence", "screening_manifest", "succeed", "start",
                   "screening_except"} : Goto(c, pc)
    BY <1>4 DEF ScreeningStep, PersistInputs, PersistScreeningEvidence,
                PersistScreeningManifest, SucceedScreening, ScreeningRaises
  <2>2. PICK pc \in {"evidence", "screening_manifest", "succeed", "start",
                     "screening_except"} : Goto(c, pc)
    BY <2>1
  <2>3. /\ chains'[c] = [chains[c] EXCEPT !.pc = pc]
        /\ \A d \in Chains : d # c => chains'[d] = chains[d]
    BY <1>0, <1>a, <2>2, GotoEffect
  <2>4. chains'[c].pc = pc /\ LocalsKept(c)
    BY <1>0, <2>3 DEF LocalsKept, ChainRecord
  <2> QED
    BY <1>2, <1>a, <2>3, <2>4
<1> QED
  BY <1>3, <1>4

LEMMA NextScreeningInSteps == ChainInv /\ Next => ScreeningInSteps'
<1> SUFFICES ASSUME ChainInv, Next PROVE ScreeningInSteps'
  OBVIOUS
<1>0. ScreeningInSteps /\ TypeOK
  BY DEF ChainInv
<1>1. ASSUME NEW c \in Chains, UNCHANGED screening,
             \A d \in Chains : d # c => chains'[d] = chains[d],
             chains'[c].pc \notin ScreeningPc \cup {"screening_except"}
      PROVE  ScreeningInSteps'
  BY <1>0, <1>1 DEF ScreeningInSteps, ScreeningPc
<1>2. ASSUME NEW c \in Chains, OwnerStep(c) PROVE ScreeningInSteps'
  <2>1. chains[c] \in ChainRecord
    BY <1>0 DEF TypeOK
  <2>2. chains'[c].pc \notin ScreeningPc \cup {"screening_except"}
    BY <1>2, <2>1, OwnerMove
       DEF OwnerPc, AdapterPc, ScreeningPc, ChainRecord
  <2> QED
    BY <1>1, <1>2, <2>2, OwnerMove, OwnerStepEffect
<1>3. ASSUME NEW c \in Chains, QuietStep(c) PROVE ScreeningInSteps'
  <2>1. chains'[c].pc \notin ScreeningPc \cup {"screening_except"}
    BY <1>3, QuietMove DEF ScreeningPc
  <2> QED
    BY <1>1, <1>3, <2>1, QuietMove, QuietStepEffect
<1>4. ASSUME NEW c \in Chains, Reserve(c) PROVE ScreeningInSteps'
  <2>1. chains'[c].pc \notin ScreeningPc \cup {"screening_except"}
    BY <1>4, ReserveMove DEF ScreeningPc
  <2> QED
    BY <1>1, <1>4, <2>1, ReserveMove, ReserveEffect
<1>5. ASSUME NEW s \in Stages, DamageFile(s) PROVE ScreeningInSteps'
  BY <1>0, <1>5, DamageEffect DEF ScreeningInSteps
<1>6. ASSUME NEW c \in Chains, ScreeningStep(c) PROVE ScreeningInSteps'
  <2>1. /\ c \in Flows /\ \A d \in Chains : d # c => chains'[d] = chains[d]
        /\ \A d \in Chains : d # c => d \notin Flows
    BY <1>6, ScreeningMove, ProcessesAreDistinct
  <2>2. \A d \in Chains : d # c =>
            chains'[d].pc \notin ScreeningPc \cup {"screening_except"}
    BY <1>0, <2>1 DEF ScreeningInSteps
  <2>3. chains[c] \in ChainRecord /\ DOMAIN chains = Chains
        /\ screening \in ScreeningRecord
    BY <1>0 DEF TypeOK
  <2>4. /\ chains'[c].pc \in ScreeningPc => screening'.status = "running"
        /\ chains'[c].pc \in ScreeningPc \ {"compute"}
              => screening'.rows # "none"
        /\ chains'[c].pc \in {"screening_manifest", "succeed"}
              => screening'.evidence
        /\ chains'[c].pc = "succeed" => screening'.manifest
        /\ screening'.status = "succeeded" =>
              /\ screening'.rows # "none" /\ screening'.evidence
              /\ screening'.manifest
    <3>1. CASE PersistInputs(c)
      BY <1>0, <2>3, <3>1 DEF PersistInputs, Goto, ScreeningInSteps,
         ScreeningPc, ScreeningRecord, ChainRecord
    <3>2. CASE PersistScreeningEvidence(c)
      BY <1>0, <2>3, <3>2 DEF PersistScreeningEvidence, Goto,
         ScreeningInSteps, ScreeningPc, ScreeningRecord, ChainRecord
    <3>3. CASE PersistScreeningManifest(c)
      BY <1>0, <2>3, <3>3 DEF PersistScreeningManifest, Goto,
         ScreeningInSteps, ScreeningPc, ScreeningRecord, ChainRecord
    <3>4. CASE SucceedScreening(c)
      BY <1>0, <2>3, <3>4 DEF SucceedScreening, Goto, ScreeningInSteps,
         ScreeningPc, ScreeningRecord, ChainRecord
    <3>5. CASE ScreeningRaises(c)
      BY <1>0, <2>3, <3>5 DEF ScreeningRaises, Goto, ScreeningInSteps,
         ScreeningPc, ScreeningRecord, ChainRecord
    <3>6. CASE FailScreening(c)
      BY <1>0, <2>3, <3>6 DEF FailScreening, End, Decisions,
         ScreeningInSteps, ScreeningPc, ScreeningRecord, ChainRecord
    <3> QED
      BY <1>6, <3>1, <3>2, <3>3, <3>4, <3>5, <3>6 DEF ScreeningStep
  <2> QED
    BY <2>1, <2>2, <2>4 DEF ScreeningInSteps, ScreeningPc
<1> QED
  BY <1>2, <1>3, <1>4, <1>5, <1>6, NextSteps

\* A chain that was not moved, or that did not become an owner, owns what it
\* owned.
LEMMA OwnsBefore ==
    ASSUME NEW d \in Chains, NEW s,
           chains'[d].pc \in OwnerPc =>
              chains[d].pc \in OwnerPc /\ chains'[d].n = chains[d].n,
           Owns(d, s)'
    PROVE  Owns(d, s)
BY DEF Owns, StageOf

LEMMA NextOneOwner == ChainInv /\ Next => OneOwner'
<1> SUFFICES ASSUME ChainInv, Next PROVE OneOwner'
  OBVIOUS
<1>0. OneOwner /\ TypeOK /\ RecordStays
  BY RecordKept DEF ChainInv
<1>1. ASSUME NEW c \in Chains,
             UNCHANGED invoked,
             \A d \in Chains : d # c => chains'[d] = chains[d],
             chains'[c].pc \in OwnerPc =>
                chains[c].pc \in OwnerPc /\ chains'[c].n = chains[c].n
      PROVE  OneOwner'
  <2>1. \A d \in Chains, s \in Stages : Owns(d, s)' => Owns(d, s)
    BY <1>1, OwnsBefore
  <2>2. \A s \in Stages :
            /\ invoked'[s] <= 1
            /\ stages'[s].status = "absent" => invoked'[s] = 0
    BY <1>0, <1>1 DEF OneOwner, RecordStays
  <2>3. \A d \in Chains, s \in Stages :
            Owns(d, s)' => stages'[s].status # "absent"
    BY <1>0, <2>1 DEF OneOwner, RecordStays
  <2>4. \A d, e \in Chains, s \in Stages :
            Owns(d, s)' /\ Owns(e, s)' => d = e
    BY <1>0, <2>1 DEF OneOwner
  <2> QED
    BY <2>2, <2>3, <2>4 DEF OneOwner
<1>2. ASSUME NEW c \in Chains, OwnerStep(c) PROVE OneOwner'
  <2>1. "done" \notin OwnerPc
    BY DEF OwnerPc, AdapterPc
  <2> QED
    BY <1>1, <1>2, <2>1, OwnerMove, OwnerStepEffect DEF LocalsKept
<1>3. ASSUME NEW c \in Chains, QuietStep(c) PROVE OneOwner'
  <2>1. /\ chains'[c].pc \in {"start", "look", "reserve", "validate",
               "except", "handoff", "gate", "decide", "record", "done", "dead"}
        /\ chains'[c].pc = "except" =>
               chains[c].pc \in OwnerPc /\ chains'[c].n = chains[c].n
    BY <1>3, QuietMove
  <2>2. chains'[c].pc \in OwnerPc => chains'[c].pc = "except"
    BY <2>1 DEF OwnerPc, AdapterPc
  <2> QED
    BY <1>1, <1>3, <2>1, <2>2, QuietMove, QuietStepEffect
<1>4. ASSUME NEW c \in Chains, ScreeningStep(c) PROVE OneOwner'
  <2>1. chains'[c].pc \in EntryPc \cup {"done"}
    BY <1>4, ScreeningMove
  <2>2. chains'[c].pc \notin OwnerPc
    BY <2>1 DEF EntryPc, ScreeningPc, OwnerPc, AdapterPc
  <2> QED
    BY <1>1, <1>4, <2>2, ScreeningMove, ScreeningStepEffect
<1>5. ASSUME NEW c \in Chains, Reserve(c) PROVE OneOwner'
  <2> DEFINE s == StageOf(c)
  <2>0. s \in Stages /\ "validate" \notin OwnerPc
    BY <1>5, ReserveEffect DEF OwnerPc, AdapterPc
  <2>1. CASE stages[s].status # "absent"
    BY <1>1, <1>5, <2>0, <2>1, ReserveMove, ReserveEffect
  <2>2. CASE stages[s].status = "absent"
    <3>1. /\ \A t \in Stages : t # s => /\ stages'[t] = stages[t]
                                        /\ invoked'[t] = invoked[t]
          /\ invoked'[s] = invoked[s] + 1
          /\ \A d \in Chains : d # c => chains'[d] = chains[d]
          /\ chains'[c].n = chains[c].n
      BY <1>5, <2>2, ReserveMove, ReserveEffect DEF LocalsKept
    <3>2. stages'[s].status = "created"
      <4>1. stages[s] \in StageRecord
        BY <1>0, <2>0 DEF TypeOK
      <4>2. stages'[s] = [stages[s] EXCEPT !.status = "created"]
        BY <1>5, <2>2, ReserveEffect
      <4> QED
        BY <4>1, <4>2 DEF StageRecord
    <3>3. \A d \in Chains, t \in Stages :
              Owns(d, t)' => (d = c /\ t = s) \/ Owns(d, t)
      <4>1. \A d \in Chains, t \in Stages :
                d # c /\ Owns(d, t)' => Owns(d, t)
        BY <3>1, OwnsBefore
      <4>2. \A t \in Stages : Owns(c, t)' => t = s
        BY <3>1 DEF Owns, StageOf
      <4> QED
        BY <4>1, <4>2
    <3>4. \A d \in Chains : ~Owns(d, s)
      BY <1>0, <2>0, <2>2 DEF OneOwner
    <3>5. invoked[s] = 0
      BY <1>0, <2>0, <2>2 DEF OneOwner
    <3> HIDE DEF s
    <3>6. \A t \in Stages :
              /\ invoked'[t] <= 1
              /\ stages'[t].status = "absent" => invoked'[t] = 0
      <4> SUFFICES ASSUME NEW t \in Stages
                   PROVE  /\ invoked'[t] <= 1
                          /\ stages'[t].status = "absent" => invoked'[t] = 0
        OBVIOUS
      <4>1. CASE t = s
        BY <3>1, <3>2, <3>5, <4>1
      <4>2. CASE t # s
        BY <1>0, <3>1, <4>2 DEF OneOwner
      <4> QED
        BY <4>1, <4>2
    <3>7. \A d \in Chains, t \in Stages :
              Owns(d, t)' => stages'[t].status # "absent"
      BY <1>0, <3>2, <3>3 DEF OneOwner, RecordStays
    <3>8. \A d, e \in Chains, t \in Stages :
              Owns(d, t)' /\ Owns(e, t)' => d = e
      BY <1>0, <3>3, <3>4 DEF OneOwner
    <3> QED
      BY <3>6, <3>7, <3>8 DEF OneOwner
  <2> QED
    BY <2>1, <2>2
<1>6. ASSUME NEW t \in Stages, DamageFile(t) PROVE OneOwner'
  <2>1. \A d \in Chains, s \in Stages : Owns(d, s)' => Owns(d, s)
    BY <1>6, DamageEffect DEF Owns, StageOf
  <2>2. UNCHANGED invoked
    BY <1>6, DamageEffect
  <2> QED
    BY <1>0, <2>1, <2>2 DEF OneOwner, RecordStays
<1> QED
  BY <1>2, <1>3, <1>4, <1>5, <1>6, NextSteps

\* The stage records: what the owner's step leaves of its own stage.
LEMMA OwnerStepRecord ==
    ASSUME ChainInv, NEW c \in Chains, OwnerStep(c)
    PROVE  StageRecorded(StageOf(c))' /\ StageInSteps(c, StageOf(c))'
<1> DEFINE s == StageOf(c)
<1>1. /\ chains[c].pc \in OwnerPc
      /\ s \in Stages /\ Owns(c, s) /\ StageInSteps(c, s) /\ StageRecorded(s)
      /\ stages[s] \in StageRecord /\ chains[c] \in ChainRecord
      /\ stages[s].status # "absent"
      /\ DOMAIN stages = Stages /\ DOMAIN chains = Chains /\ TypeOK
  BY OwnerStepEffect, OwnerIsAtStage DEF ChainInv, TypeOK
<1>2. damaged' = damaged
  BY OwnerStepEffect
<1>3. StageOf(c)' = s
  BY <1>1, OwnerMove DEF LocalsKept, EndsWith, StageOf
<1>a. "done" \notin OwnerPc /\ "validate" \notin OwnerPc
  BY DEF OwnerPc, AdapterPc
<1> HIDE DEF s
<1>4. SUFFICES
        /\ stages'[s].status = "succeeded" => stages'[s].manifest
        /\ stages'[s].manifest => stages'[s].registered
        /\ stages'[s].registered =>
              stages'[s].file # "none" /\ stages'[s].status # "absent"
        /\ stages'[s].file \in {"gone", "bad"} => damaged > 0
        /\ chains'[c].pc \in {"prepare", "inputs", "evaluate", "register"}
              => ~stages'[s].registered
        /\ chains'[c].pc \in {"prepare", "inputs", "evaluate", "register",
                              "manifest"} => ~stages'[s].manifest
        /\ chains'[c].pc = "register" => stages'[s].file = "ok"
        /\ chains'[c].pc = "manifest" => stages'[s].registered
        /\ chains'[c].pc = "complete" => stages'[s].manifest
  BY <1>2, <1>3 DEF StageRecorded, StageInSteps
<1>5. CASE PrepareStage(c)
  BY <1>1, <1>5 DEF PrepareStage, Update, Goto, StageRecorded, StageInSteps,
                    StageRecord, ChainRecord, s
<1>6. CASE AttachInputs(c)
  BY <1>1, <1>6 DEF AttachInputs, Update, Goto, StageRecorded, StageInSteps,
                    StageRecord, ChainRecord, s
<1>7. CASE Evaluate(c)
  <2>1. ~stages[s].registered /\ ~stages[s].manifest
        /\ (stages[s].file \in {"gone", "bad"} => damaged > 0)
        /\ stages[s].status # "succeeded"
    BY <1>1, <1>7 DEF Evaluate, StageInSteps, StageRecorded
  <2>2. \/ /\ \E v : stages' = [stages EXCEPT ![s].verdict = v, ![s].file = "ok"]
           /\ chains'[c].pc = "register"
        \/ UNCHANGED stages /\ chains'[c].pc = "except"
    BY <1>1, <1>7 DEF Evaluate, Goto, ChainRecord, s
  <2>3. CASE UNCHANGED stages /\ chains'[c].pc = "except"
    BY <1>1, <2>1, <2>3
  <2>4. CASE /\ \E v : stages' = [stages EXCEPT ![s].verdict = v, ![s].file = "ok"]
             /\ chains'[c].pc = "register"
    <3>1. PICK v : stages' = [stages EXCEPT ![s].verdict = v, ![s].file = "ok"]
      BY <2>4
    <3>2. /\ stages'[s].registered = stages[s].registered
          /\ stages'[s].manifest = stages[s].manifest
          /\ stages'[s].status = stages[s].status
          /\ stages'[s].file = "ok"
      BY <1>1, <3>1 DEF StageRecord
    <3> QED
      BY <2>1, <2>4, <3>2
  <2> QED
    BY <2>2, <2>3, <2>4
<1>8. CASE RegisterEvidence(c)
  BY <1>1, <1>8 DEF RegisterEvidence, Update, Goto, StageRecorded,
                    StageInSteps, StageRecord, ChainRecord, s
<1>9. CASE ManifestEvidence(c)
  BY <1>1, <1>9 DEF ManifestEvidence, Update, Goto, StageRecorded,
                    StageInSteps, StageRecord, ChainRecord, s
<1>10. CASE CompleteStage(c)
  BY <1>1, <1>10 DEF CompleteStage, Update, Goto, StageRecorded,
                     StageInSteps, StageRecord, ChainRecord, s
<1>11. CASE HandleException(c)
  <2>1. /\ chains'[c].pc \in {"validate", "announce"}
        /\ \/ UNCHANGED stages
           \/ stages' = [stages EXCEPT ![s].status = "failed"]
    BY <1>1, <1>11 DEF HandleException, Update, Goto, ChainRecord, s
  <2>2. CASE UNCHANGED stages
    BY <1>1, <2>1, <2>2 DEF StageRecorded
  <2>3. CASE stages' = [stages EXCEPT ![s].status = "failed"]
    BY <1>1, <2>1, <2>3 DEF StageRecorded, StageRecord
  <2> QED
    BY <2>1, <2>2, <2>3
<1>12. CASE AnnounceFailure(c)
  BY <1>1, <1>12 DEF AnnounceFailure, Update, End, StageRecorded,
                     StageInSteps, StageRecord, ChainRecord, Decisions, s
<1> QED
  BY <1>5, <1>6, <1>7, <1>8, <1>9, <1>10, <1>11, <1>12 DEF OwnerStep

LEMMA NextStageFacts ==
    ChainInv /\ Next => /\ \A s \in Stages : StageRecorded(s)'
                        /\ \A c \in Chains, s \in Stages : StageInSteps(c, s)'
<1> SUFFICES ASSUME ChainInv, Next
             PROVE  /\ \A s \in Stages : StageRecorded(s)'
                    /\ \A c \in Chains, s \in Stages : StageInSteps(c, s)'
  OBVIOUS
<1>0. /\ TypeOK /\ OneOwner
      /\ \A s \in Stages : StageRecorded(s)
      /\ \A c \in Chains, s \in Stages : StageInSteps(c, s)
  BY DEF ChainInv
\* Stages and chains that the step leaves alone.
<1>1. ASSUME NEW s \in Stages, stages'[s] = stages[s], damaged' = damaged
      PROVE  StageRecorded(s)'
  BY <1>0, <1>1 DEF StageRecorded
<1>2. ASSUME NEW s \in Stages, stages'[s] = stages[s],
             NEW d \in Chains, chains'[d] = chains[d]
      PROVE  StageInSteps(d, s)'
  BY <1>0, <1>2 DEF StageInSteps, Owns, StageOf
<1>3. ASSUME NEW c \in Chains, UNCHANGED <<stages, damaged>>,
             \A d \in Chains : d # c => chains'[d] = chains[d],
             chains'[c].pc \in OwnerPc => chains'[c].pc = "except"
      PROVE  /\ \A s \in Stages : StageRecorded(s)'
             /\ \A d \in Chains, s \in Stages : StageInSteps(d, s)'
  <2>1. \A s \in Stages : StageInSteps(c, s)'
    BY <1>3 DEF StageInSteps, Owns
  <2> QED
    BY <1>1, <1>2, <1>3, <2>1
<1>4. ASSUME NEW c \in Chains, OwnerStep(c)
      PROVE  /\ \A s \in Stages : StageRecorded(s)'
             /\ \A d \in Chains, s \in Stages : StageInSteps(d, s)'
  <2>0. PICK t \in Stages : t = StageOf(c) /\ t = StageOf(c)'
    <3>1. StageOf(c) \in Stages
      BY <1>4, OwnerStepEffect, OwnerIsAtStage
    <3>2. StageOf(c)' = StageOf(c)
      BY <1>4, OwnerMove DEF LocalsKept, EndsWith, StageOf
    <3> QED
      BY <3>1, <3>2
  <2>1. /\ \A s \in Stages : s # t => stages'[s] = stages[s]
        /\ \A d \in Chains : d # c => chains'[d] = chains[d]
        /\ damaged' = damaged /\ Owns(c, t)
    BY <1>4, <2>0, OwnerMove, OwnerStepEffect, OwnerIsAtStage
  <2>6. StageRecorded(t)' /\ StageInSteps(c, t)'
    <3>1. StageRecorded(StageOf(c))' /\ StageInSteps(c, StageOf(c))'
      BY <1>4, OwnerStepRecord
    <3> QED
      BY <2>0, <3>1 DEF StageRecorded, StageInSteps, Owns
  <2>2. \A s \in Stages : Owns(c, s)' => s = t
    BY <2>0 DEF Owns
  <2>3. \A d \in Chains : d # c => ~Owns(d, t)'
    <3>1. \A d \in Chains : d # c => ~Owns(d, t)
      BY <1>0, <2>1 DEF OneOwner
    <3> QED
      BY <2>1, <3>1 DEF Owns, StageOf
  <2>4. \A s \in Stages : StageRecorded(s)'
    BY <1>1, <2>1, <2>6
  <2>5. \A d \in Chains, s \in Stages : StageInSteps(d, s)'
    <3> SUFFICES ASSUME NEW d \in Chains, NEW s \in Stages
                 PROVE  StageInSteps(d, s)'
      OBVIOUS
    <3>1. CASE s = t /\ d = c
      BY <2>6, <3>1
    <3>2. CASE s # t /\ d # c
      BY <1>2, <2>1, <3>2
    <3>3. CASE s = t /\ d # c
      BY <2>3, <3>3 DEF StageInSteps
    <3>4. CASE s # t /\ d = c
      BY <2>2, <3>4 DEF StageInSteps
    <3> QED
      BY <3>1, <3>2, <3>3, <3>4
  <2> QED
    BY <2>4, <2>5
<1>5. ASSUME NEW c \in Chains, QuietStep(c)
      PROVE  /\ \A s \in Stages : StageRecorded(s)'
             /\ \A d \in Chains, s \in Stages : StageInSteps(d, s)'
  <2>1. chains'[c].pc \in {"start", "look", "reserve", "validate",
            "except", "handoff", "gate", "decide", "record", "done", "dead"}
    BY <1>5, QuietMove
  <2>2. chains'[c].pc \in OwnerPc => chains'[c].pc = "except"
    BY <2>1 DEF OwnerPc, AdapterPc
  <2> QED
    BY <1>3, <1>5, <2>2, QuietMove, QuietStepEffect
<1>6. ASSUME NEW c \in Chains, ScreeningStep(c)
      PROVE  /\ \A s \in Stages : StageRecorded(s)'
             /\ \A d \in Chains, s \in Stages : StageInSteps(d, s)'
  <2>1. chains'[c].pc \in EntryPc \cup {"done"}
    BY <1>6, ScreeningMove
  <2>2. chains'[c].pc \notin OwnerPc
    BY <2>1 DEF EntryPc, ScreeningPc, OwnerPc, AdapterPc
  <2> QED
    BY <1>3, <1>6, <2>2, ScreeningMove, ScreeningStepEffect
<1>7. ASSUME NEW c \in Chains, Reserve(c)
      PROVE  /\ \A s \in Stages : StageRecorded(s)'
             /\ \A d \in Chains, s \in Stages : StageInSteps(d, s)'
  <2>0. PICK t \in Stages : t = StageOf(c) /\ t = StageOf(c)'
    BY <1>7, ReserveEffect, ReserveMove DEF LocalsKept, StageOf
  <2>1. CASE stages[t].status # "absent"
    <3>1. chains'[c].pc \notin OwnerPc
      BY <1>7, <2>0, <2>1, ReserveMove DEF OwnerPc, AdapterPc
    <3> QED
      BY <1>3, <1>7, <2>0, <2>1, <3>1, ReserveMove, ReserveEffect
  <2>2. CASE stages[t].status = "absent"
    <3>1. /\ t \in Stages /\ damaged' = damaged
          /\ \A s \in Stages : s # t => stages'[s] = stages[s]
          /\ \A d \in Chains : d # c => chains'[d] = chains[d]
          /\ chains'[c].pc = "prepare"
      BY <1>7, <2>0, <2>2, ReserveMove, ReserveEffect
    <3>2. /\ stages'[t].status = "created"
          /\ stages'[t].file = stages[t].file
          /\ stages'[t].registered = stages[t].registered
          /\ stages'[t].manifest = stages[t].manifest
      <4>1. stages[t] \in StageRecord
        BY <1>0, <3>1 DEF TypeOK
      <4>2. stages'[t] = [stages[t] EXCEPT !.status = "created"]
        BY <1>7, <2>0, <2>2, ReserveEffect
      <4> QED
        BY <4>1, <4>2 DEF StageRecord
    <3>3. ~stages[t].registered /\ ~stages[t].manifest
      BY <1>0, <2>2, <3>1 DEF StageRecorded
    <3>4. \A d \in Chains : ~Owns(d, t)
      BY <1>0, <2>2, <3>1 DEF OneOwner
    <3>5. \A s \in Stages : Owns(c, s)' => s = t
      BY <2>0 DEF Owns
    <3>6. \A s \in Stages : StageRecorded(s)'
      <4>1. StageRecorded(t) /\ StageRecorded(t)'
        BY <1>0, <3>1, <3>2, <3>3 DEF StageRecorded
      <4> QED
        BY <1>1, <3>1, <4>1
    <3>7. \A d \in Chains, s \in Stages : StageInSteps(d, s)'
      <4> SUFFICES ASSUME NEW d \in Chains, NEW s \in Stages
                   PROVE  StageInSteps(d, s)'
        OBVIOUS
      <4>1. CASE d = c /\ s = t
        BY <3>1, <3>2, <3>3, <4>1 DEF StageInSteps
      <4>2. CASE d = c /\ s # t
        BY <3>5, <4>2 DEF StageInSteps
      <4>3. CASE d # c /\ s = t
        BY <3>1, <3>4, <4>3 DEF StageInSteps, Owns, StageOf
      <4>4. CASE d # c /\ s # t
        BY <1>2, <3>1, <4>4
      <4> QED
        BY <4>1, <4>2, <4>3, <4>4
    <3> QED
      BY <3>6, <3>7
  <2> QED
    BY <2>1, <2>2
<1>8. ASSUME NEW t \in Stages, DamageFile(t)
      PROVE  /\ \A s \in Stages : StageRecorded(s)'
             /\ \A d \in Chains, s \in Stages : StageInSteps(d, s)'
  <2>1. /\ UNCHANGED chains /\ damaged' > 0
        /\ \A s \in Stages : s # t => stages'[s] = stages[s]
        /\ stages[t].registered /\ stages'[t].file \in {"gone", "bad"}
        /\ stages'[t].status = stages[t].status
        /\ stages'[t].manifest = stages[t].manifest
        /\ stages'[t].registered = stages[t].registered
    BY <1>8, DamageEffect
  <2>2. \A s \in Stages : StageRecorded(s)'
    <3>1. StageRecorded(t)'
      BY <1>0, <2>1 DEF StageRecorded
    <3>2. \A s \in Stages : s # t => StageRecorded(s)'
      BY <1>0, <2>1 DEF StageRecorded
    <3> QED
      BY <3>1, <3>2
  <2>3. \A d \in Chains, s \in Stages : StageInSteps(d, s)'
    <3> SUFFICES ASSUME NEW d \in Chains, NEW s \in Stages
                 PROVE  StageInSteps(d, s)'
      OBVIOUS
    <3>1. CASE s # t
      BY <1>2, <2>1, <3>1
    <3>2. CASE s = t
      BY <1>0, <2>1, <3>2 DEF StageInSteps, Owns, StageOf
    <3> QED
      BY <3>1, <3>2
  <2> QED
    BY <2>2, <2>3
<1> QED
  BY <1>4, <1>5, <1>6, <1>7, <1>8, NextSteps

\* Stages begin in their turn: what an INSERT relies on is on record.
LEMMA NextStagesInOrder == ChainInv /\ Next => StagesInOrder'
<1> SUFFICES ASSUME ChainInv, Next PROVE StagesInOrder'
  OBVIOUS
<1>0. StagesInOrder /\ RecordStays
  BY RecordKept DEF ChainInv
\* A stage that was there keeps what it rested on.
<1>1. ASSUME NEW i \in 1..4,
             ScreeningPassed,
             \A j \in 1..(i - 1) :
                /\ stages[Order[j]].status = "succeeded"
                /\ StageMayProgress(Order[j], stages[Order[j]].verdict)
      PROVE  /\ ScreeningPassed'
             /\ \A j \in 1..(i - 1) :
                   /\ stages'[Order[j]].status = "succeeded"
                   /\ stages'[Order[j]].manifest
                   /\ StageMayProgress(Order[j], stages'[Order[j]].verdict)
  <2>1. ScreeningPassed'
    BY <1>0, <1>1, ScreeningPassedStays
  <2>2. ASSUME NEW j \in 1..(i - 1)
        PROVE  /\ stages'[Order[j]].status = "succeeded"
               /\ stages'[Order[j]].manifest
               /\ stages'[Order[j]].verdict = stages[Order[j]].verdict
    <3>1. j \in 1..4
      OBVIOUS
    <3>2. Order[j] \in Stages /\ stages[Order[j]].status = "succeeded"
      BY <1>1, <3>1, OrderIs
    <3> QED
      BY <1>0, <3>2, SucceededStays
  <2> QED
    BY <1>1, <2>1, <2>2
<1>2. ASSUME NEW i \in 1..4, stages[Order[i]].status # "absent"
      PROVE  /\ ScreeningPassed
             /\ \A j \in 1..(i - 1) :
                   /\ stages[Order[j]].status = "succeeded"
                   /\ StageMayProgress(Order[j], stages[Order[j]].verdict)
  BY <1>0, <1>2 DEF StagesInOrder, ScreeningPassed
<1>3. ASSUME NEW i \in 1..4, stages[Order[i]].status = "absent",
             stages'[Order[i]].status # "absent"
      PROVE  /\ ScreeningPassed
             /\ \A j \in 1..(i - 1) :
                   /\ stages[Order[j]].status = "succeeded"
                   /\ StageMayProgress(Order[j], stages[Order[j]].verdict)
  <2>1. Order[i] \in Stages
    BY OrderIs
  <2>2. PICK c \in Chains : Reserve(c) /\ StageOf(c) = Order[i]
    <3>1. ASSUME NEW c \in Chains, OwnerStep(c) PROVE FALSE
      BY <1>3, <2>1, <3>1, OwnerStepEffect, OwnerIsAtStage
    <3>2. ASSUME NEW c \in Chains, QuietStep(c) PROVE FALSE
      BY <1>3, <3>2, QuietStepEffect
    <3>3. ASSUME NEW c \in Chains, ScreeningStep(c) PROVE FALSE
      BY <1>3, <3>3, ScreeningStepEffect
    <3>4. ASSUME NEW s \in Stages, DamageFile(s) PROVE FALSE
      BY <1>3, <2>1, <3>4, DamageEffect
    <3>5. ASSUME NEW c \in Chains, Reserve(c) PROVE StageOf(c) = Order[i]
      BY <1>3, <2>1, <3>5, ReserveEffect
    <3> QED
      BY <3>1, <3>2, <3>3, <3>4, <3>5, NextSteps
  <2>3. chains[c].n = i
    BY <2>2, ReserveEffect, OrderIs DEF StageOf
  <2>4. /\ InPlace(c) /\ PassedOnRecord(c)
        /\ chains[c].pc = "reserve"
    BY <2>2 DEF ChainInv, Reserve
  <2>5. ScreeningPassed
    BY <2>4 DEF InPlace, StagePc
  <2>6. \A j \in 1..(i - 1) : j \in 1..4 /\ j < i /\ j <= 3
    OBVIOUS
  <2> QED
    BY <2>3, <2>4, <2>5, <2>6 DEF PassedOnRecord
<1>4. ASSUME NEW i \in 1..4, stages'[Order[i]].status # "absent"
      PROVE  /\ ScreeningPassed'
             /\ \A j \in 1..(i - 1) :
                   /\ stages'[Order[j]].status = "succeeded"
                   /\ stages'[Order[j]].manifest
                   /\ StageMayProgress(Order[j], stages'[Order[j]].verdict)
  <2>1. CASE stages[Order[i]].status # "absent"
    BY <1>1, <1>2, <2>1
  <2>2. CASE stages[Order[i]].status = "absent"
    BY <1>1, <1>3, <1>4, <2>2
  <2> QED
    BY <2>1, <2>2
<1>5. \A s \in Stages : \A v :
          StageMayProgress(s, v)' <=> StageMayProgress(s, v)
  BY DEF StageMayProgress
<1> QED
  BY <1>4, OrderIs DEF StagesInOrder, ScreeningPassed, StageMayProgress

-----------------------------------------------------------------------------
(* The chains *)

ChainFacts(c) ==
    /\ InPlace(c) /\ PassedOnRecord(c) /\ ReadOnRecord(c)
    /\ damaged = 0 => DoneFollows(c)

LEMMA LocalsKeptFacts ==
    ASSUME ChainInv, RecordStays, NEW c \in Chains, LocalsKept(c), InPlace(c)'
    PROVE  ChainFacts(c)'
BY PassedKept, ReadKept, FollowsKept DEF ChainFacts

\* A chain that did not move.
LEMMA UnmovedFacts ==
    ASSUME ChainInv, RecordStays, NEW c \in Chains, chains'[c] = chains[c]
    PROVE  ChainFacts(c)'
<1>1. InPlace(c) /\ TypeOK
  BY DEF ChainInv
<1>2. ScreeningPassed => ScreeningPassed'
  BY ScreeningPassedStays
<1>3. chains[c].pc = "handoff" => stages'[StageOf(c)].status = "succeeded"
  <2>1. chains[c].pc = "handoff" => StageOf(c) \in Stages
    BY <1>1, StageOfTyped DEF StagePc
  <2> QED
    BY <1>1, <2>1, SucceededStays DEF InPlace
<1>4. InPlace(c)'
  BY <1>1, <1>2, <1>3 DEF InPlace, Untouched, StageOf
<1>5. LocalsKept(c)
  BY DEF LocalsKept
<1> QED
  BY <1>4, <1>5, LocalsKeptFacts

\* A chain that ends before its gate, and not with a decision.
LEMMA EndsFacts ==
    ASSUME ChainInv, RecordStays, NEW c \in Chains,
           NEW o \in {"screening_failed", "incomplete", "refused", "unknown"},
           EndsWith(c, o), chains'[c].pc = "done",
           chains[c].n <= 4, chains[c].outcome = "none"
    PROVE  ChainFacts(c)'
<1>1. /\ PassedOnRecord(c) /\ ReadOnRecord(c)
      /\ damaged' = 0 => DoneFollows(c)
      /\ chains[c].n \in 1..5 /\ Len(chains[c].done) \in Nat
  BY DEF ChainInv, RecordStays, TypeOK, ChainRecord
<1>2. InPlace(c)'
  BY DEF InPlace, EntryPc, ScreeningPc, StagePc, OwnerPc, AdapterPc
<1>3. PassedOnRecord(c)'
  <2>1. chains[c].n > 1 => ScreeningPassed'
    BY <1>1, ScreeningPassedStays DEF PassedOnRecord
  <2>2. \A j \in 1..4 : j < chains[c].n =>
            /\ stages'[Order[j]].status = "succeeded"
            /\ stages'[Order[j]].verdict = stages[Order[j]].verdict
    BY <1>1, OrderIs, SucceededStays DEF PassedOnRecord
  <2>3. \A j \in 1..4 : j < chains[c].n =>
            /\ stages'[Order[j]].status = "succeeded"
            /\ j <= 3 => StageMayProgress(Order[j], stages'[Order[j]].verdict)
    BY <1>1, <2>2 DEF PassedOnRecord
  <2>4. chains[c].lock => stages'["oos"].verdict = "passed" /\ chains[c].n > 1
    <3>1. chains[c].lock =>
              1 < chains[c].n /\ stages["oos"].verdict = "passed"
      BY <1>1 DEF PassedOnRecord
    <3> QED
      BY <2>2, <3>1, OrderIs
  <2>5. chains[c].n > 1 => chains[c].lock
    BY <1>1 DEF PassedOnRecord
  <2> QED
    BY <2>1, <2>3, <2>4, <2>5 DEF PassedOnRecord, EndsWith
<1>4. ReadOnRecord(c)'
  BY <1>1 DEF ReadOnRecord, EndsWith
<1>5. ASSUME damaged' = 0 PROVE DoneFollows(c)'
  <2>1. DoneFollows(c)
    BY <1>1, <1>5
  <2>2. \A i \in 1..4 : i <= Len(chains[c].done) =>
            /\ chains[c].done[i] = HandedOff(i)'
            /\ stages'[Order[i]].status = "succeeded"
    BY <2>1, OrderIs, SucceededStays, HandedOffStays DEF DoneFollows
  <2>3. \A i \in 1..4 : i < chains[c].n =>
            StageMayProgress(Order[i], HandedOff(i)')
    BY <1>1, <2>1, HandedOffStays DEF DoneFollows, PassedOnRecord
  <2>4. \A i \in 1..4 : StageMayProgress(Order[i], HandedOff(i))'
                           <=> StageMayProgress(Order[i], HandedOff(i)')
    BY DEF StageMayProgress
  <2>5. /\ Len(chains[c].done) = chains[c].n - 1
        /\ \A i \in 1..3 :
              i <= Len(chains[c].read) => chains[c].read[i] = "passed"
    BY <2>1 DEF DoneFollows
  <2>6. /\ chains'[c].n = chains[c].n /\ chains'[c].done = chains[c].done
        /\ chains'[c].read = chains[c].read /\ chains'[c].outcome = o
    BY DEF EndsWith
  <2> QED
    BY <2>2, <2>3, <2>4, <2>5, <2>6 DEF DoneFollows
<1> QED
  BY <1>2, <1>3, <1>4, <1>5 DEF ChainFacts

\* A chain that begins.
LEMMA FreshFacts ==
    ASSUME NEW c \in Chains, Untouched(c)',
           chains'[c].pc \in EntryPc
    PROVE  ChainFacts(c)'
<1>1. chains'[c].pc \notin StagePc
      /\ chains'[c].pc \notin {"gate", "decide", "handoff"}
  BY DEF EntryPc, ScreeningPc, StagePc, OwnerPc, AdapterPc
<1>2. InPlace(c)'
  BY <1>1 DEF InPlace
<1>3. PassedOnRecord(c)'
  BY DEF PassedOnRecord, Untouched
<1>4. ReadOnRecord(c)'
  BY DEF ReadOnRecord, Untouched
<1>5. DoneFollows(c)'
  BY DEF DoneFollows, Untouched
<1> QED
  BY <1>2, <1>3, <1>4, <1>5 DEF ChainFacts

\* Where a chain at a stage can go without touching its locals.
LEMMA AtStageFacts ==
    ASSUME ChainInv, RecordStays, NEW c \in Chains, LocalsKept(c),
           chains'[c].pc \in StagePc \cup {"done", "dead"},
           chains'[c].pc \in StagePc =>
              chains[c].n <= 4 /\ chains[c].outcome = "none" /\ ScreeningPassed,
           chains'[c].pc = "handoff" =>
              stages[StageOf(c)].status = "succeeded"
    PROVE  ChainFacts(c)'
<1>1. chains[c].n \in 1..5
  BY DEF ChainInv, TypeOK, ChainRecord
<1>2. chains'[c].pc \notin EntryPc /\ chains'[c].pc \notin {"gate", "decide"}
  BY DEF EntryPc, ScreeningPc, StagePc, OwnerPc, AdapterPc
<1>3. chains'[c].pc = "handoff" => stages'[StageOf(c)'].status = "succeeded"
  <2>1. StageOf(c)' = StageOf(c)
    BY DEF StageOf, LocalsKept
  <2>2. chains[c].n <= 4 => StageOf(c) \in Stages
    BY <1>1, OrderIs DEF StageOf
  <2>3. chains'[c].pc = "handoff" => StageOf(c) \in Stages
    BY <2>2 DEF StagePc
  <2> QED
    BY <2>1, <2>3, SucceededStays
<1>4. InPlace(c)'
  BY <1>2, <1>3, ScreeningPassedStays DEF InPlace, LocalsKept
<1> QED
  BY <1>4, LocalsKeptFacts

LEMMA StartFacts ==
    ASSUME ChainInv, RecordStays, NEW c \in Chains, Start(c)
    PROVE  ChainFacts(c)'
<1>0. /\ TypeOK /\ chains[c] \in ChainRecord /\ chains[c].pc = "start"
      /\ InPlace(c) /\ ScreeningInSteps /\ screening \in ScreeningRecord
      /\ UNCHANGED <<screening, stages>>
  BY DEF ChainInv, TypeOK, Start
<1>1. Untouched(c)
  BY <1>0 DEF InPlace, EntryPc
<1>2. CASE screening.status # "succeeded"
  <2>1. \E o \in {"incomplete", "refused"} : End(c, o)
    BY <1>2 DEF Start
  <2>2. PICK o \in {"incomplete", "refused"} : End(c, o)
    BY <2>1
  <2>3. o \in Outcomes /\ o \notin Decisions
    BY DEF Outcomes, Decisions
  <2>4. EndsWith(c, o) /\ chains'[c].pc = "done"
    BY <1>0, <2>2, <2>3, EndEffect DEF EndsWith
  <2> QED
    BY <1>1, <2>4, EndsFacts DEF Untouched
<1>3. CASE screening.status = "succeeded" /\ screening.rows = "rejected"
  <2>1. "screened_out" \in Outcomes
    BY DEF Outcomes
  <2>2. /\ EndsWith(c, "screened_out")
        /\ chains'[c].pc \in {"record", "done"}
    BY <1>0, <1>3, <2>1, EndEffect DEF Start, EndsWith
  <2>3. InPlace(c)'
    BY <2>2 DEF InPlace, EntryPc, ScreeningPc, StagePc, OwnerPc, AdapterPc
  <2>4. PassedOnRecord(c)'
    BY <1>0, <1>1, <1>3, <2>2 DEF PassedOnRecord, Untouched, EndsWith
  <2>5. ReadOnRecord(c)' /\ DoneFollows(c)'
    BY <1>1, <2>2 DEF ReadOnRecord, DoneFollows, Untouched, EndsWith
  <2> QED
    BY <2>3, <2>4, <2>5 DEF ChainFacts
<1>4. CASE screening.status = "succeeded" /\ screening.rows # "rejected"
  <2>1. Goto(c, "look") /\ "look" \in ChainPc
    BY <1>4 DEF Start, ChainPc
  <2>5. chains'[c] = [chains[c] EXCEPT !.pc = "look"]
    BY <1>0, <2>1, GotoEffect
  <2>2. LocalsKept(c) /\ chains'[c].pc = "look"
    BY <1>0, <2>5 DEF LocalsKept, ChainRecord
  <2>3. ScreeningPassed
    BY <1>0, <1>4 DEF ScreeningInSteps, ScreeningPassed, ScreeningRecord
  <2>4. "look" \in StagePc
    BY DEF StagePc
  <2> QED
    BY <1>1, <2>2, <2>3, <2>4, AtStageFacts DEF Untouched
<1> QED
  BY <1>2, <1>3, <1>4

\* Steps at a stage that change no stage: on, or out of the chain.
LEMMA LookFacts ==
    ASSUME ChainInv, RecordStays, NEW c \in Chains,
           Look(c) \/ AdapterReturns(c) \/ AdapterRaises(c)
              \/ ValidateReference(c)
    PROVE  ChainFacts(c)'
<1>0. /\ TypeOK /\ chains[c] \in ChainRecord /\ InPlace(c)
      /\ chains[c].pc \in StagePc
  BY DEF ChainInv, TypeOK, Look, AdapterReturns, AdapterRaises,
         ValidateReference, StagePc, OwnerPc, AdapterPc
<1>1. /\ chains[c].n <= 4 /\ chains[c].outcome = "none" /\ ScreeningPassed
  BY <1>0 DEF InPlace
<1>2. \/ \E o \in {"incomplete", "refused"} : End(c, o)
      \/ \E pc \in {"validate", "reserve", "except"} : Goto(c, pc)
      \/ Goto(c, "handoff") /\ stages[StageOf(c)].status = "succeeded"
  BY DEF Look, AdapterReturns, AdapterRaises, ValidateReference
<1>3. CASE \E o \in {"incomplete", "refused"} : End(c, o)
  <2>1. PICK o \in {"incomplete", "refused"} : End(c, o)
    BY <1>3
  <2>2. o \in Outcomes /\ o \notin Decisions
    BY DEF Outcomes, Decisions
  <2>3. EndsWith(c, o) /\ chains'[c].pc = "done"
    BY <1>0, <2>1, <2>2, EndEffect DEF EndsWith
  <2> QED
    BY <1>1, <2>3, EndsFacts
<1>4. CASE \E pc \in {"validate", "reserve", "except"} : Goto(c, pc)
  <2>1. PICK pc \in {"validate", "reserve", "except"} : Goto(c, pc)
    BY <1>4
  <2>2. pc \in ChainPc /\ pc \in StagePc
    BY DEF ChainPc, StagePc, OwnerPc
  <2>3. chains'[c] = [chains[c] EXCEPT !.pc = pc]
    BY <1>0, <2>1, <2>2, GotoEffect
  <2>4. LocalsKept(c) /\ chains'[c].pc = pc
    BY <1>0, <2>3 DEF LocalsKept, ChainRecord
  <2> QED
    BY <1>1, <2>2, <2>4, AtStageFacts
<1>5. CASE Goto(c, "handoff") /\ stages[StageOf(c)].status = "succeeded"
  <2>1. "handoff" \in ChainPc /\ "handoff" \in StagePc
    BY DEF ChainPc, StagePc
  <2>2. chains'[c] = [chains[c] EXCEPT !.pc = "handoff"]
    BY <1>0, <1>5, <2>1, GotoEffect
  <2>3. LocalsKept(c) /\ chains'[c].pc = "handoff"
    BY <1>0, <2>2 DEF LocalsKept, ChainRecord
  <2> QED
    BY <1>1, <1>5, <2>1, <2>3, AtStageFacts
<1> QED
  BY <1>2, <1>3, <1>4, <1>5

LEMMA LeaveFacts ==
    ASSUME ChainInv, RecordStays, NEW c \in Chains, Record(c) \/ Crash(c)
    PROVE  ChainFacts(c)'
<1>0. TypeOK /\ chains[c] \in ChainRecord
  BY DEF ChainInv, TypeOK
<1>1. \E pc \in {"done", "dead"} : Goto(c, pc)
  BY DEF Record, Crash
<1>2. PICK pc \in {"done", "dead"} : Goto(c, pc)
  BY <1>1
<1>3. pc \in ChainPc /\ pc \notin StagePc
  BY DEF ChainPc, StagePc, OwnerPc, AdapterPc
<1>4. chains'[c] = [chains[c] EXCEPT !.pc = pc]
  BY <1>0, <1>2, <1>3, GotoEffect
<1>5. LocalsKept(c) /\ chains'[c].pc = pc
  BY <1>0, <1>4 DEF LocalsKept, ChainRecord
<1>6. pc # "handoff"
  OBVIOUS
<1> QED
  BY <1>3, <1>5, <1>6, AtStageFacts

LEMMA EnterFacts ==
    ASSUME ChainInv, NEW c \in Chains, Enter(c)
    PROVE  ChainFacts(c)'
<1>1. chains'[c] = FreshChain("start")
  BY DEF ChainInv, TypeOK, Enter
<1>2. Untouched(c)' /\ chains'[c].pc = "start"
  BY <1>1 DEF Untouched, FreshChain
<1> QED
  BY <1>2, FreshFacts DEF EntryPc

\* What the handoff's status says about the evidence it was read from.
LEMMA HandoffStatus ==
    ASSUME ChainInv, NEW i \in 1..4, stages[Order[i]].status = "succeeded",
           NEW v, v = IF Order[i] = "oos"
                      THEN IF SourceLockRetrievable THEN "passed" ELSE "invalid"
                      ELSE StageOutcome(Order[i])
    PROVE  /\ (i <= 3 /\ StageMayProgress(Order[i], v)) =>
                 /\ StageMayProgress(Order[i], stages[Order[i]].verdict)
                 /\ i = 1 => stages["oos"].verdict = "passed"
           /\ damaged = 0 => v = HandedOff(i)
<1>0. i = 1 \/ i = 2 \/ i = 3 \/ i = 4
  OBVIOUS
<1>1. Order[i] \in Stages /\ (Order[i] = "oos" <=> i = 1)
  BY <1>0, OrderIs
<1>2. /\ stages[Order[i]] \in StageRecord
      /\ stages[Order[i]].manifest /\ stages[Order[i]].registered
      /\ stages[Order[i]].file # "none"
      /\ stages[Order[i]].file \in {"gone", "bad"} => damaged > 0
  BY <1>1 DEF ChainInv, TypeOK, StageRecorded
<1>3. damaged = 0 => Retrieval(Order[i]) = "ok"
  BY <1>2 DEF Retrieval, StageRecord, Files
<1>4. CASE i = 1
  BY <1>1, <1>3, <1>4, OrderIs
     DEF SourceLockRetrievable, HandedOff, StageMayProgress
<1>5. CASE i # 1
  <2>1. v = StageOutcome(Order[i])
    BY <1>1, <1>5
  <2>2. CASE Retrieval(Order[i]) = "ok"
    BY <1>5, <2>1, <2>2 DEF StageOutcome, HandedOff
  <2>3. CASE Retrieval(Order[i]) # "ok"
    <3>1. v \in {"insufficient", "invalid"}
      BY <2>1, <2>3 DEF StageOutcome, MissingEvidenceStatus
    <3>2. i <= 3 => ~StageMayProgress(Order[i], v)
      BY <1>0, <3>1, OrderIs DEF StageMayProgress
    <3> QED
      BY <1>3, <1>5, <2>3, <3>2
  <2> QED
    BY <2>2, <2>3
<1> QED
  BY <1>4, <1>5

LEMMA HandoffFacts ==
    ASSUME ChainInv, RecordStays, NEW c \in Chains, Handoff(c)
    PROVE  ChainFacts(c)'
<1> DEFINE status == IF StageOf(c) = "oos"
                     THEN IF SourceLockRetrievable THEN "passed" ELSE "invalid"
                     ELSE StageOutcome(StageOf(c))
<1>0. /\ TypeOK /\ chains[c] \in ChainRecord /\ chains[c].pc = "handoff"
      /\ InPlace(c) /\ PassedOnRecord(c) /\ ReadOnRecord(c)
      /\ damaged = 0 => DoneFollows(c)
      /\ UNCHANGED <<screening, stages, damaged>>
  BY DEF ChainInv, TypeOK, Handoff
<1>1. PICK i \in 1..4 : i = chains[c].n /\ StageOf(c) = Order[i]
  BY <1>0, StageOfTyped DEF StageOf, StagePc
<1>2. /\ chains[c].outcome = "none" /\ ScreeningPassed
      /\ stages[Order[i]].status = "succeeded"
      /\ chains[c].read = <<>> /\ chains[c].unreadable = {}
  BY <1>0, <1>1 DEF InPlace, StagePc, ReadOnRecord
<1>3. PICK v \in Verdicts : v = status
  BY <1>0, <1>1, OrderIs, VerdictsTyped DEF Verdicts
<1>4. PICK go \in BOOLEAN : go = StageMayProgress(Order[i], v)
  BY DEF StageMayProgress
<1>5. /\ (i <= 3 /\ go) =>
            /\ StageMayProgress(Order[i], stages[Order[i]].verdict)
            /\ i = 1 => stages["oos"].verdict = "passed"
      /\ damaged = 0 => v = HandedOff(i)
  BY <1>1, <1>2, <1>3, <1>4, HandoffStatus
<1>6. i = 1 <=> Order[i] = "oos"
  BY OrderIs
<1>7. i = 4 <=> Order[i] = "monte_carlo"
  BY OrderIs
<1>8. chains' = [chains EXCEPT
           ![c].done = Append(@, v),
           ![c].lock = @ \/ (Order[i] = "oos" /\ go),
           ![c].n = IF go THEN @ + 1 ELSE @,
           ![c].outcome = IF go THEN @ ELSE "stopped",
           ![c].unreadable = {t \in Stages : go /\ Order[i] = "monte_carlo"
                                             /\ stages[t].file /= "ok"},
           ![c].pc = CASE ~go -> IF c \in Workers THEN "done" ELSE "record"
                       [] go /\ chains[c].n = 4 -> "gate"
                       [] OTHER                 -> "look"]
  BY <1>1, <1>3, <1>4 DEF Handoff
<1>9. /\ chains'[c].done = Append(chains[c].done, v)
      /\ chains'[c].lock <=> (chains[c].lock \/ (i = 1 /\ go))
      /\ chains'[c].n = IF go THEN i + 1 ELSE i
      /\ chains'[c].outcome = IF go THEN "none" ELSE "stopped"
      /\ chains'[c].unreadable =
            {t \in Stages : go /\ i = 4 /\ stages[t].file /= "ok"}
      /\ chains'[c].read = <<>>
      /\ ~go => chains'[c].pc \in {"done", "record"}
      /\ go => chains'[c].pc = IF i = 4 THEN "gate" ELSE "look"
  BY <1>0, <1>1, <1>2, <1>6, <1>7, <1>8 DEF TypeOK, ChainRecord
<1>10. \A j \in 1..4 : j < i =>
          /\ stages[Order[j]].status = "succeeded"
          /\ j <= 3 => StageMayProgress(Order[j], stages[Order[j]].verdict)
  BY <1>0, <1>1 DEF PassedOnRecord
<1>11. ScreeningPassed'
  BY <1>0, <1>2 DEF ScreeningPassed
<1>12. InPlace(c)'
  <2>1. CASE ~go
    BY <1>9, <2>1
       DEF InPlace, EntryPc, ScreeningPc, StagePc, OwnerPc, AdapterPc
  <2>2. CASE go /\ i = 4
    <3>1. chains'[c].pc = "gate" /\ chains'[c].n = 5
          /\ chains'[c].outcome = "none" /\ Len(chains'[c].read) = 0
      BY <1>9, <2>2
    <3> QED
      BY <3>1 DEF InPlace, EntryPc, ScreeningPc, StagePc, OwnerPc, AdapterPc
  <2>3. CASE go /\ i # 4
    <3>1. chains'[c].pc = "look" /\ chains'[c].n <= 4
          /\ chains'[c].outcome = "none"
      BY <1>9, <2>3
    <3> QED
      BY <1>11, <3>1 DEF InPlace, EntryPc, ScreeningPc, StagePc, OwnerPc,
                         AdapterPc
  <2> QED
    BY <2>1, <2>2, <2>3
<1>13. PassedOnRecord(c)'
  <2>1. \A j \in 1..4 : j < chains'[c].n =>
            /\ stages[Order[j]].status = "succeeded"
            /\ j <= 3 => StageMayProgress(Order[j], stages[Order[j]].verdict)
    <3> SUFFICES ASSUME NEW j \in 1..4, j < chains'[c].n
                 PROVE  /\ stages[Order[j]].status = "succeeded"
                        /\ j <= 3 => StageMayProgress(Order[j],
                                               stages[Order[j]].verdict)
      OBVIOUS
    <3>1. CASE j < i
      BY <1>10, <3>1
    <3>2. CASE j >= i
      <4>1. j = i /\ go
        BY <1>9, <3>2
      <4> QED
        BY <1>2, <1>5, <4>1
    <3> QED
      BY <3>1, <3>2
  <2>2. chains'[c].n > 1 => chains'[c].lock
    <3>1. i > 1 => chains[c].lock
      BY <1>0, <1>1 DEF PassedOnRecord
    <3> QED
      BY <1>6, <1>9, <3>1
  <2>3. chains'[c].lock =>
            stages["oos"].verdict = "passed" /\ chains'[c].n > 1
    <3>1. chains[c].lock => stages["oos"].verdict = "passed" /\ i > 1
      BY <1>0, <1>1 DEF PassedOnRecord
    <3> QED
      BY <1>5, <1>6, <1>9, <3>1
  <2>4. chains'[c].outcome # "screened_out"
    BY <1>9
  <2>5. \A j \in 1..4 :
            StageMayProgress(Order[j], stages[Order[j]].verdict)'
               <=> StageMayProgress(Order[j], stages[Order[j]].verdict)
    BY <1>0 DEF StageMayProgress
  <2> QED
    BY <1>0, <1>11, <2>1, <2>2, <2>3, <2>4, <2>5 DEF PassedOnRecord
<1>14. ReadOnRecord(c)'
  <2>1. chains'[c].n <= 4 => chains'[c].unreadable = {}
    BY <1>9
  <2>2. \A t \in chains'[c].unreadable : stages[t].file \in {"gone", "bad"}
    <3> SUFFICES ASSUME NEW t \in chains'[c].unreadable
                 PROVE  stages[t].file \in {"gone", "bad"}
      OBVIOUS
    <3>1. t \in Stages /\ i = 4 /\ stages[t].file # "ok"
      BY <1>9
    <3>2. stages[t].status = "succeeded"
      <4>1. PICK j \in 1..4 : Order[j] = t
        BY <3>1, OrderIs
      <4>2. j < i \/ j = i
        BY <3>1
      <4> QED
        BY <1>2, <1>10, <4>1, <4>2
    <3>3. stages[t].file # "none" /\ stages[t].file \in Files
      BY <1>0, <3>1, <3>2 DEF ChainInv, StageRecorded, TypeOK, StageRecord
    <3> QED
      BY <3>1, <3>3 DEF Files
  <2>3. chains'[c].outcome # "ready"
    BY <1>9
  <2> QED
    BY <1>0, <1>9, <2>1, <2>2, <2>3 DEF ReadOnRecord
<1>15. ASSUME damaged' = 0 PROVE DoneFollows(c)'
  <2>1. DoneFollows(c) /\ v = HandedOff(i) /\ Len(chains[c].done) = i - 1
    BY <1>0, <1>1, <1>2, <1>5, <1>15 DEF DoneFollows
  <2>2. chains[c].done \in Seq(Verdicts)
    BY <1>0 DEF ChainRecord
  <2>3. /\ Len(chains'[c].done) = i
        /\ \A j \in 1..4 : j <= i =>
              chains'[c].done[j] = IF j = i THEN v ELSE chains[c].done[j]
    BY <1>3, <1>9, <2>1, <2>2
  <2>4. \A j \in 1..4 : j <= i =>
            /\ chains'[c].done[j] = HandedOff(j)
            /\ stages[Order[j]].status = "succeeded"
    <3> SUFFICES ASSUME NEW j \in 1..4, j <= i
                 PROVE  /\ chains'[c].done[j] = HandedOff(j)
                        /\ stages[Order[j]].status = "succeeded"
      OBVIOUS
    <3>1. CASE j = i
      BY <1>2, <2>1, <2>3, <3>1
    <3>2. CASE j < i
      <4>1. j <= Len(chains[c].done)
        BY <2>1, <3>2
      <4>2. chains[c].done[j] = HandedOff(j)
        BY <2>1, <4>1 DEF DoneFollows
      <4> QED
        BY <1>10, <2>3, <3>2, <4>2
    <3> QED
      BY <3>1, <3>2
  <2>5. \A j \in 1..4 : j < chains'[c].n =>
            StageMayProgress(Order[j], HandedOff(j))
    <3>1. \A j \in 1..4 : j < i => StageMayProgress(Order[j], HandedOff(j))
      BY <1>1, <2>1 DEF DoneFollows
    <3> QED
      BY <1>4, <1>9, <2>1, <3>1
  <2>6. ~go => ~StageMayProgress(Order[i], HandedOff(i))
    BY <1>4, <2>1
  <2>7. \A j \in 1..4 : /\ HandedOff(j)' = HandedOff(j)
                        /\ StageMayProgress(Order[j], HandedOff(j))'
                              <=> StageMayProgress(Order[j], HandedOff(j))
    BY <1>0 DEF HandedOff, StageMayProgress
  <2>8. chains'[c].outcome = "stopped" =>
            /\ chains'[c].n <= 4
            /\ ~StageMayProgress(Order[chains[c].n], HandedOff(chains[c].n))'
    <3>1. chains'[c].outcome = "stopped" => ~go /\ chains'[c].n = i
      BY <1>9
    <3> QED
      BY <2>6, <2>7, <3>1
  <2>9. Len(chains'[c].done) = IF chains'[c].outcome = "stopped"
                               THEN chains'[c].n ELSE chains'[c].n - 1
    BY <1>9, <2>3
  <2>10. /\ \A j \in 1..4 : j <= Len(chains'[c].done) => j <= i
         /\ Len(chains'[c].read) = 0
         /\ chains'[c].n = 5 => chains'[c].outcome = "none"
    BY <1>9, <2>3
  <2>11. \A j \in 1..4 : j <= Len(chains'[c].done) =>
            /\ chains'[c].done[j] = HandedOff(j)'
            /\ stages'[Order[j]].status = "succeeded"
    BY <1>0, <2>4, <2>7, <2>10
  <2>12. \A j \in 1..4 : j < chains'[c].n =>
            StageMayProgress(Order[j], HandedOff(j))'
    BY <2>5, <2>7
  <2> QED
    BY <2>8, <2>9, <2>10, <2>11, <2>12 DEF DoneFollows
<1> QED
  BY <1>12, <1>13, <1>14, <1>15 DEF ChainFacts

\* What the gate's reading says about the evidence it was read from.
LEMMA GateReadStatus ==
    ASSUME ChainInv, NEW c \in Chains, chains[c].n = 5, NEW i \in 1..3
    PROVE  /\ GateReads(GateOrder[i]) = "passed" =>
                 /\ GateOrder[i] \notin chains[c].unreadable
                 /\ GateStageStatus(GateOrder[i], stages[GateOrder[i]].verdict)
                       = "passed"
           /\ damaged = 0 => GateReads(GateOrder[i]) = "passed"
<1> DEFINE s == GateOrder[i]
<1>1. s \in Stages
  BY OrderIs
<1>2. \A j \in 1..4 : stages[Order[j]].status = "succeeded"
  BY AllSucceeded, OrderIs
<1>3. /\ stages[s].status = "succeeded" /\ stages[s] \in StageRecord
      /\ StageRecorded(s) /\ ReadOnRecord(c)
  BY <1>1, AllSucceeded DEF ChainInv, TypeOK
<1>4. stages[s].manifest /\ stages[s].file \in {"ok", "gone", "bad"}
  BY <1>3 DEF StageRecorded, StageRecord, Files
<1>5. Retrieval(s) = "ok" <=> stages[s].file = "ok"
  BY <1>4 DEF Retrieval
<1>6. ASSUME GateReads(s) = "passed"
      PROVE  /\ s \notin chains[c].unreadable
             /\ GateStageStatus(s, stages[s].verdict) = "passed"
  <2>1. Retrieval(s) = "ok"
    BY <1>6 DEF GateReads, MissingEvidenceStatus
  <2>2. s \notin chains[c].unreadable
    BY <1>3, <1>5, <2>1 DEF ReadOnRecord
  <2> QED
    BY <1>6, <2>1, <2>2 DEF GateReads
<1>7. ASSUME damaged = 0 PROVE GateReads(s) = "passed"
  <2>1. stages[s].file = "ok"
    BY <1>3, <1>4, <1>7 DEF StageRecorded
  <2>2. DoneFollows(c)
    BY <1>7 DEF ChainInv
  <2>3. PICK j \in 1..4 : s = Order[j] /\ j > 1
    <3>1. PICK j \in 1..4 : s = Order[j]
      BY <1>1, OrderIs
    <3>2. s # "oos"
      <4>1. i = 1 \/ i = 2 \/ i = 3
        OBVIOUS
      <4> QED
        BY <4>1, OrderIs
    <3> QED
      BY <3>1, <3>2, OrderIs
  <2>4. StageMayProgress(s, stages[s].verdict)
    BY <2>2, <2>3 DEF DoneFollows, HandedOff
  <2>5. GateStageStatus(s, stages[s].verdict) = "passed"
    BY <2>4 DEF StageMayProgress, GateStageStatus
  <2> QED
    BY <1>5, <2>1, <2>5 DEF GateReads
<1> QED
  BY <1>6, <1>7

LEMMA GateReadFacts ==
    ASSUME ChainInv, RecordStays, NEW c \in Chains, GateRead(c)
    PROVE  ChainFacts(c)'
<1>0. /\ TypeOK /\ chains[c] \in ChainRecord /\ chains[c].pc = "gate"
      /\ InPlace(c) /\ PassedOnRecord(c) /\ ReadOnRecord(c)
      /\ damaged = 0 => DoneFollows(c)
      /\ UNCHANGED <<screening, stages, damaged>>
  BY DEF ChainInv, TypeOK, GateRead
<1>1. chains[c].n = 5 /\ chains[c].outcome = "none"
  BY <1>0 DEF InPlace
<1>2. PICK i \in 1..3 : i = Len(chains[c].read) + 1
  BY <1>0 DEF InPlace, ChainRecord
<1>3. PICK v \in Verdicts : v = GateReads(GateOrder[i])
  BY <1>0, OrderIs, VerdictsTyped
<1>5. chains[c].read \in Seq(Verdicts) /\ Len(chains[c].read) \in Nat
  BY <1>0 DEF ChainRecord
<1>4. /\ chains'[c].read = Append(chains[c].read, v)
      /\ chains'[c].pc = IF i = 3 THEN "decide" ELSE "gate"
      /\ chains'[c].n = chains[c].n /\ chains'[c].done = chains[c].done
      /\ chains'[c].lock = chains[c].lock
      /\ chains'[c].outcome = chains[c].outcome
      /\ chains'[c].unreadable = chains[c].unreadable
  <2> DEFINE l == Len(chains[c].read)
  <2>1. chains' = [chains EXCEPT
            ![c].read = Append(@, GateReads(GateOrder[l + 1])),
            ![c].pc = IF l = 2 THEN "decide" ELSE "gate"]
    BY <1>0 DEF GateRead, TypeOK, ChainRecord
  <2>2. l + 1 = i /\ l \in Nat
    BY <1>2, <1>5
  <2> HIDE DEF l
  <2>4. (IF l = 2 THEN "decide" ELSE "gate")
           = (IF i = 3 THEN "decide" ELSE "gate")
    BY <2>2
  <2>3. chains' = [chains EXCEPT
            ![c].read = Append(@, v),
            ![c].pc = IF i = 3 THEN "decide" ELSE "gate"]
    BY <1>3, <2>1, <2>2, <2>4
  <2> QED
    BY <1>0, <2>3 DEF TypeOK, ChainRecord
<1>6. /\ Len(chains'[c].read) = i
      /\ \A j \in 1..3 : j <= i =>
            chains'[c].read[j] = IF j = i THEN v ELSE chains[c].read[j]
  BY <1>2, <1>3, <1>4, <1>5
<1>7. InPlace(c)'
  <2>1. chains'[c].pc = "gate" => Len(chains'[c].read) <= 2
    BY <1>4, <1>6
  <2>2. chains'[c].pc = "decide" => Len(chains'[c].read) = 3
    BY <1>4, <1>6
  <2> QED
    BY <1>1, <1>4, <2>1, <2>2
       DEF InPlace, EntryPc, ScreeningPc, StagePc, OwnerPc, AdapterPc
<1>8. PassedOnRecord(c)'
  <2>1. \A j \in 1..4 :
            StageMayProgress(Order[j], stages[Order[j]].verdict)'
               <=> StageMayProgress(Order[j], stages[Order[j]].verdict)
    BY <1>0 DEF StageMayProgress
  <2> QED
    BY <1>0, <1>4, <2>1 DEF PassedOnRecord, ScreeningPassed
<1>9. ReadOnRecord(c)'
  <2>1. /\ \A s \in chains[c].unreadable : stages[s].file \in {"gone", "bad"}
        /\ \A j \in 1..3 :
              (j <= Len(chains[c].read) /\ chains[c].read[j] = "passed") =>
                 /\ GateOrder[j] \notin chains[c].unreadable
                 /\ GateStageStatus(GateOrder[j], stages[GateOrder[j]].verdict)
                       = "passed"
    BY <1>0 DEF ReadOnRecord
  <2>2. \A j \in 1..3 :
            (j <= i /\ chains'[c].read[j] = "passed") =>
               /\ GateOrder[j] \notin chains[c].unreadable
               /\ GateStageStatus(GateOrder[j], stages[GateOrder[j]].verdict)
                     = "passed"
    <3> SUFFICES ASSUME NEW j \in 1..3, j <= i, chains'[c].read[j] = "passed"
                 PROVE  /\ GateOrder[j] \notin chains[c].unreadable
                        /\ GateStageStatus(GateOrder[j],
                               stages[GateOrder[j]].verdict) = "passed"
      OBVIOUS
    <3>1. CASE j = i
      BY <1>1, <1>3, <1>6, <3>1, GateReadStatus
    <3>2. CASE j < i
      <4>1. j <= Len(chains[c].read) /\ chains[c].read[j] = "passed"
        BY <1>2, <1>5, <1>6, <3>2
      <4> QED
        BY <2>1, <4>1
    <3> QED
      BY <3>1, <3>2
  <2>3. \A j \in 1..3 :
            GateStageStatus(GateOrder[j], stages[GateOrder[j]].verdict)'
               = GateStageStatus(GateOrder[j], stages[GateOrder[j]].verdict)
    BY <1>0 DEF GateStageStatus
  <2> QED
    BY <1>0, <1>1, <1>4, <1>6, <2>1, <2>2, <2>3 DEF ReadOnRecord
<1>10. ASSUME damaged' = 0 PROVE DoneFollows(c)'
  <2>1. DoneFollows(c) /\ v = "passed"
    BY <1>0, <1>1, <1>3, <1>10, GateReadStatus
  <2>2. \A j \in 1..3 : j <= i => chains'[c].read[j] = "passed"
    <3> SUFFICES ASSUME NEW j \in 1..3, j <= i
                 PROVE  chains'[c].read[j] = "passed"
      OBVIOUS
    <3>1. CASE j = i
      BY <1>6, <2>1, <3>1
    <3>2. CASE j < i
      BY <1>2, <1>6, <2>1, <3>2 DEF DoneFollows
    <3> QED
      BY <3>1, <3>2
  <2>3. \A j \in 1..4 : /\ HandedOff(j)' = HandedOff(j)
                        /\ StageMayProgress(Order[j], HandedOff(j))'
                              <=> StageMayProgress(Order[j], HandedOff(j))
    BY <1>0 DEF HandedOff, StageMayProgress
  <2>4. chains'[c].outcome # "stopped"
    BY <1>1, <1>4
  <2>5. /\ Len(chains'[c].done) = chains'[c].n - 1
        /\ \A j \in 1..4 : j <= Len(chains'[c].done) =>
              /\ chains'[c].done[j] = HandedOff(j)
              /\ stages[Order[j]].status = "succeeded"
        /\ \A j \in 1..4 :
              j < chains'[c].n => StageMayProgress(Order[j], HandedOff(j))
    BY <1>1, <1>4, <2>1 DEF DoneFollows
  <2> QED
    BY <1>0, <1>1, <1>4, <1>6, <2>2, <2>3, <2>4, <2>5 DEF DoneFollows
<1> QED
  BY <1>7, <1>8, <1>9, <1>10 DEF ChainFacts

LEMMA GateDecideFacts ==
    ASSUME ChainInv, RecordStays, NEW c \in Chains, GateDecide(c)
    PROVE  ChainFacts(c)'
<1>0. /\ TypeOK /\ chains[c] \in ChainRecord /\ chains[c].pc = "decide"
      /\ InPlace(c) /\ PassedOnRecord(c) /\ ReadOnRecord(c)
      /\ damaged = 0 => DoneFollows(c)
      /\ UNCHANGED <<screening, stages, damaged>>
  BY DEF ChainInv, TypeOK, GateDecide
<1>1. /\ chains[c].n = 5 /\ chains[c].outcome = "none"
      /\ Len(chains[c].read) = 3 /\ chains[c].lock
  BY <1>0 DEF InPlace, PassedOnRecord
<1>2. PICK o \in {"ready", "stopped"} :
          /\ o = "ready" <=> \A i \in 1..3 : chains[c].read[i] = "passed"
          /\ End(c, o)
  BY <1>1 DEF GateDecide
<1>3. o \in Outcomes
  BY DEF Outcomes
<1>4. EndsWith(c, o) /\ chains'[c].pc \in {"record", "done"}
  BY <1>0, <1>2, <1>3, EndEffect DEF EndsWith
<1>5. InPlace(c)'
  BY <1>4 DEF InPlace, EntryPc, ScreeningPc, StagePc, OwnerPc, AdapterPc
<1>6. PassedOnRecord(c)'
  <2>1. \A j \in 1..4 :
            StageMayProgress(Order[j], stages[Order[j]].verdict)'
               <=> StageMayProgress(Order[j], stages[Order[j]].verdict)
    BY <1>0 DEF StageMayProgress
  <2> QED
    BY <1>0, <1>1, <1>4, <2>1 DEF PassedOnRecord, ScreeningPassed, EndsWith
<1>7. ReadOnRecord(c)'
  <2>1. \A j \in 1..3 :
            GateStageStatus(GateOrder[j], stages[GateOrder[j]].verdict)'
               = GateStageStatus(GateOrder[j], stages[GateOrder[j]].verdict)
    BY <1>0 DEF GateStageStatus
  <2> QED
    BY <1>0, <1>1, <1>2, <1>4, <2>1 DEF ReadOnRecord, EndsWith
<1>8. ASSUME damaged' = 0 PROVE DoneFollows(c)'
  <2>1. DoneFollows(c)
    BY <1>0, <1>8
  <2>2. o = "ready"
    <3>1. \A i \in 1..3 : i <= Len(chains[c].read)
      BY <1>1
    <3> QED
      BY <1>2, <2>1, <3>1 DEF DoneFollows
  <2>3. \A j \in 1..4 : /\ HandedOff(j)' = HandedOff(j)
                        /\ StageMayProgress(Order[j], HandedOff(j))'
                              <=> StageMayProgress(Order[j], HandedOff(j))
    BY <1>0 DEF HandedOff, StageMayProgress
  <2>4. /\ chains'[c].n = 5 /\ chains'[c].done = chains[c].done
        /\ chains'[c].read = chains[c].read /\ chains'[c].outcome = "ready"
    BY <1>1, <1>4, <2>2 DEF EndsWith
  <2> QED
    BY <1>0, <1>1, <2>1, <2>3, <2>4 DEF DoneFollows
<1> QED
  BY <1>5, <1>6, <1>7, <1>8 DEF ChainFacts

LEMMA MovedFacts ==
    ASSUME ChainInv, RecordStays, NEW c \in Chains,
           OwnerStep(c) \/ QuietStep(c) \/ ScreeningStep(c) \/ Reserve(c)
    PROVE  ChainFacts(c)'
<1>1. CASE OwnerStep(c)
  <2>1. chains[c].pc \in StagePc
    BY <1>1, OwnerStepEffect DEF StagePc
  <2>2. chains[c].n <= 4 /\ chains[c].outcome = "none" /\ ScreeningPassed
    BY <2>1 DEF ChainInv, InPlace
  <2>3. CASE LocalsKept(c) /\ chains'[c].pc \in OwnerPc \cup {"validate"}
    <3>1. chains'[c].pc \in StagePc /\ chains'[c].pc # "handoff"
      BY <2>3 DEF StagePc, OwnerPc, AdapterPc
    <3> QED
      BY <2>2, <2>3, <3>1, AtStageFacts
  <2>4. CASE chains'[c].pc = "done" /\ EndsWith(c, "unknown")
    BY <2>2, <2>4, EndsFacts
  <2> QED
    BY <1>1, <2>3, <2>4, OwnerMove
<1>2. CASE QuietStep(c)
  BY <1>2, StartFacts, LookFacts, LeaveFacts, EnterFacts, HandoffFacts,
     GateReadFacts, GateDecideFacts DEF QuietStep
<1>3. CASE ScreeningStep(c)
  <2>1. CASE chains'[c].pc \in EntryPc /\ LocalsKept(c)
    <3>1. Untouched(c)'
      BY <1>3, <2>1, ScreeningMove DEF Untouched, LocalsKept
    <3> QED
      BY <2>1, <3>1, FreshFacts
  <2>2. CASE chains'[c].pc = "done" /\ EndsWith(c, "screening_failed")
    BY <1>3, <2>2, ScreeningMove, EndsFacts DEF Untouched
  <2> QED
    BY <1>3, <2>1, <2>2, ScreeningMove
<1>4. CASE Reserve(c)
  <2>1. chains[c].n <= 4 /\ chains[c].outcome = "none" /\ ScreeningPassed
    BY <1>4 DEF ChainInv, InPlace, Reserve, StagePc
  <2>2. chains'[c].pc \in StagePc /\ chains'[c].pc # "handoff"
    BY <1>4, ReserveMove DEF StagePc, OwnerPc, AdapterPc
  <2> QED
    BY <1>4, <2>1, <2>2, ReserveMove, AtStageFacts
<1> QED
  BY <1>1, <1>2, <1>3, <1>4

LEMMA NextChains == ChainInv /\ Next => \A c \in Chains : ChainFacts(c)'
<1> SUFFICES ASSUME ChainInv, Next PROVE \A c \in Chains : ChainFacts(c)'
  OBVIOUS
<1>0. RecordStays
  BY RecordKept
<1>1. ASSUME NEW c \in Chains,
             OwnerStep(c) \/ QuietStep(c) \/ ScreeningStep(c) \/ Reserve(c)
      PROVE  \A d \in Chains : ChainFacts(d)'
  <2>1. \A d \in Chains : d # c => chains'[d] = chains[d]
    BY <1>1, OwnerMove, QuietMove, ScreeningMove, ReserveMove
  <2>2. ChainFacts(c)'
    BY <1>0, <1>1, MovedFacts
  <2> QED
    BY <1>0, <2>1, <2>2, UnmovedFacts
<1>2. ASSUME NEW s \in Stages, DamageFile(s)
      PROVE  \A d \in Chains : ChainFacts(d)'
  BY <1>0, <1>2, DamageEffect, UnmovedFacts
<1> QED
  BY <1>1, <1>2, NextSteps

-----------------------------------------------------------------------------
(* The survivor marker *)

LEMMA NextSurvivor == ChainInv /\ Next => SurvivorIsEvidenced'
<1> SUFFICES ASSUME ChainInv, Next PROVE SurvivorIsEvidenced'
  OBVIOUS
<1> DEFINE Evidenced ==
             /\ screening.rows = "passed" /\ screening.status = "succeeded"
             /\ stages["oos"].verdict = "passed"
             /\ \A s \in Stages :
                   /\ stages[s].status = "succeeded"
                   /\ stages[s].registered /\ stages[s].manifest
                   /\ GateStageStatus(s, stages[s].verdict) = "passed"
<1>0. RecordStays /\ SurvivorIsEvidenced
      /\ survivors \in Nat
  BY RecordKept DEF ChainInv, TypeOK
<1>1. Evidenced => Evidenced'
  <2> SUFFICES ASSUME Evidenced PROVE Evidenced'
    OBVIOUS
  <2>1. screening'.rows = "passed" /\ screening'.status = "succeeded"
    BY <1>0 DEF RecordStays
  <2>2. \A s \in Stages :
            /\ stages'[s].status = "succeeded"
            /\ stages'[s].registered /\ stages'[s].manifest
            /\ stages'[s].verdict = stages[s].verdict
    BY <1>0, SucceededStays
  <2>3. stages'["oos"].verdict = "passed"
    BY <2>2, OrderIs
  <2>4. \A s \in Stages :
            GateStageStatus(s, stages[s].verdict)' = "passed"
    BY <2>2 DEF GateStageStatus
  <2> QED
    BY <2>1, <2>2, <2>3, <2>4
<1>2. CASE UNCHANGED survivors
  BY <1>0, <1>1, <1>2 DEF SurvivorIsEvidenced
<1>3. ASSUME NEW c \in Chains, Record(c), survivors' # survivors
      PROVE  SurvivorIsEvidenced'
  <2>1. /\ survivors = 0 /\ survivors' = 1 /\ chains[c].outcome = "ready"
    BY <1>0, <1>3 DEF Record
  <2>2. ReadOnRecord(c)
    BY DEF ChainInv
  <2>3. chains[c].n = 5 /\ \A i \in 1..3 :
            GateStageStatus(GateOrder[i], stages[GateOrder[i]].verdict)
               = "passed"
    BY <2>1, <2>2 DEF ReadOnRecord
  <2>4. /\ \A s \in Stages : stages[s].status = "succeeded"
        /\ ScreeningPassed /\ stages["oos"].verdict = "passed"
    BY <2>3, AllSucceeded
  <2>5. \A s \in Stages : GateStageStatus(s, stages[s].verdict) = "passed"
    <3>1. \A s \in Stages : s = "oos" \/ s = GateOrder[1] \/ s = GateOrder[2]
                               \/ s = GateOrder[3]
      BY OrderIs
    <3>2. GateStageStatus("oos", stages["oos"].verdict) = "passed"
      BY <2>4 DEF GateStageStatus
    <3>3. 1 \in 1..3 /\ 2 \in 1..3 /\ 3 \in 1..3
      OBVIOUS
    <3> QED
      BY <2>3, <3>1, <3>2, <3>3
  <2>6. \A s \in Stages : stages[s].registered /\ stages[s].manifest
    BY <2>4 DEF ChainInv, StageRecorded
  <2>7. Evidenced
    BY <2>4, <2>5, <2>6 DEF ScreeningPassed
  <2> QED
    BY <1>1, <2>1, <2>7 DEF SurvivorIsEvidenced
<1>4. ASSUME NEW c \in Chains,
             OwnerStep(c) \/ ScreeningStep(c) \/ Reserve(c)
      PROVE  UNCHANGED survivors
  BY <1>4, OwnerStepEffect, ScreeningStepEffect, ReserveEffect
<1>5. ASSUME NEW c \in Chains, QuietStep(c)
      PROVE  UNCHANGED survivors \/ Record(c)
  BY <1>5 DEF QuietStep, Start, Look, AdapterReturns, AdapterRaises,
              ValidateReference, Handoff, GateRead, GateDecide, Crash, Enter
<1>6. ASSUME NEW s \in Stages, DamageFile(s) PROVE UNCHANGED survivors
  BY <1>6, DamageEffect
<1> QED
  BY <1>2, <1>3, <1>4, <1>5, <1>6, NextSteps

-----------------------------------------------------------------------------
(* The theorems *)

LEMMA ChainFactsInv ==
    ASSUME \A c \in Chains : ChainFacts(c)
    PROVE  /\ \A c \in Chains :
                 InPlace(c) /\ PassedOnRecord(c) /\ ReadOnRecord(c)
           /\ damaged = 0 => \A c \in Chains : DoneFollows(c)
BY DEF ChainFacts

LEMMA InitInv == Init => ChainInv
<1> SUFFICES ASSUME Init PROVE ChainInv
  OBVIOUS
<1>1. TypeOK
  BY InitTyped
<1>2. \A c \in Chains :
          /\ chains[c] = FreshChain(IF c \in Flows THEN "compute" ELSE "idle")
  BY DEF Init
<1>3. ASSUME NEW c \in Chains
      PROVE  Untouched(c) /\ chains[c].pc = IF c \in Flows THEN "compute"
                                                          ELSE "idle"
  <2>1. \A pc : /\ FreshChain(pc).pc = pc /\ FreshChain(pc).n = 1
                /\ FreshChain(pc).done = <<>> /\ ~FreshChain(pc).lock
                /\ FreshChain(pc).read = <<>>
                /\ FreshChain(pc).outcome = "none"
                /\ FreshChain(pc).unreadable = {}
    BY DEF FreshChain
  <2> QED
    BY <1>2, <2>1 DEF Untouched
<1>4. \A s \in Stages : stages[s] = NoStage /\ invoked[s] = 0
  BY DEF Init
<1>5. screening = [status |-> "running", rows |-> "none",
                   evidence |-> FALSE, manifest |-> FALSE] /\ survivors = 0
  BY DEF Init
<1>6. ScreeningInSteps
  BY <1>3, <1>5 DEF ScreeningInSteps, ScreeningPc
<1>7. \A c \in Chains, s \in Stages : ~Owns(c, s)
  BY <1>3 DEF Owns, OwnerPc, AdapterPc
<1>8. OneOwner /\ \A c \in Chains, s \in Stages : StageInSteps(c, s)
  BY <1>4, <1>7 DEF OneOwner, StageInSteps
<1>9. \A s \in Stages : StageRecorded(s)
  BY <1>4 DEF StageRecorded, NoStage
<1>10. StagesInOrder
  BY <1>4, OrderIs DEF StagesInOrder, NoStage
<1>11. \A c \in Chains : InPlace(c)
  BY <1>3 DEF InPlace, StagePc, OwnerPc, AdapterPc
<1>12. \A c \in Chains : PassedOnRecord(c) /\ ReadOnRecord(c) /\ DoneFollows(c)
  BY <1>3 DEF PassedOnRecord, ReadOnRecord, DoneFollows, Untouched
<1>13. SurvivorIsEvidenced
  BY <1>5 DEF SurvivorIsEvidenced
<1> QED
  BY <1>1, <1>6, <1>8, <1>9, <1>10, <1>11, <1>12, <1>13 DEF ChainInv

LEMMA NextInv == ChainInv /\ [Next]_vars => ChainInv'
<1> SUFFICES ASSUME ChainInv, [Next]_vars PROVE ChainInv'
  OBVIOUS
<1>1. CASE Next
  <2>1. TypeOK'
    BY <1>1, NextTyped
  <2>2. ScreeningInSteps' /\ OneOwner' /\ StagesInOrder' /\ SurvivorIsEvidenced'
    BY <1>1, NextScreeningInSteps, NextOneOwner, NextStagesInOrder,
       NextSurvivor
  <2>3. /\ \A s \in Stages : StageRecorded(s)'
        /\ \A c \in Chains, s \in Stages : StageInSteps(c, s)'
    BY <1>1, NextStageFacts
  <2>4. \A c \in Chains : ChainFacts(c)'
    BY <1>1, NextChains
  <2> QED
    BY <2>1, <2>2, <2>3, <2>4 DEF ChainInv, ChainFacts
<1>2. CASE UNCHANGED vars
  BY <1>2 DEF vars, ChainInv, TypeOK, ScreeningInSteps, OneOwner, Owns,
     StageOf, StageRecorded, StageInSteps, StagesInOrder, InPlace, Untouched,
     ScreeningPassed, PassedOnRecord, ReadOnRecord, DoneFollows, HandedOff,
     SurvivorIsEvidenced
<1> QED
  BY <1>1, <1>2

\* The inductive invariant holds of every execution of the chain.
THEOREM ChainInvariant == Spec => []ChainInv
<1>1. Init => ChainInv
  BY InitInv
<1>2. ChainInv /\ [Next]_vars => ChainInv'
  BY NextInv
<1> QED
  BY <1>1, <1>2, PTL DEF Spec

\* The tables, the locals of every chain and the counters keep their types.
THEOREM ChainTypeCorrect == Spec => []TypeOK
<1>1. ChainInv => TypeOK
  BY DEF ChainInv
<1> QED
  BY <1>1, ChainInvariant, PTL

\* _reserve_stage_run invokes the adapter of a stage at most once, and no
\* stage is reserved before every earlier one succeeded with evidence the
\* chain may progress on.
THEOREM StagesOnceInOrder == Spec => []StagesRunOnceInOrder
<1>1. ChainInv => StagesRunOnceInOrder
  BY DEF ChainInv, OneOwner, StagesRunOnceInOrder, OneAdapterPerStage
<1> QED
  BY <1>1, ChainInvariant, PTL

\* record_factory_outcome writes one survivor marker, and only for a candidate
\* whose four stages are on record and qualify at the gate.
THEOREM SurvivorRestsOnEvidence == Spec => []SurvivorIsEvidenced
<1>1. ChainInv => SurvivorIsEvidenced
  BY DEF ChainInv
<1> QED
  BY <1>1, ChainInvariant, PTL

\* What was lost or changed before the gate opened never ends in "ready".
THEOREM ReadyWasReadable == Spec => []ReadyIsReadable
<1>1. ASSUME ChainInv PROVE ReadyIsReadable
  <2> SUFFICES ASSUME NEW c \in Chains, chains[c].outcome = "ready"
               PROVE  chains[c].unreadable \subseteq {"oos"}
    BY DEF ReadyIsReadable
  <2>1. ReadOnRecord(c) /\ chains[c].unreadable \subseteq Stages
    BY <1>1 DEF ChainInv, TypeOK, ChainRecord
  <2>2. \A i \in 1..3 : GateOrder[i] \notin chains[c].unreadable
    BY <2>1 DEF ReadOnRecord
  <2>3. 1 \in 1..3 /\ 2 \in 1..3 /\ 3 \in 1..3
    OBVIOUS
  <2> QED
    BY <2>1, <2>2, <2>3, OrderIs
<1> QED
  BY <1>1, ChainInvariant, PTL

\* On an intact store the stages alone decide: two chains that decide on the
\* candidate decide the same at the same stage, and the gate of
\* evaluate_lockbox_prerequisites passes what _stage_may_progress let through.
THEOREM OneDecisionPerCandidate == Spec => []OneDecision
<1>1. ASSUME ChainInv, damaged = 0,
             NEW c \in Chains, NEW d \in Chains,
             chains[c].outcome \in Decisions, chains[d].outcome \in Decisions
      PROVE  /\ chains[c].outcome = chains[d].outcome
             /\ chains[c].done = chains[d].done
  <2> DEFINE Stop(e, n) == /\ n \in 1..4
                           /\ chains[e].outcome = "stopped"
                           /\ Len(chains[e].done) = n
                           /\ ~StageMayProgress(Order[n], HandedOff(n))
                           /\ \A i \in 1..4 : i < n =>
                                 StageMayProgress(Order[i], HandedOff(i))
             Ready(e) == /\ chains[e].outcome = "ready"
                         /\ Len(chains[e].done) = 4
                         /\ \A i \in 1..4 :
                               StageMayProgress(Order[i], HandedOff(i))
             Out(e) == /\ chains[e].outcome = "screened_out"
                       /\ Len(chains[e].done) = 0
  <2>1. ASSUME NEW e \in Chains, chains[e].outcome \in Decisions
        PROVE  /\ \/ \E n \in 1..4 : Stop(e, n)
                  \/ Ready(e)
                  \/ Out(e)
               /\ chains[e].done \in Seq(Verdicts)
               /\ \A i \in 1..4 : i <= Len(chains[e].done) =>
                     chains[e].done[i] = HandedOff(i)
               /\ ~Out(e) => screening.rows = "passed"
               /\ Out(e) => screening.rows = "rejected"
    <3>1. /\ DoneFollows(e) /\ PassedOnRecord(e) /\ ReadOnRecord(e)
          /\ chains[e] \in ChainRecord
      BY <1>1 DEF ChainInv, TypeOK
    <3>2. /\ chains[e].n \in 1..5 /\ chains[e].done \in Seq(Verdicts)
          /\ chains[e].outcome \in {"screened_out", "stopped", "ready"}
      BY <2>1, <3>1 DEF ChainRecord, Decisions
    <3>3. \A i \in 1..4 : i <= Len(chains[e].done) =>
              chains[e].done[i] = HandedOff(i)
      BY <3>1 DEF DoneFollows
    <3>4. CASE chains[e].outcome = "stopped"
      <4>1. Stop(e, chains[e].n) /\ chains[e].n \in 1..4
        BY <3>1, <3>2, <3>4 DEF DoneFollows
      <4>2. screening.rows = "passed"
        BY <3>1, <3>4 DEF PassedOnRecord, ScreeningPassed
      <4> QED
        BY <3>2, <3>3, <3>4, <4>1, <4>2
    <3>5. CASE chains[e].outcome = "ready"
      <4>1. chains[e].n = 5
        BY <3>1, <3>5 DEF ReadOnRecord
      <4>2. Ready(e)
        BY <3>1, <3>5, <4>1 DEF DoneFollows
      <4>3. screening.rows = "passed"
        BY <3>1, <4>1 DEF PassedOnRecord, ScreeningPassed
      <4> QED
        BY <3>2, <3>3, <3>5, <4>2, <4>3
    <3>6. CASE chains[e].outcome = "screened_out"
      <4>1. screening.rows = "rejected" /\ chains[e].n = 1
        BY <3>1, <3>6 DEF PassedOnRecord
      <4>2. Out(e)
        BY <3>1, <3>6, <4>1 DEF DoneFollows
      <4> QED
        BY <3>2, <3>3, <3>6, <4>1, <4>2
    <3> QED
      BY <3>2, <3>4, <3>5, <3>6
  <2>2. /\ chains[c].outcome = chains[d].outcome
        /\ Len(chains[c].done) = Len(chains[d].done)
        /\ Len(chains[c].done) <= 4
    <3>1. ASSUME NEW m \in 1..4, NEW n \in 1..4, Stop(c, m), Stop(d, n)
          PROVE  m = n
      BY <3>1
    <3>2. ASSUME NEW m \in 1..4, NEW e \in Chains, NEW f \in Chains,
                 Stop(e, m), Ready(f)
          PROVE  FALSE
      BY <3>2
    <3>3. CASE Out(c) \/ Out(d)
      BY <1>1, <2>1, <3>3
    <3>4. CASE ~Out(c) /\ ~Out(d)
      <4>1. /\ (\E m \in 1..4 : Stop(c, m)) \/ Ready(c)
            /\ (\E n \in 1..4 : Stop(d, n)) \/ Ready(d)
        BY <1>1, <2>1, <3>4
      <4>2. CASE Ready(c) /\ Ready(d)
        BY <4>2
      <4>3. CASE (\E m \in 1..4 : Stop(c, m)) /\ (\E n \in 1..4 : Stop(d, n))
        <5>1. PICK m \in 1..4 : Stop(c, m)
          BY <4>3
        <5>2. PICK n \in 1..4 : Stop(d, n)
          BY <4>3
        <5>3. m = n
          BY <3>1, <5>1, <5>2
        <5> QED
          BY <5>1, <5>2, <5>3
      <4> QED
        BY <3>2, <4>1, <4>2, <4>3
    <3> QED
      BY <3>3, <3>4
  <2>3. \A i \in 1..Len(chains[c].done) : chains[c].done[i] = chains[d].done[i]
    <3> SUFFICES ASSUME NEW i \in 1..Len(chains[c].done)
                 PROVE  chains[c].done[i] = chains[d].done[i]
      OBVIOUS
    <3>1. Len(chains[c].done) \in Nat
      BY <1>1, <2>1
    <3>2. i \in 1..4 /\ i <= Len(chains[c].done)
      BY <2>2, <3>1
    <3> QED
      BY <1>1, <2>1, <2>2, <3>2
  <2>4. /\ chains[c].done \in Seq(Verdicts)
        /\ chains[d].done \in Seq(Verdicts)
    BY <1>1, <2>1
  <2> QED
    BY <2>2, <2>3, <2>4
<1>2. ASSUME ChainInv PROVE DecisionsAgree
  BY <1>1, <1>2 DEF DecisionsAgree
<1>3. ASSUME ChainInv PROVE GateAgreesWithChain
  <2> SUFFICES ASSUME damaged = 0, NEW c \in Chains
               PROVE  /\ \A i \in 1..Len(chains[c].read) :
                            chains[c].read[i] = "passed"
                      /\ (chains[c].n = 5 /\ chains[c].outcome /= "none")
                            => chains[c].outcome = "ready"
    BY DEF GateAgreesWithChain
  <2>1. /\ DoneFollows(c) /\ ReadOnRecord(c)
        /\ Len(chains[c].read) \in Nat
    BY <1>3 DEF ChainInv, TypeOK, ChainRecord
  <2>2. Len(chains[c].read) <= 3
    BY <2>1 DEF ReadOnRecord
  <2>3. \A i \in 1..Len(chains[c].read) : i \in 1..3
    BY <2>1, <2>2
  <2> QED
    BY <2>1, <2>2, <2>3 DEF DoneFollows
<1>4. ChainInv => OneDecision
  BY <1>2, <1>3 DEF OneDecision
<1> QED
  BY <1>4, ChainInvariant, PTL

\* A stage run that ended keeps its status, and a manifest keeps its evidence,
\* whatever the other processes do.
THEOREM StagesStayEnded == Spec => EndedStagesStay
<1>1. ChainInv /\ [Next]_vars =>
          [\A s \in Stages :
              /\ stages[s].status \in {"succeeded", "failed"}
                    => stages'[s].status = stages[s].status
              /\ stages[s].manifest
                    => stages'[s].manifest
                          /\ stages'[s].verdict = stages[s].verdict]_vars
  <2> SUFFICES ASSUME ChainInv, Next
               PROVE  \A s \in Stages :
                         /\ stages[s].status \in {"succeeded", "failed"}
                               => stages'[s].status = stages[s].status
                         /\ stages[s].manifest
                               => stages'[s].manifest
                                     /\ stages'[s].verdict = stages[s].verdict
    OBVIOUS
  <2>1. RecordStays
    BY RecordKept
  <2>2. ASSUME NEW s \in Stages
        PROVE  /\ stages[s].status \in {"succeeded", "failed"}
                     => stages'[s].status = stages[s].status
               /\ stages[s].manifest
                     => stages'[s].manifest
                           /\ stages'[s].verdict = stages[s].verdict
    BY <2>1 DEF RecordStays
  <2> QED
    BY <2>2
<1> QED
  BY <1>1, ChainInvariant, PTL DEF Spec, EndedStagesStay

=============================================================================
