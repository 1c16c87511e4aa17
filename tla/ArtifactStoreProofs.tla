------------------------- MODULE ArtifactStoreProofs -------------------------
(***************************************************************************)
(* Proofs about the experiment database and the files beside it, for every *)
(* set of processes in any roles, every set of documents, any latest       *)
(* schema and any number of crashes.                                       *)
(***************************************************************************)
EXTENDS ArtifactStore, TLAPS

-----------------------------------------------------------------------------
(* The inductive invariant *)

\* Steps of a role's own, and the ones that hold the write lock.
EvidencePc == {"write", "register", "manifest"}

LockPc == {"stage", "backup", "install", "commit"}

UndoPc == {"unlink", "restore"}

DecidePc == LockPc \cup UndoPc \cup {"begin", "finish"}

ScreenPc == {"staging", "rename", "record", "fail"}

\* A process is at steps of its own role.
InRole(p) ==
    /\ proc[p].pc \in Opening => proc[p].role = "open"
    /\ At(p, "start") => proc[p].role # "open"
    /\ proc[p].pc \in EvidencePc =>
          proc[p].role \in {"evidence", "fixture", "context"}
    /\ At(p, "manifest") => proc[p].role # "context"
    /\ proc[p].pc \in DecidePc => proc[p].role = "decide"
    /\ proc[p].pc \in ScreenPc => proc[p].role = "screen"
    /\ At(p, "text") => proc[p].role = "read"

AllInRole == \A p \in Processes : InRole(p)

\* The claims let one process compute the run.
OneComputes ==
    \A p, q \in Processes :
        (proc[p].role \in Computing /\ proc[q].role \in Computing) => p = q

\* Openers migrate the database; the others find it migrated.
SchemaInSteps ==
    /\ \A v \in 1..LatestSchema :
          applied[v] <= 1 /\ (v > schema => applied[v] = 0)
    /\ (\E p \in Processes : proc[p].role # "open") => schema = LatestSchema
    /\ \A p \in Processes :
          /\ At(p, "migrate") =>
                /\ schema \in 0..LatestSchema
                /\ proc[p].version \in 0..schema
          /\ proc[p].pc \in {"done", "raised"} => schema = LatestSchema

\* The write lock is held across steps by a decision in progress only, and
\* while it is held there is no decision.
LockInSteps ==
    /\ \A p \in Processes : lock = p <=> proc[p].pc \in LockPc
    /\ lock # Absent => rows["decision"] = Absent

\* Unless a decision overtook the rollback of another one, one process at most
\* holds the lock or has its file still to undo, and there is no decision then.
UndoInSteps ==
    ~Overtaken =>
        /\ \A p, q \in Processes :
              (proc[p].pc \in LockPc \cup UndoPc
                  /\ proc[q].pc \in LockPc \cup UndoPc) => p = q
        /\ \A p \in Processes :
              proc[p].pc \in UndoPc => rows["decision"] = Absent

\* A decision's file is in place when its row is committed.
DecisionInSteps ==
    /\ run.reviews \cap Docs =
          IF rows["decision"] = Absent THEN {} ELSE {rows["decision"].doc}
    /\ ~Overtaken =>
          /\ \A p \in Processes :
                At(p, "commit") => files["decision"] = My(p)
          /\ rows["decision"] # Absent => files["decision"] = rows["decision"]

\* As long as no process has died, a staged file is about to be installed,
StagedInSteps ==
    crashes = 0 =>
        \A c \in copies :
            c[2] = "staged" =>
                proc[c[1]].pc \in {"backup", "install"} /\ c[3] = My(c[1])

\* and, unless a rollback was overtaken, nothing was there to be backed up, and
\* a file without a row is about to get one or to go.
NothingLeftBehind ==
    (crashes = 0 /\ ~Overtaken) =>
        /\ \A c \in copies : c[2] # "backup"
        /\ \A p \in Processes : ~At(p, "restore")
        /\ (\A p \in Processes : ~At(p, "commit") /\ ~At(p, "unlink")) =>
              files["decision"] = rows["decision"]

\* A screen's file is in place when the screen is recorded, and only then.
ScreenInSteps ==
    /\ \A p \in Processes : proc[p].role = "screen" =>
          /\ ~At(p, "done") => rows["screen"] = Absent
          /\ proc[p].pc \in {"start", "staging", "rename", "fail", "raised"} =>
                files["screen"] = Absent
          /\ At(p, "record") => files["screen"] = My(p)
          /\ proc[p].pc \in {"staging", "rename", "record"} =>
                proc[p].outcome # Absent
    /\ rows["screen"] # Absent =>
          \E p \in Processes : proc[p].role = "screen" /\ At(p, "done")

\* Between a reader's two looks at a file it still has the registered bytes,
\* or was written over meanwhile.
ReadInSteps ==
    \A p \in Processes :
        /\ At(p, "text") =>
              /\ proc[p].name \in Names /\ rows[proc[p].name] # Absent
              /\ \/ files[proc[p].name] = rows[proc[p].name]
                 \/ p \in raced /\ Changeable(proc[p].name)
        /\ proc[p].accepted # Absent =>
              At(p, "done") /\ proc[p].role = "read" /\ proc[p].name \in Names

StoreInv ==
    /\ TypeOK
    /\ AllInRole
    /\ OneComputes
    /\ SchemaInSteps
    /\ LockInSteps
    /\ UndoInSteps
    /\ DecisionInSteps
    /\ StagedInSteps
    /\ NothingLeftBehind
    /\ ScreenInSteps
    /\ ReadInSteps
    /\ MigratedOnce
    /\ EvidenceIsWhole
    /\ AcceptedIsRegistered

-----------------------------------------------------------------------------
(* Steps by role *)

OpenStep(p) ==
    \/ ReadVersion(p) \/ CountTables(p) \/ Migrate(p) \/ Connected(p)
    \/ Reopen(p)

EvidenceStep(p) ==
    \/ PersistFixtureRows(p) \/ BeginEvidence(p) \/ WriteFile(p)
    \/ Register(p) \/ PersistManifest(p) \/ LookForContext(p)

DecideStep(p) ==
    \/ LookForDecision(p) \/ BeginDecision(p) \/ StageFile(p)
    \/ BackUpFile(p) \/ InstallFile(p) \/ CommitDecision(p) \/ FinishFiles(p)
    \/ RollBackDecision(p)

UndoStep(p) == UnlinkFile(p) \/ RestoreFile(p) \/ CleanUpFails(p)

ScreenStep(p) ==
    \/ ExecuteFlow(p) \/ RunDurableScreening(p) \/ WriteStaging(p)
    \/ RenameStaging(p) \/ CommitScreen(p) \/ RemoveDirectories(p)
    \/ FailScreen(p)

ReadStep(p) == BeginRead(p) \/ ReadText(p)

ProcessStep(p) ==
    \/ OpenStep(p) \/ EvidenceStep(p) \/ DecideStep(p) \/ ScreenStep(p)
    \/ ReadStep(p) \/ UndoStep(p) \/ Crash(p)

LEMMA StepCases ==
    ASSUME [Next]_vars
    PROVE  \/ \E p \in Processes : ProcessStep(p)
           \/ EndRunElsewhere \/ UNCHANGED vars
BY DEF Next, Step, ProcessStep, OpenStep, EvidenceStep, DecideStep,
       ScreenStep, ReadStep, UndoStep

\* A process keeps its role and its document, and leaves the others alone.
OnlyMoves(p) ==
    /\ proc' \in [Processes -> ProcRecord]
    /\ \A q \in Processes : q # p => proc'[q] = proc[q]
    /\ proc'[p].role = proc[p].role /\ proc'[p].doc = proc[p].doc

KeepsLocals(p) ==
    /\ proc'[p].version = proc[p].version
    /\ proc'[p].outcome = proc[p].outcome
    /\ proc'[p].name = proc[p].name /\ proc'[p].accepted = proc[p].accepted

LEMMA GotoEffect ==
    ASSUME TypeOK, NEW p \in Processes, NEW pc \in Pcs, Goto(p, pc)
    PROVE  OnlyMoves(p) /\ KeepsLocals(p) /\ proc'[p].pc = pc
BY DEF TypeOK, ProcRecord, Goto, OnlyMoves, KeepsLocals

LEMMA OpenEffect ==
    ASSUME TypeOK, NEW p \in Processes, InRole(p), OpenStep(p)
    PROVE  /\ OnlyMoves(p) /\ UNCHANGED <<store, crashes, raced>>
           /\ proc[p].role = "open" /\ proc[p].pc \in Opening
           /\ proc'[p].pc \in Opening \cup {"done"}
           /\ proc'[p].accepted = proc[p].accepted
<1>1. CASE ReadVersion(p)
  BY <1>1 DEF ReadVersion, TypeOK, ProcRecord, OnlyMoves, At, Opening, Pcs,
              Foreign, InRole
<1>2. CASE CountTables(p)
  BY <1>2 DEF CountTables, TypeOK, ProcRecord, OnlyMoves, At, Opening, Pcs,
              Foreign, InRole
<1>3. CASE Migrate(p)
  <2>1. CASE schema = proc[p].version
    <3>1. proc[p].version + 1 \in Nat
      BY <1>3, <2>1 DEF Migrate, TypeOK, ProcRecord, Foreign
    <3>2. proc' = [proc EXCEPT ![p].version = @ + 1] /\ At(p, "migrate")
      BY <1>3, <2>1 DEF Migrate
    <3>3. OnlyMoves(p)
      BY <3>1, <3>2 DEF TypeOK, ProcRecord, OnlyMoves
    <3>4. /\ proc'[p].pc = proc[p].pc
          /\ proc'[p].accepted = proc[p].accepted
      BY <3>2 DEF TypeOK, ProcRecord
    <3> QED
      BY <1>3, <3>2, <3>3, <3>4 DEF Migrate, At, Opening, InRole
  <2>2. CASE schema # proc[p].version
    <3>1. Goto(p, "refused")
      BY <1>3, <2>2 DEF Migrate
    <3> QED
      BY <1>3, <3>1, GotoEffect
         DEF Migrate, KeepsLocals, At, Opening, Pcs, InRole
  <2> QED
    BY <2>1, <2>2
<1>4. CASE Connected(p) \/ Reopen(p)
  BY <1>4, GotoEffect
     DEF Connected, Reopen, KeepsLocals, At, Opening, Pcs, InRole
<1> QED
  BY <1>1, <1>2, <1>3, <1>4 DEF OpenStep

LEMMA EvidenceEffect ==
    ASSUME TypeOK, NEW p \in Processes, InRole(p), EvidenceStep(p)
    PROVE  /\ OnlyMoves(p) /\ KeepsLocals(p)
           /\ UNCHANGED <<schema, applied, copies, lock, crashes>>
           /\ proc[p].role \in {"evidence", "fixture", "context"}
           /\ proc[p].pc \in EvidencePc \cup {"start"}
           /\ proc'[p].pc \in EvidencePc \cup {"done", "raised"}
           /\ proc'[p].pc = "manifest" => proc[p].role # "context"
           /\ files' \in [Names -> Bytes \cup {Absent}]
           /\ rows' \in [Names -> Content \cup {Absent}]
           /\ manifest' \in [Names -> Content \cup {Absent}] \cup {Absent}
           /\ run' \in RunRecord
           /\ \/ raced' = raced
              \/ Mine(p) \in Names /\ raced' = raced \cup Midway(Mine(p))
           /\ \A n \in Names :
                 /\ files'[n] # files[n] =>
                       /\ n \in {"evidence", "context"}
                       /\ Midway(n) \subseteq raced'
                 /\ rows[n] # Absent => rows'[n] = rows[n]
                 /\ rows'[n] # rows[n] => n \in {"evidence", "context"}
           /\ manifest # Absent => manifest' = manifest
           /\ run'.status = run.status /\ run'.rejected = run.rejected
           /\ run'.results # run.results => run.status = "running"
           /\ run'.reviews \cap Docs = run.reviews \cap Docs
<1>0. My(p) \in Content
  BY DEF My, Content, TypeOK, ProcRecord
<1>1. CASE PersistFixtureRows(p)
  <2>1. /\ OnlyMoves(p) /\ KeepsLocals(p)
        /\ proc'[p].pc \in {"write", "raised"}
    BY <1>1, GotoEffect DEF PersistFixtureRows, Pcs
  <2>2. /\ run' \in RunRecord
        /\ run'.status = run.status /\ run'.rejected = run.rejected
        /\ run'.results # run.results => run.status = "running"
        /\ run'.reviews \cap Docs = run.reviews \cap Docs
    <3>1. CASE run' = run
      BY <3>1 DEF TypeOK
    <3>2. CASE run' # run
      <4>1. /\ run.status = "running"
            /\ run' = [run EXCEPT !.results = "passed",
                                  !.reviews = @ \cup {"fixture"}]
        BY <1>1, <3>2 DEF PersistFixtureRows
      <4>2. /\ run' \in RunRecord
            /\ run'.status = run.status /\ run'.rejected = run.rejected
            /\ run'.reviews = run.reviews \cup {"fixture"}
        BY <4>1 DEF TypeOK, RunRecord, Outcomes
      <4> QED
        BY <4>1, <4>2, AbsentAssumption
    <3> QED
      BY <3>1, <3>2
  <2> QED
    BY <1>1, <2>1, <2>2
       DEF PersistFixtureRows, At, EvidencePc, TypeOK
<1>2. CASE BeginEvidence(p) \/ LookForContext(p)
  <2>1. /\ OnlyMoves(p) /\ KeepsLocals(p)
        /\ proc'[p].pc \in {"write", "done", "raised"}
    BY <1>2, GotoEffect DEF BeginEvidence, LookForContext, Pcs
  <2> QED
    BY <1>2, <2>1
       DEF BeginEvidence, LookForContext, At, EvidencePc, TypeOK, store
<1>3. CASE WriteFile(p)
  <2>1. /\ OnlyMoves(p) /\ KeepsLocals(p)
        /\ proc'[p].pc = "register"
    BY <1>3, GotoEffect DEF WriteFile, Pcs
  <2>2. proc[p].role \in {"evidence", "fixture", "context"}
    BY <1>3 DEF WriteFile, InRole, At, EvidencePc
  <2>3. Mine(p) \in {"evidence", "context"}
    BY <2>2 DEF Mine, NameOf
  <2>4. files' = [files EXCEPT ![Mine(p)] = My(p)]
        /\ raced' = raced \cup Midway(Mine(p))
    BY <1>3 DEF WriteFile
  <2>5. files' \in [Names -> Bytes \cup {Absent}]
    BY <1>0, <2>4 DEF TypeOK, Bytes
  <2>6. \A n \in Names : files'[n] # files[n] => n = Mine(p)
    BY <2>4 DEF TypeOK
  <2> QED
    BY <1>3, <2>1, <2>2, <2>3, <2>4, <2>5, <2>6
       DEF WriteFile, At, EvidencePc, TypeOK, Names
<1>4. CASE Register(p)
  <2>1. /\ OnlyMoves(p) /\ KeepsLocals(p)
        /\ proc'[p].pc \in {"done", "manifest", "raised"}
        /\ proc'[p].pc = "manifest" => proc[p].role # "context"
    BY <1>4, GotoEffect DEF Register, Pcs
  <2>2. proc[p].role \in {"evidence", "fixture", "context"}
    BY <1>4 DEF Register, InRole, At, EvidencePc
  <2>3. Mine(p) \in {"evidence", "context"}
    BY <2>2 DEF Mine, NameOf
  <2>4. rows' = rows \/ (RegisterAccepted(p) /\ rows' = Registered(p))
    BY <1>4 DEF Register
  <2>5. /\ rows' \in [Names -> Content \cup {Absent}]
        /\ \A n \in Names :
              /\ rows[n] # Absent => rows'[n] = rows[n]
              /\ rows'[n] # rows[n] => n = Mine(p)
    BY <1>0, <2>3, <2>4 DEF TypeOK, RegisterAccepted, Registered
  <2> QED
    BY <1>4, <2>1, <2>2, <2>3, <2>5 DEF Register, At, EvidencePc, TypeOK
<1>5. CASE PersistManifest(p)
  <2>1. /\ OnlyMoves(p) /\ KeepsLocals(p)
        /\ proc'[p].pc \in {"done", "raised"}
    BY <1>5, GotoEffect DEF PersistManifest, Pcs
  <2>2. proc[p].role \in {"evidence", "fixture", "context"}
    BY <1>5 DEF PersistManifest, InRole, At, EvidencePc
  <2>3. /\ manifest' \in [Names -> Content \cup {Absent}] \cup {Absent}
        /\ manifest # Absent => manifest' = manifest
    BY <1>5 DEF PersistManifest, ManifestAccepted, BuildManifest, TypeOK
  <2> QED
    BY <1>5, <2>1, <2>2, <2>3 DEF PersistManifest, At, EvidencePc, TypeOK
<1> QED
  BY <1>1, <1>2, <1>3, <1>4, <1>5 DEF EvidenceStep

LEMMA PutBackTyped ==
    ASSUME TypeOK, NEW p \in Processes, PutBack(p)
    PROVE  /\ files' \in [Names -> Bytes \cup {Absent}]
           /\ \A n \in Names \ {"decision"} : files'[n] = files[n]
<1>1. PICK c \in copies : files' = [files EXCEPT !["decision"] = c[3]]
  BY DEF PutBack, BackupOf
<1>2. c[3] \in Bytes
  BY DEF TypeOK
<1> QED
  BY <1>1, <1>2 DEF TypeOK

LEMMA DecideEffect ==
    ASSUME TypeOK, NEW p \in Processes, InRole(p), DecideStep(p)
    PROVE  /\ OnlyMoves(p) /\ KeepsLocals(p)
           /\ UNCHANGED <<schema, applied, manifest, crashes>>
           /\ raced' \in {raced, raced \cup {p}}
           /\ proc[p].role = "decide"
           /\ proc[p].pc \in DecidePc \cup {"start"}
           /\ proc'[p].pc \in DecidePc \cup {"done", "raised"}
           /\ files' # files => proc[p].pc \in LockPc
           /\ files' \in [Names -> Bytes \cup {Absent}]
           /\ rows' \in [Names -> Content \cup {Absent}]
           /\ copies' \subseteq
                 Processes \X {"staged", "backup", "staging"} \X Bytes
           /\ run' \in RunRecord /\ lock' \in {lock, Absent, p}
           /\ \A n \in Names \ {"decision"} :
                 files'[n] = files[n] /\ rows'[n] = rows[n]
           /\ rows["decision"] # Absent => rows'["decision"] = rows["decision"]
           /\ run'.status = run.status /\ run'.rejected = run.rejected
           /\ run'.results = run.results
<1>0. My(p) \in Content
  BY DEF My, Content, TypeOK, ProcRecord
<1>1. CASE LookForDecision(p)
  <2>1. /\ OnlyMoves(p) /\ KeepsLocals(p)
        /\ proc'[p].pc \in {"begin", "done", "raised"}
    BY <1>1, GotoEffect DEF LookForDecision, Pcs
  <2> QED
    BY <1>1, <2>1 DEF LookForDecision, At, DecidePc, TypeOK, store
<1>2. CASE BeginDecision(p)
  <2>1. /\ OnlyMoves(p) /\ KeepsLocals(p)
        /\ proc'[p].pc \in {"stage", "raised"}
    BY <1>2, GotoEffect DEF BeginDecision, Pcs
  <2> QED
    BY <1>2, <2>1
       DEF BeginDecision, At, DecidePc, LockPc, TypeOK, InRole
<1>3. CASE StageFile(p)
  <2>1. /\ OnlyMoves(p) /\ KeepsLocals(p) /\ proc'[p].pc = "backup"
    BY <1>3, GotoEffect DEF StageFile, Pcs
  <2> QED
    BY <1>0, <1>3, <2>1
       DEF StageFile, At, DecidePc, LockPc, TypeOK, InRole, Bytes
<1>4. CASE BackUpFile(p)
  <2>1. /\ OnlyMoves(p) /\ KeepsLocals(p) /\ proc'[p].pc = "install"
    BY <1>4, GotoEffect DEF BackUpFile, Pcs
  <2>2. files["decision"] # Absent => files["decision"] \in Bytes
    BY DEF TypeOK, Names
  <2>3. copies' \subseteq Processes \X {"staged", "backup", "staging"} \X Bytes
    BY <1>4, <2>2 DEF BackUpFile, TypeOK
  <2>4. /\ files' \in [Names -> Bytes \cup {Absent}]
        /\ \A n \in Names \ {"decision"} : files'[n] = files[n]
    BY <1>4 DEF BackUpFile, TypeOK
  <2> QED
    BY <1>4, <2>1, <2>3, <2>4
       DEF BackUpFile, At, DecidePc, LockPc, TypeOK, InRole
<1>5. CASE InstallFile(p)
  <2>1. /\ OnlyMoves(p) /\ KeepsLocals(p) /\ proc'[p].pc = "commit"
    BY <1>5, GotoEffect DEF InstallFile, Pcs
  <2>2. /\ files' \in [Names -> Bytes \cup {Absent}]
        /\ \A n \in Names \ {"decision"} : files'[n] = files[n]
    BY <1>0, <1>5 DEF InstallFile, TypeOK, Bytes
  <2> QED
    BY <1>5, <2>1, <2>2
       DEF InstallFile, At, DecidePc, LockPc, TypeOK, InRole
<1>6. CASE CommitDecision(p)
  <2>1. /\ OnlyMoves(p) /\ KeepsLocals(p) /\ proc'[p].pc = "finish"
    BY <1>6, GotoEffect DEF CommitDecision, Pcs
  <2>2. Mine(p) = "decision"
    BY <1>6 DEF CommitDecision, At, InRole, DecidePc, LockPc, Mine, NameOf
  <2>3. /\ rows' \in [Names -> Content \cup {Absent}]
        /\ \A n \in Names \ {"decision"} : rows'[n] = rows[n]
        /\ rows["decision"] # Absent => rows'["decision"] = rows["decision"]
    BY <1>0, <1>6, <2>2
       DEF CommitDecision, TypeOK, RegisterAccepted, Registered, Names
  <2>4. /\ run' \in RunRecord
        /\ run'.status = run.status /\ run'.rejected = run.rejected
        /\ run'.results = run.results
    BY <1>6 DEF CommitDecision, TypeOK, RunRecord, ProcRecord
  <2> QED
    BY <1>6, <2>1, <2>3, <2>4
       DEF CommitDecision, At, DecidePc, LockPc, TypeOK, InRole
<1>7. CASE FinishFiles(p)
  <2>1. /\ OnlyMoves(p) /\ KeepsLocals(p) /\ proc'[p].pc = "done"
    BY <1>7, GotoEffect DEF FinishFiles, Pcs
  <2> QED
    BY <1>7, <2>1 DEF FinishFiles, At, DecidePc, LockPc, TypeOK, InRole
<1>8. CASE RollBackDecision(p)
  <2>1. /\ OnlyMoves(p) /\ KeepsLocals(p)
        /\ proc'[p].pc \in {"raised", "unlink"}
    BY <1>8, GotoEffect DEF RollBackDecision, Pcs
  <2>4. /\ files' \in [Names -> Bytes \cup {Absent}]
        /\ \A n \in Names \ {"decision"} : files'[n] = files[n]
    <3>1. CASE files' = files
      BY <3>1 DEF TypeOK
    <3> QED
      BY <1>8, <3>1, PutBackTyped DEF RollBackDecision
  <2>5. copies' \subseteq copies
    BY <1>8 DEF RollBackDecision
  <2>6. proc[p].role = "decide" /\ proc[p].pc \in LockPc
    BY <1>8 DEF RollBackDecision, At, LockPc
  <2> QED
    BY <1>8, <2>1, <2>4, <2>5, <2>6
       DEF RollBackDecision, DecidePc, UndoPc, TypeOK
<1> QED
  BY <1>1, <1>2, <1>3, <1>4, <1>5, <1>6, <1>7, <1>8 DEF DecideStep

LEMMA UndoEffect ==
    ASSUME TypeOK, NEW p \in Processes, InRole(p), UndoStep(p)
    PROVE  /\ OnlyMoves(p) /\ KeepsLocals(p)
           /\ UNCHANGED <<schema, applied, rows, manifest, run, lock>>
           /\ proc[p].role = "decide"
           /\ proc[p].pc \in UndoPc \cup {"finish"}
           /\ proc'[p].pc \in {"restore", "raised"}
           /\ proc'[p].pc = "restore" =>
                 proc[p].pc = "unlink" /\ BackupOf(p) # {}
           /\ crashes' \in 0..MaxCrashes
           /\ crashes' # 0 \/ crashes' = crashes
           /\ copies' \subseteq copies
           /\ files' \in [Names -> Bytes \cup {Absent}]
           /\ \A n \in Names \ {"decision"} : files'[n] = files[n]
           /\ files' # files =>
                 proc[p].pc \in UndoPc /\ Midway("decision") \subseteq raced'
           /\ raced' \in {raced, raced \cup Midway("decision")}
<1>0. "decision" \in Names /\ crashes \in 0..MaxCrashes
  BY DEF Names, TypeOK
<1>1. CASE UnlinkFile(p)
  <2>1. /\ OnlyMoves(p) /\ KeepsLocals(p)
        /\ proc'[p].pc \in {"restore", "raised"}
        /\ proc'[p].pc = "restore" => BackupOf(p) # {}
    BY <1>1, GotoEffect DEF UnlinkFile, Pcs
  <2>2. /\ files' \in [Names -> Bytes \cup {Absent}]
        /\ \A n \in Names \ {"decision"} : files'[n] = files[n]
    BY <1>1 DEF UnlinkFile, TypeOK
  <2>3. proc[p].pc = "unlink" /\ proc[p].role = "decide"
    BY <1>1 DEF UnlinkFile, At, InRole, DecidePc, UndoPc
  <2> QED
    BY <1>0, <1>1, <2>1, <2>2, <2>3 DEF UnlinkFile, UndoPc
<1>2. CASE RestoreFile(p)
  <2>1. /\ OnlyMoves(p) /\ KeepsLocals(p) /\ proc'[p].pc = "raised"
    BY <1>2, GotoEffect DEF RestoreFile, Pcs
  <2>3. proc[p].pc = "restore" /\ proc[p].role = "decide"
    BY <1>2 DEF RestoreFile, At, InRole, DecidePc, UndoPc
  <2>4. /\ files' \in [Names -> Bytes \cup {Absent}]
        /\ \A n \in Names \ {"decision"} : files'[n] = files[n]
    BY <1>2, PutBackTyped DEF RestoreFile
  <2>5. copies' \subseteq copies
    BY <1>2 DEF RestoreFile
  <2> QED
    BY <1>0, <1>2, <2>1, <2>3, <2>4, <2>5 DEF RestoreFile, UndoPc
<1>3. CASE CleanUpFails(p)
  <2>1. /\ OnlyMoves(p) /\ KeepsLocals(p) /\ proc'[p].pc = "raised"
    BY <1>3, GotoEffect DEF CleanUpFails, Pcs
  <2>2. proc[p].pc \in UndoPc \cup {"finish"} /\ proc[p].role = "decide"
    BY <1>3 DEF CleanUpFails, InRole, DecidePc, UndoPc
  <2>3. crashes' \in 0..MaxCrashes /\ crashes' # 0
    BY <1>0, <1>3, CrashAssumption DEF CleanUpFails
  <2> QED
    BY <1>3, <2>1, <2>2, <2>3 DEF CleanUpFails, store, TypeOK
<1> QED
  BY <1>1, <1>2, <1>3 DEF UndoStep

LEMMA ScreenEffect ==
    ASSUME TypeOK, NEW p \in Processes, InRole(p), ScreenStep(p)
    PROVE  /\ OnlyMoves(p)
           /\ UNCHANGED <<schema, applied, lock, crashes, raced>>
           /\ proc[p].role = "screen"
           /\ proc'[p].accepted = proc[p].accepted
           /\ proc[p].pc \in ScreenPc \cup {"start"}
           /\ proc'[p].pc \in ScreenPc \cup {"done", "raised"}
           /\ files' \in [Names -> Bytes \cup {Absent}]
           /\ rows' \in [Names -> Content \cup {Absent}]
           /\ manifest' \in [Names -> Content \cup {Absent}] \cup {Absent}
           /\ copies' \subseteq
                 Processes \X {"staged", "backup", "staging"} \X Bytes
           /\ \A c \in copies' : c \in copies \/ c[2] = "staging"
           /\ run' \in RunRecord
           /\ \A n \in Names \ {"screen"} :
                 files'[n] = files[n] /\ rows'[n] = rows[n]
           /\ rows["screen"] # Absent => rows'["screen"] = rows["screen"]
           /\ manifest # Absent => manifest' = manifest
           /\ run'.reviews = run.reviews
<1>0. My(p) \in Content
  BY DEF My, Content, TypeOK, ProcRecord
<1>1. CASE ExecuteFlow(p) \/ RunDurableScreening(p)
  <2>1. /\ At(p, "start") /\ proc[p].role = "screen"
        /\ UNCHANGED <<schema, applied, store, crashes, raced>>
    BY <1>1 DEF ExecuteFlow, RunDurableScreening
  <2>2. \/ Goto(p, "fail")
        \/ \E outcome \in Outcomes :
              proc' = [proc EXCEPT ![p].pc = "staging",
                                   ![p].outcome = outcome]
    BY <1>1 DEF ExecuteFlow, RunDurableScreening, Outcomes
  <2>3. /\ OnlyMoves(p) /\ proc'[p].accepted = proc[p].accepted
        /\ proc'[p].pc \in {"staging", "fail"}
    <3>1. CASE Goto(p, "fail")
      BY <3>1, GotoEffect DEF Pcs, KeepsLocals
    <3>2. ASSUME NEW outcome \in Outcomes,
                 proc' = [proc EXCEPT ![p].pc = "staging",
                                      ![p].outcome = outcome]
          PROVE  /\ OnlyMoves(p) /\ proc'[p].accepted = proc[p].accepted
                 /\ proc'[p].pc = "staging"
      <4>1. proc[p] \in ProcRecord /\ "staging" \in Pcs
        BY DEF TypeOK, Pcs
      <4>2. proc'[p] = [proc[p] EXCEPT !.pc = "staging", !.outcome = outcome]
        BY <3>2 DEF TypeOK
      <4>3. /\ proc'[p] \in ProcRecord /\ proc'[p].role = proc[p].role
            /\ proc'[p].doc = proc[p].doc
            /\ proc'[p].accepted = proc[p].accepted
            /\ proc'[p].pc = "staging"
        BY <4>1, <4>2 DEF ProcRecord
      <4>4. \A q \in Processes : q # p => proc'[q] = proc[q]
        BY <3>2 DEF TypeOK
      <4>5. proc' \in [Processes -> ProcRecord]
        BY <3>2, <4>3, <4>4 DEF TypeOK
      <4> QED
        BY <4>3, <4>4, <4>5 DEF OnlyMoves
    <3> QED
      BY <2>2, <3>1, <3>2
  <2> QED
    BY <2>1, <2>3 DEF At, ScreenPc, store, TypeOK
<1>2. CASE WriteStaging(p)
  <2>1. /\ OnlyMoves(p) /\ KeepsLocals(p) /\ proc'[p].pc = "rename"
    BY <1>2, GotoEffect DEF WriteStaging, Pcs
  <2> QED
    BY <1>0, <1>2, <2>1
       DEF WriteStaging, At, ScreenPc, InRole, TypeOK, KeepsLocals, Bytes
<1>3. CASE RenameStaging(p) \/ RemoveDirectories(p)
  <2>1. /\ OnlyMoves(p) /\ KeepsLocals(p) /\ proc'[p].pc \in {"record", "fail"}
    BY <1>3, GotoEffect DEF RenameStaging, RemoveDirectories, Pcs
  <2>2. \E b \in Bytes \cup {Absent} : files' = [files EXCEPT !["screen"] = b]
    BY <1>0, <1>3 DEF RenameStaging, RemoveDirectories, Bytes
  <2>3. /\ files' \in [Names -> Bytes \cup {Absent}]
        /\ \A n \in Names \ {"screen"} : files'[n] = files[n]
    BY <2>2 DEF TypeOK
  <2> QED
    BY <1>3, <2>1, <2>3
       DEF RenameStaging, RemoveDirectories, At, ScreenPc, InRole, TypeOK,
           KeepsLocals
<1>4. CASE CommitScreen(p)
  <2>1. /\ OnlyMoves(p) /\ KeepsLocals(p) /\ proc'[p].pc = "done"
    BY <1>4, GotoEffect DEF CommitScreen, Pcs
  <2>2. Mine(p) = "screen"
    BY <1>4 DEF CommitScreen, At, InRole, ScreenPc, Mine, NameOf
  <2>3. /\ rows' \in [Names -> Content \cup {Absent}] /\ manifest' = rows'
        /\ \A n \in Names \ {"screen"} : rows'[n] = rows[n]
        /\ rows["screen"] # Absent => rows'["screen"] = rows["screen"]
        /\ manifest = Absent
    BY <1>0, <1>4, <2>2
       DEF CommitScreen, TypeOK, RegisterAccepted, Registered, Names
  <2>4. (proc[p].outcome = "screened_out") \in BOOLEAN
    OBVIOUS
  <2>5. run' \in RunRecord /\ run'.reviews = run.reviews
    BY <1>4, <2>4 DEF CommitScreen, TypeOK, RunRecord, ProcRecord
  <2> QED
    BY <1>4, <2>1, <2>3, <2>5
       DEF CommitScreen, At, ScreenPc, InRole, TypeOK, KeepsLocals
<1>5. CASE FailScreen(p)
  <2>1. /\ OnlyMoves(p) /\ KeepsLocals(p) /\ proc'[p].pc = "raised"
    BY <1>5, GotoEffect DEF FailScreen, Pcs
  <2>2. run' \in RunRecord /\ run'.reviews = run.reviews
    BY <1>5 DEF FailScreen, TypeOK, RunRecord
  <2> QED
    BY <1>5, <2>1, <2>2
       DEF FailScreen, At, ScreenPc, InRole, TypeOK, KeepsLocals
<1> QED
  BY <1>1, <1>2, <1>3, <1>4, <1>5 DEF ScreenStep

LEMMA ReadEffect ==
    ASSUME TypeOK, NEW p \in Processes, InRole(p), ReadStep(p)
    PROVE  /\ OnlyMoves(p)
           /\ UNCHANGED <<schema, applied, store, crashes, raced>>
           /\ proc[p].role = "read" /\ proc[p].pc \in {"start", "text"}
           /\ proc'[p].pc \in {"text", "done", "raised"}
<1>1. CASE BeginRead(p)
  <2>1. PICK name \in Names, pc \in {"text", "raised"} :
            proc' = [proc EXCEPT ![p].name = name, ![p].pc = pc]
    BY <1>1 DEF BeginRead
  <2>2. proc[p] \in ProcRecord /\ pc \in Pcs
    BY DEF TypeOK, Pcs
  <2>3. proc'[p] = [proc[p] EXCEPT !.name = name, !.pc = pc]
    BY <2>1 DEF TypeOK
  <2>4. /\ proc'[p] \in ProcRecord /\ proc'[p].role = proc[p].role
        /\ proc'[p].doc = proc[p].doc
        /\ proc'[p].pc = pc
    BY <2>2, <2>3 DEF ProcRecord
  <2>5. \A q \in Processes : q # p => proc'[q] = proc[q]
    BY <2>1 DEF TypeOK
  <2>6. proc' \in [Processes -> ProcRecord]
    BY <2>1, <2>4, <2>5 DEF TypeOK
  <2> QED
    BY <1>1, <2>4, <2>5, <2>6 DEF BeginRead, At, OnlyMoves
<1>2. CASE ReadText(p)
  <2>1. CASE files[proc[p].name] \in Content
    <3>1. proc' = [proc EXCEPT ![p].accepted = files[proc[p].name],
                               ![p].pc = "done"]
      BY <1>2, <2>1 DEF ReadText
    <3>2. proc[p] \in ProcRecord /\ "done" \in Pcs
      BY DEF TypeOK, Pcs
    <3>3. proc'[p] = [proc[p] EXCEPT !.accepted = files[proc[p].name],
                                     !.pc = "done"]
      BY <3>1 DEF TypeOK
    <3>4. /\ proc'[p] \in ProcRecord /\ proc'[p].role = proc[p].role
          /\ proc'[p].doc = proc[p].doc
          /\ proc'[p].pc = "done"
      BY <2>1, <3>2, <3>3 DEF ProcRecord
    <3>5. \A q \in Processes : q # p => proc'[q] = proc[q]
      BY <3>1 DEF TypeOK
    <3>6. proc' \in [Processes -> ProcRecord]
      BY <3>1, <3>4, <3>5 DEF TypeOK
    <3> QED
      BY <1>2, <3>4, <3>5, <3>6 DEF ReadText, At, InRole, OnlyMoves
  <2>2. CASE files[proc[p].name] \notin Content
    <3>1. Goto(p, "raised")
      BY <1>2, <2>2 DEF ReadText, Goto
    <3> QED
      BY <1>2, <3>1, GotoEffect DEF ReadText, At, InRole, Pcs
  <2> QED
    BY <2>1, <2>2
<1> QED
  BY <1>1, <1>2 DEF ReadStep

LEMMA CrashEffect ==
    ASSUME TypeOK, NEW p \in Processes, InRole(p), Crash(p)
    PROVE  /\ OnlyMoves(p) /\ KeepsLocals(p)
           /\ UNCHANGED <<schema, applied, copies, rows, manifest, run>>
           /\ proc[p].pc \notin {"done", "raised", "dead"}
           /\ proc'[p].pc = "dead"
           /\ crashes' = crashes + 1 /\ crashes' \in 0..MaxCrashes
           /\ lock' = IF lock = p THEN Absent ELSE lock
           /\ files' \in [Names -> Bytes \cup {Absent}]
           /\ \/ raced' = raced
              \/ Mine(p) \in Names /\ raced' = raced \cup Midway(Mine(p))
           /\ \A n \in Names :
                 files'[n] # files[n] =>
                    /\ n \in {"evidence", "context"}
                    /\ Midway(n) \subseteq raced'
<1>1. /\ OnlyMoves(p) /\ KeepsLocals(p) /\ proc'[p].pc = "dead"
  BY GotoEffect DEF Crash, Pcs
<1>2. crashes' \in 0..MaxCrashes
  BY CrashAssumption DEF Crash, TypeOK
<1>3. CASE files' = files
  BY <1>1, <1>2, <1>3 DEF Crash, TypeOK
<1>4. CASE files' # files
  <2>1. /\ At(p, "write") /\ files' = [files EXCEPT ![Mine(p)] = Torn]
        /\ raced' = raced \cup Midway(Mine(p))
    BY <1>4 DEF Crash
  <2>2. Mine(p) \in {"evidence", "context"}
    BY <2>1 DEF InRole, At, EvidencePc, Mine, NameOf
  <2>3. /\ files' \in [Names -> Bytes \cup {Absent}]
        /\ \A n \in Names : files'[n] # files[n] => n = Mine(p)
    BY <2>1 DEF TypeOK, Bytes
  <2> QED
    BY <1>1, <1>2, <2>1, <2>2, <2>3 DEF Crash, Names
<1> QED
  BY <1>3, <1>4


-----------------------------------------------------------------------------
(* What every step does *)

Registers ==
    /\ \A n \in Names : rows[n] # Absent => rows'[n] = rows[n]
    /\ manifest # Absent => manifest' = manifest

\* A process that steps has not finished, and keeps what it has accepted
\* unless it is a reader; what is registered stays registered.
LEMMA ProcessEffect ==
    ASSUME StoreInv, NEW p \in Processes, ProcessStep(p)
    PROVE  /\ OnlyMoves(p) /\ proc[p].pc # "done"
           /\ proc[p].role # "read" => proc'[p].accepted = proc[p].accepted
           /\ Registers /\ raced \subseteq raced'
<1>0. TypeOK /\ InRole(p)
  BY DEF StoreInv, AllInRole
<1>1. CASE OpenStep(p)
  BY <1>0, <1>1, OpenEffect DEF store, Registers, Opening
<1>2. CASE EvidenceStep(p)
  BY <1>0, <1>2, EvidenceEffect DEF Registers, EvidencePc, KeepsLocals
<1>3. CASE DecideStep(p)
  <2>1. \A n \in Names : rows[n] # Absent => rows'[n] = rows[n]
    BY <1>0, <1>3, DecideEffect
  <2> QED
    BY <1>0, <1>3, <2>1, DecideEffect
       DEF Registers, DecidePc, LockPc, UndoPc, KeepsLocals
<1>4. CASE ScreenStep(p)
  <2>1. \A n \in Names : rows[n] # Absent => rows'[n] = rows[n]
    BY <1>0, <1>4, ScreenEffect
  <2> QED
    BY <1>0, <1>4, <2>1, ScreenEffect DEF Registers, ScreenPc
<1>5. CASE ReadStep(p)
  BY <1>0, <1>5, ReadEffect DEF store, Registers
<1>6. CASE UndoStep(p)
  BY <1>0, <1>6, UndoEffect DEF Registers, UndoPc, KeepsLocals
<1>7. CASE Crash(p)
  BY <1>0, <1>7, CrashEffect DEF Registers, KeepsLocals
<1> QED
  BY <1>1, <1>2, <1>3, <1>4, <1>5, <1>6, <1>7 DEF ProcessStep

LEMMA RolesStay ==
    ASSUME StoreInv, [Next]_vars
    PROVE  /\ \A q \in Processes : proc'[q].role = proc[q].role
           /\ \A q \in Processes : proc'[q].doc = proc[q].doc
           /\ proc' \in [Processes -> ProcRecord]
<1>1. ASSUME NEW p \in Processes, ProcessStep(p)
      PROVE  /\ \A q \in Processes : proc'[q].role = proc[q].role
             /\ \A q \in Processes : proc'[q].doc = proc[q].doc
             /\ proc' \in [Processes -> ProcRecord]
  BY <1>1, ProcessEffect DEF OnlyMoves
<1>2. CASE EndRunElsewhere \/ UNCHANGED vars
  BY <1>2 DEF EndRunElsewhere, vars, StoreInv, TypeOK
<1> QED
  BY <1>1, <1>2, StepCases

\* The rows stay, and so do the marks of readers whose file has changed and of
\* decisions that overtook a rollback.
LEMMA RegistersStay ==
    ASSUME StoreInv, [Next]_vars
    PROVE  Registers /\ raced \subseteq raced' /\ (Overtaken => Overtaken')
<1>1. ASSUME NEW p \in Processes, ProcessStep(p)
      PROVE  Registers /\ raced \subseteq raced'
  BY <1>1, ProcessEffect
<1>2. ASSUME EndRunElsewhere \/ UNCHANGED vars
      PROVE  Registers /\ raced \subseteq raced'
  BY <1>2 DEF EndRunElsewhere, vars, store, Registers
<1>3. Registers /\ raced \subseteq raced'
  BY <1>1, <1>2, StepCases
<1>4. \A q \in raced : proc'[q].role = proc[q].role
  BY RolesStay DEF StoreInv, TypeOK
<1> QED
  BY <1>3, <1>4 DEF Overtaken

LEMMA NextTyped ==
    ASSUME StoreInv, [Next]_vars
    PROVE  TypeOK'
<1>0. TypeOK /\ (\A p \in Processes : InRole(p)) /\ SchemaInSteps
  BY DEF StoreInv, AllInRole
<1>1. proc' \in [Processes -> ProcRecord]
  BY RolesStay
<1>2. ASSUME NEW p \in Processes, ProcessStep(p)
      PROVE  TypeOK'
  <2>1. CASE OpenStep(p)
    <3>1. /\ schema' \in {Foreign} \cup (0..(LatestSchema + 1))
          /\ applied' \in [1..LatestSchema -> Nat]
      <4>1. CASE Migrate(p) /\ schema = proc[p].version
        <5>1. schema \in 0..LatestSchema /\ schema < LatestSchema
          BY <1>0, <4>1 DEF Migrate, SchemaInSteps
        <5>2. schema + 1 \in 1..LatestSchema
          BY <5>1, SchemaAssumption
        <5>3. applied[schema + 1] + 1 \in Nat
          BY <1>0, <5>2 DEF TypeOK
        <5> QED
          BY <1>0, <4>1, <5>2, <5>3, SchemaAssumption DEF Migrate, TypeOK
      <4>2. CASE UNCHANGED <<schema, applied>>
        BY <1>0, <4>2 DEF TypeOK
      <4> QED
        BY <2>1, <4>1, <4>2
           DEF OpenStep, ReadVersion, CountTables, Migrate, Connected, Reopen
    <3>2. UNCHANGED <<store, crashes, raced>>
      BY <1>0, <2>1, OpenEffect
    <3> QED
      BY <1>0, <1>1, <3>1, <3>2 DEF TypeOK, store
  <2>2. CASE EvidenceStep(p)
    <3>1. raced' \subseteq Processes
      BY <1>0, <2>2, EvidenceEffect DEF TypeOK, Midway
    <3>2. /\ UNCHANGED <<schema, applied, copies, lock, crashes>>
          /\ files' \in [Names -> Bytes \cup {Absent}]
          /\ rows' \in [Names -> Content \cup {Absent}]
          /\ manifest' \in [Names -> Content \cup {Absent}] \cup {Absent}
          /\ run' \in RunRecord
      BY <1>0, <2>2, EvidenceEffect
    <3> QED
      BY <1>0, <1>1, <3>1, <3>2 DEF TypeOK
  <2>3. CASE DecideStep(p)
    <3>1. /\ UNCHANGED <<schema, applied, manifest, crashes>>
          /\ raced' \in {raced, raced \cup {p}}
          /\ files' \in [Names -> Bytes \cup {Absent}]
          /\ rows' \in [Names -> Content \cup {Absent}]
          /\ copies' \subseteq
                Processes \X {"staged", "backup", "staging"} \X Bytes
          /\ run' \in RunRecord /\ lock' \in {lock, Absent, p}
      BY <1>0, <2>3, DecideEffect
    <3> QED
      BY <1>0, <1>1, <3>1 DEF TypeOK
  <2>4. CASE ScreenStep(p)
    <3>1. /\ UNCHANGED <<schema, applied, lock, crashes, raced>>
          /\ files' \in [Names -> Bytes \cup {Absent}]
          /\ rows' \in [Names -> Content \cup {Absent}]
          /\ manifest' \in [Names -> Content \cup {Absent}] \cup {Absent}
          /\ copies' \subseteq
                Processes \X {"staged", "backup", "staging"} \X Bytes
          /\ run' \in RunRecord
      BY <1>0, <2>4, ScreenEffect
    <3> QED
      BY <1>0, <1>1, <3>1 DEF TypeOK
  <2>5. CASE ReadStep(p)
    <3>1. UNCHANGED <<schema, applied, store, crashes, raced>>
      BY <1>0, <2>5, ReadEffect
    <3> QED
      BY <1>0, <1>1, <3>1 DEF TypeOK, store
  <2>7. CASE UndoStep(p)
    <3>1. /\ UNCHANGED <<schema, applied, rows, manifest, run, lock>>
          /\ files' \in [Names -> Bytes \cup {Absent}]
          /\ copies' \subseteq copies /\ crashes' \in 0..MaxCrashes
          /\ raced' \in {raced, raced \cup Midway("decision")}
      BY <1>0, <2>7, UndoEffect
    <3> QED
      BY <1>0, <1>1, <3>1 DEF TypeOK, Midway
  <2>6. CASE Crash(p)
    <3>1. raced' \subseteq Processes
      BY <1>0, <2>6, CrashEffect DEF TypeOK, Midway
    <3>2. /\ UNCHANGED <<schema, applied, copies, rows, manifest, run>>
          /\ crashes' \in 0..MaxCrashes
          /\ lock' = IF lock = p THEN Absent ELSE lock
          /\ files' \in [Names -> Bytes \cup {Absent}]
      BY <1>0, <2>6, CrashEffect
    <3> QED
      BY <1>0, <1>1, <3>1, <3>2 DEF TypeOK
  <2> QED
    BY <1>2, <2>1, <2>2, <2>3, <2>4, <2>5, <2>6, <2>7 DEF ProcessStep
<1>3. CASE EndRunElsewhere
  <2>1. run' \in RunRecord
    BY <1>0, <1>3 DEF EndRunElsewhere, TypeOK, RunRecord
  <2> QED
    BY <1>0, <1>3, <2>1 DEF EndRunElsewhere, TypeOK
<1>4. CASE UNCHANGED vars
  BY <1>0, <1>4 DEF TypeOK, vars, store
<1> QED
  BY <1>2, <1>3, <1>4, StepCases

LEMMA NextInRole ==
    ASSUME StoreInv, [Next]_vars, NEW q \in Processes
    PROVE  InRole(q)'
<1>0. TypeOK /\ (\A p \in Processes : InRole(p))
  BY DEF StoreInv, AllInRole
<1>1. ASSUME NEW p \in Processes, ProcessStep(p)
      PROVE  InRole(q)'
  <2>1. CASE q # p
    <3>1. proc'[q] = proc[q]
      BY <1>1, <2>1, ProcessEffect DEF OnlyMoves
    <3> QED
      BY <1>0, <3>1 DEF InRole, At
  <2>2. CASE q = p
    <3>1. CASE OpenStep(p)
      <4>1. /\ proc'[p].role = "open"
            /\ proc'[p].pc \in Opening \cup {"done"}
        BY <1>0, <3>1, OpenEffect DEF OnlyMoves
      <4> QED
        BY <2>2, <4>1
           DEF InRole, At, Opening, EvidencePc, DecidePc, LockPc, UndoPc,
               ScreenPc
    <3>2. CASE EvidenceStep(p)
      <4>1. /\ proc'[p].role \in {"evidence", "fixture", "context"}
            /\ proc'[p].pc \in EvidencePc \cup {"done", "raised"}
            /\ proc'[p].pc = "manifest" => proc'[p].role # "context"
        BY <1>0, <3>2, EvidenceEffect DEF OnlyMoves
      <4> QED
        BY <2>2, <4>1
           DEF InRole, At, Opening, EvidencePc, DecidePc, LockPc, UndoPc,
               ScreenPc
    <3>3. CASE DecideStep(p)
      <4>1. /\ proc'[p].role = "decide"
            /\ proc'[p].pc \in DecidePc \cup {"done", "raised"}
        BY <1>0, <3>3, DecideEffect DEF OnlyMoves
      <4> QED
        BY <2>2, <4>1
           DEF InRole, At, Opening, EvidencePc, DecidePc, LockPc, UndoPc,
               ScreenPc
    <3>4. CASE ScreenStep(p)
      <4>1. /\ proc'[p].role = "screen"
            /\ proc'[p].pc \in ScreenPc \cup {"done", "raised"}
        BY <1>0, <3>4, ScreenEffect DEF OnlyMoves
      <4> QED
        BY <2>2, <4>1
           DEF InRole, At, Opening, EvidencePc, DecidePc, LockPc, UndoPc,
               ScreenPc
    <3>5. CASE ReadStep(p)
      <4>1. /\ proc'[p].role = "read"
            /\ proc'[p].pc \in {"text", "done", "raised"}
        BY <1>0, <3>5, ReadEffect DEF OnlyMoves
      <4> QED
        BY <2>2, <4>1
           DEF InRole, At, Opening, EvidencePc, DecidePc, LockPc, UndoPc,
               ScreenPc
    <3>7. CASE UndoStep(p)
      <4>1. /\ proc'[p].role = "decide"
            /\ proc'[p].pc \in {"restore", "raised"}
        BY <1>0, <3>7, UndoEffect DEF OnlyMoves
      <4> QED
        BY <2>2, <4>1
           DEF InRole, At, Opening, EvidencePc, DecidePc, LockPc, UndoPc,
               ScreenPc
    <3>6. CASE Crash(p)
      <4>1. proc'[p].pc = "dead"
        BY <1>0, <3>6, CrashEffect
      <4> QED
        BY <2>2, <4>1
           DEF InRole, At, Opening, EvidencePc, DecidePc, LockPc, UndoPc,
               ScreenPc
    <3> QED
      BY <1>1, <3>1, <3>2, <3>3, <3>4, <3>5, <3>6, <3>7 DEF ProcessStep
  <2> QED
    BY <2>1, <2>2
<1>2. CASE EndRunElsewhere \/ UNCHANGED vars
  <2>1. proc' = proc
    BY <1>2 DEF EndRunElsewhere, vars
  <2> QED
    BY <1>0, <2>1 DEF InRole, At
<1> QED
  BY <1>1, <1>2, StepCases

LEMMA NextOneComputes ==
    ASSUME StoreInv, [Next]_vars
    PROVE  OneComputes'
BY RolesStay DEF StoreInv, OneComputes

-----------------------------------------------------------------------------
(* Migrations *)

LEMMA NextSchema ==
    ASSUME StoreInv, [Next]_vars
    PROVE  SchemaInSteps'
<1>0. /\ TypeOK /\ (\A p \in Processes : InRole(p)) /\ SchemaInSteps
      /\ \A q \in Processes : proc'[q].role = proc[q].role
  BY RolesStay DEF StoreInv, AllInRole
<1>1. ASSUME NEW p \in Processes, OpenStep(p)
      PROVE  SchemaInSteps'
  <2>0. /\ OnlyMoves(p) /\ proc[p].role = "open"
        /\ proc \in [Processes -> ProcRecord]
    BY <1>0, <1>1, OpenEffect DEF TypeOK
  <2>1. CASE ReadVersion(p)
    <3>1. /\ UNCHANGED <<schema, applied>>
          /\ proc'[p].pc # "done" /\ proc'[p].pc # "raised"
          /\ At(p, "migrate")' =>
                /\ schema \in 0..LatestSchema
                /\ proc'[p].version = schema
      BY <1>0, <2>0, <2>1, SchemaAssumption
         DEF ReadVersion, At, TypeOK, ProcRecord, Foreign
    <3> QED
      BY <1>0, <2>0, <3>1, SchemaAssumption
         DEF SchemaInSteps, OnlyMoves, At
  <2>2. CASE CountTables(p)
    <3>1. /\ UNCHANGED <<schema, applied>>
          /\ proc'[p].pc # "done" /\ proc'[p].pc # "raised"
          /\ At(p, "migrate")' => schema = 0 /\ proc'[p].version = 0
      BY <2>0, <2>2 DEF CountTables, At, ProcRecord
    <3> QED
      BY <1>0, <2>0, <3>1, SchemaAssumption
         DEF SchemaInSteps, OnlyMoves, At
  <2>3. CASE Migrate(p) /\ schema = proc[p].version
    <3>1. /\ schema \in 0..LatestSchema /\ schema < LatestSchema
          /\ schema' = schema + 1
          /\ applied' = [applied EXCEPT ![schema + 1] = @ + 1]
          /\ proc' = [proc EXCEPT ![p].version = @ + 1]
      BY <1>0, <2>3 DEF Migrate, SchemaInSteps
    <3>2. /\ schema' \in 1..LatestSchema /\ applied[schema + 1] = 0
          /\ proc'[p].version = schema + 1 /\ proc'[p].pc = "migrate"
      BY <1>0, <2>0, <2>3, <3>1, SchemaAssumption
         DEF SchemaInSteps, ProcRecord, Migrate, At
    <3>3. ASSUME NEW v \in 1..LatestSchema
          PROVE  applied'[v] <= 1 /\ (v > schema' => applied'[v] = 0)
      <4>1. CASE v = schema + 1
        BY <1>0, <3>1, <3>2, <4>1, SchemaAssumption DEF TypeOK
      <4>2. CASE v # schema + 1
        <5>1. applied'[v] = applied[v]
          BY <1>0, <3>1, <4>2 DEF TypeOK
        <5> QED
          BY <1>0, <3>1, <5>1, SchemaAssumption DEF SchemaInSteps
      <4> QED
        BY <4>1, <4>2
    <3>4. ASSUME NEW q \in Processes
          PROVE  /\ proc'[q].role = "open"
                 /\ proc'[q].pc \notin {"done", "raised"}
                 /\ At(q, "migrate")' => proc'[q].version \in 0..schema'
      <4>1. proc[q].role = "open" /\ proc[q].pc \notin {"done", "raised"}
        BY <1>0, <3>1, SchemaAssumption DEF SchemaInSteps
      <4>2. CASE q = p
        BY <1>0, <3>1, <3>2, <4>1, <4>2, SchemaAssumption
      <4>3. CASE q # p
        <5>1. proc'[q] = proc[q]
          BY <2>0, <4>3 DEF OnlyMoves
        <5>2. At(q, "migrate") => proc[q].version \in 0..schema
          BY <1>0 DEF SchemaInSteps
        <5> QED
          BY <3>1, <4>1, <5>1, <5>2, SchemaAssumption DEF At
      <4> QED
        BY <4>2, <4>3
    <3> QED
      BY <3>1, <3>2, <3>3, <3>4, SchemaAssumption DEF SchemaInSteps
  <2>4. CASE \/ Migrate(p) /\ schema # proc[p].version
             \/ Reopen(p)
    <3>1. /\ UNCHANGED <<schema, applied>>
          /\ proc'[p].pc \in {"refused", "open"}
      BY <1>0, <2>4, GotoEffect DEF Migrate, Reopen, Pcs, Opening
    <3> QED
      BY <1>0, <2>0, <3>1 DEF SchemaInSteps, OnlyMoves, At
  <2>5. CASE Connected(p)
    <3>1. UNCHANGED <<schema, applied>> /\ proc'[p].pc = "done"
      BY <1>0, <2>5, GotoEffect DEF Connected, Pcs
    <3>2. schema = LatestSchema
      BY <1>0, <2>5, SchemaAssumption DEF Connected, SchemaInSteps
    <3> QED
      BY <1>0, <2>0, <3>1, <3>2 DEF SchemaInSteps, OnlyMoves, At
  <2> QED
    BY <1>1, <2>1, <2>2, <2>3, <2>4, <2>5 DEF OpenStep
<1>2. ASSUME NEW p \in Processes, ProcessStep(p), ~OpenStep(p)
      PROVE  SchemaInSteps'
  <2>1. /\ OnlyMoves(p) /\ UNCHANGED <<schema, applied>>
        /\ proc'[p].pc # "migrate"
        /\ proc'[p].pc \in {"done", "raised"} => proc[p].role # "open"
    <3>1. CASE EvidenceStep(p)
      BY <1>0, <3>1, EvidenceEffect DEF EvidencePc
    <3>2. CASE DecideStep(p)
      BY <1>0, <3>2, DecideEffect DEF DecidePc, LockPc, UndoPc
    <3>6. CASE UndoStep(p)
      BY <1>0, <3>6, UndoEffect
    <3>3. CASE ScreenStep(p)
      BY <1>0, <3>3, ScreenEffect DEF ScreenPc
    <3>4. CASE ReadStep(p)
      BY <1>0, <3>4, ReadEffect
    <3>5. CASE Crash(p)
      BY <1>0, <3>5, CrashEffect
    <3> QED
      BY <1>2, <3>1, <3>2, <3>3, <3>4, <3>5, <3>6 DEF ProcessStep
  <2> QED
    BY <1>0, <2>1 DEF SchemaInSteps, OnlyMoves, At
<1>3. CASE EndRunElsewhere \/ UNCHANGED vars
  <2>1. UNCHANGED <<schema, applied, proc>>
    BY <1>3 DEF EndRunElsewhere, vars
  <2> QED
    BY <1>0, <2>1 DEF SchemaInSteps, At
<1> QED
  BY <1>1, <1>2, <1>3, StepCases

\* Of the phase of a process and the schema, on any state.
LEMMA SchemaShows ==
    TypeOK /\ AllInRole /\ SchemaInSteps => MigratedOnce
<1> SUFFICES ASSUME TypeOK, AllInRole, SchemaInSteps
             PROVE  MigratedOnce
  OBVIOUS
<1>1. ASSUME NEW p \in Processes, proc[p].pc \notin Opening \cup {"dead"}
      PROVE  schema = LatestSchema
  <2>1. CASE proc[p].role # "open"
    BY <2>1 DEF SchemaInSteps
  <2>2. CASE proc[p].role = "open"
    <3>1. proc[p].pc \in {"done", "raised"}
      BY <1>1, <2>2
         DEF TypeOK, ProcRecord, Pcs, AllInRole, InRole, At, EvidencePc,
             DecidePc, LockPc, UndoPc, ScreenPc
    <3> QED
      BY <3>1 DEF SchemaInSteps
  <2> QED
    BY <2>1, <2>2
<1>2. schema = Foreign => \A v \in 1..LatestSchema : applied[v] = 0
  BY SchemaAssumption DEF SchemaInSteps, Foreign
<1> QED
  BY <1>1, <1>2 DEF MigratedOnce, SchemaInSteps

-----------------------------------------------------------------------------
(* Decisions *)

\* Steps that no decision is affected by.
DecisionKept(p) ==
    /\ OnlyMoves(p) /\ UNCHANGED lock /\ UNCHANGED crashes
    /\ Overtaken => Overtaken'
    /\ proc[p].pc \notin DecidePc /\ proc'[p].pc \notin DecidePc
    /\ files'["decision"] = files["decision"]
    /\ rows'["decision"] = rows["decision"]
    /\ run'.reviews \cap Docs = run.reviews \cap Docs
    /\ \A c \in copies' : c \in copies \/ c[2] = "staging"

LEMMA DecisionKeptBy ==
    ASSUME StoreInv, NEW p \in Processes,
           OpenStep(p) \/ EvidenceStep(p) \/ ScreenStep(p) \/ ReadStep(p),
           Overtaken => Overtaken'
    PROVE  DecisionKept(p)
<1>0. TypeOK /\ InRole(p)
  BY DEF StoreInv, AllInRole
<1>1. CASE OpenStep(p)
  BY <1>0, <1>1, OpenEffect
     DEF DecisionKept, store, Opening, DecidePc, LockPc, UndoPc
<1>2. CASE EvidenceStep(p)
  <2>1. "decision" \in Names
    BY DEF Names
  <2>2. /\ files'["decision"] = files["decision"]
        /\ rows'["decision"] = rows["decision"]
    BY <1>0, <1>2, <2>1, EvidenceEffect
  <2> QED
    BY <1>0, <1>2, <2>2, EvidenceEffect
       DEF DecisionKept, EvidencePc, DecidePc, LockPc, UndoPc
<1>3. CASE ScreenStep(p)
  <2>1. "decision" \in Names \ {"screen"}
    BY DEF Names
  <2> QED
    BY <1>0, <1>3, <2>1, ScreenEffect
       DEF DecisionKept, ScreenPc, DecidePc, LockPc, UndoPc
<1>4. CASE ReadStep(p)
  BY <1>0, <1>4, ReadEffect
     DEF DecisionKept, store, DecidePc, LockPc, UndoPc
<1> QED
  BY <1>1, <1>2, <1>3, <1>4

LEMMA NextLock ==
    ASSUME StoreInv, [Next]_vars
    PROVE  LockInSteps'
<1>0. /\ TypeOK /\ (\A p \in Processes : InRole(p)) /\ LockInSteps
  BY DEF StoreInv, AllInRole
<1>1. ASSUME NEW p \in Processes, DecisionKept(p)
      PROVE  LockInSteps'
  BY <1>0, <1>1 DEF LockInSteps, DecisionKept, OnlyMoves, DecidePc
<1>5. ASSUME NEW p \in Processes, UndoStep(p)
      PROVE  LockInSteps'
  <2>1. /\ OnlyMoves(p) /\ UNCHANGED <<lock, rows>>
        /\ proc[p].pc \notin LockPc /\ proc'[p].pc \notin LockPc
    BY <1>0, <1>5, UndoEffect DEF LockPc, UndoPc
  <2> QED
    BY <1>0, <2>1 DEF LockInSteps, OnlyMoves
<1>2. ASSUME NEW p \in Processes, DecideStep(p)
      PROVE  LockInSteps'
  <2>0. OnlyMoves(p)
    BY <1>0, <1>2, DecideEffect
  <2>1. CASE LookForDecision(p)
    <3>1. /\ UNCHANGED <<lock, rows>> /\ proc[p].pc \notin LockPc
          /\ proc'[p].pc \notin LockPc
      BY <1>0, <2>1, GotoEffect DEF LookForDecision, Pcs, At, LockPc, store
    <3> QED
      BY <1>0, <2>0, <3>1 DEF LockInSteps, OnlyMoves
  <2>2. CASE BeginDecision(p)
    <3>1. /\ lock = Absent /\ rows' = rows
          /\ \/ rows["decision"] = Absent /\ lock' = p /\ proc'[p].pc = "stage"
             \/ lock' = lock /\ proc'[p].pc = "raised"
      BY <1>0, <2>2, GotoEffect DEF BeginDecision, Pcs
    <3> QED
      BY <1>0, <2>0, <3>1, AbsentAssumption DEF LockInSteps, OnlyMoves, LockPc
  <2>3. CASE StageFile(p) \/ BackUpFile(p) \/ InstallFile(p)
    <3>1. /\ UNCHANGED <<lock, rows>> /\ proc[p].pc \in LockPc
          /\ proc'[p].pc \in LockPc
      BY <1>0, <2>3, GotoEffect
         DEF StageFile, BackUpFile, InstallFile, Pcs, At, LockPc
    <3> QED
      BY <1>0, <2>0, <3>1 DEF LockInSteps, OnlyMoves
  <2>4. CASE CommitDecision(p) \/ RollBackDecision(p)
    <3>1. /\ lock' = Absent /\ proc[p].pc \in LockPc
          /\ proc'[p].pc \notin LockPc
      BY <1>0, <2>4, GotoEffect
         DEF CommitDecision, RollBackDecision, Pcs, At, LockPc
    <3> QED
      BY <1>0, <2>0, <3>1, AbsentAssumption DEF LockInSteps, OnlyMoves
  <2>5. CASE FinishFiles(p)
    <3>1. /\ UNCHANGED <<lock, rows>> /\ proc[p].pc \notin LockPc
          /\ proc'[p].pc \notin LockPc
      BY <1>0, <2>5, GotoEffect DEF FinishFiles, Pcs, At, LockPc
    <3> QED
      BY <1>0, <2>0, <3>1 DEF LockInSteps, OnlyMoves
  <2> QED
    BY <1>2, <2>1, <2>2, <2>3, <2>4, <2>5 DEF DecideStep
<1>3. ASSUME NEW p \in Processes, Crash(p)
      PROVE  LockInSteps'
  <2>1. /\ OnlyMoves(p) /\ proc'[p].pc \notin LockPc /\ rows' = rows
        /\ lock' = IF lock = p THEN Absent ELSE lock
    BY <1>0, <1>3, CrashEffect DEF LockPc
  <2> QED
    BY <1>0, <2>1, AbsentAssumption DEF LockInSteps, OnlyMoves
<1>4. CASE EndRunElsewhere \/ UNCHANGED vars
  <2>1. UNCHANGED <<lock, rows, proc>>
    BY <1>4 DEF EndRunElsewhere, vars, store
  <2> QED
    BY <1>0, <2>1 DEF LockInSteps
<1> QED
  BY <1>1, <1>2, <1>3, <1>4, <1>5, StepCases, DecisionKeptBy, RegistersStay
     DEF ProcessStep

\* A step under the lock: there is no decision, nobody else holds the lock.
LEMMA UnderLock ==
    ASSUME StoreInv, NEW p \in Processes, proc[p].pc \in LockPc
    PROVE  /\ lock = p /\ rows["decision"] = Absent
           /\ run.reviews \cap Docs = {}
           /\ proc[p].role = "decide" /\ Mine(p) = "decision"
           /\ \A q \in Processes : q # p => proc[q].pc \notin LockPc
<1>1. lock = p /\ lock # Absent
  BY AbsentAssumption DEF StoreInv, LockInSteps
<1>2. proc[p].role = "decide"
  BY DEF StoreInv, AllInRole, InRole, DecidePc
<1> QED
  BY <1>1, <1>2
     DEF StoreInv, LockInSteps, DecisionInSteps, Mine, NameOf

LEMMA NextUndo ==
    ASSUME StoreInv, [Next]_vars
    PROVE  UndoInSteps'
<1>0. /\ TypeOK /\ (\A p \in Processes : InRole(p)) /\ LockInSteps
      /\ UndoInSteps /\ (Overtaken => Overtaken')
  BY RegistersStay DEF StoreInv, AllInRole
<1> SUFFICES ASSUME ~Overtaken'
             PROVE  /\ \A p, q \in Processes :
                          (proc'[p].pc \in LockPc \cup UndoPc
                             /\ proc'[q].pc \in LockPc \cup UndoPc) => p = q
                    /\ \A p \in Processes :
                          proc'[p].pc \in UndoPc => rows'["decision"] = Absent
  BY DEF UndoInSteps
<1>1. ~Overtaken
  BY <1>0
<1> DEFINE Busy(p) == proc[p].pc \in LockPc \cup UndoPc
<1>2. /\ \A p, q \in Processes : Busy(p) /\ Busy(q) => p = q
      /\ \A p \in Processes : Busy(p) => rows["decision"] = Absent
  BY <1>0, <1>1, UnderLock DEF UndoInSteps
\* A step that leaves one process where it was among the busy ones.
<1>3. ASSUME NEW p \in Processes, OnlyMoves(p),
             rows'["decision"] = rows["decision"],
             proc'[p].pc \in LockPc \cup UndoPc => Busy(p)
      PROVE  /\ \A q, r \in Processes :
                   (proc'[q].pc \in LockPc \cup UndoPc
                      /\ proc'[r].pc \in LockPc \cup UndoPc) => q = r
             /\ \A q \in Processes :
                   proc'[q].pc \in UndoPc => rows'["decision"] = Absent
  <2>1. \A q \in Processes : proc'[q].pc \in LockPc \cup UndoPc => Busy(q)
    BY <1>3 DEF OnlyMoves
  <2> HIDE DEF Busy
  <2> QED
    BY <1>2, <1>3, <2>1
<1>4. ASSUME NEW p \in Processes, DecisionKept(p)
      PROVE  /\ OnlyMoves(p) /\ rows'["decision"] = rows["decision"]
             /\ proc'[p].pc \notin LockPc \cup UndoPc
  BY <1>4 DEF DecisionKept, DecidePc
<1>5. ASSUME NEW p \in Processes, DecideStep(p)
      PROVE  /\ \A q, r \in Processes :
                   (proc'[q].pc \in LockPc \cup UndoPc
                      /\ proc'[r].pc \in LockPc \cup UndoPc) => q = r
             /\ \A q \in Processes :
                   proc'[q].pc \in UndoPc => rows'["decision"] = Absent
  <2>0. OnlyMoves(p) /\ InRole(p)
    BY <1>0, <1>5, DecideEffect
  <2>1. CASE LookForDecision(p) \/ FinishFiles(p)
    <3>1. rows' = rows /\ proc'[p].pc \notin LockPc \cup UndoPc
      BY <1>0, <2>1, GotoEffect
         DEF LookForDecision, FinishFiles, Pcs, LockPc, UndoPc, store
    <3> QED
      BY <1>3, <2>0, <3>1
  <2>2. CASE BeginDecision(p)
    <3>1. /\ lock = Absent /\ rows' = rows
          /\ \/ proc'[p].pc = "stage" /\ (Undoing # {} => p \in raced')
             \/ proc'[p].pc = "raised"
      BY <1>0, <2>2, GotoEffect DEF BeginDecision, Pcs
    <3>2. CASE proc'[p].pc = "raised"
      BY <1>3, <2>0, <3>1, <3>2 DEF LockPc, UndoPc
    <3>3. CASE proc'[p].pc = "stage"
      <4>1. proc[p].role = "decide"
        BY <1>0, <1>5, DecideEffect
      <4>2. Undoing = {}
        BY <2>0, <3>1, <3>3, <4>1 DEF Overtaken, OnlyMoves
      <4>3. \A q \in Processes : ~Busy(q)
        BY <1>0, <3>1, <4>2, AbsentAssumption
           DEF Undoing, UndoPc, LockInSteps
      <4>4. \A q \in Processes :
                /\ proc'[q].pc \in LockPc \cup UndoPc => q = p
                /\ proc'[q].pc \notin UndoPc
        BY <2>0, <3>3, <4>3 DEF OnlyMoves, UndoPc
      <4> QED
        BY <4>4
    <3> QED
      BY <3>1, <3>2, <3>3
  <2>3. CASE \/ StageFile(p) \/ BackUpFile(p) \/ InstallFile(p)
             \/ RollBackDecision(p)
    <3>1. rows' = rows /\ Busy(p)
      BY <2>3 DEF StageFile, BackUpFile, InstallFile, RollBackDecision, At,
                  LockPc
    <3> QED
      BY <1>3, <2>0, <3>1
  <2>4. CASE CommitDecision(p)
    <3>1. Busy(p) /\ proc'[p].pc = "finish"
      BY <1>0, <2>4, GotoEffect DEF CommitDecision, At, LockPc, Pcs
    <3>2. \A q \in Processes : proc'[q].pc \notin LockPc \cup UndoPc
      <4> HIDE DEF Busy
      <4>1. \A q \in Processes : q # p => ~Busy(q)
        BY <1>2, <3>1
      <4> QED
        BY <2>0, <3>1, <4>1 DEF OnlyMoves, LockPc, UndoPc, Busy
    <3> QED
      BY <3>2
  <2> QED
    BY <1>5, <2>1, <2>2, <2>3, <2>4 DEF DecideStep
<1>6. ASSUME NEW p \in Processes, UndoStep(p) \/ Crash(p)
      PROVE  /\ OnlyMoves(p) /\ rows' = rows
             /\ proc'[p].pc \in LockPc \cup UndoPc => Busy(p)
  BY <1>0, <1>6, UndoEffect, CrashEffect DEF LockPc, UndoPc
<1>7. CASE EndRunElsewhere \/ UNCHANGED vars
  <2>1. UNCHANGED <<rows, proc>>
    BY <1>7 DEF EndRunElsewhere, vars, store
  <2> QED
    BY <1>2, <2>1
<1> HIDE DEF Busy
<1>8. ASSUME NEW p \in Processes, ProcessStep(p)
      PROVE  /\ \A q, r \in Processes :
                   (proc'[q].pc \in LockPc \cup UndoPc
                      /\ proc'[r].pc \in LockPc \cup UndoPc) => q = r
             /\ \A q \in Processes :
                   proc'[q].pc \in UndoPc => rows'["decision"] = Absent
  <2>1. CASE DecideStep(p)
    BY <1>5, <2>1
  <2>2. CASE UndoStep(p) \/ Crash(p)
    BY <1>3, <1>6, <2>2
  <2>3. CASE OpenStep(p) \/ EvidenceStep(p) \/ ScreenStep(p) \/ ReadStep(p)
    <3>1. DecisionKept(p)
      BY <1>0, <2>3, DecisionKeptBy
    <3> QED
      BY <1>3, <1>4, <3>1
  <2> QED
    BY <1>8, <2>1, <2>2, <2>3 DEF ProcessStep
<1> QED
  BY <1>7, <1>8, StepCases

LEMMA NextDecision ==
    ASSUME StoreInv, [Next]_vars
    PROVE  DecisionInSteps'
<1>0. /\ TypeOK /\ (\A p \in Processes : InRole(p)) /\ DecisionInSteps
      /\ \A q \in Processes : My(q)' = My(q)
      /\ Overtaken => Overtaken'
  BY RolesStay, RegistersStay DEF StoreInv, AllInRole, My
<1>1. ASSUME NEW p \in Processes, DecisionKept(p)
      PROVE  DecisionInSteps'
  BY <1>0, <1>1
     DEF DecisionInSteps, DecisionKept, OnlyMoves, DecidePc, LockPc, At
<1>2. ASSUME NEW p \in Processes, DecideStep(p)
      PROVE  DecisionInSteps'
  <2>0. OnlyMoves(p) /\ My(p) \in Content /\ "decision" \in Names
    BY <1>0, <1>2, DecideEffect DEF My, Content, TypeOK, ProcRecord, Names
  <2>1. CASE LookForDecision(p) \/ BeginDecision(p) \/ FinishFiles(p)
    <3>1. UNCHANGED <<files, rows, run>> /\ proc'[p].pc # "commit"
      BY <1>0, <2>1, GotoEffect
         DEF LookForDecision, BeginDecision, FinishFiles, Pcs, store
    <3> QED
      BY <1>0, <2>0, <3>1 DEF DecisionInSteps, OnlyMoves, At
  <2>2. CASE StageFile(p) \/ BackUpFile(p) \/ RollBackDecision(p)
    <3>1. /\ UNCHANGED <<rows, run>> /\ proc'[p].pc # "commit"
          /\ proc[p].pc \in LockPc
      BY <1>0, <2>2, GotoEffect
         DEF StageFile, BackUpFile, RollBackDecision, Pcs, LockPc, At
    <3>2. \A q \in Processes : ~At(q, "commit")'
      BY <2>0, <3>1, UnderLock DEF OnlyMoves, At, LockPc
    <3> QED
      BY <1>0, <3>1, <3>2, UnderLock DEF DecisionInSteps
  <2>3. CASE InstallFile(p)
    <3>1. /\ UNCHANGED <<rows, run>> /\ proc[p].pc \in LockPc
          /\ files'["decision"] = My(p)
      BY <1>0, <2>0, <2>3 DEF InstallFile, LockPc, At, TypeOK
    <3>2. \A q \in Processes : At(q, "commit")' => q = p
      BY <2>0, <3>1, UnderLock DEF OnlyMoves, At, LockPc
    <3> QED
      BY <1>0, <3>1, <3>2, UnderLock DEF DecisionInSteps
  <2>4. CASE CommitDecision(p)
    <3>1. /\ proc[p].pc \in LockPc /\ files' = files
          /\ ~Overtaken => files["decision"] = My(p)
          /\ run' = [run EXCEPT !.reviews = @ \cup {proc[p].doc}]
          /\ proc'[p].pc # "commit"
      BY <1>0, <2>4, GotoEffect
         DEF CommitDecision, LockPc, At, DecisionInSteps, Pcs
    <3>2. rows'["decision"] = My(p)
      BY <1>0, <2>0, <2>4, <3>1, UnderLock
         DEF CommitDecision, Registered, TypeOK
    <3>3. My(p) # Absent /\ My(p).doc = proc[p].doc /\ proc[p].doc \in Docs
      BY <1>0, <2>0, AbsentAssumption DEF My, TypeOK, ProcRecord
    <3>4. run'.reviews \cap Docs = {My(p).doc}
      BY <1>0, <3>1, <3>3, UnderLock DEF TypeOK, RunRecord
    <3>5. \A q \in Processes : ~At(q, "commit")'
      BY <2>0, <3>1, UnderLock DEF OnlyMoves, At, LockPc
    <3> QED
      BY <1>0, <3>1, <3>2, <3>3, <3>4, <3>5 DEF DecisionInSteps
  <2> QED
    BY <1>2, <2>1, <2>2, <2>3, <2>4 DEF DecideStep
<1>5. ASSUME NEW p \in Processes, UndoStep(p)
      PROVE  DecisionInSteps'
  <2>1. /\ OnlyMoves(p) /\ proc'[p].pc # "commit" /\ UNCHANGED <<rows, run>>
        /\ files' # files => proc[p].pc \in UndoPc
    BY <1>0, <1>5, UndoEffect
  <2>2. CASE files' = files
    BY <1>0, <2>1, <2>2 DEF DecisionInSteps, OnlyMoves, At
  <2>3. CASE files' # files /\ ~Overtaken'
    <3>1. /\ proc[p].pc \in UndoPc /\ rows["decision"] = Absent
          /\ \A q \in Processes : At(q, "commit") => q = p
      BY <1>0, <2>1, <2>3 DEF StoreInv, UndoInSteps, At, LockPc
    <3>2. \A q \in Processes : ~At(q, "commit")'
      BY <2>1, <3>1 DEF OnlyMoves, At
    <3> QED
      BY <1>0, <2>1, <3>1, <3>2 DEF DecisionInSteps
  <2>4. CASE Overtaken'
    BY <1>0, <2>1, <2>4 DEF DecisionInSteps
  <2> QED
    BY <2>2, <2>3, <2>4
<1>3. ASSUME NEW p \in Processes, Crash(p)
      PROVE  DecisionInSteps'
  <2>1. /\ OnlyMoves(p) /\ proc'[p].pc = "dead" /\ UNCHANGED <<rows, run>>
    BY <1>0, <1>3, CrashEffect
  <2>2. files'["decision"] = files["decision"]
    BY <1>0, <1>3, CrashEffect DEF Names
  <2> QED
    BY <1>0, <2>1, <2>2 DEF DecisionInSteps, OnlyMoves, At
<1>4. CASE EndRunElsewhere \/ UNCHANGED vars
  <2>1. UNCHANGED <<files, rows, proc>> /\ run'.reviews = run.reviews
    BY <1>0, <1>4 DEF EndRunElsewhere, vars, store, TypeOK, RunRecord
  <2> QED
    BY <1>0, <2>1 DEF DecisionInSteps, At
<1> QED
  BY <1>0, <1>1, <1>2, <1>3, <1>4, <1>5, StepCases, DecisionKeptBy
     DEF ProcessStep

\* A staged file is installed or removed by the process that staged it.
LEMMA NextStaged ==
    ASSUME StoreInv, [Next]_vars
    PROVE  StagedInSteps'
<1>0. /\ TypeOK /\ (\A p \in Processes : InRole(p)) /\ StagedInSteps
      /\ \A q \in Processes : My(q)' = My(q)
      /\ \A c \in copies : c[1] \in Processes
      /\ Overtaken => Overtaken'
  BY RolesStay, RegistersStay DEF StoreInv, AllInRole, My, TypeOK
\* Staged files of other processes are not touched.
<1>1. ASSUME NEW p \in Processes, OnlyMoves(p), crashes = 0,
             NEW c \in copies, c[2] = "staged", c[1] # p
      PROVE  proc'[c[1]].pc \in {"backup", "install"} /\ c[3] = My(c[1])'
  BY <1>0, <1>1 DEF StagedInSteps, OnlyMoves
<1>2. ASSUME NEW p \in Processes, DecisionKept(p)
      PROVE  StagedInSteps'
  <2>1. ASSUME crashes' = 0, NEW c \in copies', c[2] = "staged"
        PROVE  proc'[c[1]].pc \in {"backup", "install"} /\ c[3] = My(c[1])'
    <3>1. c \in copies /\ crashes = 0
      BY <1>2, <2>1 DEF DecisionKept
    <3>2. c[1] # p
      BY <1>0, <1>2, <2>1, <3>1
         DEF StagedInSteps, DecisionKept, DecidePc, LockPc
    <3> QED
      BY <1>1, <1>2, <2>1, <3>1, <3>2 DEF DecisionKept
  <2> QED
    BY <2>1 DEF StagedInSteps
<1>3. ASSUME NEW p \in Processes, DecideStep(p), crashes = 0
      PROVE  StagedInSteps'
  <2>0. OnlyMoves(p) /\ My(p)' = My(p)
    BY <1>0, <1>3, DecideEffect
  <2>1. ASSUME NEW c \in copies', c[2] = "staged", c[1] = p
        PROVE  proc'[p].pc \in {"backup", "install"} /\ c[3] = My(p)
    <3>1. c \in copies => proc[p].pc \in {"backup", "install"}
                             /\ c[3] = My(p)
      BY <1>0, <1>3, <2>1 DEF StagedInSteps
    <3>2. CASE LookForDecision(p) \/ BeginDecision(p) \/ FinishFiles(p)
               \/ CommitDecision(p)
      <4>1. /\ copies' \subseteq copies
            /\ proc[p].pc \notin {"backup", "install"}
        BY <3>2 DEF LookForDecision, BeginDecision, FinishFiles,
                    CommitDecision, At, store
      <4> QED
        BY <2>1, <3>1, <4>1
    <3>3. CASE StageFile(p)
      <4>1. /\ copies' = copies \cup {<<p, "staged", My(p)>>}
            /\ proc[p].pc = "stage" /\ proc'[p].pc = "backup"
        BY <1>0, <3>3, GotoEffect DEF StageFile, At, Pcs
      <4> QED
        BY <2>1, <3>1, <4>1
    <3>4. CASE BackUpFile(p)
      <4>1. /\ proc'[p].pc = "install"
            /\ c \in copies
        BY <1>0, <2>1, <3>4, GotoEffect DEF BackUpFile, Pcs
      <4> QED
        BY <3>1, <4>1
    <3>5. CASE InstallFile(p)
      <4>1. c \in copies /\ c # <<p, "staged", My(p)>>
        BY <2>1, <3>5 DEF InstallFile
      <4> QED
        BY <1>0, <2>1, <3>1, <4>1 DEF TypeOK
    <3>6. CASE RollBackDecision(p)
      <4>1. CASE At(p, "commit")
        BY <2>1, <3>1, <3>6, <4>1 DEF RollBackDecision, At
      <4>2. CASE ~At(p, "commit")
        BY <2>1, <3>6, <4>2 DEF RollBackDecision
      <4> QED
        BY <4>1, <4>2
    <3> QED
      BY <1>3, <3>2, <3>3, <3>4, <3>5, <3>6 DEF DecideStep
  <2>2. ASSUME NEW c \in copies', c[1] # p
        PROVE  c \in copies
    BY <1>3, <2>2
       DEF DecideStep, LookForDecision, BeginDecision, StageFile, BackUpFile,
           InstallFile, CommitDecision, FinishFiles, RollBackDecision, store
  <2> QED
    BY <1>1, <1>3, <2>0, <2>1, <2>2 DEF StagedInSteps
<1>4. ASSUME NEW p \in Processes, DecideStep(p), crashes # 0
      PROVE  StagedInSteps'
  BY <1>0, <1>4, DecideEffect DEF StagedInSteps
<1>5. ASSUME NEW p \in Processes, UndoStep(p)
      PROVE  StagedInSteps'
  <2>1. ASSUME crashes' = 0, NEW c \in copies', c[2] = "staged"
        PROVE  proc'[c[1]].pc \in {"backup", "install"} /\ c[3] = My(c[1])'
    <3>1. /\ c \in copies /\ crashes = 0 /\ OnlyMoves(p)
          /\ proc[p].pc \in UndoPc \cup {"finish"}
      BY <1>0, <1>5, <2>1, UndoEffect
    <3>2. c[1] # p
      BY <1>0, <2>1, <3>1 DEF StagedInSteps, UndoPc
    <3> QED
      BY <1>1, <2>1, <3>1, <3>2
  <2> QED
    BY <2>1 DEF StagedInSteps
<1>6. ASSUME NEW p \in Processes, Crash(p)
      PROVE  StagedInSteps'
  BY <1>0, <1>6, CrashEffect DEF StagedInSteps, TypeOK
<1>7. CASE EndRunElsewhere \/ UNCHANGED vars
  <2>1. UNCHANGED <<copies, proc, crashes>>
    BY <1>7 DEF EndRunElsewhere, vars, store
  <2> QED
    BY <1>0, <2>1 DEF StagedInSteps
<1> QED
  BY <1>0, <1>2, <1>3, <1>4, <1>5, <1>6, <1>7, StepCases, DecisionKeptBy
     DEF ProcessStep

LEMMA NextNothingLeft ==
    ASSUME StoreInv, [Next]_vars
    PROVE  NothingLeftBehind'
<1>0. /\ TypeOK /\ (\A p \in Processes : InRole(p)) /\ LockInSteps
      /\ UndoInSteps /\ NothingLeftBehind
      /\ Overtaken => Overtaken'
  BY RegistersStay DEF StoreInv, AllInRole
<1> SUFFICES ASSUME crashes' = 0, ~Overtaken'
             PROVE  NothingLeftBehind'
  BY DEF NothingLeftBehind
<1>6. ~Overtaken
  BY <1>0
<1>1. ASSUME NEW p \in Processes, DecisionKept(p)
      PROVE  NothingLeftBehind'
  <2>1. crashes = 0 /\ OnlyMoves(p)
    BY <1>1 DEF DecisionKept
  <2>2. \A q \in Processes :
            /\ ~At(q, "restore") => ~At(q, "restore")'
            /\ ~At(q, "commit")' => ~At(q, "commit")
            /\ ~At(q, "unlink")' => ~At(q, "unlink")
    BY <1>1 DEF DecisionKept, OnlyMoves, At, DecidePc, LockPc, UndoPc
  <2>3. \A c \in copies' : c[2] # "backup"
    BY <1>0, <1>1, <1>6, <2>1 DEF DecisionKept, NothingLeftBehind
  <2> QED
    BY <1>0, <1>1, <1>6, <2>1, <2>2, <2>3 DEF NothingLeftBehind, DecisionKept
<1>2. ASSUME NEW p \in Processes, DecideStep(p)
      PROVE  NothingLeftBehind'
  <2>0. /\ OnlyMoves(p) /\ My(p) \in Content /\ "decision" \in Names
        /\ crashes = 0
    BY <1>0, <1>2, DecideEffect DEF My, Content, TypeOK, ProcRecord, Names
  <2>10. /\ \A c \in copies : c[2] # "backup"
         /\ \A q \in Processes : ~At(q, "restore")
         /\ (\A q \in Processes : ~At(q, "commit") /\ ~At(q, "unlink")) =>
               files["decision"] = rows["decision"]
    BY <1>0, <1>6, <2>0 DEF NothingLeftBehind
  <2>7. ASSUME proc[p].pc \in LockPc
        PROVE  /\ rows["decision"] = Absent
               /\ \A q \in Processes :
                     q # p => ~At(q, "commit") /\ ~At(q, "unlink")
    BY <1>0, <1>6, <2>7, UnderLock DEF UndoInSteps, At, LockPc, UndoPc
  <2>1. CASE LookForDecision(p) \/ BeginDecision(p) \/ FinishFiles(p)
    <3>1. /\ UNCHANGED <<files, rows>> /\ copies' \subseteq copies
          /\ proc[p].pc \notin {"commit", "unlink"}
          /\ proc'[p].pc # "restore"
      BY <1>0, <2>1, GotoEffect
         DEF LookForDecision, BeginDecision, FinishFiles, At, Pcs, store
    <3> QED
      BY <2>0, <2>10, <3>1 DEF NothingLeftBehind, OnlyMoves, At
  <2>2. CASE StageFile(p)
    <3>1. /\ copies' = copies \cup {<<p, "staged", My(p)>>}
          /\ UNCHANGED <<files, rows>>
          /\ proc[p].pc = "stage" /\ proc'[p].pc = "backup"
      BY <1>0, <2>2, GotoEffect DEF StageFile, At, Pcs
    <3> QED
      BY <2>0, <2>10, <3>1 DEF NothingLeftBehind, OnlyMoves, At
  <2>3. CASE BackUpFile(p)
    <3>1. proc[p].pc = "backup" /\ proc'[p].pc = "install" /\ rows' = rows
      BY <1>0, <2>3, GotoEffect DEF BackUpFile, At, Pcs
    <3>2. /\ rows["decision"] = Absent
          /\ \A q \in Processes : ~At(q, "commit") /\ ~At(q, "unlink")
      BY <2>7, <3>1 DEF At, LockPc
    <3>3. copies' = copies /\ files'["decision"] = Absent
      BY <1>0, <2>0, <2>3, <2>10, <3>2 DEF BackUpFile, TypeOK
    <3> QED
      BY <2>0, <2>10, <3>1, <3>2, <3>3 DEF NothingLeftBehind, OnlyMoves, At
  <2>4. CASE InstallFile(p)
    <3>1. /\ proc[p].pc = "install" /\ proc'[p].pc = "commit"
          /\ copies' \subseteq copies
      BY <1>0, <2>4, GotoEffect DEF InstallFile, At, Pcs
    <3> QED
      BY <2>0, <2>10, <3>1 DEF NothingLeftBehind, OnlyMoves, At
  <2>5. CASE CommitDecision(p)
    <3>1. /\ proc[p].pc = "commit" /\ proc'[p].pc = "finish"
          /\ UNCHANGED <<files, copies>> /\ files["decision"] = My(p)
      BY <1>0, <1>6, <2>5, GotoEffect
         DEF CommitDecision, At, Pcs, StoreInv, DecisionInSteps
    <3>2. rows'["decision"] = My(p)
      BY <1>0, <2>0, <2>5, <3>1, UnderLock
         DEF CommitDecision, Registered, TypeOK, LockPc
    <3> QED
      BY <2>0, <2>10, <3>1, <3>2 DEF NothingLeftBehind, OnlyMoves, At
  <2>6. CASE RollBackDecision(p)
    <3>1. /\ proc[p].pc \in LockPc /\ proc'[p].pc \in {"raised", "unlink"}
          /\ rows' = rows /\ copies' \subseteq copies
      BY <1>0, <2>6, GotoEffect DEF RollBackDecision, LockPc, At, Pcs
    <3>2. CASE At(p, "commit")
      <4>1. proc'[p].pc = "unlink"
        BY <1>0, <2>6, <3>2, GotoEffect DEF RollBackDecision, At, Pcs
      <4> QED
        BY <2>0, <2>10, <3>1, <4>1 DEF NothingLeftBehind, OnlyMoves, At
    <3>3. CASE ~At(p, "commit")
      <4>1. BackupOf(p) = {}
        BY <2>10 DEF BackupOf
      <4>2. files' = files /\ proc'[p].pc = "raised"
        BY <1>0, <2>6, <3>3, <4>1, GotoEffect DEF RollBackDecision, Pcs
      <4>3. \A q \in Processes : ~At(q, "commit") /\ ~At(q, "unlink")
        BY <2>7, <3>1, <3>3 DEF At, LockPc
      <4> QED
        BY <2>0, <2>10, <3>1, <4>2, <4>3 DEF NothingLeftBehind, OnlyMoves, At
    <3> QED
      BY <3>2, <3>3
  <2> QED
    BY <1>2, <2>1, <2>2, <2>3, <2>4, <2>5, <2>6 DEF DecideStep
<1>3. ASSUME NEW p \in Processes, UndoStep(p)
      PROVE  NothingLeftBehind'
  <2>1. /\ OnlyMoves(p) /\ rows' = rows /\ crashes = 0
        /\ copies' \subseteq copies
        /\ proc'[p].pc \in {"restore", "raised"}
        /\ proc'[p].pc = "restore" => BackupOf(p) # {}
    BY <1>0, <1>3, UndoEffect
  <2>2. /\ \A c \in copies : c[2] # "backup"
        /\ \A q \in Processes : ~At(q, "restore")
        /\ (\A q \in Processes : ~At(q, "commit") /\ ~At(q, "unlink")) =>
              files["decision"] = rows["decision"]
    BY <1>0, <1>6, <2>1 DEF NothingLeftBehind
  <2>3. proc'[p].pc = "raised"
    BY <2>1, <2>2 DEF BackupOf
  <2>4. ~RestoreFile(p) /\ ~CleanUpFails(p)
    <3>1. crashes \in 0..MaxCrashes
      BY <1>0 DEF TypeOK
    <3> QED
      BY <2>1, <2>2, <3>1 DEF RestoreFile, CleanUpFails
  <2>5. UnlinkFile(p)
    BY <1>3, <2>4 DEF UndoStep
  <2>6. /\ files'["decision"] = Absent /\ proc[p].pc \in UndoPc
    BY <1>0, <2>5 DEF UnlinkFile, TypeOK, Names, At, UndoPc
  <2>7. rows["decision"] = Absent
    BY <1>0, <1>6, <2>6 DEF UndoInSteps
  <2> QED
    BY <2>1, <2>2, <2>3, <2>6, <2>7 DEF NothingLeftBehind, OnlyMoves, At
<1>4. ASSUME NEW p \in Processes, Crash(p)
      PROVE  NothingLeftBehind'
  BY <1>0, <1>4, CrashEffect DEF NothingLeftBehind, TypeOK
<1>5. CASE EndRunElsewhere \/ UNCHANGED vars
  <2>1. UNCHANGED <<files, rows, copies, proc, crashes>>
    BY <1>5 DEF EndRunElsewhere, vars, store
  <2> QED
    BY <1>0, <1>6, <2>1 DEF NothingLeftBehind, At
<1> QED
  BY <1>0, <1>1, <1>2, <1>3, <1>4, <1>5, StepCases, DecisionKeptBy
     DEF ProcessStep

\* What the parts above say of a decision, on any state.
LEMMA DecisionShows ==
    ASSUME TypeOK, LockInSteps, DecisionInSteps, StagedInSteps, NothingLeftBehind
    PROVE  DecisionIsWhole
<1>1. ASSUME crashes = 0, lock = Absent
      PROVE  /\ \A c \in copies : c[2] # "staged"
             /\ (Undoing = {} /\ ~Overtaken) =>
                   files["decision"] = rows["decision"]
  <2>1. \A q \in Processes : proc[q].pc \notin LockPc
    BY <1>1, AbsentAssumption DEF LockInSteps
  <2>2. \A c \in copies : c[1] \in Processes
    BY DEF TypeOK
  <2>3. \A c \in copies : c[2] # "staged"
    BY <1>1, <2>1, <2>2 DEF StagedInSteps, LockPc
  <2>4. ASSUME Undoing = {}, ~Overtaken
        PROVE  files["decision"] = rows["decision"]
    BY <1>1, <2>1, <2>4 DEF NothingLeftBehind, Undoing, At, LockPc
  <2> QED
    BY <2>3, <2>4
<1> QED
  BY <1>1 DEF DecisionIsWhole, DecisionInSteps

-----------------------------------------------------------------------------
(* Screens *)

\* Steps that no screen is affected by: the run's results change while it is
\* running only.
ScreenKept ==
    /\ files'["screen"] = files["screen"] /\ rows'["screen"] = rows["screen"]
    /\ \A q \in Processes :
          proc[q].role = "screen" =>
              \/ proc'[q] = proc[q]
              \/ /\ proc[q].pc # "done"
                 /\ proc'[q] = [proc[q] EXCEPT !.pc = "dead"]
    /\ manifest # Absent => manifest' = manifest
    /\ run.status = "succeeded" =>
          run'.status = run.status /\ run'.results = run.results
    /\ run'.rejected = run.rejected

LEMMA ScreenKeptBy ==
    ASSUME StoreInv, [Next]_vars,
           \A p \in Processes : ~ScreenStep(p)
    PROVE  ScreenKept
<1>0. /\ TypeOK /\ (\A p \in Processes : InRole(p)) /\ "screen" \in Names
      /\ "screen" \notin {"evidence", "context"}
  BY DEF StoreInv, AllInRole, Names
<1>1. ASSUME NEW p \in Processes, OpenStep(p) \/ ReadStep(p)
      PROVE  ScreenKept
  BY <1>0, <1>1, OpenEffect, ReadEffect DEF ScreenKept, OnlyMoves, store
<1>2. ASSUME NEW p \in Processes, EvidenceStep(p)
      PROVE  ScreenKept
  <2>1. /\ files'["screen"] = files["screen"]
        /\ rows'["screen"] = rows["screen"]
    BY <1>0, <1>2, EvidenceEffect
  <2>2. /\ OnlyMoves(p) /\ proc[p].role # "screen"
        /\ manifest # Absent => manifest' = manifest
        /\ run'.status = run.status /\ run'.rejected = run.rejected
        /\ run'.results # run.results => run.status = "running"
    BY <1>0, <1>2, EvidenceEffect
  <2> QED
    BY <2>1, <2>2 DEF ScreenKept, OnlyMoves
<1>3. ASSUME NEW p \in Processes, DecideStep(p)
      PROVE  ScreenKept
  <2>1. /\ files'["screen"] = files["screen"]
        /\ rows'["screen"] = rows["screen"]
    BY <1>0, <1>3, DecideEffect
  <2>2. /\ OnlyMoves(p) /\ proc[p].role # "screen" /\ manifest' = manifest
        /\ run'.status = run.status /\ run'.rejected = run.rejected
        /\ run'.results = run.results
    BY <1>0, <1>3, DecideEffect
  <2> QED
    BY <2>1, <2>2 DEF ScreenKept, OnlyMoves
<1>6. ASSUME NEW p \in Processes, UndoStep(p)
      PROVE  ScreenKept
  <2>1. /\ files'["screen"] = files["screen"]
        /\ UNCHANGED <<rows, manifest, run>>
        /\ OnlyMoves(p) /\ proc[p].role # "screen"
    BY <1>0, <1>6, UndoEffect
  <2> QED
    BY <2>1 DEF ScreenKept, OnlyMoves
<1>4. ASSUME NEW p \in Processes, Crash(p)
      PROVE  ScreenKept
  <2>1. /\ files'["screen"] = files["screen"]
        /\ UNCHANGED <<rows, manifest, run>>
    BY <1>0, <1>4, CrashEffect
  <2>2. proc' = [proc EXCEPT ![p].pc = "dead"] /\ proc[p].pc # "done"
    BY <1>4 DEF Crash, Goto
  <2>3. proc'[p] = [proc[p] EXCEPT !.pc = "dead"]
    BY <1>0, <2>2 DEF TypeOK
  <2>4. \A q \in Processes : q # p => proc'[q] = proc[q]
    BY <1>0, <2>2 DEF TypeOK
  <2> QED
    BY <2>1, <2>2, <2>3, <2>4 DEF ScreenKept
<1>5. CASE EndRunElsewhere \/ UNCHANGED vars
  BY <1>0, <1>5 DEF EndRunElsewhere, vars, store, ScreenKept, TypeOK, RunRecord
<1> QED
  BY <1>1, <1>2, <1>3, <1>4, <1>5, <1>6, StepCases DEF ProcessStep

\* The one process that screens, and what its run looks like before it ends.
LEMMA WhileScreening ==
    ASSUME StoreInv, NEW p \in Processes, ScreenStep(p)
    PROVE  /\ \A q \in Processes : proc[q].role = "screen" => q = p
           /\ rows["screen"] = Absent /\ run.rejected = FALSE
<1>1. proc[p].role = "screen" /\ proc[p].pc # "done"
  BY ScreenEffect DEF StoreInv, AllInRole, ScreenPc
<1>2. \A q \in Processes : proc[q].role = "screen" => q = p
  BY <1>1 DEF StoreInv, OneComputes, Computing
<1>3. rows["screen"] = Absent
  BY <1>1, <1>2 DEF StoreInv, ScreenInSteps, At
<1> QED
  BY <1>2, <1>3
     DEF StoreInv, EvidenceIsWhole, ScreenIsWhole, TypeOK, RunRecord

LEMMA NextScreen ==
    ASSUME StoreInv, [Next]_vars
    PROVE  ScreenInSteps'
<1>0. /\ TypeOK /\ (\A p \in Processes : InRole(p)) /\ ScreenInSteps
      /\ "screen" \in Names
      /\ \A q \in Processes : My(q)' = My(q) /\ proc'[q].role = proc[q].role
  BY RolesStay DEF StoreInv, AllInRole, My, Names
<1>1. ASSUME NEW p \in Processes, ScreenStep(p)
      PROVE  ScreenInSteps'
  <2>0. /\ OnlyMoves(p) /\ My(p) \in Content /\ proc[p].role = "screen"
        /\ \A q \in Processes : proc'[q].role = "screen" => q = p
        /\ rows["screen"] = Absent
    BY <1>0, <1>1, ScreenEffect, WhileScreening
       DEF My, Content, TypeOK, ProcRecord
  <2> SUFFICES
        /\ ~At(p, "done")' => rows'["screen"] = Absent
        /\ proc'[p].pc \in {"start", "staging", "rename", "fail", "raised"} =>
              files'["screen"] = Absent
        /\ At(p, "record")' => files'["screen"] = My(p)
        /\ proc'[p].pc \in {"staging", "rename", "record"} =>
              proc'[p].outcome # Absent
        /\ rows'["screen"] # Absent => At(p, "done")'
    BY <1>0, <2>0 DEF ScreenInSteps
  <2>1. CASE ExecuteFlow(p) \/ RunDurableScreening(p)
    <3>1. /\ At(p, "start") /\ UNCHANGED store
          /\ \/ Goto(p, "fail")
             \/ \E outcome \in Outcomes :
                   proc' = [proc EXCEPT ![p].pc = "staging",
                                        ![p].outcome = outcome]
      BY <2>1 DEF ExecuteFlow, RunDurableScreening, Outcomes
    <3>2. /\ proc'[p].pc \in {"fail", "staging"}
          /\ proc'[p].pc = "staging" => proc'[p].outcome # Absent
      <4>1. CASE Goto(p, "fail")
        BY <1>0, <4>1, GotoEffect DEF Pcs
      <4>2. ASSUME NEW outcome \in Outcomes,
                   proc' = [proc EXCEPT ![p].pc = "staging",
                                        ![p].outcome = outcome]
            PROVE  proc'[p].pc = "staging" /\ proc'[p].outcome # Absent
        <5>1. proc[p] \in ProcRecord
          BY <1>0 DEF TypeOK
        <5>2. proc'[p] = [proc[p] EXCEPT !.pc = "staging", !.outcome = outcome]
          BY <1>0, <4>2 DEF TypeOK
        <5> QED
          BY <5>1, <5>2, AbsentAssumption DEF ProcRecord
      <4> QED
        BY <3>1, <4>1, <4>2
    <3>3. files["screen"] = Absent
      BY <1>0, <2>0, <3>1 DEF ScreenInSteps, At
    <3> QED
      BY <2>0, <3>1, <3>2, <3>3 DEF At, store
  <2>2. CASE WriteStaging(p)
    <3>1. /\ proc[p].pc = "staging" /\ proc'[p].pc = "rename"
          /\ proc'[p].outcome = proc[p].outcome /\ UNCHANGED <<files, rows>>
      BY <1>0, <2>2, GotoEffect DEF WriteStaging, At, Pcs, KeepsLocals
    <3> QED
      BY <1>0, <2>0, <3>1 DEF ScreenInSteps, At
  <2>3. CASE RenameStaging(p)
    <3>1. /\ proc[p].pc = "rename" /\ proc'[p].pc = "record"
          /\ proc'[p].outcome = proc[p].outcome /\ rows' = rows
      BY <1>0, <2>3, GotoEffect DEF RenameStaging, At, Pcs, KeepsLocals
    <3>2. files'["screen"] = My(p)
      BY <1>0, <2>3 DEF RenameStaging, TypeOK
    <3> QED
      BY <1>0, <2>0, <3>1, <3>2 DEF ScreenInSteps, At
  <2>4. CASE CommitScreen(p)
    <3>1. proc'[p].pc = "done"
      BY <1>0, <2>4, GotoEffect DEF CommitScreen, Pcs
    <3> QED
      BY <3>1 DEF At
  <2>5. CASE RemoveDirectories(p)
    <3>1. proc'[p].pc = "fail" /\ rows' = rows
      BY <1>0, <2>5, GotoEffect DEF RemoveDirectories, Pcs
    <3>2. files'["screen"] = Absent
      BY <1>0, <2>5 DEF RemoveDirectories, TypeOK
    <3> QED
      BY <2>0, <3>1, <3>2 DEF At
  <2>6. CASE FailScreen(p)
    <3>1. /\ proc[p].pc = "fail" /\ proc'[p].pc = "raised"
          /\ UNCHANGED <<files, rows>>
      BY <1>0, <2>6, GotoEffect DEF FailScreen, At, Pcs
    <3> QED
      BY <1>0, <2>0, <3>1 DEF ScreenInSteps, At
  <2> QED
    BY <1>1, <2>1, <2>2, <2>3, <2>4, <2>5, <2>6 DEF ScreenStep
<1>2. ASSUME \A p \in Processes : ~ScreenStep(p)
      PROVE  ScreenInSteps'
  <2>1. ScreenKept
    BY <1>2, ScreenKeptBy
  <2>2. ASSUME NEW q \in Processes, proc[q].role = "screen"
        PROVE  /\ proc'[q].pc = proc[q].pc \/ proc'[q].pc = "dead"
               /\ At(q, "done") <=> At(q, "done")'
               /\ proc'[q].outcome = proc[q].outcome
    <3>1. \/ proc'[q] = proc[q]
          \/ /\ proc[q].pc # "done"
             /\ proc'[q] = [proc[q] EXCEPT !.pc = "dead"]
      BY <2>1, <2>2 DEF ScreenKept
    <3>2. proc[q] \in ProcRecord
      BY <1>0 DEF TypeOK
    <3>3. /\ \/ proc'[q].pc = proc[q].pc
             \/ proc[q].pc # "done" /\ proc'[q].pc = "dead"
          /\ proc'[q].outcome = proc[q].outcome
      BY <3>1, <3>2 DEF ProcRecord
    <3> QED
      BY <3>3 DEF At
  <2> QED
    BY <1>0, <2>1, <2>2 DEF ScreenInSteps, ScreenKept, At
<1> QED
  BY <1>1, <1>2

LEMMA NextScreenIsWhole ==
    ASSUME StoreInv, [Next]_vars
    PROVE  ScreenIsWhole'
<1>0. /\ TypeOK /\ TypeOK' /\ ScreenIsWhole /\ ScreenInSteps /\ ScreenInSteps'
      /\ "screen" \in Names
  BY NextTyped, NextScreen DEF StoreInv, EvidenceIsWhole, Names
<1>1. \A q \in Processes :
          (proc'[q].role = "screen" /\ At(q, "raised")') =>
              files'["screen"] = Absent /\ rows'["screen"] = Absent
  BY <1>0 DEF ScreenInSteps, At
<1>2. ASSUME NEW p \in Processes, ScreenStep(p)
      PROVE  ScreenIsWhole'
  <2>0. /\ OnlyMoves(p) /\ My(p) \in Content /\ proc[p].role = "screen"
        /\ rows["screen"] = Absent /\ run.rejected = FALSE
        /\ InRole(p)
    BY <1>0, <1>2, ScreenEffect, WhileScreening
       DEF My, Content, TypeOK, ProcRecord, StoreInv, AllInRole
  <2>1. CASE CommitScreen(p)
    <3>1. /\ proc[p].pc = "record" /\ files' = files
          /\ rows' = Registered(p) /\ manifest' = rows'
          /\ run' = [run EXCEPT !.results = proc[p].outcome,
                                !.status = "succeeded",
                                !.rejected =
                                    (proc[p].outcome = "screened_out")]
      BY <2>1 DEF CommitScreen, At
    <3>2. files["screen"] = My(p) /\ proc[p].outcome # Absent
      BY <1>0, <2>0, <3>1 DEF ScreenInSteps, At
    <3>3. Mine(p) = "screen"
      BY <2>0 DEF Mine, NameOf
    <3>4. rows'["screen"] = My(p) /\ My(p) # Absent /\ manifest' # Absent
      <4>1. rows' \in [Names -> Content \cup {Absent}]
        BY <1>0 DEF TypeOK
      <4> QED
        BY <1>0, <2>0, <3>1, <3>3, <4>1, AbsentAssumption
           DEF TypeOK, Registered
    <3>5. /\ run'.status = "succeeded" /\ run'.results = proc[p].outcome
          /\ run'.rejected = (proc[p].outcome = "screened_out")
      BY <1>0, <3>1 DEF TypeOK, RunRecord
    <3> QED
      BY <1>1, <3>1, <3>2, <3>4, <3>5 DEF ScreenIsWhole
  <2>2. CASE ~CommitScreen(p)
    <3>1. rows' = rows
      BY <1>2, <2>2
         DEF ScreenStep, ExecuteFlow, RunDurableScreening, WriteStaging,
             RenameStaging, RemoveDirectories, FailScreen, store
    <3>2. run'.rejected = run.rejected
      BY <1>0, <1>2, <2>2
         DEF ScreenStep, ExecuteFlow, RunDurableScreening, WriteStaging,
             RenameStaging, RemoveDirectories, FailScreen, store, TypeOK,
             RunRecord
    <3> QED
      BY <1>1, <2>0, <3>1, <3>2 DEF ScreenIsWhole
  <2> QED
    BY <2>1, <2>2
<1>3. ASSUME \A p \in Processes : ~ScreenStep(p)
      PROVE  ScreenIsWhole'
  <2>1. ScreenKept
    BY <1>3, ScreenKeptBy
  <2> QED
    BY <1>0, <1>1, <2>1 DEF ScreenIsWhole, ScreenKept, TypeOK, RunRecord
<1> QED
  BY <1>2, <1>3

-----------------------------------------------------------------------------
(* Readers *)

\* A file with a row changes only under a reader that is told of it, and only
\* where writers share it.
LEMMA FilesStay ==
    ASSUME StoreInv, [Next]_vars,
           NEW n \in Names, rows[n] # Absent, files[n] = rows[n]
    PROVE  \/ files'[n] = rows[n]
           \/ /\ n \in {"evidence", "context"}
                 \/ (n = "decision" /\ Overtaken')
              /\ Midway(n) \subseteq raced'
<1>0. /\ TypeOK /\ (\A p \in Processes : InRole(p))
      /\ Overtaken => Overtaken'
  BY RegistersStay DEF StoreInv, AllInRole
<1>1. ASSUME NEW p \in Processes, OpenStep(p) \/ ReadStep(p)
      PROVE  files' = files
  BY <1>0, <1>1, OpenEffect, ReadEffect DEF store
<1>2. ASSUME NEW p \in Processes, EvidenceStep(p) \/ Crash(p)
      PROVE  \/ files'[n] = files[n]
             \/ n \in {"evidence", "context"} /\ Midway(n) \subseteq raced'
  BY <1>0, <1>2, EvidenceEffect, CrashEffect
<1>3. ASSUME NEW p \in Processes, DecideStep(p)
      PROVE  files'[n] = rows[n]
  <2>1. CASE n # "decision"
    BY <1>0, <1>3, <2>1, DecideEffect
  <2>2. CASE n = "decision"
    <3>1. proc[p].pc \notin LockPc
      BY <2>2, UnderLock
    <3>2. files' = files
      BY <1>0, <1>3, <3>1, DecideEffect
    <3> QED
      BY <3>2
  <2> QED
    BY <2>1, <2>2
<1>4. ASSUME NEW p \in Processes, ScreenStep(p)
      PROVE  files'[n] = rows[n]
  <2>1. CASE n # "screen"
    BY <1>0, <1>4, <2>1, ScreenEffect
  <2>2. CASE n = "screen"
    BY <1>4, <2>2, WhileScreening
  <2> QED
    BY <2>1, <2>2
<1>6. ASSUME NEW p \in Processes, UndoStep(p)
      PROVE  \/ files'[n] = files[n]
             \/ n = "decision" /\ Overtaken' /\ Midway(n) \subseteq raced'
  <2>1. CASE n # "decision"
    BY <1>0, <1>6, <2>1, UndoEffect
  <2>2. CASE n = "decision" /\ files' # files
    <3>1. proc[p].pc \in UndoPc /\ Midway(n) \subseteq raced'
      BY <1>0, <1>6, <2>2, UndoEffect
    <3>2. Overtaken
      BY <2>2, <3>1 DEF StoreInv, UndoInSteps
    <3> QED
      BY <1>0, <2>2, <3>1, <3>2
  <2> QED
    BY <2>1, <2>2
<1>5. CASE EndRunElsewhere \/ UNCHANGED vars
  BY <1>5 DEF EndRunElsewhere, vars, store
<1> QED
  BY <1>1, <1>2, <1>3, <1>4, <1>5, <1>6, StepCases DEF ProcessStep

\* What a reader's step does to it.
LEMMA ReaderMoves ==
    ASSUME StoreInv, NEW p \in Processes, ReadStep(p)
    PROVE  /\ UNCHANGED <<files, rows, raced>> /\ proc[p].accepted = Absent
           /\ proc'[p].role = "read"
           /\ At(p, "text")' =>
                 /\ proc'[p].name \in Names
                 /\ rows[proc'[p].name] # Absent
                 /\ files[proc'[p].name] = rows[proc'[p].name]
           /\ proc'[p].accepted # Absent =>
                 /\ At(p, "text") /\ At(p, "done")'
                 /\ proc'[p].name = proc[p].name
                 /\ proc'[p].accepted = files[proc[p].name]
<1>0. /\ TypeOK /\ InRole(p) /\ ReadInSteps /\ proc[p] \in ProcRecord
      /\ OnlyMoves(p)
  BY ReadEffect DEF StoreInv, AllInRole, TypeOK
<1>1. /\ UNCHANGED <<files, rows, raced>> /\ proc[p].accepted = Absent
      /\ proc'[p].role = "read"
  BY <1>0, ReadEffect DEF ReadInSteps, At, OnlyMoves, store
<1>2. CASE BeginRead(p)
  <2>1. PICK name \in Names :
            proc' = [proc EXCEPT
               ![p].name = name,
               ![p].pc = IF \/ name \in PostRun /\ PostRunFound(name)
                            \/ name \notin PostRun /\ EvidenceFound(name)
                         THEN "text" ELSE "raised"]
    BY <1>2 DEF BeginRead
  <2>2. proc'[p] = [proc[p] EXCEPT
               !.name = name,
               !.pc = IF \/ name \in PostRun /\ PostRunFound(name)
                         \/ name \notin PostRun /\ EvidenceFound(name)
                      THEN "text" ELSE "raised"]
    BY <1>0, <2>1 DEF TypeOK
  <2>3. /\ proc'[p].name = name /\ proc'[p].accepted = proc[p].accepted
        /\ At(p, "text")' => PostRunFound(name) \/ EvidenceFound(name)
    BY <1>0, <2>2 DEF ProcRecord, At
  <2> QED
    BY <1>1, <2>3 DEF PostRunFound, EvidenceFound, Validated
<1>3. CASE ReadText(p)
  <2>1. CASE files[proc[p].name] \in Content
    <3>1. proc'[p] = [proc[p] EXCEPT !.accepted = files[proc[p].name],
                                     !.pc = "done"]
      BY <1>0, <1>3, <2>1 DEF ReadText, TypeOK
    <3>2. /\ proc'[p].accepted = files[proc[p].name]
          /\ proc'[p].pc = "done" /\ proc'[p].name = proc[p].name
      BY <1>0, <3>1 DEF ProcRecord
    <3> QED
      BY <1>1, <1>3, <3>2 DEF ReadText, At
  <2>2. CASE files[proc[p].name] \notin Content
    <3>1. proc'[p] = [proc[p] EXCEPT !.pc = "raised"]
      BY <1>0, <1>3, <2>2 DEF ReadText, TypeOK
    <3>2. proc'[p].accepted = proc[p].accepted /\ proc'[p].pc = "raised"
      BY <1>0, <3>1 DEF ProcRecord
    <3> QED
      BY <1>1, <3>2 DEF At
  <2> QED
    BY <2>1, <2>2
<1> QED
  BY <1>2, <1>3 DEF ReadStep

\* A process that does not read leaves its own and every other process's
\* reading where it was.
LEMMA OthersDoNotRead ==
    ASSUME StoreInv, [Next]_vars, NEW q \in Processes, ~ReadStep(q)
    PROVE  \/ proc'[q] = proc[q]
           \/ /\ ~At(q, "done") /\ ~At(q, "text")'
              /\ proc'[q].accepted = proc[q].accepted
<1>0. TypeOK /\ (\A p \in Processes : InRole(p))
  BY DEF StoreInv, AllInRole
<1>1. ASSUME NEW p \in Processes, ProcessStep(p), p # q
      PROVE  proc'[q] = proc[q]
  BY <1>1, ProcessEffect DEF OnlyMoves
<1>2. ASSUME ProcessStep(q)
      PROVE  /\ ~At(q, "done") /\ ~At(q, "text")'
             /\ proc'[q].accepted = proc[q].accepted
  <2>1. CASE OpenStep(q)
    BY <1>0, <2>1, OpenEffect DEF At, Opening
  <2>2. CASE EvidenceStep(q)
    BY <1>0, <2>2, EvidenceEffect DEF At, EvidencePc, KeepsLocals
  <2>3. CASE DecideStep(q)
    BY <1>0, <2>3, DecideEffect DEF At, DecidePc, LockPc, UndoPc, KeepsLocals
  <2>6. CASE UndoStep(q)
    BY <1>0, <2>6, UndoEffect DEF At, UndoPc, KeepsLocals
  <2>4. CASE ScreenStep(q)
    BY <1>0, <2>4, ScreenEffect DEF At, ScreenPc
  <2>5. CASE Crash(q)
    BY <1>0, <2>5, CrashEffect DEF At, KeepsLocals
  <2> QED
    BY <1>2, <2>1, <2>2, <2>3, <2>4, <2>5, <2>6 DEF ProcessStep
<1>3. CASE EndRunElsewhere \/ UNCHANGED vars
  BY <1>3 DEF EndRunElsewhere, vars
<1> QED
  BY <1>1, <1>2, <1>3, StepCases

LEMMA NextRead ==
    ASSUME StoreInv, [Next]_vars
    PROVE  ReadInSteps' /\ AcceptedIsRegistered'
<1>0. /\ TypeOK /\ ReadInSteps /\ AcceptedIsRegistered
      /\ Registers /\ raced \subseteq raced'
      /\ Overtaken => Overtaken'
  BY RegistersStay DEF StoreInv
<1> DEFINE Ch(n) == n \in {"evidence", "context"}
                        \/ (n = "decision" /\ Overtaken')
<1>4. \A n : Changeable(n) => Ch(n)
  BY <1>0 DEF Changeable
<1> SUFFICES ASSUME NEW q \in Processes
             PROVE  /\ At(q, "text")' =>
                          /\ proc'[q].name \in Names
                          /\ rows'[proc'[q].name] # Absent
                          /\ \/ files'[proc'[q].name] = rows'[proc'[q].name]
                             \/ q \in raced' /\ Ch(proc'[q].name)
                    /\ proc'[q].accepted # Absent =>
                          /\ At(q, "done")' /\ proc'[q].role = "read"
                          /\ proc'[q].name \in Names
                          /\ \/ rows'[proc'[q].name] = proc'[q].accepted
                             \/ q \in raced' /\ Ch(proc'[q].name)
  BY DEF ReadInSteps, AcceptedIsRegistered, Changeable
<1> HIDE DEF Ch
<1>1. CASE ReadStep(q)
  <2>1. ASSUME proc'[q].accepted # Absent
        PROVE  /\ At(q, "done")' /\ proc'[q].role = "read"
               /\ proc'[q].name \in Names
               /\ \/ rows'[proc'[q].name] = proc'[q].accepted
                  \/ q \in raced' /\ Ch(proc'[q].name)
    <3>1. /\ At(q, "text") /\ At(q, "done")' /\ proc'[q].role = "read"
          /\ proc'[q].name = proc[q].name /\ rows' = rows
          /\ proc'[q].accepted = files[proc[q].name]
      BY <1>1, <2>1, ReaderMoves
    <3> QED
      BY <1>0, <1>4, <3>1 DEF ReadInSteps
  <2> QED
    BY <1>1, <2>1, ReaderMoves
<1>2. CASE ~ReadStep(q) /\ proc'[q] = proc[q]
  <2>1. ASSUME At(q, "text")
        PROVE  /\ proc[q].name \in Names
               /\ rows'[proc[q].name] # Absent
               /\ \/ files'[proc[q].name] = rows'[proc[q].name]
                  \/ q \in raced' /\ Ch(proc[q].name)
    <3>1. /\ proc[q].name \in Names /\ rows[proc[q].name] # Absent
          /\ rows'[proc[q].name] = rows[proc[q].name]
      BY <1>0, <2>1 DEF ReadInSteps, Registers
    <3>2. CASE q \in raced /\ Changeable(proc[q].name)
      BY <1>0, <1>4, <3>1, <3>2
    <3>3. CASE files[proc[q].name] = rows[proc[q].name]
      <4>1. q \in Midway(proc[q].name)
        BY <2>1 DEF Midway
      <4> QED
        BY <3>1, <3>3, <4>1, FilesStay DEF Ch
    <3> QED
      BY <1>0, <2>1, <3>2, <3>3 DEF ReadInSteps
  <2>2. ASSUME proc[q].accepted # Absent
        PROVE  /\ At(q, "done") /\ proc[q].role = "read"
               /\ proc[q].name \in Names
               /\ \/ rows'[proc[q].name] = proc[q].accepted
                  \/ q \in raced' /\ Ch(proc[q].name)
    BY <1>0, <1>4, <2>2 DEF ReadInSteps, AcceptedIsRegistered, Registers
  <2> QED
    BY <1>2, <2>1, <2>2 DEF At
<1>3. CASE ~ReadStep(q) /\ proc'[q] # proc[q]
  <2>1. /\ ~At(q, "done") /\ ~At(q, "text")'
        /\ proc'[q].accepted = proc[q].accepted
    BY <1>3, OthersDoNotRead
  <2> QED
    BY <1>0, <2>1 DEF ReadInSteps
<1> QED
  BY <1>1, <1>2, <1>3

-----------------------------------------------------------------------------
(* Theorems *)

LEMMA InitInv ==
    ASSUME Init
    PROVE  StoreInv
<1>1. PICK role \in [Processes -> Roles], doc \in [Processes -> Docs] :
         /\ \/ \A p \in Processes : role[p] = "open"
            \/ /\ \A p \in Processes : role[p] # "open"
               /\ schema = LatestSchema
         /\ \A p, q \in Processes :
                {role[p], role[q]} \subseteq Computing => p = q
         /\ proc = [p \in Processes |->
                [role |-> role[p], doc |-> doc[p],
                 pc |-> IF role[p] = "open" THEN "open" ELSE "start",
                 version |-> 0, outcome |-> Absent, name |-> Absent,
                 accepted |-> Absent]]
         /\ \E results \in {Absent, "passed"} :
               run = [status |-> "running", results |-> results,
                      reviews |-> {}, rejected |-> FALSE]
  BY DEF Init
<1>2. /\ schema \in {Foreign} \cup (0..(LatestSchema + 1))
      /\ applied = [v \in 1..LatestSchema |-> 0]
      /\ files = [n \in Names |-> Absent]
      /\ rows = [n \in Names |-> Absent]
      /\ copies = {} /\ manifest = Absent /\ lock = Absent
      /\ crashes = 0 /\ raced = {}
  BY DEF Init
<1>3. ASSUME NEW p \in Processes
      PROVE  /\ proc[p].role = role[p] /\ proc[p] \in ProcRecord
             /\ \/ proc[p].role = "open" /\ proc[p].pc = "open"
                \/ proc[p].role # "open" /\ proc[p].pc = "start"
             /\ proc[p].accepted = Absent
  BY <1>1 DEF ProcRecord, Pcs, Opening
<1>4. run \in RunRecord /\ run.reviews = {} /\ run.rejected = FALSE
  BY <1>1 DEF RunRecord, Outcomes
<1>5. TypeOK
  <2>1. proc \in [Processes -> ProcRecord]
    BY <1>1, <1>3
  <2> QED
    BY <1>2, <1>4, <2>1, CrashAssumption DEF TypeOK
<1>6. AllInRole
  BY <1>3
     DEF AllInRole, InRole, At, Opening, EvidencePc, DecidePc, LockPc, UndoPc,
               ScreenPc
<1>7. OneComputes
  BY <1>1, <1>3 DEF OneComputes
<1>8. SchemaInSteps
  <2>1. \A v \in 1..LatestSchema : applied[v] = 0
    BY <1>2
  <2>2. (\E p \in Processes : proc[p].role # "open") => schema = LatestSchema
    BY <1>1, <1>3
  <2>3. \A p \in Processes : proc[p].pc \in {"open", "start"}
    BY <1>3
  <2> QED
    BY <2>1, <2>2, <2>3 DEF SchemaInSteps, At
<1>9. LockInSteps /\ UndoInSteps
  BY <1>2, <1>3, AbsentAssumption DEF LockInSteps, UndoInSteps, LockPc, UndoPc
<1>10. DecisionInSteps /\ StagedInSteps /\ NothingLeftBehind
  BY <1>2, <1>3, <1>4
     DEF DecisionInSteps, StagedInSteps, NothingLeftBehind, At, Names
<1>11. ScreenInSteps /\ ScreenIsWhole
  BY <1>2, <1>3, <1>4 DEF ScreenInSteps, ScreenIsWhole, At, Names
<1>12. ReadInSteps /\ AcceptedIsRegistered
  BY <1>3 DEF ReadInSteps, AcceptedIsRegistered, At
<1>13. MigratedOnce /\ DecisionIsWhole
  BY <1>5, <1>6, <1>8, <1>9, <1>10, SchemaShows, DecisionShows
<1> QED
  BY <1>5, <1>6, <1>7, <1>8, <1>9, <1>10, <1>11, <1>12, <1>13
     DEF StoreInv, EvidenceIsWhole

LEMMA NextInv ==
    ASSUME StoreInv, [Next]_vars
    PROVE  StoreInv'
<1>1. /\ TypeOK' /\ AllInRole'
      /\ OneComputes' /\ SchemaInSteps' /\ LockInSteps' /\ UndoInSteps'
      /\ DecisionInSteps' /\ StagedInSteps' /\ NothingLeftBehind'
      /\ ScreenInSteps' /\ ScreenIsWhole'
      /\ ReadInSteps' /\ AcceptedIsRegistered'
  BY NextTyped, NextInRole, NextOneComputes, NextSchema, NextLock,
     NextUndo, NextDecision, NextStaged, NextNothingLeft, NextScreen, NextScreenIsWhole, NextRead
     DEF AllInRole
<1>2. MigratedOnce'
  BY <1>1, SchemaShows, PTL
<1>3. DecisionIsWhole'
  BY <1>1, DecisionShows, PTL
<1> QED
  BY <1>1, <1>2, <1>3 DEF StoreInv, EvidenceIsWhole

\* The inductive invariant holds in every reachable state.
THEOREM StoreInvariant == Spec => []StoreInv
<1> QED
  BY InitInv, NextInv, PTL DEF Spec

\* Every variable keeps its type, whatever the roles of the processes, the
\* documents they write and the version the database starts from.
THEOREM StoreTypeCorrect == Spec => []TypeOK
<1>1. StoreInv => TypeOK
  BY DEF StoreInv
<1> QED
  BY <1>1, StoreInvariant, PTL

\* However many processes open one database at once, and whichever of them
\* die, every migration is committed at most once and nobody works on an older
\* schema (initialize_database).
THEOREM MigrationsCommitOnce == Spec => []MigratedOnce
<1>1. StoreInv => MigratedOnce
  BY DEF StoreInv
<1> QED
  BY <1>1, StoreInvariant, PTL

\* A decision and a screen are in the database, the files and the run as a
\* whole or not at all, at every step of every other process.  The file of a
\* decision that overtook the rollback of another one is excluded
\* (persist_evidence_decision, artifact_file_transaction, _persist_success).
THEOREM EvidenceIsRecordedWhole == Spec => []EvidenceIsWhole
<1>1. StoreInv => EvidenceIsWhole
  BY DEF StoreInv
<1> QED
  BY <1>1, StoreInvariant, PTL

\* A reader accepts registered bytes, unless the file of a stage's evidence, of
\* a review context, or of a decision that overtook the rollback of another one
\* was changed between its two looks (retrieve_*_artifact).
THEOREM AcceptedBytesAreRegistered == Spec => []AcceptedIsRegistered
<1>1. StoreInv => AcceptedIsRegistered
  BY DEF StoreInv
<1> QED
  BY <1>1, StoreInvariant, PTL

\* No step, a crash included, changes or removes an artifact row or the
\* manifest of a run once it is committed (register_artifact_contract,
\* persist_run_manifest).
THEOREM RegisteredForGood == Spec => [][Registers]_vars
<1>1. StoreInv /\ [Next]_vars => [Registers]_vars
  BY RegistersStay
<1> QED
  BY <1>1, StoreInvariant, PTL DEF Spec
=============================================================================
