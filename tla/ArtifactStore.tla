---------------------------- MODULE ArtifactStore ----------------------------
(***************************************************************************)
(* One run of the experiment database and the files beside it.             *)
(*                                                                         *)
(* The SQLite file says what a run's artifacts are: rows with a checksum,  *)
(* a manifest that lists them, a review.  The bytes lie in the artifact    *)
(* directory, which no transaction covers.  Each process plays one role,   *)
(* on a connection to a migrated database unless that is its role:         *)
(*                                                                         *)
(*   open      initialize_database                                         *)
(*   evidence  persist_{walk_forward,monte_carlo,robustness}_evidence_...  *)
(*   fixture   execute_spym_21c_fixture_on_active_run                      *)
(*   context   persist_review_context_artifact                             *)
(*   decide    persist_evidence_decision                                   *)
(*   screen    _persist_success of the two durable screening scripts       *)
(*   read      retrieve_*_artifact                                         *)
(*                                                                         *)
(* One action is one SQLite transaction, one file operation, or one read   *)
(* a later step of the same process relies on.                             *)
(***************************************************************************)
EXTENDS Integers, FiniteSets

CONSTANTS
    Processes,
    RolesOf,       \* the roles each of them may play
    Docs,          \* what a document says, without its creation time
    LatestSchema,  \* LATEST_SCHEMA_VERSION
    MaxCrashes,    \* processes that may die, or fail while they clean up
    Absent

Roles == {"open", "evidence", "fixture", "context", "decide", "screen", "read"}

ASSUME RolesAssumption == RolesOf \in [Processes -> SUBSET Roles]

ASSUME SchemaAssumption == LatestSchema \in Nat \ {0}

ASSUME CrashAssumption == MaxCrashes \in Nat

VARIABLES
    schema,     \* schema_metadata: 0 an empty file, Foreign tables without it
    applied,    \* history: how often each migration was committed
    files,      \* the artifact files, by logical name
    copies,     \* hidden .staged and .backup files, and the staging directory
    rows,       \* artifact_references, by logical name
    manifest,   \* run_manifests: the rows it lists, or Absent
    run,        \* status, stored results, review, strategy lifecycle
    lock,       \* holder of SQLite's write lock across steps, or Absent
    proc,       \* program counter and locals of every process
    crashes,    \* processes that have died, or failed while they cleaned up
    raced       \* history: readers whose file changed after they validated it,
                \* deciders who began while another's file was being undone

store == <<files, copies, rows, manifest, run, lock>>
vars == <<schema, applied, store, proc, crashes, raced>>

Foreign == -1

\* Roles of the flow that computes the run itself.
Computing == {"screen", "fixture"}

\* The logical name a role writes; a reader reads any.
NameOf == [evidence |-> "evidence", fixture |-> "evidence",
           context |-> "context", decide |-> "decision", screen |-> "screen"]

Names == {"evidence", "context", "decision", "screen"}

\* Post-run records that the run manifest does not list on retrieval.
PostRun == {"decision", "context"}

\* What a screen records in its run: a verdict, or the counts of its trades.
Outcomes == {"passed", "screened_out", "recorded"}

\* Bytes: what the document says and who built it (its creation time), or
\* what is left of them when the writer dies while it writes.
Content == [doc : Docs, by : Processes]
Torn == [doc |-> Absent, by |-> Absent]
Bytes == Content \cup {Torn}

ASSUME AbsentAssumption ==
    /\ Absent \notin Docs \cup Processes \cup Outcomes \cup Content
    /\ Absent \notin [Names -> Content \cup {Absent}]
    /\ "fixture" \notin Docs

My(p) == [doc |-> proc[p].doc, by |-> p]
Mine(p) == NameOf[proc[p].role]

At(p, pc) == proc[p].pc = pc
Goto(p, pc) == proc' = [proc EXCEPT ![p].pc = pc]
DBFree(p) == lock \in {Absent, p}

-----------------------------------------------------------------------------
(* connect, initialize_database *)

\* _schema_version; a newer schema is refused.
ReadVersion(p) ==
    /\ At(p, "open")
    /\ proc' = [proc EXCEPT ![p].version = schema,
                            ![p].pc = CASE schema <= 0 -> "count"
                                        [] schema > LatestSchema -> "refused"
                                        [] OTHER -> "migrate"]
    /\ UNCHANGED <<schema, applied, store, crashes, raced>>

\* No metadata was found: the file must still hold no table at all.
CountTables(p) ==
    /\ At(p, "count")
    /\ proc' = [proc EXCEPT ![p].version = 0,
                            ![p].pc = IF schema = 0 THEN "migrate" ELSE "refused"]
    /\ UNCHANGED <<schema, applied, store, crashes, raced>>

\* Mutant: CREATE TABLE IF NOT EXISTS, so that no statement fails.
MigrateMutant(p) ==
    /\ At(p, "migrate") /\ proc[p].version < LatestSchema
    /\ DBFree(p)
    /\ schema' = proc[p].version + 1
    /\ applied' = [applied EXCEPT ![proc[p].version + 1] = @ + 1]
    /\ proc' = [proc EXCEPT ![p].version = @ + 1]
    /\ UNCHANGED <<store, crashes, raced>>

\* Mutant: the failed migration is not rolled back and keeps the lock.
MigrateOpenMutant(p) ==
    /\ At(p, "migrate") /\ proc[p].version < LatestSchema
    /\ DBFree(p)
    /\ IF schema = proc[p].version
         THEN /\ schema' = schema + 1
              /\ applied' = [applied EXCEPT ![schema + 1] = @ + 1]
              /\ proc' = [proc EXCEPT ![p].version = @ + 1]
              /\ UNCHANGED lock
         ELSE /\ Goto(p, "refused")
              /\ lock' = p
              /\ UNCHANGED <<schema, applied>>
    /\ UNCHANGED <<files, copies, rows, manifest, run, crashes, raced>>

\* The next migration of the loop: one transaction of plain CREATE and ALTER
\* statements, which fail if its objects are already there, and the version.
Migrate(p) ==
    /\ At(p, "migrate") /\ proc[p].version < LatestSchema
    /\ DBFree(p)
    /\ IF schema = proc[p].version
         THEN /\ schema' = schema + 1
              /\ applied' = [applied EXCEPT ![schema + 1] = @ + 1]
              /\ proc' = [proc EXCEPT ![p].version = @ + 1]
         ELSE /\ Goto(p, "refused")
              /\ UNCHANGED <<schema, applied>>
    /\ UNCHANGED <<store, crashes, raced>>

\* The connection is returned at the latest version.
Connected(p) ==
    /\ At(p, "migrate") /\ proc[p].version = LatestSchema
    /\ Goto(p, "done")
    /\ UNCHANGED <<schema, applied, store, crashes, raced>>

\* The caller opens the database again after an error.
Reopen(p) ==
    /\ At(p, "refused") /\ schema \in 0..LatestSchema
    /\ Goto(p, "open")
    /\ UNCHANGED <<schema, applied, store, crashes, raced>>

-----------------------------------------------------------------------------
(* Artifact rows, manifests and their retrieval *)

\* Mutant: the row is updated in place.
RegisterAcceptedMutant(p) == rows[Mine(p)] \in Content \cup {Absent}

\* register_artifact_contract: an existing identity must agree in everything
\* immutable, the checksum included, and is then returned as it is.
RegisterAccepted(p) == rows[Mine(p)] \in {Absent, My(p)}

Registered(p) == [rows EXCEPT ![Mine(p)] = My(p)]

\* get_run_lineage: no manifest without stored provenance and assumptions.
LineageHolds == run.results /= Absent

\* build_run_manifest lists every artifact row of the run.
BuildManifest == rows

\* persist_run_manifest refuses another immutable content.
ManifestAccepted(m) == manifest \in {Absent, m}

\* validate_artifact: the registered bytes are there, complete.
Validated(name) == files[name] = rows[name]

\* retrieve_run_artifacts, up to the validations: the manifest lists exactly
\* the rows of the database, the post-run records left out of the latter only.
ManifestMatchesRows ==
    /\ manifest /= Absent
    /\ manifest = [n \in Names |-> IF n \in PostRun THEN Absent ELSE rows[n]]

-----------------------------------------------------------------------------
(* Stage evidence, and the artifacts of a fixture run *)

\* One transaction: the run is active; rows, provenance, assumptions, review.
PersistFixtureRows(p) ==
    /\ At(p, "start") /\ proc[p].role = "fixture"
    /\ DBFree(p)
    /\ IF run.status = "running"
         THEN /\ run' = [run EXCEPT !.results = "passed",
                                    !.reviews = @ \cup {"fixture"}]
              /\ Goto(p, "write")
         ELSE Goto(p, "raised") /\ UNCHANGED run
    /\ UNCHANGED <<schema, applied, files, copies, rows, manifest, lock,
                   crashes, raced>>

BeginEvidence(p) ==
    /\ At(p, "start") /\ proc[p].role = "evidence"
    /\ Goto(p, "write")
    /\ UNCHANGED <<schema, applied, store, crashes, raced>>

\* Readers between their validation of a file and their read of it.
Midway(name) ==
    {q \in Processes : At(q, "text") /\ proc[q].name = name}

\* target.write_bytes(content): not atomic, and whatever was there is gone.
WriteFile(p) ==
    /\ At(p, "write")
    /\ files' = [files EXCEPT ![Mine(p)] = My(p)]
    /\ raced' = raced \cup Midway(Mine(p))
    /\ Goto(p, "register")
    /\ UNCHANGED <<schema, applied, copies, rows, manifest, run, lock, crashes>>

\* service.register_artifact in a transaction of its own.
Register(p) ==
    /\ At(p, "register")
    /\ DBFree(p)
    /\ IF RegisterAccepted(p)
         THEN /\ rows' = Registered(p)
              /\ Goto(p, IF proc[p].role = "context" THEN "done" ELSE "manifest")
         ELSE Goto(p, "raised") /\ UNCHANGED rows
    /\ UNCHANGED <<schema, applied, files, copies, manifest, run, lock,
                   crashes, raced>>

\* persist_run_manifest(build_run_manifest(run_id))
PersistManifest(p) ==
    /\ At(p, "manifest")
    /\ DBFree(p)
    /\ IF LineageHolds /\ ManifestAccepted(BuildManifest)
         THEN manifest' = BuildManifest /\ Goto(p, "done")
         ELSE Goto(p, "raised") /\ UNCHANGED manifest
    /\ UNCHANGED <<schema, applied, files, copies, rows, run, lock, crashes,
                   raced>>

-----------------------------------------------------------------------------
(* Review context: an immutable record beside a run that has ended *)

\* An existing context of the same identity is returned if it can be read;
\* any other existing context is a conflict.
LookForContext(p) ==
    /\ At(p, "start") /\ proc[p].role = "context"
    /\ Goto(p, CASE rows["context"] = Absent -> "write"
                 [] /\ Validated("context")
                    /\ rows["context"].doc = proc[p].doc -> "done"
                 [] OTHER -> "raised")
    /\ UNCHANGED <<schema, applied, store, crashes, raced>>

-----------------------------------------------------------------------------
(* Evidence decision: review, audit row, file and artifact row together *)

\* The first look, outside any transaction.
LookForDecision(p) ==
    /\ At(p, "start") /\ proc[p].role = "decide"
    /\ Goto(p, CASE rows["decision"] = Absent -> "begin"
                 [] /\ Validated("decision")
                    /\ rows["decision"].doc = proc[p].doc -> "done"
                 [] OTHER -> "raised")
    /\ UNCHANGED <<schema, applied, store, crashes, raced>>

\* Processes whose transaction is rolled back, their file not yet undone.
Undoing == {q \in Processes : proc[q].pc \in {"unlink", "restore"}}

\* update_review inside the transaction takes the write lock until it ends.
\* The second look, under the lock, finds what was committed meanwhile: its
\* decision identity covers the other reviewer's audit row, so it conflicts.
BeginDecision(p) ==
    /\ At(p, "begin")
    /\ lock = Absent
    /\ IF rows["decision"] = Absent
         THEN /\ lock' = p /\ Goto(p, "stage")
              /\ raced' = raced \cup (IF Undoing = {} THEN {} ELSE {p})
         ELSE Goto(p, "raised") /\ UNCHANGED <<lock, raced>>
    /\ UNCHANGED <<schema, applied, files, copies, rows, manifest, run,
                   crashes>>

\* ArtifactFileTransaction.write_bytes: stage and verify,
StageFile(p) ==
    /\ At(p, "stage")
    /\ copies' = copies \cup {<<p, "staged", My(p)>>}
    /\ Goto(p, "backup")
    /\ UNCHANGED <<schema, applied, files, rows, manifest, run, lock,
                   crashes, raced>>

\* move a file that is already there aside,
BackUpFile(p) ==
    /\ At(p, "backup")
    /\ LET old == files["decision"] IN
       /\ copies' = IF old = Absent THEN copies
                    ELSE copies \cup {<<p, "backup", old>>}
       /\ files' = [files EXCEPT !["decision"] = Absent]
    /\ Goto(p, "install")
    /\ UNCHANGED <<schema, applied, rows, manifest, run, lock, crashes,
                   raced>>

\* and put the staged one in its place.
InstallFile(p) ==
    /\ At(p, "install")
    /\ files' = [files EXCEPT !["decision"] = My(p)]
    /\ copies' = copies \ {<<p, "staged", My(p)>>}
    /\ Goto(p, "commit")
    /\ UNCHANGED <<schema, applied, rows, manifest, run, lock, crashes,
                   raced>>

\* register_artifact is nested in the transaction; the commit shows all of it.
CommitDecision(p) ==
    /\ At(p, "commit")
    /\ RegisterAccepted(p)
    /\ rows' = Registered(p)
    /\ run' = [run EXCEPT !.reviews = @ \cup {proc[p].doc}]
    /\ lock' = Absent
    /\ Goto(p, "finish")
    /\ UNCHANGED <<schema, applied, files, copies, manifest, crashes, raced>>

\* files.finish(): unlink the backups.
FinishFiles(p) ==
    /\ At(p, "finish")
    /\ copies' = {c \in copies : c[1] /= p}
    /\ Goto(p, "done")
    /\ UNCHANGED <<schema, applied, files, rows, manifest, run, lock, crashes,
                   raced>>

BackupOf(p) == {c \in copies : c[1] = p /\ c[2] = "backup"}

\* The file that was there before the decision is put back.
PutBack(p) ==
    \E c \in BackupOf(p) : files' = [files EXCEPT !["decision"] = c[3]]

\* Mutant: the new file stays when the transaction rolls back.
RollBackDecisionMutant(p) ==
    /\ proc[p].role = "decide"
    /\ proc[p].pc \in {"stage", "backup", "install", "commit"}
    /\ copies' = {c \in copies : c[1] /= p}
    /\ lock' = Absent
    /\ Goto(p, "raised")
    /\ UNCHANGED <<schema, applied, files, rows, manifest, run, crashes,
                   raced>>

\* A statement, the commit or a file operation fails.  write_bytes undoes its
\* own failure before the transaction rolls back and gives up the lock; once
\* the file is installed the lock goes first.
RollBackDecision(p) ==
    /\ proc[p].role = "decide"
    /\ \/ /\ proc[p].pc \in {"stage", "backup", "install"}
          /\ IF BackupOf(p) = {} THEN UNCHANGED files ELSE PutBack(p)
          /\ copies' = {c \in copies : c[1] /= p}
          /\ Goto(p, "raised")
       \/ /\ At(p, "commit")
          /\ Goto(p, "unlink")
          /\ UNCHANGED <<files, copies>>
    /\ lock' = Absent
    /\ UNCHANGED <<schema, applied, rows, manifest, run, crashes, raced>>

\* files.rollback(), outside the lock: the target is unlinked, whatever is
\* there by now,
UnlinkFile(p) ==
    /\ At(p, "unlink")
    /\ files' = [files EXCEPT !["decision"] = Absent]
    /\ raced' = raced \cup Midway("decision")
    /\ Goto(p, IF BackupOf(p) = {} THEN "raised" ELSE "restore")
    /\ UNCHANGED <<schema, applied, copies, rows, manifest, run, lock, crashes>>

\* and the file that was there before is put back.
RestoreFile(p) ==
    /\ At(p, "restore")
    /\ PutBack(p)
    /\ copies' = {c \in copies : c[1] /= p}
    /\ raced' = raced \cup Midway("decision")
    /\ Goto(p, "raised")
    /\ UNCHANGED <<schema, applied, rows, manifest, run, lock, crashes>>

\* A file operation of rollback or finish fails, and the rest is left undone.
CleanUpFails(p) ==
    /\ crashes < MaxCrashes
    /\ proc[p].pc \in {"finish", "unlink", "restore"}
    /\ crashes' = crashes + 1
    /\ Goto(p, "raised")
    /\ UNCHANGED <<schema, applied, store, raced>>

-----------------------------------------------------------------------------
(* The durable screening scripts *)

Ended == {"succeeded", "failed"}

\* _persist_success refuses when the final or the staging directory exists.
TargetExists == files["screen"] /= Absent \/ \E c \in copies : c[2] = "staging"

\* execute_flow of the MES screen: the claimed configuration and the mapping
\* are the fixed ones, one row, one of two verdicts; an exception fails the run.
ExecuteFlow(p) ==
    /\ At(p, "start") /\ proc[p].role = "screen"
    /\ \E outcome \in {"passed", "screened_out", "raise"} :
           IF outcome = "raise" \/ TargetExists THEN Goto(p, "fail")
           ELSE proc' = [proc EXCEPT ![p].pc = "staging",
                                     ![p].outcome = outcome]
    /\ UNCHANGED <<schema, applied, store, crashes, raced>>

\* run_durable_screening of the SPYM script: the same steps for a run it
\* created itself, which never decides on the strategy.
RunDurableScreening(p) ==
    /\ At(p, "start") /\ proc[p].role = "screen"
    /\ \E loaded, counted \in BOOLEAN :
           IF ~loaded \/ ~counted \/ TargetExists THEN Goto(p, "fail")
           ELSE proc' = [proc EXCEPT ![p].pc = "staging",
                                     ![p].outcome = "recorded"]
    /\ UNCHANGED <<schema, applied, store, crashes, raced>>

\* All files are written under the staging directory,
WriteStaging(p) ==
    /\ At(p, "staging")
    /\ copies' = copies \cup {<<p, "staging", My(p)>>}
    /\ Goto(p, "rename")
    /\ UNCHANGED <<schema, applied, files, rows, manifest, run, lock, crashes,
                   raced>>

\* which takes its final name in one step,
RenameStaging(p) ==
    /\ At(p, "rename")
    /\ copies' = {c \in copies : c[2] /= "staging"}
    /\ files' = [files EXCEPT !["screen"] = My(p)]
    /\ Goto(p, "record")
    /\ UNCHANGED <<schema, applied, rows, manifest, run, lock, crashes,
                   raced>>

\* before one transaction records the rows, the lineage, the rejected
\* strategy, the artifacts, the manifest and the end of the run.
CommitScreen(p) ==
    /\ At(p, "record")
    /\ DBFree(p)
    /\ run.status \notin Ended
    /\ RegisterAccepted(p) /\ manifest = Absent
    /\ rows' = Registered(p)
    /\ manifest' = Registered(p)
    /\ run' = [run EXCEPT !.results = proc[p].outcome, !.status = "succeeded",
                          !.rejected = (proc[p].outcome = "screened_out")]
    /\ Goto(p, "done")
    /\ UNCHANGED <<schema, applied, files, copies, lock, crashes, raced>>

\* Any exception before that removes both directories.
RemoveDirectories(p) ==
    /\ proc[p].role = "screen" /\ proc[p].pc \in {"rename", "record"}
    /\ copies' = {c \in copies : c[2] /= "staging"}
    /\ files' = [files EXCEPT !["screen"] = Absent]
    /\ Goto(p, "fail")
    /\ UNCHANGED <<schema, applied, rows, manifest, run, lock, crashes,
                   raced>>

\* _fail_active_run, _fail_run: a run that has ended stays as it is.
FailScreen(p) ==
    /\ At(p, "fail")
    /\ DBFree(p)
    /\ run' = IF run.status \in Ended THEN run
              ELSE [run EXCEPT !.status = "failed"]
    /\ Goto(p, "raised")
    /\ UNCHANGED <<schema, applied, files, copies, rows, manifest, lock,
                   crashes, raced>>

-----------------------------------------------------------------------------
(* Readers *)

\* Stage evidence is found through retrieve_run_artifacts: one row, a manifest
\* that matches the database, registered bytes.
EvidenceFound(name) ==
    rows[name] /= Absent /\ ManifestMatchesRows /\ Validated(name)

\* A review context and a decision are found by their rows alone.
PostRunFound(name) == rows[name] /= Absent /\ Validated(name)

\* The bytes are validated against the row,
BeginRead(p) ==
    /\ At(p, "start") /\ proc[p].role = "read"
    /\ \E name \in Names :
           proc' = [proc EXCEPT
               ![p].name = name,
               ![p].pc = IF \/ name \in PostRun /\ PostRunFound(name)
                            \/ name \notin PostRun /\ EvidenceFound(name)
                         THEN "text" ELSE "raised"]
    /\ UNCHANGED <<schema, applied, store, crashes, raced>>

\* and then read a second time to be parsed; a torn file is no JSON document.
ReadText(p) ==
    /\ At(p, "text")
    /\ LET read == files[proc[p].name] IN
       proc' = IF read \in Content
               THEN [proc EXCEPT ![p].accepted = read, ![p].pc = "done"]
               ELSE [proc EXCEPT ![p].pc = "raised"]
    /\ UNCHANGED <<schema, applied, store, crashes, raced>>

-----------------------------------------------------------------------------
(* Everything else that happens to a run and to its processes *)

\* fail_run_for_timeout, recover_stale_fixture_runs: the run ends elsewhere.
EndRunElsewhere ==
    /\ lock = Absent
    /\ run.status = "running"
    /\ run' = [run EXCEPT !.status = "failed"]
    /\ UNCHANGED <<schema, applied, files, copies, rows, manifest, lock, proc,
                   crashes, raced>>

\* A process dies.  SQLite drops its transaction; a file it was writing in
\* place may be torn; hidden files and directories stay.
Crash(p) ==
    /\ crashes < MaxCrashes
    /\ proc[p].pc \notin {"done", "raised", "dead", "refused"}
    /\ crashes' = crashes + 1
    /\ lock' = IF lock = p THEN Absent ELSE lock
    /\ files' \in {files} \cup
           IF At(p, "write") THEN {[files EXCEPT ![Mine(p)] = Torn]} ELSE {}
    /\ raced' = IF files' = files THEN raced ELSE raced \cup Midway(Mine(p))
    /\ Goto(p, "dead")
    /\ UNCHANGED <<schema, applied, copies, rows, manifest, run>>

-----------------------------------------------------------------------------

\* The claims admit one flow per run, so one process at most computes it.
Init ==
    /\ schema \in {Foreign} \cup (0..(LatestSchema + 1))
    /\ applied = [v \in 1..LatestSchema |-> 0]
    /\ files = [n \in Names |-> Absent]
    /\ rows = [n \in Names |-> Absent]
    /\ copies = {}
    /\ manifest = Absent
    /\ lock = Absent
    /\ crashes = 0
    /\ raced = {}
    /\ \E role \in [Processes -> Roles], doc \in [Processes -> Docs] :
           /\ \A p \in Processes :
                  /\ role[p] \in RolesOf[p]
                  /\ role[p] \in {"open", "read"} =>
                         doc[p] = CHOOSE d \in Docs : TRUE
           /\ \/ \A p \in Processes : role[p] = "open"
              \/ /\ \A p \in Processes : role[p] /= "open"
                 /\ schema = LatestSchema
           /\ \A p, q \in Processes :
                  {role[p], role[q]} \subseteq Computing => p = q
           /\ proc = [p \in Processes |->
                  [role |-> role[p], doc |-> doc[p],
                   pc |-> IF role[p] = "open" THEN "open" ELSE "start",
                   version |-> 0, outcome |-> Absent, name |-> Absent,
                   accepted |-> Absent]]
           /\ \E results \in
                  IF \E p \in Processes : role[p] \in Computing
                  THEN {Absent} ELSE {Absent, "passed"} :
              run = [status |-> "running", results |-> results,
                     reviews |-> {}, rejected |-> FALSE]

Step(p) ==
    \/ ReadVersion(p) \/ CountTables(p) \/ Migrate(p) \/ Connected(p)
    \/ PersistFixtureRows(p) \/ BeginEvidence(p) \/ WriteFile(p)
    \/ Register(p) \/ PersistManifest(p) \/ LookForContext(p)
    \/ LookForDecision(p) \/ BeginDecision(p) \/ StageFile(p)
    \/ BackUpFile(p) \/ InstallFile(p) \/ CommitDecision(p) \/ FinishFiles(p)
    \/ UnlinkFile(p) \/ RestoreFile(p)
    \/ ExecuteFlow(p) \/ RunDurableScreening(p) \/ WriteStaging(p) \/ RenameStaging(p)
    \/ CommitScreen(p) \/ RemoveDirectories(p) \/ FailScreen(p)
    \/ BeginRead(p) \/ ReadText(p)

Next ==
    \/ \E p \in Processes :
           \/ Step(p) \/ Reopen(p) \/ RollBackDecision(p)
           \/ CleanUpFails(p) \/ Crash(p)
    \/ EndRunElsewhere

Spec == Init /\ [][Next]_vars

\* A process that is not dead goes on, and an opener that lost opens again.
Fairness == \A p \in Processes : WF_vars(Step(p)) /\ SF_vars(Reopen(p))

FairSpec == Spec /\ Fairness

-----------------------------------------------------------------------------
(* Properties *)

Opening == {"open", "count", "migrate", "refused"}

Pcs == Opening \cup
    {"start", "write", "register", "manifest", "begin", "stage", "backup",
     "install", "commit", "unlink", "restore", "finish", "staging", "rename", "record", "fail",
     "text", "done", "raised", "dead"}

\* version is a migration's local, outcome a screen's, name and accepted a
\* reader's.
ProcRecord ==
    [role : Roles, doc : Docs, pc : Pcs, version : {Foreign} \cup Nat,
     outcome : Outcomes \cup {Absent}, name : Names \cup {Absent},
     accepted : Content \cup {Absent}]

RunRecord ==
    [status : {"running", "succeeded", "failed"},
     results : Outcomes \cup {Absent}, reviews : SUBSET (Docs \cup {"fixture"}),
     rejected : BOOLEAN]

TypeOK ==
    /\ schema \in {Foreign} \cup (0..(LatestSchema + 1))
    /\ applied \in [1..LatestSchema -> Nat]
    /\ files \in [Names -> Bytes \cup {Absent}]
    /\ rows \in [Names -> Content \cup {Absent}]
    /\ manifest \in [Names -> Content \cup {Absent}] \cup {Absent}
    /\ lock \in Processes \cup {Absent}
    /\ copies \subseteq Processes \X {"staged", "backup", "staging"} \X Bytes
    /\ run \in RunRecord
    /\ proc \in [Processes -> ProcRecord]
    /\ crashes \in 0..MaxCrashes
    /\ raced \subseteq Processes

\* However many processes open one database at once, every migration is
\* committed at most once, a process works on the latest schema only, and a
\* file of someone else's tables is left alone (initialize_database).
MigratedOnce ==
    /\ \A v \in 1..LatestSchema : applied[v] <= 1
    /\ \A p \in Processes :
           proc[p].pc \notin (Opening \cup {"dead"}) => schema = LatestSchema
    /\ schema = Foreign => \A v \in 1..LatestSchema : applied[v] = 0

\* A process that opens a database it can use gets its connection in the end,
\* although it may lose a migration to another process and be refused
\* (initialize_database, transaction).
OpenersConnect ==
    \A p \in Processes :
        (At(p, "open") /\ schema \in 0..LatestSchema)
            ~> proc[p].pc \notin Opening

\* A decision that began after another's transaction was rolled back and before
\* its file was undone: that file is the same one.
Overtaken == \E p \in raced : proc[p].role = "decide"

\* The human decision exists once, and as a whole: its artifact row, its file
\* and its audit entry appear together, whatever fails or dies on the way; and
\* when nothing died, a file without a row belongs to a decision in progress.
\* The one exception: the file of a decision that overtook another one's
\* rollback may be unlinked or replaced by it while its row and its audit entry
\* stay.  There the files are not "aligned with a surrounding database
\* transaction", as artifact_file_transaction says of itself
\* (persist_evidence_decision, artifact_file_transaction).
DecisionIsWhole ==
    LET row == rows["decision"] IN
    /\ run.reviews \cap Docs = IF row = Absent THEN {} ELSE {row.doc}
    /\ (row /= Absent /\ ~Overtaken) => files["decision"] = row
    /\ (crashes = 0 /\ lock = Absent) =>
           /\ \A c \in copies : c[2] /= "staged"
           /\ (Undoing = {} /\ ~Overtaken) => files["decision"] = row

\* A durable screen is recorded as a whole: its artifact row, its files, its
\* results, its manifest, the end of its run and the rejection of its strategy
\* go together, and a screen that failed leaves no file behind unless its
\* process died (_persist_success).
ScreenIsWhole ==
    /\ rows["screen"] /= Absent =>
           /\ files["screen"] = rows["screen"]
           /\ run.status = "succeeded" /\ run.results /= Absent
           /\ manifest /= Absent /\ manifest["screen"] = rows["screen"]
    /\ run.rejected <=> (rows["screen"] /= Absent /\ run.results = "screened_out")
    /\ \A p \in Processes :
           (proc[p].role = "screen" /\ At(p, "raised")) =>
               files["screen"] = Absent /\ rows["screen"] = Absent

\* Evidence is recorded as a whole or not at all: both of the above.
EvidenceIsWhole == DecisionIsWhole /\ ScreenIsWhole

\* Files that a writer may change under a reader.
Changeable(name) ==
    name \in {"evidence", "context"} \/ (name = "decision" /\ Overtaken)

\* A reader accepts the registered bytes only, and what is registered never
\* changes.  The one exception is a file that is written over between the
\* reader's validation and its second read, which can happen to stage evidence
\* and to a review context, to a decision that overtook the rollback of another
\* one, and never to a screen (retrieve_*_artifact,
\* register_artifact_contract).
AcceptedIsRegistered ==
    \A p \in Processes :
        proc[p].accepted /= Absent =>
            \/ rows[proc[p].name] = proc[p].accepted
            \/ p \in raced /\ Changeable(proc[p].name)

=============================================================================
