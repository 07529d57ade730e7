# Verification of royo-learn in TLA+

royo-learn turns verified experience of a coding agent into published text: a
*learning* is captured with evidence, curated by a person, published into files
of a project (skills, AGENTS.md, knowledge files) and, if need be, rolled back.
A second pipeline ingests the sessions of agents, mines patterns from them and
promotes a qualified pattern to a learning. All of it is one Go binary over one
SQLite database and the project tree; every command and every MCP tool call is a
process, so that invocations overlap, fail half-way and die.

This directory holds TLA+ modules that model the parts of that program where the
order of steps matters, TLC configurations that check them on small instances,
and theorems that TLAPS proves for every instance. Paths below are relative to
the repository; `publish/` stands for `internal/publish/`, and so on.

| Module | Models | Checked by | Proved in |
|---|---|---|---|
| `Publication` | the publication engine, `publish/` | pub_* | `PublicationProofs` |
| `PublicationPromise` | what that engine promises, abstractly | pub_core | `PublicationProofs` |
| `Approvals` | previews, approvals, policies and the dirty tree: the gate before that engine | stages | `GateProofs` |
| `Drift` | the drift job and its reports, `publish/drift` | stages | `GateProofs` |
| `Lifecycle` | a learning from capture to curation, `capture/`, `curate/` | life_core | `LifecycleProofs` |
| `Relations` | relations between learnings, `curate/relation.go` | stages | `StagesProofs` |
| `Recurrence` | occurrence reports and their metrics, `recurrence/` | stages | `StagesProofs` |
| `Retrieval` | searches, `retrieval/` | stages | `StagesProofs` |
| `Scan` | the three adapters, `experience scan` and the trace back | stages | `StagesProofs` |
| `Ingestion` | delivery of experience envelopes, `experience/service.go` | ing_core | `IngestionProofs` |
| `Detectors` | the retry detector, `experience/detectors` | stages | `StagesProofs` |
| `Mining` | from events to patterns, `experience/patterns` | stages | `StagesProofs` |
| `Patterns` | dismissal and promotion of a pattern, `experience/patterns`, `experience/promotion` | pat_core | `PatternsProofs` |
| `Jobs` | leases, runs and dispatch of jobs, `experience/jobs` | jobs_core | `JobsProofs` |
| `Migrations` | the schema, `storage/migrate.go` | setup_core | `SetupProofs` |
| `SelfUpdate` | replacement of the binary, `selfupdate/` | setup_core | `SetupProofs` |
| `AgentSkills`, `AgentConfig` | what setup installs into coding agents, `setup/` | setup_core | `SetupProofs` |

`MC*` modules give the constants of each module their small values. `MCStages`
(over `MCGate`) and `MCSetup` put several modules side by side that share no state:
a behaviour of theirs is one of a single part, chosen at the start, so that one run
asks all of them. To check: `tlc -config pub_core.cfg MCPublication`; to prove:
`tlapm PublicationProofs.tla`.

## 1. Inventory

### Modelled

**Publication engine** (`publish/`, `storage/repo_publications.go`,
`storage/repo_previews.go`).
*State*: the project tree; the rows of `publications`, `publication_previews`
and `learnings`; `.royo-learn/publication.lock`; the append-only journal; the
Markdown record of each learning. *Operations*: Preview, Publish, the
compensation of a failed Publish, Rollback, the two reconciliations
(`reconcile.go`). *Hard*: five stores change in one
operation, only some of them in a transaction; any step may fail or be the last
one; a person edits the same files with no lock; two previews of one skill are
composed from different trees; a rollback may find newer text on top. *Correct
when*: the tree is always accounted for by rows that can be rolled back; nothing
overwrites bytes the engine does not know; a learning is published exactly with
a completed publication; undoing one learning takes no other with it; the lock
is always given back; what was interrupted can be resolved.

**Learning lifecycle** (`capture/`, `curate/curate.go`, `domain/transitions.go`,
`record/`, the repositories of learnings, evidence, curations and audit events).
*State*: the tables and the Markdown records. *Operations*: Capture, AddEvidence,
Curate; Publish and Rollback as far as they write the row. *Hard*: each
operation reads the row in one transaction and writes the *whole* row back in
another, without comparing the revision; the audit event and the record follow,
each by itself. *Correct when*: status and destination of a row come from one
decision on record; what is approved has evidence; an idempotency key has one
learning; committed changes are audited.

**Experience ingestion** (`experience/service.go`, `storage/repo_experience.go`).
*State*: sessions, turns, their audit trail, the checkpoint of the source.
*Operations*: one ingestion of one envelope, with a data transaction and, when
that fails, a failure transaction. *Hard*: envelopes come late, twice, revised
and out of order; the outcome of a commit may be unknown; a failure may be
recorded after a newer success. *Correct when*: the checkpoint is never ahead of
what was stored and never goes back; trail and rows agree.

**Dismissal and promotion of patterns** (`experience/patterns`,
`experience/promotion`). *State*: pattern rows with their members and status,
the learning under the key of a pattern, the audit trail. *Operations*: mining a
cluster again, Dismiss, Promote. *Hard*: Dismiss and Promote decide on a row read
in an earlier transaction; Promote captures the learning in a transaction of its
own; mining takes a promoted pattern back to qualified. *Correct when*: a pattern
has one learning for ever, the trail explains the status, an interrupted
promotion is completed by repeating it.

**Job engine** (`experience/jobs`, `experience/semantic`). *State*: the job
registry, the row of each job with its lease, the run log, the audit trail of a
run. *Operations*: Register, AcquireLease, ReleaseLease, RunOne, RunDue,
RecoverStaleLeases. *Hard*: a lease is taken once and never renewed, so that a
body may outlive it; RunOne cuts its run into four transactions; ReleaseLease
and Register write the whole row without looking at it in the same statement;
owners are names, and two processes may share one. *Correct when*: within their
deadlines two processes never run one job, the trail of a run is the one its log
row tells of, a run that returns is ended in the log, no lease stays for ever.

**Approvals, policies, dirty tree** (`publish/approval.go`, `policy.go`,
`dirty.go`). *State*: previews, approvals, the tree and what git has of it.
*Operations*: SavePreview, Approve, the gate of Publish, rollback. *Hard*: what a
person approved, what the gate checked and what is written are three moments, with
decisions, edits and expiry between them. *Correct when*: a sensitive publication
replaces exactly the bytes that somebody approved replacing, by the newest approval.

**Publication drift** (`publish/drift`). *State*: one row for each pair of
publication and target. *Operations*: the job, the reports. *Hard*: the job
walks an old list while publications, rollbacks and editors go on. *Correct
when*: a row tells of what was seen, and a change between two checks is reported.

**Adapters and scan** (`experience/claudecode`, `codex`, `opencode`, the command).
*State*: foreign files and databases that grow meanwhile; turns and sessions.
*Operations*: discovery, health probe, scan, ingestion envelope by envelope,
ResolveTrace. *Hard*: a file is read as a whole, a database in several queries;
two scans overlap; turns end late or never. *Correct when*: a healthy source is
stored whole whatever its neighbours are, a second scan stores nothing, a trace
into a log tells no text that the turn did not have, and no hash that is stored of a
database is younger than the text stored with it.

**Detectors and mining** (`experience/detectors`, `cluster.go`, `fingerprint.go`,
`qualify.go`, `service.go`). *State*: events, recorded retries, patterns with
members. *Operations*: Detect and Persist; Group, Qualify, IngestCluster, Dismiss.
*Hard*: clusters are cut at a cap and merged up to it, and share rows.
*Correct when*: clusters are a stable partition, numbers are those of the
members, a pattern that asks for review has the evidence among them.

**Recurrence** (`recurrence/`), **relations** (`curate/relation.go`). *State*: one
table each and the audit trail. *Hard*: callers retry, race and die between
commit and answer. *Correct when*: a key counts once, a relation exists once and is
announced once.

**Retrieval** (`retrieval/`, its two handlers, the FTS triggers). *State*: the
index, which follows the learnings. *Hard*: scores depend on the pool that one query
fetched. *Correct when*: the same query of the same database has one answer, the
best of what matches.

**Migrations** (`storage/migrate.go`). *State*: the schema and its table. *Hard*:
processes of different builds race; callers in one process share two mutexes.
*Correct when*: each script takes effect once and in order, success means the schema
of one's own binary, and nobody waits for ever.

**Self-update** (`selfupdate/`), **agent setup** (`setup/`). *State*: the binary with
its neighbours; configurations, skills, manifest, backups. *Hard*: sequences of
file operations that die half-way; the user writes to the same files. *Correct when*:
there is always a whole, verified binary; an upgrade leaves what the user wrote in place
or in a backup; success reported is success.

### Not modelled

| Component | Why not |
|---|---|
| Content identity (`domain/hash.go`, `validation.go`, `capture/fingerprint.go`) | pure functions over text; the modules take their results as identities |
| Evidence collection, redaction (`evidence/`) | regular expressions, child processes, files named by their content; no shared state |
| Project resolution, configuration (`project/`, `config/`) | read at the start of a command, no state afterwards |
| Doctor, logging, build information | read-only |
| Test support | code of the tests |
| SQLite (`storage/db.go`, `tx.go`) | external: a transaction is one step, a UNIQUE key a guard |
| Command line, MCP server (`cmd/`, `mcpserver/`) | partly: handlers that do more than call one operation are modelled with it; the rest parses and formats |
| Engram client (`engram/`) | partly: its answers in `Retrieval`; the rest is HTTP |
| Progressive trace (`experience/trace`) | partly: the way back to a log in `Scan`; that of OpenCode is left out (section 4, *Observed*); the report only joins rows |

### How they interact

All components meet in SQLite and in the project tree, never in memory: two
processes share nothing else. Promote calls Capture (`Patterns` reduces Capture to
the learning under its key; `Lifecycle` has it whole). Publish and Rollback
write the learning row that Curate and AddEvidence also write (`Lifecycle` reduces
them to that write; `Publication` has them whole, with Reject as the one act of a
curator that can interfere). The job engine runs the bodies of ingestion and drift
outside its transactions; `Jobs` takes from a body whether it succeeded, and the
drift body itself is `Drift`. `Scan` hands its envelopes to the ingestion that
`Ingestion` has whole and keeps of it what a turn and a session become. `Mining`
has how a row comes to be qualified, `Patterns` what happens to it afterwards.
`Approvals` has what is asked before the lock of `Publication` and reduces the
writing to one step.

The hazards, with their lines and the properties that stand for each, are in
`PROJECT.json`.

## 2. Plan

Done, in the order of what matters most: the engine with its abstract
specification, ingestion, patterns, lifecycle and jobs; the stages around them
(approvals, drift, scan, mining and detectors, recurrence, relations, retrieval);
what setup does to a machine (self-update, skills, configurations, migrations); and
the proofs of all of these. What could follow:

1. A promise for `Jobs` (one run at a time as long as no body outlives its lease)
   that the detailed module implements; then `Drift` under such a lease.
2. Torn journal lines and invalidated previews in `Publication`.
3. `Scan` and `Ingestion` composed, with cursors, once a caller passes one.

## 3. Modules and code

### Publication

| TLA+ | Code |
|---|---|
| `disk` | the project tree; the content of a file is the set of learnings whose text it holds, plus `UserText`; `NoFile` if absent |
| `pubs` (`Row`) | table `publications`: status, plan, rollback entries with `orig` (the backups) and `entry` (their state), `started_at` |
| `previews` (`Plan`) | table `publication_previews`; the hash is the plan itself |
| `journal`, `record`, `lock` | `journal.go`, `record/`, `lock.go`; `DeadProc` owns the lock file of a process that died |
| `PreviewBuild`, `PreviewSnapshot`, `PreviewCompose` / `Preview` | `preview.go`: the three readings of the tree, or one instant |
| `PublishRead`, `Acquire`, `ValidateHashes`, `InsertAttempt`, `JournalAttempt` | `publish_op.go` up to the first write: read without the lock, lock, compare with the plan, snapshot and row, "attempting" |
| `InspectTarget`, `PlaceTarget`, `SaveProgress`, `VerifyTargets`, `CommitPublication` | the write loop of `publish_op.go` over `writer.go`: the comparison, the link or rename, the progress row, the verification, the transaction |
| `RestoreInspect`, `RestorePlace`, `SaveRestore`, `SaveCompensation`, `CompensationAborts`, `JournalCompensation` | the compensation, over `backup.go` |
| `RollbackAcquire`, `RollbackLoad`, `FailRollback`, `CommitRollback`, `JournalFailedRollback` | `rollback.go` and `publish_op.go` Rollback |
| `Materialize`, `TerminalJournal`, `ReconcilePublished` | `reconcile.go`, `journal.go` |
| `Crash`, `RemoveStaleLock`, `Edit`, `Reject` | environment: process death, the operator, an editor, a curator |

Two system calls of one placement are two actions, because an editor fits in
between. `RollbackLoad` refuses under a newer owner as
`HasNewerActivePublicationOverlap` does, with `started_at` in seconds
(`SharedSecond`).

Abstracted: text to the set of learnings it holds; policies, approvals and the
curation record to "the learning is approved"; read errors before any effect to a
refusal; one project. Left out: a lock file that is created but cannot be written,
a failing Release, rollback metadata of old versions, a torn journal line, test
hooks. `RacingEdits` (an edit between the comparison and the rename), `SharedSecond`
and `TornPreview` are constants: with any of them on, some property below is
known to fail, which is the limit of what the code protects. `RacingEdits` and
`SharedSecond` are FALSE in every run; `TornPreview` is TRUE in `pub_edits`, where
the property must hold even so.

### Lifecycle

One variable per table (`learning`, `evidence`, `curations`, `audit`) and `record`
for the Markdown files. `Capture` begins with the lookup by key (a hit returns the
learning and changes nothing: a guard), `FindExisting` is the lookup by content,
`SaveLearning` the insert under UNIQUE(project_id, idempotency_key).
`AddEvidence`/`AttachEvidence`, `Curate`/`CheckEvidence`/`SaveCuration` and
`Publish`/`CommitPublication` are the read and the write transactions of one
operation; `RecordEvent` and `WriteRecord` follow. `Interrupt` is a failure or death
anywhere in between.

Abstracted: an approving decision stands for the destination type it expects
(approve_test and approve_project_knowledge share one); revision numbers, actors
and times; evidence blobs, written before the transaction; merge targets. No code
under `src/` sets `superseded` or `archived`, so that these statuses are absent. Two
captures of one content *without* a key may both insert; decision D5 promises
nothing else, and the model has it. The record of a learning may be an old row:
`RecordsExplained` says no more than the code keeps.

### Ingestion

`Begin` is everything before the data transaction: validation, size limits and
redaction change no state. `Commit` stores the envelope (session, turn, trail) and
moves the checkpoint; `CommitUnknown` is the same with an error for the caller;
`Refuse` is the cursor conflict, `Fail` any other error; `RecordFailure` is the
failure transaction and `FailureLost` its own failure. The cursor is the API of
`IngestEnvelopeWithCursor`; production callers use `IngestEnvelope`, which is
`NoCheckpoint`. A data transaction is one step because SQLite serialises writers (a
read transaction that cannot upgrade is a failure). The model keeps two things a
reader may find surprising: an older revision delivered late replaces a newer
one, and a checkpoint row that never succeeded pins its source order to one
document.

### Patterns

`Mine` is `SavePattern` with the status rules for a row that exists; `Dismiss` and
`Promote` are the reads, `DismissAtomic`, `FindLearning`, `InsertLearning` and
`PromoteAtomic` the writes. The revision that Dismiss and PromoteAtomic compare is
read in the writing transaction, so that the comparison cannot fail; it is left
out. `stale` is unreachable: every caller saves detector version v1. The audit
event and record of the capture are in `Lifecycle`; here a death after the insert
leaves the learning alone, and a retry finds it by its key. (That retry never writes
the missing event or record.) Which members a cluster has and whether it
qualifies are choices.

### Jobs

| TLA+ | Code |
|---|---|
| `registered`, `row`, `log`, `trail` | tables `job_registry`, `job_state`, `job_run_log`, `audit_events` of one run |
| `proc`, with `holds` | a call under way; `holds` is history: it took a lease whose deadline has not passed |
| `lost` | history: the holders that Register or the second statement of ReleaseLease wrote over |
| `RegisterEntry`, `RegisterState` | the two statements of `Register` |
| `WritePending`, `AcquireForRun`, `CommitLeaseHeld`, `WriteRunning`, `Body`, `ReleaseRun`, `CommitTerminal` | `RunOne`, one action for each transaction |
| `ListDue`, `AcquireDue`, `ExecuteDue`, `ReadRow`, `WriteRow`, `Cancel` | `RunDue`, `executeWithRetry` and `ReleaseLease` |
| `RecoverStaleLeases`, `Expire` | the recovery, and a deadline that passes |
| `Fault`, `Interrupt` | a statement that fails, by the path its caller takes then; a process that dies |

Abstracted: the clock to `live` or `past` for the stored deadline; digests,
metrics, counters and messages of a row; the bodies; the order of names to the
order of numbers; every listed job has a function; backoff is the time between
two steps. The state of a log row stays `pending` while its body runs, as in the
code, where only the attempt moves (`UpdateRunLogAttempt`). Production calls RunDue
without functions, and RunOne from tests only; the module has both as the engine
offers them.

The code departs from its comments in ways that the model has and no run is spent
on: `Register` resets a live lease although it is said to be idempotent;
a cancelled RunDue asks the release of the cancelled context, so that the lease
stays until its deadline; a refused release in RunOne returns without the terminal
event; RunDue looks at neither interval nor digest; a job with no retries gets
one. The first and the third are the premises of `HolderIsOwner` and
`EndsWithAudit`.

### Approvals

`SavePreview`, `Approve`, `BeginPublish`/`PassGate` (the reads before the lock), `Write`
(the dirty-tree check, the comparison with the plan, the writing, the status: one
step, because `Publication` has it in all its steps) and `TakeBack`, a rollback
after which the plan may be published again. A plan lists its operations and the bytes they
replace; `Policies` says what wants a human. The clock counts half seconds, because
expiry is stored in whole ones. `Recurate`, `EditTarget` and `CommitTree` are the
environment. Revocation has no code. An approval may expire between gate and
write: `ApprovalDecides` speaks of the moment of the gate.

### Drift

`StartRun` reads the list; `LookupExpected`, `Check` and `RecordDrift` are the three
steps for each pair, `AbortRun` an error in any. `StartRelease`, `FinishRelease`,
`UndoRelease` and `Change` are publications, rollbacks and editors meanwhile. Targets below a root
of their own are looked for in the wrong place and not found (`Seen`), as in the code.
`ListDrift`, `Summary` and `Total` are the reports.

### Scan

`Scan` and `ScanFixture` begin a command over all or one candidate; `Health` probes;
`ReadLines` reads a file; `HashDatabase`, `AskSessions` and `AskRows` are the separate
reads of a database, of the least path among those left; `Ingest` hands over one
envelope, the least by session and turn: `RefuseEnvelope` ends the command, `StoreEnvelope`
saves or revises the turn and moves its session on. `ClaudeScan`, `CodexScan` and
`OpencodeRows` are the three parsers as functions from lines to envelopes; `batch` is the
set of those yet to be handed over, `asked` that of the sessions yet to be queried.
`turns` and `sessions` are tables that grow. `AppendLine`, `WriteRow` and `SessionRemoved`
are the agents. A text is a sequence of opaque pieces, a hash the number of writes;
`since` is the hashes of all sources when a command began, by which the properties tell
that nobody wrote meanwhile. `FinishedIsShown` says again what a finished turn is, of the
lines and not of a way through them: for Codex, which lines are a turn's own
(`CodexOf`, `CodexPart`) and what their texts are together. Left out: cursors, which no
caller passes, and superseded turns, which nothing sets.

`ResolveTrace` is that of Claude Code and Codex, which read the file once and take hash and
text from the same bytes. OpenCode's is not modelled: it hashes the main file, opens the
database and asks for the row later, and a write may be in the write-ahead log, which the
hash does not see. What holds there is said of the scan alone, by `HashNotYounger`: as long as
nothing was written since the locator's hash was taken, the row has the text stored of it.
"Nothing was written" is stronger than "the hash is the same".

### Detectors and Mining

`Detect` counts the failures of one fingerprint among what it is told, which is the
newest observation as the current one and any part of the past. `Group` is chunks by
fingerprint and merges until stable, `Qualify` the verdict, `IngestCluster` the save
of one cluster, one action each, so that `MiningDies` fits in between. The order of
these library calls is that of the tests: no command makes them yet. `NoneLost` leaves
out clusters that share a fingerprint, which share a row as well. The clusters are a
set: each is a chunk of `MaxClusterMembers` events of one fingerprint (`PlaceOf` numbers
an event among those like it, `ChunkOf` is its chunk), so that fingerprint and chunk
name it. `Rank` stands for the order of the hashes, by which merges are tried; chunks of
one fingerprint come in any order, because `sort.Slice` is not stable.

### Relations, Recurrence and Retrieval

`Relate`, `CheckExisting`, `SaveRelation` and `RecordAudit` are the four transactions of
Relate; a second insert of the same triple is refused by the UNIQUE key. `Report`,
`Lookup`, `Insert` and `Acknowledge` are an occurrence report, whose lookup and insert
are one transaction (`Overtaken` is its conflict); `Measure` and `Review` are the two
transactions of a metrics answer. `Search` is a function from the database to the set
of answers, one for each order in which the index may return equals: words, pool, scores in units
of 1/100000, order, page. `AskServer` and `AskCommand` are the two handlers.

### SelfUpdate

`Launch` to `Verify` fetch and check; `AcquireUpdateLock` is O_EXCL; `ReplaceUnix` is the
one rename, `StageFile` to `Restore` the Windows sequence, `Unlock` the deferred
removal. A file is a release together with who wrote it, because Windows refuses to
delete what a process runs from. `RemoveLockFile` is the user who follows the message,
and does so when no other update is running, as it says.

### AgentSkills and AgentConfig

A directory is a function from file names to contents; a version of the skill holds its
number in the files that it has (`Ships`), which differ from one version to the next.
`StartInstall`, `StartUpgrade`,
`BackUpSkill`, `RemoveOne`, `CreateFile`, `FillFile` and the recording of the manifest are
the steps of the two operations, `FailCopy` a copy that ends with an error (the file it was
at is gone, half there, or there and without its mode: `Failed`), `RollBack` and `EndRestore`
the way back, `GiveUp` any error before. RemoveAll's error is ignored in the rollback, so
that `RollBack` may leave any of the files. The user writes files (`WriteNote`) and deletes
them (`DeleteFile`), SKILL.md or another, whether or not there is a SKILL.md; a directory
without it is no skill to InstallSkills, which copies over what is there and keeps no
backup. `OnlyInstallTakes` says exactly that: this install is all that takes what the user
wrote. What he writes while a copy is under way, or past the backup, is unguarded in the
code, and he counts on nothing there; that he deletes files in that time is left out. `AgentConfig` follows one command through its agents:
`BackupConfig` (`SameSecond`: backups are named by the second), `LoadConfig`, `OpenTemp`,
`WriteTemp`, `RenameTemp`, or `RunAgentCLI` for an agent that is configured by its own
command. Inodes tell a file from the one renamed over it. `Overlap` is FALSE: two
setups at a time, or a user who edits during one, lose writes, since nothing locks the
file of another program.

### Migrations

`BeginMigrate` takes the mutex of the wrapper, `EnterProcess` that of the process;
`CheckVersion`, `ExecMigration`, `RecordVersion` and `CommitMigration` are migrateDB for one
script, `Reconcile` the second look after a lost race; `FailMigration` and `KillProcess`
end a call anywhere. `Known` gives each process the checksums of its own build.

## 4. Runs

| Run | Bounds | Shows |
|---|---|---|
| `pub_core` | 2 invocations, 2 learnings sharing 1 of 2 files, 2 publications, 2 previews, 1 fault, 1 crash | the safety properties of `Publication`, and `KeepsPromise` |
| `pub_edits` | 1 invocation, previews read in pieces, 1 edit, 1 fault, 1 rejection | `ReplacesOnlyKnownBytes` |
| `pub_recovery` | 1 invocation, 1 fault, 1 crash, fairness | `LockReleased`, `InterruptedIsResolved` |
| `ing_core` | 2 invocations, 5 attempts, 5 envelopes (revised, repeated, older, without cursor), 2 failures, 1 unknown commit, 1 crash | all of `Ingestion` |
| `pat_core` | 2 invocations, 2 patterns, 2 events, 3 learnings, 3 minings, 1 interruption, fairness | all of `Patterns` |
| `life_core` | 2 invocations at a time, 4 in all, 2 learnings, 1 key, 1 content, 1 interruption | all of `Lifecycle` |
| `jobs_core` | 2 processes with a name each, 2 jobs, 2 registrations, 2 runs of RunOne, 1 RunDue, 1 failure (fault, cancellation or death), any number of deadlines, fairness | all of `Jobs` |
| `stages` | approvals: 1 publisher, 2 plans, 2 approvals, 2 publications, 1 upset, 2 ticks; drift: 2 publications sharing a path, 1 edit; scan: 2 scans, 2 sources of 3 agents, also outside, hidden or foreign, 2 writes; detect: 2 problems, 4 observations; mining: 6 events, cap 3, 2 minings; recurrence: 2 callers, 3 calls, 5 records; relations: 2 processes, 3 rows; retrieval: 4 learnings, 7 queries, 1 week | `ApprovalDecides`, `DriftHonest`, `ScanSound`, `FinishedIsShown`, `DerivedSound` |
| `setup_core` | update: 2 updaters, 2 releases, both platforms; skills: 4 files, 2 versions of which the second has a file more and one less, 2 acts of the user, 3 commands; config: 2 commands, 2 agents; migrations: 4 callers, 3 handles, 2 builds | `UpdateSafe`, `SkillsSafe`, `ConfigSafe`, `SchemaSound`, `CallsEnd` |

Several properties are conjunctions of named parts: `OwnsItsWork`, `PlanIsKept`,
`UndoIsExact` and `TreeAccountedFor` of `Publication`, `Audited`, `PromotedOnce`, `StoresExplained`, `LeaseSound`,
and those of the last two rows. `CheckpointSound` is `CheckpointCovered` and the action
property `CheckpointMonotone`, `ScanSound` is `ShownIsStored`, `TraceTellsTruth`, `HashNotYounger` and the
action property `QuietRescan`, `SkillsSafe` is `CutShortIsNoUpgrade` and the action properties
`OnlyInstallTakes` and `FailedSwapIsUndone`. `DerivedSound` is `EvidenceSound` (Mining), `RetryTrue`
(Detectors), `RetriesCountOnce` and `ShownTogetherAgrees` (Recurrence), `RelatedOnce`
(Relations) and `SearchRepeats` (Retrieval). Each part is stated and explained in its
module.

Why the bounds are enough to be interesting: two publications that share one file and
differ in another give every overlap that the ownership check tells apart (same
owner, newer owner, disjoint part); a third would repeat the pairs. One fault
*and* one crash let the compensation of a failed operation die as well, and a
rollback of it follow. One invocation is enough where the lock serialises the
rest and the editor is the second actor. Four calls reach capture, approval,
publication and rollback of one learning while another call writes; two learnings
with one key or one content let both captures find nothing. Five attempts deliver,
revise, repeat, fail and retry. Three learnings are one more than the patterns, so
that a duplicate would find an id. Two processes, one in RunDue and one or both in
RunOne, with a registration between, give every pair of a holder and one who
writes over it; the second job lets a list go on after a refusal. Two plans of one
lesson and two approvals give an old and a new one of each. Two writes to two
sources fall before, between and after the queries of a scan, and the other scan
beside them. Six events of three fingerprints go over the cap, overlap wholly and
by a half, and spread over two minings. Four learnings of which two differ in their id
alone tell whether an order of equals shows. Two versions and two acts of a user make
untouched, modified, unmanaged and half-copied skills, with SKILL.md or without; three
commands install, upgrade, and install over what that left; four callers share a handle,
a process, or nothing.

Deadlock is checked in `pub_core` and `pub_recovery`. It is not checked in the other
runs, where the bounded calls, attempts, edits and ticks run out and nothing is left
to do.

### Divergences

Each of these runs checks one sentence of the repository against the code and
finds a behaviour that contradicts it; `PROJECT.json` quotes both.

| Run | What happens |
|---|---|
| `best_first` | the relevance of the best match of a query is the lowest of its page: the sign of the normalisation is the wrong way round |
| `drift_baseline` | a target that was edited before the first check, or twice checked since, is reported ok: the expected hash is the one of the check before, not the published one |
| `skill_files` | an upgrade of an untouched skill deletes the files of the user that are not of the kinds it hashes and copies |

### Observed, without a run

Met while translating. All but the last five are behaviours of the modules as
they stand.

- InstallSkills overwrites the files that a user has in a directory without SKILL.md, without
  a backup (`setup/skill.go:52`, `:146`): after an upgrade that died half-way, or when he
  deleted only that file. "Existing skills are skipped (never overwritten)" (`:20`) counts
  such a directory as none.
- An install hashes what it finds in the directory with what it copied (`setup/skill.go:67`):
  a file that an older version left there half, and the new one does not have, is recorded,
  and the copy counts as untouched. `CutShortIsNoUpgrade` excepts just this.
- A rollback of an upgrade whose RemoveAll fails (`setup/skillupgrade.go:204`) may leave a file
  of the new version, whole or half, that the old one did not have, against "no half-written
  skill remains" (`:173`). Every file that was there is put back.
- A preview composes the skill before, and takes its prior hash after, another
  publication: publishing it drops the other learning (`publish/preview.go:98`;
  `TornPreview`).
- A reconciliation that could not write the record journals
  `rolled_back_reconciled`, after which nothing repairs the record.
- A rollback that dies between two targets is not listed as interrupted
  (`rollback --list`).
- A dismissal that read a qualified pattern dismisses it after it was promoted.
- Evidence attached from an old row takes back a decision, so that a learning leaves a
  terminal status.
- An approval may expire, or the approved lesson be decided anew, between the gate and the
  write (`publish/publish_op.go:139`).
- A relation is saved and its audit event lost when Relate fails in between.
- `listExistingRelations` says it looks "in either direction" and looks at one.
- A report under a key that was used for another learning is answered with that one's record.
- A trend can never be "increasing": the older interval is taken the wrong way round
  (`recurrence/metrics.go`).
- `search --status` filters after the page was cut, so that a page may come out short.
- The drift job opens a target without its root: one below a root of its own is
  reported missing.
- Changes in a directory in which git tracks nothing are not seen as dirty, since
  `git status --porcelain` names the directory alone.
- `RecordRecurrence` is said to be idempotent and always inserts; only tests call it.
- `status, _ := CheckNeedsReview` is dereferenced when the second read failed
  (`mcpserver/tools.go:806`, `cmd/royo-learn/main.go:1834`).
- A death inside the journal's Append leaves a torn line, which no later ReadAll
  survives (`publish/journal.go:123`).
- OpenCode's ResolveTrace hashes the database first (`opencode/resolve_trace.go:75`) and asks
  for the row later (`:124`), and the hash is of the main file, without the write-ahead log: a
  row that was updated in between, or only in the log, is told with code "", which `:33` calls
  "excerpt is fresh".
- A self-update ignores that its lock or its staged file cannot be removed
  (`selfupdate/replace.go:61`, `:124`, `:131`). `SelfUpdate` takes these removals to succeed.

## 5. Fairness

- `Publication`: every invocation that was started takes its next step
  (`WF(Step)`): the code of an operation is sequential and every call in it returns.
  Starting one, editing, rejecting and crashing are nobody's obligation.
  `RecoverySpec` adds an operator who removes the lock of a dead process (weak:
  the lock stays until then) and repeats Rollback for a row that is in progress,
  as the `next_action` of the errors tells (strong: other invocations may take the
  lock meanwhile).
- `Patterns`: running invocations go on, and someone asks again to promote a pattern
  that is still qualified, which is what `promotion/service.go` means by "recoverable
  via the idempotent retry".
- `Jobs` (`FairSpec`): a call goes on and its body returns (`WF(Step)` of each process),
  a deadline passes, and an operator recovers stale leases again and again, as the
  comment of `RecoverStaleLeases` ("at startup and periodically") asks. Starting a
  call, failing and dying are nobody's obligation.
- `Migrations`: a caller that waits for a mutex or for the write lock of SQLite gets its
  turn (`WF(Proceed)`), as Go's mutexes and the busy handler let it. Calling, failing
  and dying are nobody's obligation.
- The other modules state no liveness: no code there retries or waits.

## 6. Proofs

No theorem bounds the numbers of invocations, files, learnings, envelopes, patterns,
jobs, plans, approvals, observations, events, records, relations, queries, skills,
commands, updaters, releases, callers or scripts. They rest on the named
assumptions of the modules, which TLC evaluates in the runs and of which these
say more than the type of a constant:

| Assumption | Why the code has it |
|---|---|
| `ProcsAssumption`: the processes are finitely many | those at work at one time on one machine |
| `RankAssumption`: a number of its own for each fingerprint | hashes are compared as strings; two contents with one hash are not considered |
| `MiningAssumption`: an id is a number and names one event | primary key of `experience_events`, created in order |
| `RecurrenceAssumption`: the records of before have the form of reported ones, and no key twice | every record is inserted by `Record`; UNIQUE index `idx_recurrence_idempotency` |
| `RetrievalAssumption`: limits are positive, the library holds what `Books` describes | constants of `retrieval.go`, columns of the index |
| `ScanAssumption`: lines and rows have the form of their agent, and Claude Code names a line once in a source, as OpenCode does a row | the uuid of a line; primary key of `messages` |
| `SessionsAssumption`: an agent keeps a session in one source | a session file or a rollout is named after its session; the code stores turns by session and has no way to tell two sources of one apart |
| `ConfigAssumption`: no agent twice in a command | `dedupeAgents` |

Beyond them, and only where said, a theorem assumes that nobody edits
(`Budget["edit"] = 0`), that no edit falls between a comparison and its rename
(`RacingEdits`), that no preview reads a tree that changes under it (`TornPreview`), that
no two publications start within one second (`SharedSecond`), or that two setups
do not run at a time (`Overlap = FALSE`), because the code protects from none of these.
Where a run checks a conjunction, a theorem states the conjunction (`OwnWorkCorrect`,
`PlanKept`, `UndoExactCorrect`, `TreeAccountedCorrect`, `AuditedCorrect`, `PromotedOnceCorrect`, `StoresExplainedCorrect`,
`LeaseSoundCorrect`, `SetupCorrect`, `ScanSoundCorrect`, `DerivedSoundCorrect`) from those of its parts.

*Publication.* `LockHeldInside` is not inductive alone: a step that works on a row
must know that its row is there and is its own. `IInv` is `TypeOK`, `AttemptKnown` and
`LockHeldInside` together, proved action by action; `RowsKept` says that no step of
another invocation touches a row while its lock is held elsewhere. Without edits
`FInv` adds what an invocation knows between its check and its use: `PlanFits`
(after the comparison the tree is the plan's) and `VerifiedFits` (after the
verification every target holds its bytes); `SnapshotIsPrior` and
`CompletesOverPlannedTree` follow. `PInv` relates learnings to rows, for
`PublishedHasPublication`, edits or not. `KInv` is `IInv` with `ComparedFits`: from the
comparison of one target to its replacement the target is what was compared, and an
absent one that appeared meanwhile is looked at again (with `TodoFits`: a loop stays
within the targets of its publication). It needs no premise but that no
edit falls into that window (`RacingEdits = FALSE`), because every step either comes to
no placement or has just compared its target (`StepMoves`), and nobody else is inside;
`ReplacesOnlyKnownBytes` is its consequence. `UInv` joins `FInv` and `KInv` with
`PlansWhole` (a plan was composed from the bytes it snapshotted, so without torn
previews): then a placement only adds text, and a restoration takes away exactly what its
publication added, which is `OnlyOwnUndoRemoves`.

`UndoIsExact` takes three more invariants. `OInv` is about the order of the rows: each
starts in a later second than those before it (`Ordered`), so that the comparison of
`started_at` finds every newer owner, and what a rollback found when it began
(`NewestFits`) stays true because whoever is inside is alone (`InsideAlone`). `RInv` adds
what the loops of the compensation and of the rollback have put back (`Restored`): a
target that is done is back to its original bytes or marked, and its entry says restored
only if it is; a row is closed from those entries (`ClosesStep`). `SInv` speaks of the
*stack* of publications over each file, as long as nothing has failed: the newest that is
in force knows what the file holds (`TopFits`), each one below knows what the next one
found (`ChainFits`), an insertion goes on top and a rollback takes the top off. So a
rollback that begins at the newest never meets content it does not know, also after a
crash anywhere in between.

That the engine implements `PublicationPromise` (`PromiseKept`, the property `KeepsPromise`)
needs neither: `EInv` is `UInv` with the status of the row each loop works on
(`OpenFits`: in progress while its publication writes or compensates, not closed while a
rollback restores), which stays because whoever is inside is alone. `Stages`, `Owners`,
`Shown` and `Texts` are what the abstract specification sees of a state. An insertion is
`Open`; a placement is `Write`, since the bytes it puts down differ from those it replaces by
the learning alone (`ComposedSeen`); a restoration is `Remove`, or not seen where the
original held that text already; the commit is `Complete`, over a tree that `VerifiedFits`
describes; a failed compensation or rollback is `Hold`, a closed one is `Undo`; nothing else
is seen (`StepKept`, `OtherKept`). With edits it is false, since a person may
type over what was published.

`TreeAccountedFor` says who answers for what the tree holds, and has two parts.
`TextAccountedFor`: a file holds the text of a learning only while a row of that learning,
not rolled back, has a backup of the file without it (`Tells`), so that a rollback can still
take the text out. It needs only that previews see one tree; edits, also racing ones, faults,
crashes and publications of one second may come as they like (`TextAccountedCorrect`). `AInv`
carries three things. `OrigsKept`: a publication adds text to what it found and takes none
away, since a snapshot holds no text that the plan did not see; a person types no
learning's text. `Told`, in `AccountFits`: the bytes an invocation may put into a target
next, planned or original, hold only text that some row tells of already, before it writes
them (`WrittenTold`). And `Gone`: a target a rollback is done with is in conflict or holds no
text that its original lacks; that is less than its original bytes, which an edit may have
changed, and all that is needed where `CommitRollback` closes the row (`StepText`, the one
step that ends a `Tells`). A compensation needs none of this, since a failed row still tells.
`BytesAccountedFor`: while nothing failed and nobody edited, crashes or not, each file is
as it was before the first publication or holds to the byte what a row not rolled back planned
for it. It is false of publications of one second, whose rollback may bring back bytes of
a row that is itself rolled back. `BInv` joins the stack of `SInv` with `Founded` (the files
are explained by rows in force) and `OrigsFounded` (what a row found is explained by older
rows in force, so that what a rollback brings to light is explained too; nothing newer was
founded on the row it closes). After a fault a compensated row may be rolled back over
what later rows rebuilt with the same text, and bytes no longer tell the two apart.

*Lifecycle.* The operations write old rows over new ones, so that no argument
about *the current* row can be inductive. `LInv` speaks of every row that is *known*
anywhere, in the table, in a record or in the memory of an invocation: each is
*accounted for* by the curations and the evidence. Those tables only grow
(`Grows`), so that what was accounted for stays so (`AccountedStays`), and moving
a row from one place to another proves itself. From it: `RowsExplained`,
`ApprovedHasEvidence`, `RecordsExplained`, `RetryCreatesNothing`.

`ChangesAudited` counts, and the counts are of finite sets: for one learning and one
operation, `Audited` says that the events on the trail and the invocations that still
owe one (`Unaudited`) are together no more than the committed changes, and no fewer than
these less the faults. A step of an invocation either commits and owes from then on
(`Commits`), tells what it owes (`Tells`), loses it to a fault (`Loses`), or leaves the
count alone (`LeavesAlone`); each action is shown to be one of the four, and each of the
four to keep `Audited`. That the processes are finitely many is used here and nowhere
else.

*Ingestion.* Lemmas state the effect of each step on the cursor and on the turns
once; `CheckpointMonotone` and `RevisionsAudited` follow from them and types.
`CheckpointCovered` needs `TurnAudited`: an envelope that finds its turn unchanged
stores nothing, and its revision is on the trail only because the trail ends with
the current one.

*Patterns.* `LInv` adds `CarriesOwn` (what an invocation is about to propose was
captured under its pattern's key), `OneLearning` (a key has one learning) and
`TrailOwn`. `LearningStays` follows: whatever a second promotion proposes is the
learning under the key, which is the first.

*Jobs*. `IInv` has three parts, proved apart. `TInv` is `TypeOK` and that a list under
way is not empty. `RInv` ties each run to one process and its log row to the step
that process is at (`RunKnown`, `OneProcess`, `FreshRuns`), without which the next
event could follow any trail; `AuditFollowsLog` comes with it. `HInv` is
`HolderIsOwner` and that only steps between acquisition and release hold a lease:
each step takes a lease from nobody who holds it, gives back its own, or names
those it overwrote in `lost`. `Exclusive` follows, since a row has one owner, and so
does `EndsWithAudit`: what could refuse the release is ruled out by `HolderIsOwner`.

*Approvals.* `ApprovalDecides` looks back: what is written now was approved at the
moment of the gate. `Cleared` says of a plan that the approval the gate let it through on
is of that plan, was not expired then, and was the newest of those the gate could see; it
speaks of rows that are there already, so that it stays true however the table grows
(`AppendLast`). `GatesCleared` has it of whoever is between gate and write,
`ReleasesCleared` of what was released; only `PassGate` and `Write` have something to show.

*Drift.* `TrueRow` is what a row may say: that its target held at some moment what the row
saw, and that a difference between what it saw and what it expected is called one. `past`
keeps all that a path ever held, so that a true row stays true, and `RunOK` says what the
job has in hand between its steps: a row of the table, or nothing, to expect from, and a true
row to record. There is one row for each pair, so that what is expected is unique. That the counts of the summary add up to
the list is `TotalIsListed`, from the cardinalities of disjoint finite sets.

*Skills.* A proof file by file. `Exposed` are the files that a command takes away or fills
without another look: all of them past the backup, and the one that an install has just
created. `Guarded` says that none of these holds what the user counts on, unless a backup
has it too (`BackedUp`): a backup holds what was in place when it was made (`FoundBefore`), a
new version, a half file and nothing are not his text (`NoneOfHis`), and what the rollback
puts back comes from a backup. So only `CreateFile` of an install, which found no SKILL.md,
can take a text (`TakesIfInstall`). `Copied` (what is no more to be copied is in place, and
what an install has no file for is as it was found) gives `FailedSwapIsUndone`, whatever the
removal before it left, and `CutShortIsNoUpgrade` (`HalfWasThere`).

*Config.* A rename replaces an inode, so the argument is about inodes: one that a
command has yet to create for an agent is nobody's configuration (`FreshInodes`,
`TempApart`), one command is at work at a time (`OneAtWork`), and `Pending` tells what it
has done for its agent: the backup holds what is in place, what it will write is what is in
place with its own entry, and the file it renames is complete. With `Overlap` the second is
false, as section 3 says. Type correctness needs no such premise. `SetupImplements` shows that a
behaviour of `MCSetup` is one of each of its parts, which carries the theorems of the parts
to the property of the run.

*Scan.* `ScanInv` says of each command what it has in hand (`CommandOK`), that this is what
its source shows as long as nothing was written since it began (`Fresh`), and that of the
sources it has behind it all is stored, of the one it is at all that is neither in its
batch nor still to be asked (`Progress`). Three things make that hold. An envelope is one
of its turn (`KeysApart`), so that to store one displaces no other of the same editions, and
a session only moves on (`StoreSound`). Whoever is alone is the only one at work, or those
who began later saw the same editions (`Apart`). And a write makes an edition that no
command and no locator knows (`EditionRises`), so that nothing is claimed of it: every
locator is `Vouched` for, since its hash was taken before the rows it tells of were asked.
A settled command then stands for `ShownIsStored`, a second one finds its envelopes in
store and changes nothing (`QuietScan`), and a trace into a log is true of any edition. That a session
of a database has a newest row, and so is shown, needs a greatest number among finitely
many (`MaxOf`), again by the least of those that do not bound them.

What a source shows is what is finished in it, line by line for Claude Code and row by
row for OpenCode. For Codex it takes an invariant of the parser's loop: `Built` says
what there is after n lines, a turn for each that some line opened, the last of them in
`order`, and for each turn the texts of the lines that are its own so far (`TurnSays`). A line
keeps that (`BuiltNext`), since a line without a turn is given to the last one opened
(`AnchorOf`) and a turn_context takes from its turn whatever came before it (`PartNext`). Were
it ever false, it would be so first after some line, which `LeastOf` finds.

*Mining.* `Clusters` says of a set of clusters that it is a partition of the events in
which fingerprint and chunk name a cluster. Chunks are one; a merge of two leaves one,
with one cluster less. So after as many rounds as there are clusters none can be merged
(`GroupClusters`): the rounds that leave something to merge are numbers below that count,
and a least one among those that do not exists without an induction. `MinInv` adds that each
cluster of the mining under way waits in the queue or, if its fingerprint is its own, has
its members in its row, unless that was dismissed; and what `QualifiedJustified` says of
rows. `EvidenceSound` follows.

*Detectors.* `DetInv`: times only move on, so that a retry that was true of the
observations up to its own is not changed by later ones.

*Recurrence.* Two facts are carried from a transaction to the answer after it. `Looked`:
the caller found no record with its key among those it saw, so that an insert which is not
overtaken is the first of its key. `Measured`: the numbers it was given claim no more and
nothing later than the newest records of the fingerprint; records are only appended, so
that this stays true of the page a review looks at. That a page read in that order and cut is the newest rests on `PlacesTaken`, which
counts the places below a place.

*Retrieval.* `Ahead` is shown to be a strict total order of hits with different ids. Two
sequences of the same hits, both in that order, are equal (`OrderedRanked`), so that
the answer does not depend on the order of the pool (`SearchSound`) as long as the pool was
not cut among equals, which is what `SearchRepeats` says.

*Relations.* That nobody else announces a relation rests on two facts: rows are
numbered in the order of their saves, so that no id comes twice, and a process about to record
an event is alone with its id (`AuditsOwn`).

*The stages together.* A step of `MCStages` is a step of one stage and leaves the variables of
the others alone (`StagesParts`), so that `StagesInv`, which conjoins the invariants of
the stages, is kept by the lemmas of each; scan and mining are empty where they are not the
part chosen. `ScanSound`, `DerivedSound`, `ApprovalDecides`, `DriftHonest` and
`StagesTypeOK` are theorems of that specification, the one the run checks.

*Migrations.* `PassedIsApplied` (everything before the script a call is at is applied
as its own binary has it) and `AtOwnScript` (a call about to commit knows that nobody
has a row for it, because the write lock is its own) are the strengthening; only the
commit changes the schema, and only there is there something to show. The mutexes are
not used: what they protect is the time it takes, not the schema.

*SelfUpdate.* On Windows the binary is out of its place for two steps, in which the parked
copy is all there is. `FromDisk` says why nobody cleans that up: whoever is alive was
started from one of the two files, and while one is missing that is the other. `Midway`
is what the replacement knows at each step, `Tidy` that what is half-done has somebody
at work on it, as long as nobody died.

*Only model-checked*: the liveness properties under their fairness, which no installed
prover handles. No module that is proved about reaches a RECURSIVE operator.
