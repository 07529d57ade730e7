----------------------------- MODULE Migrations -----------------------------
(***************************************************************************)
(* internal/storage/migrate.go: every command and every server brings the  *)
(* schema up to date when it opens the database. Callers of one process    *)
(* share a mutex, callers of one wrapper another; processes share nothing  *)
(* but SQLite, and may come from different versions of royo-learn.         *)
(***************************************************************************)
EXTENDS Naturals, Sequences, FiniteSets

CONSTANTS
    Callers,   \* calls of Migrate
    Wrapper,   \* call -> the DB it is made on
    Process,   \* DB -> the process that opened it
    Known,     \* process -> the checksums of the migrations in its binary, in order
    Alters     \* the migrations whose SQL fails when it is executed again

Nobody == "nobody"
Unapplied == "no row"
ASSUME MigrationAssumption ==
    /\ Nobody \notin Callers
    /\ \A c \in Callers : c \in DOMAIN Wrapper /\ Wrapper[c] \in DOMAIN Process
    /\ \A d \in DOMAIN Process : Process[d] \in DOMAIN Known
    /\ \A p \in DOMAIN Known : Known[p] \in Seq(STRING \ {Unapplied})

VARIABLES
    applied,   \* version -> the checksum in schema_migrations
    effects,   \* version -> how often its SQL was committed
    writer,    \* the call whose transaction holds the write lock, or Nobody
    held,      \* the wrappers and processes whose mutex is taken
    call       \* call -> its step

migVars == <<applied, effects, writer, held, call>>

Schema == UNION {DOMAIN Known[p] : p \in DOMAIN Known}
ProcessOf(c) == Process[Wrapper[c]]
Checksum(c) == Known[ProcessOf(c)][call[c].version]
IsApplied(c) == applied[call[c].version] # Unapplied
Rests(c) == call[c].step \in {"idle", "ok", "error", "dead"}

MigInit ==
    /\ applied = [v \in Schema |-> Unapplied]
    /\ effects = [v \in Schema |-> 0]
    /\ writer = Nobody
    /\ held = {}
    /\ call = [c \in Callers |-> [step |-> "idle", version |-> 1]]

Goes(c, step) == call' = [call EXCEPT ![c].step = step]
\* Mutant: the mutex of the process is not unlocked.
ReleasesWrapper(c) == held' = held \ {Wrapper[c]}

Releases(c) == held' = held \ {Wrapper[c], ProcessOf(c)}

\* db.mu.TryLock: a second call on the same wrapper is refused.
BeginMigrate(c) ==
    /\ call[c].step = "idle"
    /\ IF Wrapper[c] \in held
       THEN Goes(c, "error") /\ held' = held
       ELSE Goes(c, "wait") /\ held' = held \cup {Wrapper[c]}
    /\ UNCHANGED <<applied, effects, writer>>

\* migrationMu.Lock, and the table of migrations.
EnterProcess(c) ==
    /\ call[c].step = "wait"
    /\ ProcessOf(c) \notin held
    /\ Goes(c, "check")
    /\ held' = held \cup {ProcessOf(c)}
    /\ UNCHANGED <<applied, effects, writer>>

\* Mutant: the digest of a row is not compared.
CheckRowOnly(c) ==
    /\ call[c].step = "check"
    /\ IF call[c].version \notin DOMAIN Known[ProcessOf(c)]
       THEN Goes(c, "ok") /\ Releases(c)
       ELSE IF ~IsApplied(c) THEN Goes(c, "exec") /\ held' = held
       ELSE call' = [call EXCEPT ![c].version = @ + 1] /\ held' = held
    /\ UNCHANGED <<applied, effects, writer>>

\* isApplied, for the next file in the order of versions.
CheckVersion(c) ==
    /\ call[c].step = "check"
    /\ IF call[c].version \notin DOMAIN Known[ProcessOf(c)]
       THEN Goes(c, "ok") /\ Releases(c)
       ELSE IF ~IsApplied(c) THEN Goes(c, "exec") /\ held' = held
       ELSE IF applied[call[c].version] = Checksum(c)
       THEN call' = [call EXCEPT ![c].version = @ + 1] /\ held' = held
       ELSE Goes(c, "error") /\ Releases(c)
    /\ UNCHANGED <<applied, effects, writer>>

\* The first statement of the transaction waits for the write lock of SQLite. SQL
\* that cannot be executed again, or the timeout of the wait, rolls back.
ExecMigration(c) ==
    /\ call[c].step = "exec"
    /\ IF writer # Nobody \/ (call[c].version \in Alters /\ effects[call[c].version] > 0)
       THEN Goes(c, "reconcile") /\ writer' = writer
       ELSE Goes(c, "record") /\ writer' = c
    /\ UNCHANGED <<applied, effects, held>>

\* Mutant: a duplicate row leaves the transaction open.
RecordHolding(c) ==
    /\ call[c].step = "record"
    /\ Goes(c, IF IsApplied(c) THEN "reconcile" ELSE "commit")
    /\ UNCHANGED <<applied, effects, writer, held>>

\* INSERT INTO schema_migrations: the version is its primary key.
RecordVersion(c) ==
    /\ call[c].step = "record"
    /\ IF IsApplied(c)
       THEN Goes(c, "reconcile") /\ writer' = Nobody
       ELSE Goes(c, "commit") /\ writer' = writer
    /\ UNCHANGED <<applied, effects, held>>

CommitMigration(c) ==
    LET v == call[c].version IN
    /\ call[c].step = "commit"
    /\ applied' = [applied EXCEPT ![v] = Checksum(c)]
    /\ effects' = [effects EXCEPT ![v] = @ + 1]
    /\ writer' = Nobody
    /\ call' = [call EXCEPT ![c] = [step |-> "check", version |-> v + 1]]
    /\ held' = held

\* reconcileConcurrentMigration: the same migration, applied by somebody else.
Reconcile(c) ==
    /\ call[c].step = "reconcile"
    /\ IF IsApplied(c) /\ applied[call[c].version] = Checksum(c)
       THEN /\ call' = [call EXCEPT ![c] =
                   [step |-> "check", version |-> call[c].version + 1]]
            /\ held' = held
       ELSE Goes(c, "error") /\ Releases(c)
    /\ UNCHANGED <<applied, effects, writer>>

\* A statement or the commit fails: the transaction is rolled back.
FailMigration(c) ==
    /\ call[c].step \in {"check", "exec", "record", "commit", "reconcile"}
    /\ Goes(c, "error")
    /\ Releases(c)
    /\ writer' = IF writer = c THEN Nobody ELSE writer
    /\ UNCHANGED <<applied, effects>>

\* A process dies: its mutexes are gone with it, its transaction is rolled back.
KillProcess(p) ==
    /\ \E c \in Callers : ProcessOf(c) = p /\ ~Rests(c)
    /\ call' = [c \in Callers |->
           IF ProcessOf(c) = p /\ ~Rests(c) THEN [call[c] EXCEPT !.step = "dead"]
           ELSE call[c]]
    /\ held' = held \ ({p} \cup {d \in DOMAIN Process : Process[d] = p})
    /\ writer' = IF writer # Nobody /\ ProcessOf(writer) = p THEN Nobody ELSE writer
    /\ UNCHANGED <<applied, effects>>

Proceed(c) ==
    \/ EnterProcess(c) \/ CheckVersion(c) \/ ExecMigration(c)
    \/ RecordVersion(c) \/ CommitMigration(c) \/ Reconcile(c)

MigNext ==
    \/ \E c \in Callers : BeginMigrate(c) \/ Proceed(c) \/ FailMigration(c)
    \/ \E p \in DOMAIN Known : KillProcess(p)

\* The mutexes of Go and the busy handler of SQLite let a caller that waits get
\* its turn; nothing obliges anybody to call, to fail or to die.
MigFairness == \A c \in Callers : WF_migVars(Proceed(c))
MigSpec == MigInit /\ [][MigNext]_migVars /\ MigFairness

------------------------------------------------------------------------------
(* Properties *)

MigTypeOK ==
    /\ DOMAIN applied = Schema /\ DOMAIN effects = Schema
    /\ \A v \in Schema : effects[v] \in Nat
    /\ writer \in Callers \cup {Nobody}
    /\ held \subseteq DOMAIN Process \cup DOMAIN Known
    /\ DOMAIN call = Callers
    /\ \A c \in Callers :
          /\ call[c].version \in Nat
          /\ call[c].step \in {"record", "commit"} <=> writer = c

\* The schema and its table tell the same story: a migration took effect once if
\* it has a row and never if it has none, whoever raced with whom and died.
AppliedOnce ==
    \A v \in Schema : effects[v] = IF applied[v] = Unapplied THEN 0 ELSE 1

\* Migrations take effect in the order of their versions, those of two binaries
\* that race too.
AppliedInOrder ==
    \A v, w \in Schema : v < w /\ applied[w] # Unapplied => applied[v] # Unapplied

\* "if a previously applied migration has been modified it returns an error": a
\* call that succeeds leaves a schema that is the one of its binary, up to where
\* that binary knows it.
SuccessMeansMigrated ==
    \A c \in Callers : call[c].step = "ok" =>
        \A v \in DOMAIN Known[ProcessOf(c)] : applied[v] = Known[ProcessOf(c)][v]

\* Every call that has begun ends: nobody waits for ever on the two mutexes or on
\* the lock of SQLite, whoever failed or died before.
CallsEnd == \A c \in Callers : call[c].step = "wait" ~> Rests(c)

\* However callers race, the scripts of a build are applied once, in order, and
\* to the last before any of them goes on.
SchemaSound == AppliedOnce /\ AppliedInOrder /\ SuccessMeansMigrated
=============================================================================
