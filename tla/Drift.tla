-------------------------------- MODULE Drift --------------------------------
(***************************************************************************)
(* The drift job of internal/publish/drift: it walks the completed         *)
(* publications, reads their targets and keeps one row for each pair of    *)
(* them, which `experience drift` and the MCP tool of that name report.    *)
(* Publications, rollbacks and editors go on while a run is under way.     *)
(***************************************************************************)
EXTENDS Integers, FiniteSets, Functions

CONSTANTS
    Releases,     \* publications
    Paths,        \* paths of targets
    PathsOf,      \* publication -> the paths of its targets
    InRoot,       \* the paths whose target lies in the project root itself
    EditorTexts,  \* what an editor may write
    MaxChanges    \* bound on edits

ASSUME DriftAssumption ==
    /\ PathsOf \in [Releases -> SUBSET Paths]
    /\ InRoot \subseteq Paths /\ MaxChanges \in Nat

VARIABLES
    status,    \* publication -> its status
    text,      \* path -> what the published file holds
    backup,    \* publication -> what its files held before it
    past,      \* path -> everything its file has held (history)
    finished,  \* the publications that were ever completed (history)
    rows,      \* table publication_drift_state
    job,       \* the run under way
    changes    \* edits so far

driftVars == <<status, text, backup, past, finished, rows, job, changes>>

Missing == "missing"
Unreadable == "unreadable"
Original == "original"
NoHash == "no hash"

\* A publication writes a text of its own, and a hash stands for its text.
Texts == Releases \cup EditorTexts \cup {Original}
Contents == Texts \cup {Missing, Unreadable}
\* Mutant: a file that cannot be read has a hash.
HashOfAny(c) == c

HashOf(c) == IF c \in {Missing, Unreadable} THEN NoHash ELSE c

\* The job opens the path of a target without its root, from the directory the
\* process runs in: a target below a root is looked for in the wrong place.
Seen(path) == IF path \in InRoot THEN text[path] ELSE Missing

Pairs == {pair \in Releases \X Paths : pair[2] \in PathsOf[pair[1]]}
Idle == [step |-> "idle"]

DriftInit ==
    /\ status = [r \in Releases |-> "none"]
    /\ text = [path \in Paths |-> Original]
    /\ backup = [r \in Releases |-> text]
    /\ past = [path \in Paths |-> {Seen(path)}]
    /\ finished = {}
    /\ rows = {}
    /\ job = Idle
    /\ changes = 0

------------------------------------------------------------------------------
(* The run of the job *)

RowOf(pair) == {row \in rows : row.pair = pair}

\* Mutant: the status of a publication is not looked at.
StartRunOfAll ==
    /\ job.step = "idle"
    /\ job' = [step |-> "next",
               todo |-> {pair \in Pairs : status[pair[1]] # "none"}]
    /\ UNCHANGED <<status, text, backup, past, finished, rows, changes>>

\* One SELECT of all publications, before anything is checked; the status gate
\* looks at what it returned.
StartRun ==
    /\ job.step = "idle"
    /\ job' = [step |-> "next",
               todo |-> {pair \in Pairs : status[pair[1]] = "completed"}]
    /\ UNCHANGED <<status, text, backup, past, finished, rows, changes>>

\* lookupExpectedHash: what the last check of this row saw.
LookupExpected(pair) ==
    /\ job.step = "next"
    /\ pair \in job.todo
    /\ job' = [step |-> "check", todo |-> job.todo \ {pair}, pair |-> pair,
               expected |-> IF RowOf(pair) = {} THEN NoHash
                            ELSE (CHOOSE row \in RowOf(pair) : TRUE).actual]
    /\ UNCHANGED <<status, text, backup, past, finished, rows, changes>>

Outcome(c, expected) ==
    CASE c = Missing -> "target_missing"
      [] c = Unreadable -> "target_unreadable"
      [] OTHER -> IF HashOf(c) = expected THEN "ok" ELSE "drifted"

\* The first check of a text is its baseline.
Recorded(c, expected) ==
    IF expected = NoHash /\ Outcome(c, expected) = "drifted"
    THEN "ok" ELSE Outcome(c, expected)

\* Checker.Check: stat, open and hash.
Check ==
    /\ job.step = "check"
    /\ LET c == Seen(job.pair[2]) IN
       job' = [step |-> "record", todo |-> job.todo,
               row |-> [pair |-> job.pair, source |-> "publish",
                        expected |-> job.expected, actual |-> HashOf(c),
                        status |-> Recorded(c, job.expected)]]
    /\ UNCHANGED <<status, text, backup, past, finished, rows, changes>>

\* One transaction to a row: ON CONFLICT DO UPDATE.
RecordDrift ==
    /\ job.step = "record"
    /\ rows' = (rows \ RowOf(job.row.pair)) \cup {job.row}
    /\ job' = [step |-> "next", todo |-> job.todo]
    /\ UNCHANGED <<status, text, backup, past, finished, changes>>

\* The list is done; or a statement fails, the context is cancelled or the
\* process dies: the rows that are written stay.
EndRun ==
    /\ job.step = "next" /\ job.todo = {}
    /\ job' = Idle
    /\ UNCHANGED <<status, text, backup, past, finished, rows, changes>>

AbortRun ==
    /\ job.step \in {"check", "record"}
    /\ job' = Idle
    /\ UNCHANGED <<status, text, backup, past, finished, rows, changes>>

------------------------------------------------------------------------------
(* Publications and editors *)

Rewrite(new) ==
    /\ text' = new
    /\ past' = [path \in Paths |->
           IF path \in InRoot THEN past[path] \cup {new[path]} ELSE past[path]]

\* The files of a publication are written before it is completed; the lock lets
\* one be under way at a time.
StartRelease(r) ==
    /\ status[r] = "none"
    /\ \A other \in Releases : status[other] # "in_progress"
    /\ status' = [status EXCEPT ![r] = "in_progress"]
    /\ backup' = [backup EXCEPT ![r] = text]
    /\ Rewrite([path \in Paths |-> IF path \in PathsOf[r] THEN r ELSE text[path]])
    /\ UNCHANGED <<finished, rows, job, changes>>

FinishRelease(r) ==
    /\ status[r] = "in_progress"
    /\ status' = [status EXCEPT ![r] = "completed"]
    /\ finished' = finished \cup {r}
    /\ UNCHANGED <<text, backup, past, rows, job, changes>>

\* A compensation or a rollback: it restores what still holds the text of r.
UndoRelease(r) ==
    /\ status[r] \in {"in_progress", "completed"}
    /\ status' = [status EXCEPT ![r] = "rolled_back"]
    /\ Rewrite([path \in Paths |->
           IF path \in PathsOf[r] /\ text[path] = r THEN backup[r][path] ELSE text[path]])
    /\ UNCHANGED <<backup, finished, rows, job, changes>>

Change(path, c) ==
    /\ changes < MaxChanges
    /\ c # text[path]
    /\ Rewrite([text EXCEPT ![path] = c])
    /\ changes' = changes + 1
    /\ UNCHANGED <<status, backup, finished, rows, job>>

DriftNext ==
    \/ StartRun
    \/ \E pair \in Pairs : LookupExpected(pair)
    \/ Check
    \/ RecordDrift
    \/ EndRun
    \/ AbortRun
    \/ \E r \in Releases : StartRelease(r) \/ FinishRelease(r) \/ UndoRelease(r)
    \/ \E path \in Paths, c \in EditorTexts \cup {Missing, Unreadable} : Change(path, c)

DriftSpec == DriftInit /\ [][DriftNext]_driftVars

------------------------------------------------------------------------------
(* The report *)

Sources == {"opencode", "claudecode", "codex"}

\* ListDrift under the filter of the command: a source, or all of them.
ListDrift(filter) == {row \in rows : filter = "all" \/ row.source = filter}

\* aggregateBySource: the three sources, and any other one under its own name.
Buckets(listed) == Sources \cup {row.source : row \in listed}
CountOf(listed, source, st) ==
    Cardinality({row \in listed : row.source = source /\ row.status = st})
Statuses == {"ok", "drifted", "target_missing", "target_unreadable"}
Summary(listed) ==
    [source \in Buckets(listed) |-> [st \in Statuses |-> CountOf(listed, source, st)]]

Total(summary) ==
    SumFunction([source \in DOMAIN summary |-> SumFunction(summary[source])])

------------------------------------------------------------------------------
(* Properties *)

Row == [pair : Pairs, source : {"publish"}, expected : Texts \cup {NoHash},
        actual : Texts \cup {NoHash}, status : Statuses]

DriftTypeOK ==
    /\ status \in [Releases -> {"none", "in_progress", "completed", "rolled_back"}]
    /\ text \in [Paths -> Contents]
    /\ backup \in [Releases -> [Paths -> Contents]]
    /\ past \in [Paths -> SUBSET Contents]
    /\ finished \subseteq Releases
    /\ rows \subseteq Row
    /\ \/ job = Idle
       \/ job \in [step : {"next"}, todo : SUBSET Pairs]
       \/ job \in [step : {"check"}, todo : SUBSET Pairs, pair : Pairs,
                   expected : Texts \cup {NoHash}]
       \/ job \in [step : {"record"}, todo : SUBSET Pairs, row : Row]
    /\ changes \in 0..MaxChanges

\* A row that says "drifted" tells of a file that held two different texts, both
\* seen by checks; one that says "ok" of a file that was there with the text the
\* check before had seen, if that had seen any. However publications, edits and
\* runs fall, the job raises no alarm of its own making.
RowsTellThePast ==
    \A row \in rows :
        LET held == past[row.pair[2]] IN
        /\ row.expected # NoHash => row.expected \in held
        /\ row.status = "drifted" =>
              row.expected # NoHash /\ row.actual \in held \ {row.expected}
        /\ row.status = "ok" =>
              row.actual \in held /\ row.expected \in {NoHash, row.actual}
        /\ row.status = "target_missing" => Missing \in held
        /\ row.status = "target_unreadable" => Unreadable \in held

\* A file that two checks in a row could read and that had changed between them
\* is reported by the second one.
ChangesAreReported ==
    [][\A old \in rows, new \in rows' :
          /\ old.pair = new.pair /\ old # new
          /\ old.actual # NoHash /\ new.actual # NoHash /\ old.actual # new.actual
          => new.status = "drifted"]_driftVars

\* A publication that was never completed has no row, although its files are
\* written before it is completed and the run works on an old list.
OnlyFinishedHaveRows == \A row \in rows : row.pair[1] \in finished

\* The report of the command accounts for every row it lists, whatever its
\* source: the total is the sum of the counts.
ReportAddsUp ==
    \A listed \in {ListDrift(filter) : filter \in Sources \cup {"all"}} :
        Total(Summary(listed)) = Cardinality(listed)

\* checker.go: the Checker "compares it to the expected hash captured at publish
\* time", so that of a publication that stands ok would mean its own text.
OkMeansPublished ==
    \A row \in rows :
        row.status = "ok" /\ status[row.pair[1]] = "completed" => row.actual = row.pair[1]

\* What the drift job stores and reports is true of what it saw. (A report of no
\* row adds up to nothing.)
DriftHonest ==
    /\ [](RowsTellThePast /\ OnlyFinishedHaveRows /\ (rows # {} => ReportAddsUp))
    /\ ChangesAreReported
=============================================================================
