----------------------------- MODULE Ingestion -----------------------------
(***************************************************************************)
(* Ingestion of experience envelopes (internal/experience/service.go over  *)
(* internal/storage/repo_experience.go) for one project, one source and    *)
(* one source instance: session rows, turn rows, the audit trail and the   *)
(* checkpoint of the source.                                               *)
(*                                                                         *)
(* One invocation of Ingest is one data transaction, which stores the      *)
(* envelope and advances the checkpoint together, and, when that one fails,*)
(* a second transaction that records the failure on the checkpoint row.    *)
(* Several invocations overlap; SQLite serialises their transactions.      *)
(* Everything Ingest does before its transaction (validation, size limits, *)
(* redaction) changes no state: an envelope here is one that passed it, and*)
(* its text is the redacted text.                                          *)
(***************************************************************************)
EXTENDS Naturals, Sequences

CONSTANTS
    Procs,          \* invocations of Ingest that may overlap
    Sessions,       \* external session ids
    TurnIds,        \* external turn ids
    Revisions,      \* source revisions of a turn
    Texts,          \* redacted contents of a turn
    Checkpoints,    \* cursor JSON documents, one digest each
    Envelopes,      \* the inputs a caller may deliver, in any order, repeatedly
    NoCheckpoint,   \* an envelope delivered without a cursor (IngestEnvelope)
    NoRow,          \* a row that does not exist
    MaxAttempts,    \* bound: invocations
    Budget          \* bound: how many failures, unknown commits and crashes

Kinds == {"failure", "unknown", "crash"}

\* ExperienceEnvelope and IngestInput: identity, revision, content, the time
\* of the session and, when there is a checkpoint, its source order.
Envelope == [session : Sessions, turn : TurnIds, rev : Revisions, text : Texts,
             at : Nat \ {0}, order : Nat, checkpoint : Checkpoints \cup {NoCheckpoint}]

ASSUME EnvelopesAssumption == Envelopes \subseteq Envelope /\ Envelopes # {}
ASSUME BoundAssumption == MaxAttempts \in Nat /\ Budget \in [Kinds -> Nat]

VARIABLES
    session,        \* experience_sessions: updated_at, 0 without a row
    turn,           \* experience_turns: fingerprint of the current revision
    trail,          \* audit_events of a turn: its fingerprints, oldest first
    cursor,         \* the row of ingestion_cursors
    cursorAudits,   \* how many audit_events tell of the cursor
    proc,           \* the invocations
    attempts,       \* how many were started
    used            \* what has been spent of Budget

vars == <<session, turn, trail, cursor, cursorAudits, proc, attempts, used>>

-----------------------------------------------------------------------------
(* Values *)

Turns == Sessions \X TurnIds
Fingerprints == [rev : Revisions, text : Texts]

\* "ok" is last_successful_at IS NOT NULL, "failed" is last_error_code <> ''.
Cursor == [order : Nat, checkpoint : Checkpoints, ok : BOOLEAN, failed : BOOLEAN,
           revision : Nat]

ASSUME RowsAssumption ==
    NoCheckpoint \notin Checkpoints /\ NoRow \notin Fingerprints \cup Cursor

Pc == {"idle", "data", "failed"}

Key(e) == <<e.session, e.turn>>

\* buildTurn: the fingerprint covers the content and the source revision, and
\* leaves the volatile times out.
Fingerprint(e) == [rev |-> e.rev, text |-> e.text]

HasCheckpoint(e) == e.checkpoint # NoCheckpoint

Init ==
    /\ session = [s \in Sessions |-> 0]
    /\ turn = [t \in Turns |-> NoRow]
    /\ trail = [t \in Turns |-> <<>>]
    /\ cursor = NoRow
    /\ cursorAudits = 0
    /\ proc = [self \in Procs |-> [pc |-> "idle", env |-> CHOOSE e \in Envelopes : TRUE]]
    /\ attempts = 0
    /\ used = [k \in Kinds |-> 0]

At(self, pc) == proc[self].pc = pc
Env(self) == proc[self].env
Goto(self, pc) == proc' = [proc EXCEPT ![self].pc = pc]
Return(self) == Goto(self, "idle")

Spend(kind) ==
    /\ used[kind] < Budget[kind]
    /\ used' = [used EXCEPT ![kind] = @ + 1]

-----------------------------------------------------------------------------
(* The data transaction *)

\* ingestDataTx: a turn changes its content only with a new source revision.
TurnConflict(e) ==
    /\ turn[Key(e)] # NoRow
    /\ turn[Key(e)].rev = e.rev
    /\ turn[Key(e)] # Fingerprint(e)

\* Mutant: the order of the source is not compared.
OnlySameOrderConflicts(e) ==
    /\ HasCheckpoint(e) /\ cursor # NoRow
    /\ e.order = cursor.order /\ e.checkpoint # cursor.checkpoint

\* advanceCursorTx: an order behind the successful checkpoint is stale, and
\* one order names one checkpoint, be it successful or not.
CursorConflict(e) ==
    /\ HasCheckpoint(e) /\ cursor # NoRow
    /\ \/ cursor.ok /\ e.order < cursor.order
       \/ e.order = cursor.order /\ e.checkpoint # cursor.checkpoint

\* A repeated checkpoint that succeeded before changes nothing.
CursorCurrent(e) ==
    /\ cursor # NoRow
    /\ cursor.ok /\ ~cursor.failed /\ cursor.order = e.order

NextRevision == IF cursor = NoRow THEN 1 ELSE cursor.revision + 1

\* Mutant: every delivery is written and audited as a revision.
StoreTurnAlways(e) ==
    /\ turn' = [turn EXCEPT ![Key(e)] = Fingerprint(e)]
    /\ trail' = [trail EXCEPT ![Key(e)] = Append(@, Fingerprint(e))]

\* A turn is written and audited only when its fingerprint differs.
StoreTurn(e) ==
    /\ turn' = [turn EXCEPT ![Key(e)] = Fingerprint(e)]
    /\ trail' = IF turn[Key(e)] = Fingerprint(e) THEN trail
                ELSE [trail EXCEPT ![Key(e)] = Append(@, Fingerprint(e))]

\* Mutant: the session takes over whatever arrives last.
RefreshAlways(e) == session' = [session EXCEPT ![e.session] = e.at]

\* refreshSession: only a strictly newer envelope refreshes the session.
RefreshSession(e) ==
    session' = [session EXCEPT ![e.session] = IF e.at > @ THEN e.at ELSE @]

\* The checkpoint moves in the transaction of the data it stands for.  (The
\* predicates UpdateIngestionCursor repeats in SQL were checked in the same
\* transaction and cannot fail here.)
AdvanceCursor(e) ==
    IF ~HasCheckpoint(e) \/ CursorCurrent(e) THEN UNCHANGED <<cursor, cursorAudits>>
    ELSE /\ cursor' = [order |-> e.order, checkpoint |-> e.checkpoint, ok |-> TRUE,
                       failed |-> FALSE, revision |-> NextRevision]
         /\ cursorAudits' = cursorAudits + 1

Store(e) == RefreshSession(e) /\ StoreTurn(e) /\ AdvanceCursor(e)
Unstored == UNCHANGED <<session, turn, trail, cursor, cursorAudits>>

Accepted(e) == ~TurnConflict(e) /\ ~CursorConflict(e)

\* An exact repetition writes nothing, and its transaction is rolled back.
Idempotent(e) == /\ turn[Key(e)] = Fingerprint(e) /\ e.at <= session[e.session]
                 /\ ~HasCheckpoint(e) \/ CursorCurrent(e)

-----------------------------------------------------------------------------
(* The handler *)

Begin(self, e) ==
    /\ At(self, "idle") /\ attempts < MaxAttempts
    /\ proc' = [proc EXCEPT ![self] = [pc |-> "data", env |-> e]]
    /\ attempts' = attempts + 1
    /\ Unstored /\ UNCHANGED used

Commit(self) ==
    /\ At(self, "data") /\ Accepted(Env(self))
    /\ Store(Env(self))
    /\ Return(self)
    /\ UNCHANGED <<attempts, used>>

\* The commit reports an error: the transaction is durable or it is not, and
\* no failure is recorded on the checkpoint (only an audit event of its own).
CommitUnknown(self) ==
    /\ At(self, "data") /\ Accepted(Env(self)) /\ ~Idempotent(Env(self))
    /\ Spend("unknown")
    /\ Store(Env(self)) \/ Unstored
    /\ Return(self)
    /\ UNCHANGED attempts

\* A conflict rolls everything back; the failure is still to be recorded.
Refuse(self) ==
    /\ At(self, "data") /\ ~Accepted(Env(self))
    /\ Goto(self, "failed")
    /\ Unstored /\ UNCHANGED <<attempts, used>>

\* Anything else that fails: before the project was read (then nothing is
\* recorded), or later, down to a write that fails or a database that is busy.
Fail(self) ==
    /\ At(self, "data")
    /\ Spend("failure")
    /\ Goto(self, "failed") \/ Return(self)
    /\ Unstored /\ UNCHANGED attempts

\* RecordIngestionCursorFailure refuses a failure older than the row, or one
\* that names another checkpoint at its order.
StaleFailure(e) ==
    /\ cursor # NoRow
    /\ \/ e.order < cursor.order
       \/ e.order = cursor.order /\ e.checkpoint # cursor.checkpoint

\* The first failure creates an unsucceeded row; a later one keeps the
\* checkpoint of a successful row and replaces that of an unsucceeded one.
MarkFailure(e) ==
    /\ cursor' = IF cursor = NoRow
                 THEN [order |-> e.order, checkpoint |-> e.checkpoint, ok |-> FALSE,
                       failed |-> TRUE, revision |-> 1]
                 ELSE IF cursor.ok
                 THEN [cursor EXCEPT !.failed = TRUE, !.revision = @ + 1]
                 ELSE [cursor EXCEPT !.order = e.order, !.checkpoint = e.checkpoint,
                                     !.failed = TRUE, !.revision = @ + 1]
    /\ cursorAudits' = cursorAudits + 1

\* Mutant: an envelope without a cursor leaves a cursor row all the same.
RecordAnyFailure(self) ==
    LET e == Env(self) IN
    /\ At(self, "failed")
    /\ IF ~StaleFailure(e) THEN MarkFailure(e) ELSE UNCHANGED <<cursor, cursorAudits>>
    /\ Return(self)
    /\ UNCHANGED <<session, turn, trail, attempts, used>>

\* recordFailure: a transaction of its own, after the rollback.
RecordFailure(self) ==
    LET e == Env(self) IN
    /\ At(self, "failed")
    /\ IF HasCheckpoint(e) /\ ~StaleFailure(e) THEN MarkFailure(e)
       ELSE UNCHANGED <<cursor, cursorAudits>>
    /\ Return(self)
    /\ UNCHANGED <<session, turn, trail, attempts, used>>

\* The failure could not be recorded either; the caller gets both errors.
FailureLost(self) ==
    /\ At(self, "failed")
    /\ Spend("failure")
    /\ Return(self)
    /\ Unstored /\ UNCHANGED attempts

\* The process dies; an open transaction is rolled back by SQLite.
Crash(self) ==
    /\ ~At(self, "idle")
    /\ Spend("crash")
    /\ Return(self)
    /\ Unstored /\ UNCHANGED attempts

Next == \E self \in Procs :
    \/ \E e \in Envelopes : Begin(self, e)
    \/ Commit(self) \/ CommitUnknown(self)
    \/ Refuse(self) \/ Fail(self)
    \/ RecordFailure(self) \/ FailureLost(self)
    \/ Crash(self)

Spec == Init /\ [][Next]_vars

-----------------------------------------------------------------------------
(* Properties *)

\* Type invariant: the rows and the invocations have the shape of their tables.
TypeOK ==
    /\ session \in [Sessions -> Nat]
    /\ turn \in [Turns -> Fingerprints \cup {NoRow}]
    /\ trail \in [Turns -> Seq(Fingerprints)]
    /\ cursor \in Cursor \cup {NoRow}
    /\ cursorAudits \in Nat
    /\ proc \in [Procs -> [pc : Pc, env : Envelopes]]
    /\ attempts \in Nat
    /\ used \in [Kinds -> Nat]

\* The checkpoint is never ahead of a commit: the successful checkpoint is
\* that of an envelope whose turn was stored in the revision it carried, and
\* this is on the audit trail, whatever failed, crashed or was retried.
Delivered(e) == \E i \in 1..Len(trail[Key(e)]) : trail[Key(e)][i] = Fingerprint(e)

CheckpointCovered ==
    cursor # NoRow /\ cursor.ok =>
        \E e \in Envelopes : /\ e.order = cursor.order
                             /\ e.checkpoint = cursor.checkpoint
                             /\ Delivered(e)

\* The checkpoint never goes back: a successful one is only replaced by a
\* successful one of a later order, also when a late failure, or the retry of
\* an older envelope, commits after it; and an unsucceeded row only gives way
\* to a failure of a later order.
CheckpointMonotone ==
    [][cursor # NoRow =>
         /\ cursor' # NoRow
         /\ cursor.ok => cursor'.ok
         /\ cursor.ok = cursor'.ok =>
               \/ cursor'.order > cursor.order
               \/ cursor'.order = cursor.order /\ cursor'.checkpoint = cursor.checkpoint]_vars

\* What a reader of the checkpoint may rely on: it stands for what was stored,
\* and stays behind nothing that it stood for before.
CheckpointSound == []CheckpointCovered /\ CheckpointMonotone

\* Each revision of the cursor row is told by one audit event: the row and
\* its event are in one transaction on every path, failures included.
RevisionsAudited == cursorAudits = IF cursor = NoRow THEN 0 ELSE cursor.revision

\* The audit trail of a turn ends with its current revision and never tells
\* of the same revision twice in a row: the retry of an envelope whose commit
\* was unknown, or was repeated by another invocation, adds nothing.
TurnAudited == \A t \in Turns :
    /\ turn[t] = IF trail[t] = <<>> THEN NoRow ELSE trail[t][Len(trail[t])]
    /\ \A i \in 2..Len(trail[t]) : trail[t][i] # trail[t][i - 1]

\* Both trails, of the cursor and of the turns, tell what their rows went through.
Audited == RevisionsAudited /\ TurnAudited

\* A session row is never behind any turn that was ever stored for it: a late
\* older envelope may revise its turn, but it does not take the session back.
SessionCoversTurns ==
    \A t \in Turns : \A i \in 1..Len(trail[t]) :
        \E e \in Envelopes : /\ Key(e) = t /\ Fingerprint(e) = trail[t][i]
                             /\ e.at <= session[e.session]

=============================================================================
