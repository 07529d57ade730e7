-------------------------- MODULE IngestionProofs --------------------------
(***************************************************************************)
(* What the checkpoint of a source, the audit trail of a turn and the time *)
(* of a session keep, for every set of envelopes and any number of         *)
(* overlapping invocations.                                                *)
(*                                                                         *)
(* Each invariant is inductive together with the type invariant, except    *)
(* that CheckpointCovered needs TurnAudited: when an envelope is delivered *)
(* whose content the turn already has, nothing is appended, and only the   *)
(* trail's last entry tells that it was delivered before.                  *)
(***************************************************************************)
EXTENDS Ingestion, TLAPS

USE DEF Kinds, Pc

(***************************************************************************)
(* The type invariant.                                                     *)
(***************************************************************************)

\* A stored envelope leaves rows of the right shape (Store).
LEMMA StoreType ==
  ASSUME TypeOK, NEW e \in Envelopes, Store(e)
  PROVE  /\ session' \in [Sessions -> Nat]
         /\ turn' \in [Turns -> Fingerprints \cup {NoRow}]
         /\ trail' \in [Turns -> Seq(Fingerprints)]
         /\ cursor' \in Cursor \cup {NoRow}
         /\ cursorAudits' \in Nat
<1>1. e \in Envelope  BY EnvelopesAssumption
<1>2. Key(e) \in Turns /\ Fingerprint(e) \in Fingerprints
  BY <1>1 DEF Envelope, Key, Turns, Fingerprint, Fingerprints
<1>3. session' \in [Sessions -> Nat]
  BY <1>1 DEF TypeOK, Store, RefreshSession, Envelope
<1>4. turn' \in [Turns -> Fingerprints \cup {NoRow}]
  BY <1>2 DEF TypeOK, Store, StoreTurn
<1>5. Append(trail[Key(e)], Fingerprint(e)) \in Seq(Fingerprints)
  BY <1>2 DEF TypeOK
<1>6. trail' \in [Turns -> Seq(Fingerprints)]
  BY <1>2, <1>5 DEF TypeOK, Store, StoreTurn
<1>7. NextRevision \in Nat
  BY DEF NextRevision, TypeOK, Cursor
<1>8. /\ cursor' \in Cursor \cup {NoRow}
      /\ cursorAudits' \in Nat
  <2>1. CASE ~HasCheckpoint(e) \/ CursorCurrent(e)
    BY <2>1 DEF TypeOK, Store, AdvanceCursor
  <2>2. CASE HasCheckpoint(e) /\ ~CursorCurrent(e)
    <3>1. cursor' = [order |-> e.order, checkpoint |-> e.checkpoint, ok |-> TRUE,
                     failed |-> FALSE, revision |-> NextRevision]
      BY <2>2 DEF Store, AdvanceCursor
    <3>2. e.order \in Nat /\ e.checkpoint \in Checkpoints
      BY <2>2, <1>1 DEF HasCheckpoint, Envelope
    <3>3. cursor' \in Cursor
      BY <3>1, <3>2, <1>7 DEF Cursor
    <3>4. cursorAudits' \in Nat
      BY <2>2 DEF Store, AdvanceCursor, TypeOK
    <3>5. QED  BY <3>3, <3>4
  <2>3. QED  BY <2>1, <2>2
<1>9. QED  BY <1>3, <1>4, <1>6, <1>8

\* A recorded failure leaves a cursor row of the right shape (MarkFailure).
LEMMA FailureType ==
  ASSUME TypeOK, NEW e \in Envelopes, HasCheckpoint(e), MarkFailure(e)
  PROVE  cursor' \in Cursor /\ cursorAudits' \in Nat
<1>1. e.order \in Nat /\ e.checkpoint \in Checkpoints
  BY EnvelopesAssumption DEF HasCheckpoint, Envelope
<1>2. CASE cursor = NoRow
  BY <1>1, <1>2 DEF MarkFailure, TypeOK, Cursor
<1>3. CASE cursor # NoRow
  <2>1. cursor \in Cursor
    BY <1>3 DEF TypeOK
  <2>2. CASE cursor.ok
    <3>1. cursor' = [cursor EXCEPT !.failed = TRUE, !.revision = @ + 1]
      BY <1>3, <2>2 DEF MarkFailure
    <3>2. cursor' = [order |-> cursor.order, checkpoint |-> cursor.checkpoint,
                     ok |-> cursor.ok, failed |-> TRUE, revision |-> cursor.revision + 1]
      BY <2>1, <3>1 DEF Cursor
    <3>3. cursor' \in Cursor
      BY <2>1, <3>2 DEF Cursor
    <3>4. QED  BY <3>3 DEF MarkFailure, TypeOK
  <2>3. CASE ~cursor.ok
    <3>1. cursor' = [cursor EXCEPT !.order = e.order, !.checkpoint = e.checkpoint,
                                   !.failed = TRUE, !.revision = @ + 1]
      BY <1>3, <2>3 DEF MarkFailure
    <3>2. cursor' = [order |-> e.order, checkpoint |-> e.checkpoint,
                     ok |-> cursor.ok, failed |-> TRUE, revision |-> cursor.revision + 1]
      BY <2>1, <3>1 DEF Cursor
    <3>3. cursor' \in Cursor
      BY <1>1, <2>1, <3>2 DEF Cursor
    <3>4. QED  BY <3>3 DEF MarkFailure, TypeOK
  <2>4. QED  BY <2>2, <2>3
<1>4. QED  BY <1>2, <1>3

\* Going back to the caller, or to another step, keeps the invocation's shape.
LEMMA GotoType ==
  ASSUME TypeOK, NEW self \in Procs, NEW pc \in Pc, Goto(self, pc)
  PROVE  proc' \in [Procs -> [pc : Pc, env : Envelopes]]
BY DEF TypeOK, Goto

\* Only Budget bounds what is spent, and it is counted.
LEMMA SpendType ==
  ASSUME TypeOK, NEW kind \in Kinds, Spend(kind)
  PROVE  used' \in [Kinds -> Nat]
BY DEF TypeOK, Spend

\* Every step keeps the shape of the rows.
LEMMA TypeStep ==
  ASSUME TypeOK, [Next]_vars
  PROVE  TypeOK'
<1>1. CASE UNCHANGED vars
  BY <1>1 DEF TypeOK, vars
<1>2. ASSUME NEW self \in Procs, NEW e \in Envelopes, Begin(self, e)  PROVE TypeOK'
  BY <1>2 DEF Begin, TypeOK, Unstored
<1>3. ASSUME NEW self \in Procs, Commit(self)  PROVE TypeOK'
  <2>1. Env(self) \in Envelopes /\ Store(Env(self)) /\ Goto(self, "idle")
    BY <1>3 DEF Commit, Env, TypeOK, Return
  <2>2. proc' \in [Procs -> [pc : Pc, env : Envelopes]]
    BY <2>1, GotoType
  <2>3. QED  BY <2>1, <2>2, StoreType, <1>3 DEF TypeOK, Commit
<1>4. ASSUME NEW self \in Procs, CommitUnknown(self)  PROVE TypeOK'
  <2>1. Env(self) \in Envelopes /\ Goto(self, "idle") /\ Spend("unknown")
    BY <1>4 DEF CommitUnknown, Env, TypeOK, Return
  <2>2. proc' \in [Procs -> [pc : Pc, env : Envelopes]]
    BY <2>1, GotoType
  <2>3. used' \in [Kinds -> Nat]
    BY <2>1, SpendType
  <2>4. CASE Store(Env(self))
    BY <2>1, <2>2, <2>3, <2>4, StoreType, <1>4 DEF TypeOK, CommitUnknown
  <2>5. CASE Unstored
    BY <2>2, <2>3, <2>5, <1>4 DEF TypeOK, CommitUnknown, Unstored
  <2>6. QED  BY <2>4, <2>5, <1>4 DEF CommitUnknown
<1>5. ASSUME NEW self \in Procs, Refuse(self)  PROVE TypeOK'
  <2>1. proc' \in [Procs -> [pc : Pc, env : Envelopes]]
    BY <1>5, GotoType DEF Refuse
  <2>2. QED  BY <1>5, <2>1 DEF Refuse, TypeOK, Unstored
<1>6. ASSUME NEW self \in Procs, Fail(self)  PROVE TypeOK'
  <2>1. proc' \in [Procs -> [pc : Pc, env : Envelopes]]
    BY <1>6, GotoType DEF Fail, Return
  <2>2. used' \in [Kinds -> Nat]
    BY <1>6, SpendType DEF Fail
  <2>3. QED  BY <1>6, <2>1, <2>2 DEF Fail, TypeOK, Unstored
<1>7. ASSUME NEW self \in Procs, RecordFailure(self)  PROVE TypeOK'
  <2>1. Env(self) \in Envelopes
    BY DEF Env, TypeOK
  <2>2. proc' \in [Procs -> [pc : Pc, env : Envelopes]]
    BY <1>7, GotoType DEF RecordFailure, Return
  <2>3. cursor' \in Cursor \cup {NoRow} /\ cursorAudits' \in Nat
    <3>1. CASE HasCheckpoint(Env(self)) /\ ~StaleFailure(Env(self))
      BY <3>1, <2>1, <1>7, FailureType DEF RecordFailure
    <3>2. CASE ~(HasCheckpoint(Env(self)) /\ ~StaleFailure(Env(self)))
      BY <3>2, <1>7 DEF RecordFailure, TypeOK
    <3>3. QED  BY <3>1, <3>2
  <2>4. QED  BY <1>7, <2>2, <2>3 DEF RecordFailure, TypeOK
<1>8. ASSUME NEW self \in Procs, FailureLost(self)  PROVE TypeOK'
  <2>1. proc' \in [Procs -> [pc : Pc, env : Envelopes]]
    BY <1>8, GotoType DEF FailureLost, Return
  <2>2. used' \in [Kinds -> Nat]
    BY <1>8, SpendType DEF FailureLost
  <2>3. QED  BY <1>8, <2>1, <2>2 DEF FailureLost, TypeOK, Unstored
<1>9. ASSUME NEW self \in Procs, Crash(self)  PROVE TypeOK'
  <2>1. proc' \in [Procs -> [pc : Pc, env : Envelopes]]
    BY <1>9, GotoType DEF Crash, Return
  <2>2. used' \in [Kinds -> Nat]
    BY <1>9, SpendType DEF Crash
  <2>3. QED  BY <1>9, <2>1, <2>2 DEF Crash, TypeOK, Unstored
<1>10. QED
  BY <1>1, <1>2, <1>3, <1>4, <1>5, <1>6, <1>7, <1>8, <1>9 DEF Next

\* The tables start empty.
LEMMA TypeInit ==
  ASSUME Init
  PROVE  TypeOK
<1>1. (CHOOSE e \in Envelopes : TRUE) \in Envelopes
  BY EnvelopesAssumption
<1>2. QED  BY <1>1 DEF Init, TypeOK

\* Every variable of the specification keeps its shape (TypeOK).
THEOREM TypeCorrect == Spec => []TypeOK
<1>1. Init => TypeOK  BY TypeInit
<1>2. TypeOK /\ [Next]_vars => TypeOK'  BY TypeStep
<1>3. QED  BY <1>1, <1>2, PTL DEF Spec

(***************************************************************************)
(* What a step does to the tables: nothing, an accepted envelope stored as *)
(* a whole, or a failure marked on the cursor row alone.                   *)
(***************************************************************************)

Stored(e) == Accepted(e) /\ Store(e)

FailureMarked(e) == /\ HasCheckpoint(e) /\ ~StaleFailure(e) /\ MarkFailure(e)
                    /\ UNCHANGED <<session, turn, trail>>

\* Each step does one of the three.
LEMMA StepEffects ==
  ASSUME TypeOK, [Next]_vars
  PROVE  \/ Unstored
         \/ \E e \in Envelopes : Stored(e)
         \/ \E e \in Envelopes : FailureMarked(e)
<1>1. CASE UNCHANGED vars
  BY <1>1 DEF vars, Unstored
<1>2. ASSUME NEW self \in Procs, NEW e \in Envelopes, Begin(self, e)  PROVE Unstored
  BY <1>2 DEF Begin
<1>3. \A self \in Procs : Env(self) \in Envelopes
  BY DEF TypeOK, Env
<1>4. ASSUME NEW self \in Procs, Commit(self)
      PROVE  \E e \in Envelopes : Stored(e)
  BY <1>3, <1>4 DEF Commit, Stored
<1>5. ASSUME NEW self \in Procs, CommitUnknown(self)
      PROVE  Unstored \/ \E e \in Envelopes : Stored(e)
  BY <1>3, <1>5 DEF CommitUnknown, Stored
<1>6. ASSUME NEW self \in Procs, RecordFailure(self)
      PROVE  Unstored \/ \E e \in Envelopes : FailureMarked(e)
  BY <1>3, <1>6 DEF RecordFailure, FailureMarked, Unstored
<1>7. ASSUME NEW self \in Procs,
             Refuse(self) \/ Fail(self) \/ FailureLost(self) \/ Crash(self)
      PROVE  Unstored
  BY <1>7 DEF Refuse, Fail, FailureLost, Crash
<1>8. QED
  BY <1>1, <1>2, <1>4, <1>5, <1>6, <1>7 DEF Next

(***************************************************************************)
(* The cursor row: audited, and never moved backwards.                     *)
(***************************************************************************)

\* One audit event for each revision of the row (RevisionsAudited).
LEMMA RevisionsAuditedStep ==
  ASSUME TypeOK, RevisionsAudited, [Next]_vars
  PROVE  RevisionsAudited'
<1>1. TypeOK'  BY TypeStep
<1>2. CASE Unstored
  BY <1>2 DEF Unstored, RevisionsAudited
<1>3. ASSUME NEW e \in Envelopes, Stored(e)  PROVE RevisionsAudited'
  <2>1. CASE UNCHANGED <<cursor, cursorAudits>>
    BY <2>1 DEF RevisionsAudited
  <2>2. CASE ~UNCHANGED <<cursor, cursorAudits>>
    <3>1. /\ cursor' = [order |-> e.order, checkpoint |-> e.checkpoint, ok |-> TRUE,
                        failed |-> FALSE, revision |-> NextRevision]
          /\ cursorAudits' = cursorAudits + 1
          /\ HasCheckpoint(e)
      BY <1>3, <2>2 DEF Stored, Store, AdvanceCursor
    <3>2. cursor' # NoRow /\ cursor'.revision = NextRevision
      <4>1. e.order \in Nat /\ e.checkpoint \in Checkpoints
        BY <3>1, EnvelopesAssumption DEF HasCheckpoint, Envelope
      <4>2. NextRevision \in Nat  BY DEF NextRevision, TypeOK, Cursor
      <4>3. cursor' \in Cursor  BY <3>1, <4>1, <4>2 DEF Cursor
      <4>4. QED  BY <3>1, <4>3, RowsAssumption
    <3>3. NextRevision = cursorAudits + 1
      BY DEF NextRevision, RevisionsAudited, TypeOK, Cursor
    <3>4. QED  BY <3>1, <3>2, <3>3 DEF RevisionsAudited
  <2>3. QED  BY <2>1, <2>2
<1>4. ASSUME NEW e \in Envelopes, FailureMarked(e)  PROVE RevisionsAudited'
  <2>1. cursor' \in Cursor
    BY <1>4, FailureType DEF FailureMarked
  <2>2. cursor' # NoRow
    BY <2>1, RowsAssumption
  <2>3. cursorAudits' = cursorAudits + 1
    BY <1>4 DEF FailureMarked, MarkFailure
  <2>4. CASE cursor = NoRow
    <3>1. cursor'.revision = 1
      BY <1>4, <2>4 DEF FailureMarked, MarkFailure
    <3>2. cursorAudits = 0
      BY <2>4 DEF RevisionsAudited
    <3>3. QED  BY <2>2, <2>3, <3>1, <3>2 DEF RevisionsAudited
  <2>5. CASE cursor # NoRow
    <3>1. cursor \in Cursor
      BY <2>5 DEF TypeOK
    <3>2. cursor'.revision = cursor.revision + 1
      BY <1>4, <2>5, <3>1 DEF FailureMarked, MarkFailure, Cursor
    <3>3. QED  BY <2>2, <2>3, <2>5, <3>2 DEF RevisionsAudited
  <2>6. QED  BY <2>4, <2>5
<1>5. QED  BY <1>2, <1>3, <1>4, StepEffects

\* Every write of the cursor row is told by exactly one audit event, whatever
\* mixture of deliveries, failures and crashes led to it (RevisionsAudited).
THEOREM RevisionsAuditedCorrect == Spec => []RevisionsAudited
<1>1. Init => RevisionsAudited
  BY DEF Init, RevisionsAudited
<1>2. TypeOK /\ RevisionsAudited /\ [Next]_vars => RevisionsAudited'
  BY RevisionsAuditedStep
<1>3. QED  BY <1>1, <1>2, TypeCorrect, PTL DEF Spec

\* What CheckpointMonotone asks of one step.
Forward ==
  cursor # NoRow =>
    /\ cursor' # NoRow
    /\ cursor.ok => cursor'.ok
    /\ cursor.ok = cursor'.ok =>
         \/ cursor'.order > cursor.order
         \/ cursor'.order = cursor.order /\ cursor'.checkpoint = cursor.checkpoint

\* No step takes the checkpoint backwards (CheckpointMonotone).
LEMMA ForwardStep ==
  ASSUME TypeOK, [Next]_vars
  PROVE  Forward
<1> SUFFICES ASSUME cursor # NoRow  PROVE Forward
  BY DEF Forward
<1>1. cursor \in Cursor /\ cursor.order \in Nat /\ cursor.ok \in BOOLEAN
  BY DEF TypeOK, Cursor
<1>2. CASE cursor' = cursor
  BY <1>2 DEF Forward
<1>3. ASSUME NEW e \in Envelopes, Stored(e), cursor' # cursor  PROVE Forward
  <2>1. /\ cursor' = [order |-> e.order, checkpoint |-> e.checkpoint, ok |-> TRUE,
                      failed |-> FALSE, revision |-> NextRevision]
        /\ HasCheckpoint(e)
    BY <1>3 DEF Stored, Store, AdvanceCursor
  <2>2. e.order \in Nat /\ e.checkpoint \in Checkpoints
    BY <2>1, EnvelopesAssumption DEF HasCheckpoint, Envelope
  <2>3. cursor' # NoRow
    <3>1. NextRevision \in Nat  BY DEF NextRevision, TypeOK, Cursor
    <3>2. cursor' \in Cursor  BY <2>1, <2>2, <3>1 DEF Cursor
    <3>3. QED  BY <3>2, RowsAssumption
  <2>4. /\ cursor.ok => e.order >= cursor.order
        /\ e.order = cursor.order => e.checkpoint = cursor.checkpoint
    BY <1>1, <1>3, <2>1, <2>2 DEF Stored, Accepted, CursorConflict
  <2>5. cursor'.ok = TRUE /\ cursor'.order = e.order /\ cursor'.checkpoint = e.checkpoint
    BY <2>1
  <2>6. CASE cursor.ok
    <3>1. e.order > cursor.order \/ e.order = cursor.order
      BY <1>1, <2>2, <2>4, <2>6
    <3>2. \/ cursor'.order > cursor.order
          \/ cursor'.order = cursor.order /\ cursor'.checkpoint = cursor.checkpoint
      BY <2>4, <2>5, <3>1
    <3>3. QED  BY <2>3, <2>5, <3>2 DEF Forward
  <2>7. CASE ~cursor.ok
    BY <2>3, <2>5, <2>7 DEF Forward
  <2>8. QED  BY <2>6, <2>7
<1>4. ASSUME NEW e \in Envelopes, FailureMarked(e)  PROVE Forward
  <2>1. cursor' # NoRow
    BY <1>4, FailureType, RowsAssumption DEF FailureMarked
  <2>2. CASE cursor.ok
    <3>1. cursor' = [cursor EXCEPT !.failed = TRUE, !.revision = @ + 1]
      BY <1>4, <2>2 DEF FailureMarked, MarkFailure
    <3>2. /\ cursor'.ok = cursor.ok /\ cursor'.order = cursor.order
          /\ cursor'.checkpoint = cursor.checkpoint
      BY <1>1, <3>1 DEF Cursor
    <3>3. QED  BY <2>1, <3>2 DEF Forward
  <2>3. CASE ~cursor.ok
    <3>1. cursor' = [cursor EXCEPT !.order = e.order, !.checkpoint = e.checkpoint,
                                   !.failed = TRUE, !.revision = @ + 1]
      BY <1>4, <2>3 DEF FailureMarked, MarkFailure
    <3>2. cursor'.ok = cursor.ok /\ cursor'.order = e.order /\ cursor'.checkpoint = e.checkpoint
      BY <1>1, <3>1 DEF Cursor
    <3>3. e.order \in Nat
      BY EnvelopesAssumption DEF Envelope
    <3>4. /\ e.order >= cursor.order
          /\ e.order = cursor.order => e.checkpoint = cursor.checkpoint
      BY <1>1, <1>4, <3>3 DEF FailureMarked, StaleFailure
    <3>5. QED  BY <1>1, <2>1, <2>3, <3>2, <3>3, <3>4 DEF Forward
  <2>4. QED  BY <2>2, <2>3
<1>5. QED  BY <1>2, <1>3, <1>4, StepEffects DEF Unstored

\* The checkpoint of the source never goes back, in whatever order the
\* deliveries and the failures of overlapping invocations are committed.
THEOREM CheckpointMonotoneCorrect == Spec => CheckpointMonotone
<1>1. TypeOK /\ [Next]_vars => [Forward]_vars
  BY ForwardStep
<1>2. QED  BY <1>1, TypeCorrect, PTL DEF Spec, CheckpointMonotone, Forward

(***************************************************************************)
(* The audit trail of a turn.                                              *)
(***************************************************************************)

\* What a stored envelope leaves on the trail of its turn: its fingerprint is
\* the last entry, the others are as they were.
LEMMA StoredTrail ==
  ASSUME TypeOK, TurnAudited, NEW e \in Envelopes, Store(e)
  PROVE  /\ Key(e) \in Turns /\ Fingerprint(e) \in Fingerprints
         /\ trail' \in [Turns -> Seq(Fingerprints)]
         /\ turn'[Key(e)] = Fingerprint(e)
         /\ \/ trail'[Key(e)] = Append(trail[Key(e)], Fingerprint(e))
               /\ turn[Key(e)] # Fingerprint(e)
            \/ trail'[Key(e)] = trail[Key(e)] /\ turn[Key(e)] = Fingerprint(e)
         /\ \A t \in Turns \ {Key(e)} : trail'[t] = trail[t] /\ turn'[t] = turn[t]
<1>1. Key(e) \in Turns /\ Fingerprint(e) \in Fingerprints
  BY EnvelopesAssumption DEF Envelope, Key, Turns, Fingerprint, Fingerprints
<1>2. trail' \in [Turns -> Seq(Fingerprints)]
  BY StoreType
<1>3. turn'[Key(e)] = Fingerprint(e)
  BY <1>1 DEF TypeOK, Store, StoreTurn
<1>4. \/ trail'[Key(e)] = Append(trail[Key(e)], Fingerprint(e))
         /\ turn[Key(e)] # Fingerprint(e)
      \/ trail'[Key(e)] = trail[Key(e)] /\ turn[Key(e)] = Fingerprint(e)
  BY <1>1 DEF TypeOK, Store, StoreTurn
<1>5. \A t \in Turns \ {Key(e)} : trail'[t] = trail[t] /\ turn'[t] = turn[t]
  BY <1>1 DEF TypeOK, Store, StoreTurn
<1>6. QED  BY <1>1, <1>2, <1>3, <1>4, <1>5

\* A trail ends with the turn it tells of and repeats nothing (TurnAudited).
LEMMA TurnAuditedStep ==
  ASSUME TypeOK, TurnAudited, [Next]_vars
  PROVE  TurnAudited'
<1>1. CASE UNCHANGED <<turn, trail>>
  BY <1>1 DEF TurnAudited
<1>2. ASSUME NEW e \in Envelopes, Store(e)  PROVE TurnAudited'
  <2> DEFINE k == Key(e)  f == Fingerprint(e)
  <2>0. k \in Turns /\ f \in Fingerprints
    BY <1>2, StoredTrail
  <2> SUFFICES ASSUME NEW t \in Turns
               PROVE  /\ turn'[t] = IF trail'[t] = <<>> THEN NoRow ELSE trail'[t][Len(trail'[t])]
                      /\ \A i \in 2..Len(trail'[t]) : trail'[t][i] # trail'[t][i - 1]
    BY DEF TurnAudited
  <2>1. CASE t # k
    <3>1. trail'[t] = trail[t] /\ turn'[t] = turn[t]
      BY <1>2, <2>1, StoredTrail
    <3>2. QED  BY <3>1 DEF TurnAudited
  <2>2. CASE t = k /\ trail'[k] = trail[k] /\ turn[k] = f
    <3>1. turn'[t] = turn[t] /\ trail'[t] = trail[t]
      BY <1>2, <2>2, StoredTrail
    <3>2. QED  BY <3>1 DEF TurnAudited
  <2>3. CASE t = k /\ trail'[k] = Append(trail[k], f) /\ turn[k] # f
    <3> DEFINE old == trail[k]  new == trail'[k]
    <3>1. old \in Seq(Fingerprints) /\ Len(old) \in Nat
      BY <2>0 DEF TypeOK
    <3>2. /\ Len(new) = Len(old) + 1 /\ new # <<>>
          /\ new[Len(new)] = f
          /\ \A i \in 1..Len(old) : new[i] = old[i]
      BY <2>0, <2>3, <3>1
    <3>3. turn'[k] = f
      BY <1>2, StoredTrail
    <3>4. \A i \in 2..Len(new) : new[i] # new[i - 1]
      <4> SUFFICES ASSUME NEW i \in 2..Len(new)  PROVE new[i] # new[i - 1]
        OBVIOUS
      <4>1. CASE i \in 2..Len(old)
        <5>1. new[i] = old[i] /\ new[i - 1] = old[i - 1]
          BY <3>1, <3>2, <4>1
        <5>2. old[i] # old[i - 1]
          BY <2>0, <4>1 DEF TurnAudited
        <5>3. QED  BY <5>1, <5>2
      <4>2. CASE i \notin 2..Len(old)
        <5>1. i = Len(old) + 1 /\ Len(old) \in 1..Len(old) /\ i - 1 = Len(old)
          BY <3>1, <3>2, <4>2
        <5>2. old # <<>>
          BY <3>1, <5>1
        <5>3. turn[k] = old[Len(old)]
          BY <2>0, <5>2 DEF TurnAudited
        <5>4. new[i] = f /\ new[i - 1] = old[Len(old)]
          BY <3>2, <5>1
        <5>5. QED  BY <2>3, <5>3, <5>4
      <4>3. QED  BY <4>1, <4>2
    <3>5. QED  BY <2>3, <3>2, <3>3, <3>4
  <2>4. QED  BY <1>2, <2>1, <2>2, <2>3, StoredTrail
<1>3. QED  BY <1>1, <1>2, StepEffects DEF Unstored, Stored, FailureMarked

\* The trail starts empty, as the turns do.
LEMMA TurnAuditedInit ==
  ASSUME Init
  PROVE  TurnAudited
BY DEF Init, TurnAudited

\* Redeliveries, retries of an unknown commit and overlapping invocations
\* leave one audit entry for each revision of a turn (TurnAudited).
THEOREM TurnAuditedCorrect == Spec => []TurnAudited
<1>1. Init => TurnAudited
  BY TurnAuditedInit
<1>2. TypeOK /\ TurnAudited /\ [Next]_vars => TurnAudited'
  BY TurnAuditedStep
<1>3. QED  BY <1>1, <1>2, TypeCorrect, PTL DEF Spec

(***************************************************************************)
(* What was delivered stays on the trail, and covers the checkpoint and    *)
(* the session.                                                            *)
(***************************************************************************)

\* An entry of the trail is an old one or the fingerprint just stored, and an
\* envelope that was delivered, or is stored now, is delivered afterwards.
LEMMA TrailGrows ==
  ASSUME TypeOK, TurnAudited, NEW e \in Envelopes, Store(e)
  PROVE  /\ Delivered(e)'
         /\ \A d \in Envelopes : Delivered(d) => Delivered(d)'
         /\ \A t \in Turns : \A i \in 1..Len(trail'[t]) :
               \/ i \in 1..Len(trail[t]) /\ trail'[t][i] = trail[t][i]
               \/ t = Key(e) /\ trail'[t][i] = Fingerprint(e)
<1> DEFINE k == Key(e)  f == Fingerprint(e)
<1>1. k \in Turns /\ f \in Fingerprints /\ NoRow # f
  BY StoredTrail, RowsAssumption
<1>2. \A d \in Envelopes : Key(d) \in Turns
  BY EnvelopesAssumption DEF Envelope, Key, Turns
<1>3. trail[k] \in Seq(Fingerprints) /\ Len(trail[k]) \in Nat
  BY <1>1 DEF TypeOK
<1>4. \A t \in Turns \ {k} : trail'[t] = trail[t]
  BY StoredTrail
<1>5. CASE trail'[k] = trail[k] /\ turn[k] = f
  <2>1. \A t \in Turns : trail'[t] = trail[t]
    BY <1>4, <1>5
  <2>2. trail[k] # <<>> /\ trail[k][Len(trail[k])] = f
    BY <1>1, <1>5 DEF TurnAudited
  <2>3. Len(trail[k]) \in 1..Len(trail[k])
    BY <1>3, <2>2
  <2>4. Delivered(e)'
    BY <1>1, <2>1, <2>2, <2>3 DEF Delivered
  <2>5. QED  BY <1>2, <2>1, <2>4 DEF Delivered
<1>6. CASE trail'[k] = Append(trail[k], f)
  <2>1. /\ Len(trail'[k]) = Len(trail[k]) + 1
        /\ trail'[k][Len(trail'[k])] = f
        /\ \A i \in 1..Len(trail[k]) : trail'[k][i] = trail[k][i]
    BY <1>1, <1>3, <1>6
  <2>2. Delivered(e)'
    BY <1>3, <2>1 DEF Delivered
  <2>3. ASSUME NEW d \in Envelopes, Delivered(d)  PROVE Delivered(d)'
    <3>1. PICK i \in 1..Len(trail[Key(d)]) : trail[Key(d)][i] = Fingerprint(d)
      BY <2>3 DEF Delivered
    <3>2. i \in 1..Len(trail'[Key(d)]) /\ trail'[Key(d)][i] = Fingerprint(d)
      BY <1>2, <1>3, <1>4, <2>1, <3>1
    <3>3. QED  BY <3>2 DEF Delivered, Fingerprint, Key
  <2>4. ASSUME NEW t \in Turns, NEW i \in 1..Len(trail'[t])
        PROVE  \/ i \in 1..Len(trail[t]) /\ trail'[t][i] = trail[t][i]
               \/ t = k /\ trail'[t][i] = f
    <3>1. CASE t # k
      BY <1>4, <3>1
    <3>2. CASE t = k
      BY <1>3, <2>1, <3>2
    <3>3. QED  BY <3>1, <3>2
  <2>5. QED  BY <2>2, <2>3, <2>4
<1>7. QED  BY <1>5, <1>6, StoredTrail

\* The successful checkpoint stands for a delivered envelope.
LEMMA CheckpointCoveredStep ==
  ASSUME TypeOK, TurnAudited, CheckpointCovered, [Next]_vars
  PROVE  CheckpointCovered'
<1>1. CASE Unstored
  BY <1>1 DEF Unstored, CheckpointCovered, Delivered
<1>2. ASSUME NEW e \in Envelopes, Stored(e)  PROVE CheckpointCovered'
  <2>0. Store(e)
    BY <1>2 DEF Stored
  <2>1. CASE cursor' = cursor
    BY <2>0, <2>1, TrailGrows DEF CheckpointCovered
  <2>2. CASE cursor' # cursor
    <3>1. cursor'.order = e.order /\ cursor'.checkpoint = e.checkpoint
      BY <2>0, <2>2 DEF Store, AdvanceCursor
    <3>2. Delivered(e)'
      BY <2>0, TrailGrows
    <3>3. QED  BY <3>1, <3>2 DEF CheckpointCovered
  <2>3. QED  BY <2>1, <2>2
<1>3. ASSUME NEW e \in Envelopes, FailureMarked(e)  PROVE CheckpointCovered'
  <2>1. \A d \in Envelopes : Delivered(d)' = Delivered(d)
    BY <1>3 DEF FailureMarked, Delivered
  <2>2. CASE cursor = NoRow
    <3>1. cursor'.ok = FALSE
      BY <1>3, <2>2 DEF FailureMarked, MarkFailure
    <3>2. QED  BY <3>1 DEF CheckpointCovered
  <2>3. CASE cursor # NoRow /\ cursor.ok
    <3>1. cursor \in Cursor
      BY <2>3 DEF TypeOK
    <3>2. cursor'.order = cursor.order /\ cursor'.checkpoint = cursor.checkpoint
      BY <1>3, <2>3, <3>1 DEF FailureMarked, MarkFailure, Cursor
    <3>3. QED  BY <2>1, <2>3, <3>2 DEF CheckpointCovered
  <2>4. CASE cursor # NoRow /\ ~cursor.ok
    <3>1. cursor \in Cursor
      BY <2>4 DEF TypeOK
    <3>2. cursor'.ok = cursor.ok
      BY <1>3, <2>4, <3>1 DEF FailureMarked, MarkFailure, Cursor
    <3>3. QED  BY <2>4, <3>2 DEF CheckpointCovered
  <2>5. QED  BY <2>2, <2>3, <2>4
<1>4. QED  BY <1>1, <1>2, <1>3, StepEffects

\* The checkpoint is never ahead of the commit it stands for: whatever fails,
\* crashes or is retried, resuming after it loses no turn (CheckpointCovered).
THEOREM CheckpointCoveredCorrect == Spec => []CheckpointCovered
<1>1. Init => CheckpointCovered
  BY DEF Init, CheckpointCovered
<1>2. TypeOK /\ TurnAudited /\ CheckpointCovered /\ [Next]_vars => CheckpointCovered'
  BY CheckpointCoveredStep
<1>3. QED  BY <1>1, <1>2, TypeCorrect, TurnAuditedCorrect, PTL DEF Spec

\* The checkpoint stands for what was stored and never goes back, for all
\* constants (CheckpointSound).
THEOREM CheckpointSoundCorrect == Spec => CheckpointSound
  BY CheckpointCoveredCorrect, CheckpointMonotoneCorrect, PTL DEF CheckpointSound

\* The session is never behind a turn that was stored for it.
LEMMA SessionCoversTurnsStep ==
  ASSUME TypeOK, TurnAudited, SessionCoversTurns, [Next]_vars
  PROVE  SessionCoversTurns'
<1>1. CASE UNCHANGED <<session, trail>>
  BY <1>1 DEF SessionCoversTurns
<1>2. ASSUME NEW e \in Envelopes, Store(e)  PROVE SessionCoversTurns'
  <2>0. \A d \in Envelopes : d.session \in Sessions /\ d.at \in Nat
    BY EnvelopesAssumption DEF Envelope
  <2>1. \A s \in Sessions : session'[s] \in Nat /\ session[s] \in Nat /\ session'[s] >= session[s]
    BY <1>2, <2>0 DEF Store, RefreshSession, TypeOK
  <2>2. e.at <= session'[e.session]
    BY <1>2, <2>0 DEF Store, RefreshSession, TypeOK
  <2> SUFFICES ASSUME NEW t \in Turns, NEW i \in 1..Len(trail'[t])
               PROVE  \E d \in Envelopes : /\ Key(d) = t /\ Fingerprint(d) = trail'[t][i]
                                           /\ d.at <= session'[d.session]
    BY DEF SessionCoversTurns
  <2>3. CASE t = Key(e) /\ trail'[t][i] = Fingerprint(e)
    BY <2>2, <2>3
  <2>4. CASE i \in 1..Len(trail[t]) /\ trail'[t][i] = trail[t][i]
    <3>1. PICK d \in Envelopes : /\ Key(d) = t /\ Fingerprint(d) = trail[t][i]
                                 /\ d.at <= session[d.session]
      BY <2>4 DEF SessionCoversTurns
    <3>2. d.at <= session'[d.session]
      BY <2>0, <2>1, <3>1
    <3>3. QED  BY <2>4, <3>1, <3>2
  <2>5. QED  BY <1>2, <2>3, <2>4, TrailGrows
<1>3. QED  BY <1>1, <1>2, StepEffects DEF Unstored, Stored, FailureMarked

\* A late, older envelope never takes the session behind a turn that was
\* stored for it (SessionCoversTurns).
THEOREM SessionCoversTurnsCorrect == Spec => []SessionCoversTurns
<1>1. Init => SessionCoversTurns
  BY DEF Init, SessionCoversTurns
<1>2. TypeOK /\ TurnAudited /\ SessionCoversTurns /\ [Next]_vars => SessionCoversTurns'
  BY SessionCoversTurnsStep
<1>3. QED  BY <1>1, <1>2, TypeCorrect, TurnAuditedCorrect, PTL DEF Spec

\* Both audit trails explain their rows, for all constants.
THEOREM AuditedCorrect == Spec => []Audited
  <1>1. RevisionsAudited /\ TurnAudited => Audited
    BY DEF Audited
  <1>2. QED
    BY <1>1, RevisionsAuditedCorrect, TurnAuditedCorrect, PTL
=============================================================================
