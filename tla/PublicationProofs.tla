------------------------- MODULE PublicationProofs -------------------------
(***************************************************************************)
(* What the publication engine keeps for every number of invocations,      *)
(* files, learnings, rows, faults, crashes, edits and rejections.          *)
(*                                                                         *)
(* First TypeOK, action by action.  Then the shape of the actions: all but *)
(* a few either go on with the publication they hold the lock for or give  *)
(* it up (StepShape), and that is all the invariants need to know of them: *)
(* IInv (types, the known attempt, the lock), FInv (IInv and the tree      *)
(* between a check and its use) and PInv (IInv and the published rows);    *)
(* KInv (IInv and what was compared before it is replaced), UInv (FInv,    *)
(* KInv and what plans were composed from), OInv and RInv (IInv and the    *)
(* order of the rows, then what a loop has put back), SInv (the stack of   *)
(* publications over each file while nothing has failed), EInv (UInv and   *)
(* the status of the row each loop works on), from which the engine        *)
(* implements PublicationPromise, step by step, and last AInv and BInv     *)
(* (which row tells of each text of the tree, and of each byte), from      *)
(* which the tree is accounted for.                                        *)
(***************************************************************************)
EXTENDS Publication, TLAPS

\* The bytes a plan would write are content (composeTargetContent).
LEMMA PostType ==
    ASSUME TypeOK, NEW p \in Pubs, NEW f \in Files
    PROVE  Post(p, f) \in Content
  <1>1. pubs[p].plan.learning \in Learnings /\ pubs[p].plan.base[f] \in Content
    BY DEF TypeOK, Row, Plan
  <1>2. QED
    BY <1>1 DEF Post, Compose, Content

\* The initial invocation, plan and row have the shape of the others.
LEMMA IdleType == Idle \in Proc /\ SomePlan \in Plan /\ NoRow \in Row
  <1>1. SomePlan \in Plan
    BY LearningsAssumption, BaseAssumption DEF SomePlan, Plan, Content
  <1>2. Idle \in Proc
    BY <1>1 DEF Idle, Proc, Pc, Op, LearningStatus
  <1>3. NoRow \in Row
    BY <1>1, BaseAssumption DEF NoRow, Row, PubStatus, EntryState, Content
  <1>4. QED
    BY <1>1, <1>2, <1>3

\* The initial state is well typed.
LEMMA InitType == Init => TypeOK
  BY IdleType, BaseAssumption, BoundsAssumption DEF Init, TypeOK, LearningStatus, JournalStatus, Kinds, Content

\* Moving one invocation to another point keeps the invocations typed.
LEMMA GotoType ==
    ASSUME TypeOK, NEW self \in Procs, NEW pc \in Pc, Goto(self, pc)
    PROVE  proc' \in [Procs -> Proc]
  BY DEF TypeOK, Goto, Proc

\* Replacing one invocation by a typed one keeps them all typed.
LEMMA BecomeType ==
    ASSUME TypeOK, NEW self \in Procs, NEW state \in Proc, Become(self, state)
    PROVE  proc' \in [Procs -> Proc]
  BY DEF TypeOK, Become

\* Returning, with the deferred release of the lock, keeps types.
LEMMA ReturnType ==
    ASSUME TypeOK, NEW self \in Procs, Return(self)
    PROVE  proc' \in [Procs -> Proc] /\ lock' \in Procs \cup {NoProc, DeadProc}
  BY BecomeType, IdleType DEF TypeOK, Return

\* A fault, crash, edit or rejection stays within its bound.
LEMMA SpendType ==
    ASSUME TypeOK, NEW kind \in Kinds, Spend(kind)
    PROVE  used' \in [Kinds -> Nat] /\ \A k \in Kinds : used'[k] <= Budget[k]
  <1>1. used \in [Kinds -> Nat] /\ used[kind] \in Nat /\ Budget[kind] \in Nat
    BY BoundsAssumption DEF TypeOK
  <1>2. used[kind] + 1 \in Nat /\ used[kind] + 1 <= Budget[kind]
    BY <1>1 DEF Spend
  <1>3. used' = [used EXCEPT ![kind] = used[kind] + 1]
    BY DEF Spend
  <1>4. QED
    BY <1>1, <1>2, <1>3 DEF TypeOK

\* Replacing a row by a typed one keeps the table typed.
LEMMA SetRowType ==
    ASSUME TypeOK, NEW p \in Pubs, NEW r \in Row, SetRow(p, r)
    PROVE  pubs' \in [Pubs -> Row]
  BY DEF TypeOK, SetRow

\* The targets of a row are files.
LEMMA TargetsType ==
    ASSUME TypeOK, NEW p \in Pubs
    PROVE  Targets(p) \subseteq Files
  BY DestAssumption DEF TypeOK, Targets, Row, Plan

\* What follows the restoration of one target keeps the invocations typed.
LEMMA AfterRestoreType ==
    ASSUME TypeOK, NEW self \in Procs, NEW f \in Files, NEW ok \in BOOLEAN,
           AfterRestore(self, f, ok)
    PROVE  proc' \in [Procs -> Proc]
  <1>1. proc[self] \in Proc
    BY DEF TypeOK
  <1>2. QED
    BY <1>1, BecomeType DEF AfterRestore, Proc, Pc

\* Starting a compensation keeps the invocations typed.
LEMMA CompensateType ==
    ASSUME TypeOK, AttemptKnown, NEW self \in Procs,
           proc[self].pub \in Pubs, Compensate(self)
    PROVE  proc' \in [Procs -> Proc]
  <1>1. proc[self] \in Proc
    BY DEF TypeOK
  <1>2. [proc[self] EXCEPT !.pc = "undo", !.todo = Targets(proc[self].pub), !.bad = {}] \in Proc
    BY <1>1, TargetsType DEF Proc, Pc
  <1>3. QED
    BY <1>2, BecomeType DEF Compensate

\* Publish reads the learning before the lock keeps every variable in its type.
LEMMA PublishReadType ==
    ASSUME TypeOK, AttemptKnown, NEW self \in Procs, NEW plan \in previews, PublishRead(self, plan)
    PROVE  TypeOK'
  <1>1. proc' \in [Procs -> Proc]
    BY IdleType, BecomeType DEF PublishRead, TypeOK, Proc, Pc, Op, LearningStatus
  <1>2. QED
    BY <1>1 DEF TypeOK, PublishRead

\* The creation of the lock file, or its refusal keeps every variable in its
\* type.
LEMMA AcquireType ==
    ASSUME TypeOK, AttemptKnown, NEW self \in Procs, Acquire(self)
    PROVE  TypeOK'
  <1>1. proc' \in [Procs -> Proc] /\ lock' \in Procs \cup {NoProc, DeadProc}
    BY GotoType, ReturnType DEF Acquire, Pc, TypeOK
  <1>2. QED
    BY <1>1 DEF TypeOK, Acquire

\* The comparison of the tree with the prior hashes keeps every variable in
\* its type.
LEMMA ValidateHashesType ==
    ASSUME TypeOK, AttemptKnown, NEW self \in Procs, ValidateHashes(self)
    PROVE  TypeOK'
  <1>1. proc' \in [Procs -> Proc] /\ lock' \in Procs \cup {NoProc, DeadProc}
    BY GotoType, ReturnType DEF ValidateHashes, Pc, TypeOK
  <1>2. QED
    BY <1>1 DEF TypeOK, ValidateHashes

\* The snapshots and the insertion of the recovery row keeps every variable in
\* its type.
LEMMA InsertAttemptType ==
    ASSUME TypeOK, AttemptKnown, NEW self \in Procs, NEW p \in Pubs, InsertAttempt(self, p)
    PROVE  TypeOK'
  <1>1. proc[self] \in Proc
    BY DEF TypeOK
  <1>2. [proc[self] EXCEPT !.pc = "inserted", !.pub = p] \in Proc
    BY <1>1 DEF Proc, Pc
  <1>3. proc' \in [Procs -> Proc]
    BY <1>2, BecomeType DEF InsertAttempt
  <1>4. clock' \in Nat
    BY DEF TypeOK, InsertAttempt
  <1>5. pubs' \in [Pubs -> Row]
    BY <1>1, <1>4, SetRowType DEF TypeOK, InsertAttempt, Row, Proc, PubStatus, EntryState
  <1>6. QED
    BY <1>1, <1>2, <1>3, <1>4, <1>5 DEF TypeOK, InsertAttempt

\* A snapshot, backup or insertion that fails keeps every variable in its type.
LEMMA InsertFailsType ==
    ASSUME TypeOK, AttemptKnown, NEW self \in Procs, InsertFails(self)
    PROVE  TypeOK'
  <1>1. proc' \in [Procs -> Proc] /\ lock' \in Procs \cup {NoProc, DeadProc}
    BY ReturnType DEF InsertFails
  <1>2. used' \in [Kinds -> Nat] /\ \A k \in Kinds : used'[k] <= Budget[k]
    BY SpendType DEF InsertFails, Kinds
  <1>3. QED
    BY <1>1, <1>2 DEF TypeOK, InsertFails

\* A compensation that cannot read its row keeps every variable in its type.
LEMMA CompensationAbortsType ==
    ASSUME TypeOK, AttemptKnown, NEW self \in Procs, CompensationAborts(self)
    PROVE  TypeOK'
  <1>1. proc' \in [Procs -> Proc] /\ lock' \in Procs \cup {NoProc, DeadProc}
    BY ReturnType DEF CompensationAborts
  <1>2. used' \in [Kinds -> Nat] /\ \A k \in Kinds : used'[k] <= Budget[k]
    BY SpendType DEF CompensationAborts, Kinds
  <1>3. QED
    BY <1>1, <1>2 DEF TypeOK, CompensationAborts

\* The journal line before the first write keeps every variable in its type.
LEMMA JournalAttemptType ==
    ASSUME TypeOK, AttemptKnown, NEW self \in Procs, JournalAttempt(self)
    PROVE  TypeOK'
  <1>1. proc[self] \in Proc
    BY DEF TypeOK
  <1>2. proc[self].pub \in Pubs
    BY DEF JournalAttempt, AttemptKnown, At
  <1>3. [proc[self] EXCEPT !.pc = "inspect", !.todo = Targets(proc[self].pub)] \in Proc
    BY <1>1, <1>2, TargetsType DEF Proc, Pc
  <1>4. proc' \in [Procs -> Proc] /\ lock' \in Procs \cup {NoProc, DeadProc}
    BY <1>3, BecomeType, ReturnType DEF JournalAttempt, Pc, TypeOK
  <1>5. used' \in [Kinds -> Nat] /\ \A k \in Kinds : used'[k] <= Budget[k]
    BY SpendType DEF JournalAttempt, Free, Kinds, TypeOK
  <1>6. journal' \in [Pubs -> JournalStatus]
    BY DEF JournalAttempt, Log, TypeOK, JournalStatus
  <1>7. QED
    BY <1>1, <1>2, <1>3, <1>4, <1>5, <1>6 DEF TypeOK, JournalAttempt

\* The comparison of WriteFileCAS keeps every variable in its type.
LEMMA InspectTargetType ==
    ASSUME TypeOK, AttemptKnown, NEW self \in Procs, NEW f \in Files, InspectTarget(self, f)
    PROVE  TypeOK'
  <1>1. proc[self].pub \in Pubs
    BY DEF InspectTarget, AttemptKnown, At
  <1>2. proc' \in [Procs -> Proc]
    BY <1>1, GotoType, CompensateType DEF InspectTarget, Pc
  <1>3. used' \in [Kinds -> Nat] /\ \A k \in Kinds : used'[k] <= Budget[k]
    BY SpendType DEF InspectTarget, Free, Kinds, TypeOK
  <1>4. QED
    BY <1>1, <1>2, <1>3 DEF TypeOK, InspectTarget

\* The placement of WriteFileCAS keeps every variable in its type.
LEMMA PlaceTargetType ==
    ASSUME TypeOK, AttemptKnown, NEW self \in Procs, NEW f \in Files, PlaceTarget(self, f)
    PROVE  TypeOK'
  <1>1. proc[self].pub \in Pubs
    BY DEF PlaceTarget, AttemptKnown, At
  <1>2. proc' \in [Procs -> Proc]
    BY <1>1, GotoType, CompensateType DEF PlaceTarget, Pc
  <1>3. used' \in [Kinds -> Nat] /\ \A k \in Kinds : used'[k] <= Budget[k]
    BY SpendType DEF PlaceTarget, Free, Kinds, TypeOK
  <1>4. disk' \in [Files -> Content]
    BY <1>1, PostType DEF PlaceTarget, TypeOK
  <1>5. QED
    BY <1>1, <1>2, <1>3, <1>4 DEF TypeOK, PlaceTarget

\* The persisted progress of the write loop keeps every variable in its type.
LEMMA SaveProgressType ==
    ASSUME TypeOK, AttemptKnown, NEW self \in Procs, NEW f \in Files, SaveProgress(self, f)
    PROVE  TypeOK'
  <1>1. proc[self] \in Proc
    BY DEF TypeOK
  <1>2. proc[self].pub \in Pubs
    BY DEF SaveProgress, AttemptKnown, At
  <1>3. [pubs[proc[self].pub] EXCEPT !.entry[f] = "published"] \in Row
    BY <1>2 DEF TypeOK, Row, PubStatus, EntryState
  <1>4. pubs' \in [Pubs -> Row]
    BY <1>2, <1>3, SetRowType DEF SaveProgress, TypeOK
  <1>5. proc' \in [Procs -> Proc]
    BY <1>1, <1>2, BecomeType, CompensateType DEF SaveProgress, Proc, Pc
  <1>6. used' \in [Kinds -> Nat] /\ \A k \in Kinds : used'[k] <= Budget[k]
    BY SpendType DEF SaveProgress, Free, Kinds, TypeOK
  <1>7. QED
    BY <1>1, <1>2, <1>3, <1>4, <1>5, <1>6 DEF TypeOK, SaveProgress

\* VerifyTargets keeps every variable in its type.
LEMMA VerifyTargetsType ==
    ASSUME TypeOK, AttemptKnown, NEW self \in Procs, VerifyTargets(self)
    PROVE  TypeOK'
  <1>1. proc[self].pub \in Pubs
    BY DEF VerifyTargets, AttemptKnown, At
  <1>2. proc' \in [Procs -> Proc]
    BY <1>1, GotoType, CompensateType DEF VerifyTargets, Pc
  <1>3. used' \in [Kinds -> Nat] /\ \A k \in Kinds : used'[k] <= Budget[k]
    BY SpendType DEF VerifyTargets, Free, Kinds, TypeOK
  <1>4. QED
    BY <1>1, <1>2, <1>3 DEF TypeOK, VerifyTargets

\* The transaction that completes a publication keeps every variable in its
\* type.
LEMMA CommitPublicationType ==
    ASSUME TypeOK, AttemptKnown, NEW self \in Procs, CommitPublication(self)
    PROVE  TypeOK'
  <1>1. proc[self] \in Proc
    BY DEF TypeOK
  <1>2. proc[self].pub \in Pubs
    BY DEF CommitPublication, AttemptKnown, At
  <1>3. [pubs[proc[self].pub] EXCEPT !.status = "completed"] \in Row
    BY <1>2 DEF TypeOK, Row, PubStatus, EntryState
  <1>4. pubs' \in [Pubs -> Row]
    BY <1>2, <1>3, SetRowType DEF CommitPublication, TypeOK
  <1>5. [proc[self] EXCEPT !.pc = "record", !.row = "published"] \in Proc
    BY <1>1 DEF Proc, Pc, LearningStatus
  <1>6. proc' \in [Procs -> Proc]
    BY <1>2, <1>5, BecomeType, CompensateType DEF CommitPublication
  <1>7. learning' \in [Learnings -> LearningStatus]
    BY DEF CommitPublication, TypeOK, LearningStatus
  <1>8. used' \in [Kinds -> Nat] /\ \A k \in Kinds : used'[k] <= Budget[k]
    BY SpendType DEF CommitPublication, Free, Kinds, TypeOK
  <1>9. QED
    BY <1>1, <1>2, <1>3, <1>4, <1>5, <1>6, <1>7, <1>8 DEF TypeOK, CommitPublication

\* The writing of the Markdown record keeps every variable in its type.
LEMMA MaterializeType ==
    ASSUME TypeOK, AttemptKnown, NEW self \in Procs, Materialize(self)
    PROVE  TypeOK'
  <1>1. proc[self] \in Proc
    BY DEF TypeOK
  <1>2. [proc[self] EXCEPT !.pc = "journal", !.recordOk = FALSE] \in Proc
    BY <1>1 DEF Proc, Pc
  <1>3. proc' \in [Procs -> Proc]
    BY <1>2, GotoType, BecomeType DEF Materialize, Pc
  <1>4. record' \in [Learnings -> LearningStatus]
    BY <1>1 DEF Materialize, TypeOK, Proc
  <1>5. used' \in [Kinds -> Nat] /\ \A k \in Kinds : used'[k] <= Budget[k]
    BY SpendType DEF Materialize, Free, Kinds, TypeOK
  <1>6. QED
    BY <1>1, <1>2, <1>3, <1>4, <1>5 DEF TypeOK, Materialize

\* The terminal journal line keeps every variable in its type.
LEMMA TerminalJournalType ==
    ASSUME TypeOK, AttemptKnown, NEW self \in Procs, TerminalJournal(self)
    PROVE  TypeOK'
  <1>1. proc[self] \in Proc
    BY DEF TypeOK
  <1>2. TerminalWord(proc[self].op, proc[self].recordOk) \in JournalStatus
    BY <1>1 DEF Proc, Op, TerminalWord, JournalStatus
  <1>3. journal' \in [Pubs -> JournalStatus]
    BY <1>2 DEF TerminalJournal, Log, TypeOK, JournalStatus
  <1>4. proc' \in [Procs -> Proc] /\ lock' \in Procs \cup {NoProc, DeadProc}
    BY ReturnType DEF TerminalJournal, Pc, TypeOK
  <1>5. used' \in [Kinds -> Nat] /\ \A k \in Kinds : used'[k] <= Budget[k]
    BY SpendType DEF TerminalJournal, Free, Kinds, TypeOK
  <1>6. QED
    BY <1>1, <1>2, <1>3, <1>4, <1>5 DEF TypeOK, TerminalJournal

\* The comparison of RestoreFile keeps every variable in its type.
LEMMA RestoreInspectType ==
    ASSUME TypeOK, AttemptKnown, NEW self \in Procs, NEW f \in Files, RestoreInspect(self, f)
    PROVE  TypeOK'
  <1>1. proc' \in [Procs -> Proc]
    BY GotoType, AfterRestoreType DEF RestoreInspect, Pc
  <1>2. used' \in [Kinds -> Nat] /\ \A k \in Kinds : used'[k] <= Budget[k]
    BY SpendType DEF RestoreInspect, Free, Kinds, TypeOK
  <1>3. QED
    BY <1>1, <1>2 DEF TypeOK, RestoreInspect

\* The placement of RestoreFile keeps every variable in its type.
LEMMA RestorePlaceType ==
    ASSUME TypeOK, AttemptKnown, NEW self \in Procs, NEW f \in Files, RestorePlace(self, f)
    PROVE  TypeOK'
  <1>1. proc[self].pub \in Pubs
    BY DEF RestorePlace, AttemptKnown, At
  <1>2. pubs[proc[self].pub].orig[f] \in Content
    BY <1>1 DEF TypeOK, Row
  <1>3. proc' \in [Procs -> Proc]
    BY AfterRestoreType DEF RestorePlace
  <1>4. used' \in [Kinds -> Nat] /\ \A k \in Kinds : used'[k] <= Budget[k]
    BY SpendType DEF RestorePlace, Free, Kinds, TypeOK
  <1>5. disk' \in [Files -> Content]
    BY <1>2 DEF RestorePlace, TypeOK
  <1>6. QED
    BY <1>1, <1>2, <1>3, <1>4, <1>5 DEF TypeOK, RestorePlace

\* The transaction that closes a compensation keeps every variable in its type.
LEMMA SaveCompensationType ==
    ASSUME TypeOK, AttemptKnown, NEW self \in Procs, SaveCompensation(self)
    PROVE  TypeOK'
  <1>1. proc[self].pub \in Pubs
    BY DEF SaveCompensation, AttemptKnown, At
  <1>2. ASSUME NEW e \in [Files -> EntryState]
        PROVE  [pubs[proc[self].pub] EXCEPT !.status = "failed", !.entry = e] \in Row
    BY <1>1 DEF TypeOK, Row, PubStatus
  <1>3. pubs[proc[self].pub].entry \in [Files -> EntryState]
    BY <1>1 DEF TypeOK, Row
  <1>4. [f \in Files |-> IF f \notin Targets(proc[self].pub) THEN pubs[proc[self].pub].entry[f]
                         ELSE IF f \in proc[self].bad THEN "conflict" ELSE "restored"]
         \in [Files -> EntryState]
    BY <1>3 DEF EntryState
  <1>5. pubs' \in [Pubs -> Row]
    BY <1>1, <1>2, <1>4, SetRowType DEF SaveCompensation, TypeOK
  <1>6. proc' \in [Procs -> Proc] /\ lock' \in Procs \cup {NoProc, DeadProc}
    BY GotoType, ReturnType DEF SaveCompensation, Pc, TypeOK
  <1>7. used' \in [Kinds -> Nat] /\ \A k \in Kinds : used'[k] <= Budget[k]
    BY SpendType DEF SaveCompensation, Free, Kinds, TypeOK
  <1>8. QED
    BY <1>1, <1>2, <1>3, <1>4, <1>5, <1>6, <1>7 DEF TypeOK, SaveCompensation

\* The journal line of a compensation keeps every variable in its type.
LEMMA JournalCompensationType ==
    ASSUME TypeOK, AttemptKnown, NEW self \in Procs, JournalCompensation(self)
    PROVE  TypeOK'
  <1>1. journal' \in [Pubs -> JournalStatus]
    BY DEF JournalCompensation, Log, TypeOK, JournalStatus
  <1>2. proc' \in [Procs -> Proc] /\ lock' \in Procs \cup {NoProc, DeadProc}
    BY ReturnType DEF JournalCompensation, Pc, TypeOK
  <1>3. used' \in [Kinds -> Nat] /\ \A k \in Kinds : used'[k] <= Budget[k]
    BY SpendType DEF JournalCompensation, Free, Kinds, TypeOK
  <1>4. QED
    BY <1>1, <1>2, <1>3 DEF TypeOK, JournalCompensation

\* Rollback taking the lock keeps every variable in its type.
LEMMA RollbackAcquireType ==
    ASSUME TypeOK, AttemptKnown, NEW self \in Procs, NEW p \in Pubs, RollbackAcquire(self, p)
    PROVE  TypeOK'
  <1>1. pubs[p].plan \in Plan
    BY DEF TypeOK, Row
  <1>2. [Idle EXCEPT !.pc = "load", !.op = "rollback", !.pub = p, !.plan = pubs[p].plan] \in Proc
    BY <1>1, IdleType DEF Proc, Pc, Op
  <1>3. proc' \in [Procs -> Proc] /\ lock' \in Procs \cup {NoProc, DeadProc}
    BY <1>2, BecomeType DEF RollbackAcquire, Pc, TypeOK
  <1>4. QED
    BY <1>1, <1>2, <1>3 DEF TypeOK, RollbackAcquire

\* The decision of Rollback on its row keeps every variable in its type.
LEMMA RollbackLoadType ==
    ASSUME TypeOK, AttemptKnown, NEW self \in Procs, RollbackLoad(self)
    PROVE  TypeOK'
  <1>1. proc[self] \in Proc
    BY DEF TypeOK
  <1>2. proc[self].pub \in Pubs
    BY DEF RollbackLoad, AttemptKnown, At
  <1>3. learning[pubs[proc[self].pub].plan.learning] \in LearningStatus
    BY <1>2 DEF TypeOK, Row, Plan
  <1>4. [proc[self] EXCEPT !.pc = "record", !.op = "reconcile_rolled_back",
            !.row = learning[pubs[proc[self].pub].plan.learning]] \in Proc
    BY <1>1, <1>3 DEF Proc, Pc, Op
  <1>5. [proc[self] EXCEPT !.pc = "restore", !.todo = Targets(proc[self].pub)] \in Proc
    BY <1>1, <1>2, TargetsType DEF Proc, Pc
  <1>6. proc' \in [Procs -> Proc] /\ lock' \in Procs \cup {NoProc, DeadProc}
    BY <1>4, <1>5, BecomeType, ReturnType DEF RollbackLoad, Pc, TypeOK
  <1>7. QED
    BY <1>1, <1>2, <1>3, <1>4, <1>5, <1>6 DEF TypeOK, RollbackLoad

\* The persisted progress of a rollback keeps every variable in its type.
LEMMA SaveRestoreType ==
    ASSUME TypeOK, AttemptKnown, NEW self \in Procs, NEW f \in Files, SaveRestore(self, f)
    PROVE  TypeOK'
  <1>1. proc[self] \in Proc
    BY DEF TypeOK
  <1>2. proc[self].pub \in Pubs
    BY DEF SaveRestore, AttemptKnown, At
  <1>3. ASSUME NEW e \in EntryState
        PROVE  [pubs[proc[self].pub] EXCEPT !.entry[f] = e] \in Row
    BY <1>2 DEF TypeOK, Row
  <1>4. pubs' \in [Pubs -> Row]
    BY <1>2, <1>3, SetRowType DEF SaveRestore, TypeOK, EntryState
  <1>5. proc' \in [Procs -> Proc] /\ lock' \in Procs \cup {NoProc, DeadProc}
    BY <1>1, BecomeType, ReturnType DEF SaveRestore, Proc, Pc, TypeOK
  <1>6. used' \in [Kinds -> Nat] /\ \A k \in Kinds : used'[k] <= Budget[k]
    BY SpendType DEF SaveRestore, Free, Kinds, TypeOK
  <1>7. QED
    BY <1>1, <1>2, <1>3, <1>4, <1>5, <1>6 DEF TypeOK, SaveRestore

\* The transaction of a rollback with a conflict keeps every variable in its
\* type.
LEMMA FailRollbackType ==
    ASSUME TypeOK, AttemptKnown, NEW self \in Procs, FailRollback(self)
    PROVE  TypeOK'
  <1>1. proc[self].pub \in Pubs
    BY DEF FailRollback, AttemptKnown, At
  <1>2. [pubs[proc[self].pub] EXCEPT !.status = "failed"] \in Row
    BY <1>1 DEF TypeOK, Row, PubStatus, EntryState
  <1>3. pubs' \in [Pubs -> Row]
    BY <1>1, <1>2, SetRowType DEF FailRollback, TypeOK
  <1>4. proc' \in [Procs -> Proc] /\ lock' \in Procs \cup {NoProc, DeadProc}
    BY GotoType, ReturnType DEF FailRollback, Pc, TypeOK
  <1>5. used' \in [Kinds -> Nat] /\ \A k \in Kinds : used'[k] <= Budget[k]
    BY SpendType DEF FailRollback, Free, Kinds, TypeOK
  <1>6. QED
    BY <1>1, <1>2, <1>3, <1>4, <1>5 DEF TypeOK, FailRollback

\* The journal line of a failed rollback keeps every variable in its type.
LEMMA JournalFailedRollbackType ==
    ASSUME TypeOK, AttemptKnown, NEW self \in Procs, JournalFailedRollback(self)
    PROVE  TypeOK'
  <1>1. journal' \in [Pubs -> JournalStatus]
    BY DEF JournalFailedRollback, Log, TypeOK, JournalStatus
  <1>2. proc' \in [Procs -> Proc] /\ lock' \in Procs \cup {NoProc, DeadProc}
    BY ReturnType DEF JournalFailedRollback, Pc, TypeOK
  <1>3. used' \in [Kinds -> Nat] /\ \A k \in Kinds : used'[k] <= Budget[k]
    BY SpendType DEF JournalFailedRollback, Free, Kinds, TypeOK
  <1>4. QED
    BY <1>1, <1>2, <1>3 DEF TypeOK, JournalFailedRollback

\* The transaction that closes a rollback keeps every variable in its type.
LEMMA CommitRollbackType ==
    ASSUME TypeOK, AttemptKnown, NEW self \in Procs, CommitRollback(self)
    PROVE  TypeOK'
  <1>1. proc[self] \in Proc
    BY DEF TypeOK
  <1>2. proc[self].pub \in Pubs
    BY DEF CommitRollback, AttemptKnown, At
  <1>3. [pubs[proc[self].pub] EXCEPT !.status = "rolled_back"] \in Row
    BY <1>2 DEF TypeOK, Row, PubStatus, EntryState
  <1>4. pubs' \in [Pubs -> Row]
    BY <1>2, <1>3, SetRowType DEF CommitRollback, TypeOK
  <1>5. learning[pubs[proc[self].pub].plan.learning] \in LearningStatus
    BY <1>2 DEF TypeOK, Row, Plan
  <1>6. ASSUME NEW s \in LearningStatus
        PROVE  [proc[self] EXCEPT !.pc = "record", !.row = s] \in Proc
    BY <1>1 DEF Proc, Pc
  <1>7. proc' \in [Procs -> Proc] /\ lock' \in Procs \cup {NoProc, DeadProc}
    BY <1>5, <1>6, BecomeType, ReturnType DEF CommitRollback, TypeOK, LearningStatus
  <1>8. learning' \in [Learnings -> LearningStatus]
    BY <1>5 DEF CommitRollback, TypeOK, LearningStatus
  <1>9. used' \in [Kinds -> Nat] /\ \A k \in Kinds : used'[k] <= Budget[k]
    BY SpendType DEF CommitRollback, Free, Kinds, TypeOK
  <1>10. QED
    BY <1>1, <1>2, <1>3, <1>4, <1>5, <1>6, <1>7, <1>8, <1>9 DEF TypeOK, CommitRollback

\* ReconcilePublished looking for its row keeps every variable in its type.
LEMMA ReconcilePublishedType ==
    ASSUME TypeOK, AttemptKnown, NEW self \in Procs, ReconcilePublished(self)
    PROVE  TypeOK'
  <1>1. proc[self] \in Proc
    BY DEF TypeOK
  <1>2. ASSUME NEW p \in Pubs
        PROVE  [proc[self] EXCEPT !.pc = "record", !.pub = p] \in Proc
    BY <1>1 DEF Proc, Pc
  <1>3. proc' \in [Procs -> Proc] /\ lock' \in Procs \cup {NoProc, DeadProc}
    BY <1>2, BecomeType, ReturnType DEF ReconcilePublished, Pc, TypeOK
  <1>4. QED
    BY <1>1, <1>2, <1>3 DEF TypeOK, ReconcilePublished

\* The crash of an invocation keeps every variable in its type.
LEMMA CrashType ==
    ASSUME TypeOK, AttemptKnown, NEW self \in Procs, Crash(self)
    PROVE  TypeOK'
  <1>1. proc' \in [Procs -> Proc] /\ lock' \in Procs \cup {NoProc, DeadProc}
    BY IdleType, BecomeType DEF Crash, TypeOK
  <1>2. used' \in [Kinds -> Nat] /\ \A k \in Kinds : used'[k] <= Budget[k]
    BY SpendType DEF Crash, Free, Kinds, TypeOK
  <1>3. QED
    BY <1>1, <1>2 DEF TypeOK, Crash

\* What a preview sees of the tree is content.
LEMMA SeenType ==
    ASSUME TypeOK, NEW l \in Learnings
    PROVE  Seen(l) \in [Files -> Content]
  BY DEF TypeOK, Seen, Content

\* Preview, when nothing changes the tree meanwhile keeps every variable in
\* its type.
LEMMA PreviewType ==
    ASSUME TypeOK, NEW l \in Learnings, Preview(l)
    PROVE  TypeOK'
  <1>1. [learning |-> l, prior |-> Seen(l), base |-> Seen(l)] \in Plan
    BY SeenType DEF Plan
  <1>2. QED
    BY <1>1 DEF TypeOK, Preview

\* A preview that reads the tree in pieces keeps every variable in its type.
LEMMA TornPreviewType ==
    ASSUME TypeOK, NEW self \in Procs, TornPreviewStep(self)
    PROVE  TypeOK'
  <1>1. ASSUME NEW l \in Learnings, PreviewBuild(self, l)
        PROVE  TypeOK'
    <2>1. [learning |-> l, prior |-> Seen(l), base |-> Seen(l)] \in Plan
      BY SeenType DEF Plan
    <2>2. [Idle EXCEPT !.pc = "built",
               !.plan = [learning |-> l, prior |-> Seen(l), base |-> Seen(l)]] \in Proc
      BY <2>1, IdleType DEF Proc, Pc
    <2>3. QED
      BY <1>1, <2>2, BecomeType DEF PreviewBuild, TypeOK
  <1>2. ASSUME PreviewSnapshot(self)
        PROVE  TypeOK'
    <2>1. proc[self] \in Proc /\ Seen(proc[self].plan.learning) \in [Files -> Content]
      BY SeenType DEF TypeOK, Proc, Plan
    <2>2. [proc[self] EXCEPT !.pc = "snapped",
               !.plan.prior = Seen(proc[self].plan.learning)] \in Proc
      BY <2>1 DEF Proc, Plan, Pc
    <2>3. QED
      BY <1>2, <2>2, BecomeType DEF PreviewSnapshot, TypeOK
  <1>3. ASSUME PreviewCompose(self)
        PROVE  TypeOK'
    <2>1. proc[self].plan \in Plan
      BY DEF TypeOK, Proc
    <2>2. ASSUME NEW again
          PROVE  [proc[self].plan EXCEPT !.base =
                    [f \in Files |-> IF f \in again THEN disk[f] ELSE @[f]]] \in Plan
      BY <2>1 DEF Plan, TypeOK
    <2>3. previews' \subseteq Plan
      BY <1>3, <2>2 DEF PreviewCompose, TypeOK
    <2>4. proc' \in [Procs -> Proc]
      BY <1>3, IdleType, BecomeType DEF PreviewCompose
    <2>5. QED
      BY <1>3, <2>3, <2>4 DEF PreviewCompose, TypeOK
  <1>4. QED
    BY <1>1, <1>2, <1>3 DEF TornPreviewStep

\* The rejection of a learning keeps every variable in its type.
LEMMA RejectType ==
    ASSUME TypeOK, NEW l \in Learnings, Reject(l)
    PROVE  TypeOK'
  <1>1. used' \in [Kinds -> Nat] /\ \A k \in Kinds : used'[k] <= Budget[k]
    BY SpendType DEF Reject, Kinds
  <1>2. QED
    BY <1>1 DEF TypeOK, Reject, LearningStatus

\* An edit that takes no lock keeps every variable in its type.
LEMMA EditType ==
    ASSUME TypeOK, NEW f \in Files, Edit(f)
    PROVE  TypeOK'
  <1>1. used' \in [Kinds -> Nat] /\ \A k \in Kinds : used'[k] <= Budget[k]
    BY SpendType DEF Edit, Kinds
  <1>2. disk' \in [Files -> Content]
    BY DEF Edit, TypeOK, Content
  <1>3. QED
    BY <1>1, <1>2 DEF TypeOK, Edit

\* Any step an invocation takes on its own keeps every variable in its type.
LEMMA StepType ==
    ASSUME TypeOK, AttemptKnown, NEW self \in Procs, Step(self)
    PROVE  TypeOK'
  BY AcquireType, ValidateHashesType, InsertAttemptType, InsertFailsType, CompensationAbortsType,
     JournalAttemptType, InspectTargetType, PlaceTargetType, SaveProgressType,
     RestoreInspectType, RestorePlaceType, SaveRestoreType, VerifyTargetsType,
     CommitPublicationType, MaterializeType, TerminalJournalType,
     SaveCompensationType, JournalCompensationType, RollbackLoadType,
     FailRollbackType, JournalFailedRollbackType, CommitRollbackType,
     ReconcilePublishedType
  DEF Step

\* Every step of the specification keeps every variable in its type.
LEMMA NextType ==
    ASSUME TypeOK, AttemptKnown, [Next]_vars
    PROVE  TypeOK'
  <1>1. ASSUME NEW l \in Learnings, Preview(l) \/ Reject(l)
        PROVE  TypeOK'
    BY <1>1, PreviewType, RejectType
  <1>2. ASSUME NEW self \in Procs, NEW plan \in previews, PublishRead(self, plan)
        PROVE  TypeOK'
    BY <1>2, PublishReadType
  <1>3. ASSUME NEW self \in Procs, NEW p \in Pubs, RollbackAcquire(self, p)
        PROVE  TypeOK'
    BY <1>3, RollbackAcquireType
  <1>4. ASSUME NEW self \in Procs, Step(self) \/ Crash(self)
        PROVE  TypeOK'
    BY <1>4, StepType, CrashType
  <1>5. CASE RemoveStaleLock
    BY <1>5 DEF RemoveStaleLock, TypeOK
  <1>6. ASSUME NEW f \in Files, Edit(f)
        PROVE  TypeOK'
    BY <1>6, EditType
  <1>7. CASE UNCHANGED vars
    BY <1>7 DEF TypeOK, vars
  <1>8. ASSUME NEW self \in Procs, TornPreviewStep(self)
        PROVE  TypeOK'
    BY <1>8, TornPreviewType
  <1>9. QED
    BY <1>1, <1>2, <1>3, <1>4, <1>5, <1>6, <1>7, <1>8 DEF Next

-----------------------------------------------------------------------------
(* What a step of one invocation leaves alone *)

Outside == {"idle", "built", "snapped", "checked"}
Stays == Pc \ (Outside \cup {"locked", "validated", "find"})

Others(self) == \A q \in Procs \ {self} : proc'[q] = proc[q]

RowsKept == \A p \in Pubs :
    /\ pubs'[p].plan = pubs[p].plan
    /\ pubs'[p].orig = pubs[p].orig
    /\ pubs'[p].status = "none" <=> pubs[p].status = "none"

\* The invocation goes on with its publication and keeps the lock.
Continues(self) ==
    /\ proc[self].pc \in Stays /\ proc'[self].pc \in Stays
    /\ proc'[self].pub = proc[self].pub /\ proc'[self].plan = proc[self].plan
    /\ lock' = lock
    /\ Others(self) /\ RowsKept

\* The invocation returns or is lost; a lock that is not its own is untouched.
Leaves(self) ==
    /\ proc'[self] = Idle
    /\ lock # self => lock' = lock
    /\ UNCHANGED disk
    /\ Others(self) /\ RowsKept

\* A step that returns and keeps the rows leaves.
LEMMA ReturnLeaves ==
    ASSUME TypeOK, NEW self \in Procs, Return(self), UNCHANGED disk, RowsKept
    PROVE  Leaves(self)
  BY DEF Leaves, Others, Return, Become, TypeOK

\* Writing progress, outcome or status into a row changes no plan, no original
\* and inserts nothing.
LEMMA SetRowKeeps ==
    ASSUME TypeOK, NEW p \in Pubs, NEW r, SetRow(p, r), r.plan = pubs[p].plan,
           r.orig = pubs[p].orig, r.status # "none", pubs[p].status # "none"
    PROVE  RowsKept
  BY DEF SetRow, RowsKept, TypeOK

\* A step that only moves the invocation on, with its publication, continues it.
LEMMA BecomeContinues ==
    ASSUME TypeOK, NEW self \in Procs, NEW state, Become(self, state),
           proc[self].pc \in Stays, state.pc \in Stays,
           state.pub = proc[self].pub, state.plan = proc[self].plan,
           lock' = lock, RowsKept
    PROVE  Continues(self)
  BY DEF Continues, Others, Become, TypeOK

\* So does one that only changes its point of control.
LEMMA GotoContinues ==
    ASSUME TypeOK, NEW self \in Procs, NEW pc \in Stays, Goto(self, pc),
           proc[self].pc \in Stays, lock' = lock, RowsKept
    PROVE  Continues(self) /\ proc'[self].pc = pc
  BY DEF Continues, Others, Goto, TypeOK, Proc

\* Starting the compensation continues the same publication.
LEMMA CompensateContinues ==
    ASSUME TypeOK, NEW self \in Procs, Compensate(self),
           proc[self].pc \in Stays, lock' = lock, RowsKept
    PROVE  Continues(self) /\ proc'[self].pc = "undo"
  <1>1. proc[self] \in Proc
    BY DEF TypeOK
  <1>2. Continues(self)
    BY <1>1, BecomeContinues DEF Compensate, Stays, Outside, Pc, Proc
  <1>3. QED
    BY <1>1, <1>2 DEF Compensate, Become, TypeOK, Proc

\* Going on after one restored target continues the same publication.
LEMMA AfterRestoreContinues ==
    ASSUME TypeOK, NEW self \in Procs, NEW f, NEW ok \in BOOLEAN,
           AfterRestore(self, f, ok), proc[self].pc \in Stays, lock' = lock, RowsKept
    PROVE  Continues(self) /\ proc'[self].pc # "commit"
  <1>1. proc[self] \in Proc
    BY DEF TypeOK
  <1>2. Continues(self)
    BY <1>1, BecomeContinues DEF AfterRestore, Stays, Outside, Pc, Proc
  <1>3. ASSUME NEW state, Become(self, state), state.pc # "commit"
        PROVE  proc'[self].pc # "commit"
    BY <1>3 DEF Become, TypeOK
  <1>4. proc'[self].pc # "commit"
    <2>1. CASE proc[self].op = "publish"
      <3> DEFINE bad == IF ok THEN proc[self].bad ELSE proc[self].bad \cup {f}
                 rest == proc[self].todo \ {f}
                 state == [proc[self] EXCEPT !.bad = bad, !.todo = rest,
                             !.pc = IF rest = {} THEN "undo_save" ELSE "undo"]
      <3>1. Become(self, state)
        BY <2>1 DEF AfterRestore
      <3>2. state.pc # "commit"
        BY <1>1 DEF Proc
      <3> HIDE DEF state
      <3> QED
        BY <3>1, <3>2, <1>3
    <2>2. CASE proc[self].op # "publish"
      <3> DEFINE bad == IF ok THEN proc[self].bad ELSE proc[self].bad \cup {f}
                 state == [proc[self] EXCEPT !.bad = bad, !.pc = "restore_save"]
      <3>1. Become(self, state)
        BY <2>2 DEF AfterRestore
      <3>2. state.pc # "commit"
        BY <1>1 DEF Proc
      <3> HIDE DEF state
      <3> QED
        BY <3>1, <3>2, <1>3
    <2>3. QED
      BY <2>1, <2>2
  <1>5. QED
    BY <1>2, <1>4

\* The step that brings an invocation to its commit is the verification.
Verified(self) ==
    /\ UNCHANGED disk
    /\ \A f \in Targets(proc[self].pub) : disk[f] = Post(proc[self].pub, f)

GoesOn(self) == Continues(self) /\ (proc'[self].pc = "commit" => Verified(self))

\* A step that continues and does not jump to the commit unverified goes on.
LEMMA BecomeGoesOn ==
    ASSUME TypeOK, NEW self \in Procs, NEW state, Become(self, state),
           proc[self].pc \in Stays, state.pc \in Stays \ {"commit"},
           state.pub = proc[self].pub, state.plan = proc[self].plan,
           lock' = lock, RowsKept
    PROVE  GoesOn(self)
  <1>1. Continues(self)
    BY BecomeContinues
  <1>2. proc'[self].pc # "commit"
    BY DEF Become, TypeOK
  <1>3. QED
    BY <1>1, <1>2 DEF GoesOn

\* The same for a step that only changes the point of control.
LEMMA GotoGoesOn ==
    ASSUME TypeOK, NEW self \in Procs, NEW pc \in Stays \ {"commit"}, Goto(self, pc),
           proc[self].pc \in Stays, lock' = lock, RowsKept
    PROVE  GoesOn(self)
  BY GotoContinues DEF GoesOn

\* A snapshot, backup or insertion that fails goes on with a known
\* publication, or leaves.
LEMMA InsertFailsShape ==
    ASSUME TypeOK, AttemptKnown, NEW self \in Procs, InsertFails(self)
    PROVE  Leaves(self)
  <1>1. RowsKept
    BY DEF InsertFails, RowsKept
  <1>2. QED
    BY <1>1, ReturnLeaves DEF InsertFails

\* A compensation that cannot read its row goes on with a known publication,
\* or leaves.
LEMMA CompensationAbortsShape ==
    ASSUME TypeOK, AttemptKnown, NEW self \in Procs, CompensationAborts(self)
    PROVE  Leaves(self)
  <1>1. RowsKept
    BY DEF CompensationAborts, RowsKept
  <1>2. QED
    BY <1>1, ReturnLeaves DEF CompensationAborts

\* The journal line before the first write goes on with a known publication,
\* or leaves.
LEMMA JournalAttemptShape ==
    ASSUME TypeOK, AttemptKnown, NEW self \in Procs, JournalAttempt(self)
    PROVE  GoesOn(self) \/ Leaves(self)
  <1>1. proc[self] \in Proc
    BY DEF TypeOK
  <1>2. proc[self].pc \in Stays /\ proc[self].pub \in Pubs
    BY DEF JournalAttempt, At, Stays, Outside, Pc, AttemptKnown
  <1>3. RowsKept
    BY DEF JournalAttempt, RowsKept
  <1>4. ASSUME Become(self, [proc[self] EXCEPT !.pc = "inspect", !.todo = Targets(proc[self].pub)]), lock' = lock
        PROVE GoesOn(self)
    BY <1>1, <1>2, <1>3, <1>4, BecomeGoesOn DEF Stays, Outside, Pc, Proc
  <1>5. QED
    BY <1>3, <1>4, ReturnLeaves DEF JournalAttempt

\* The comparison of WriteFileCAS goes on with a known publication, or leaves.
LEMMA InspectTargetShape ==
    ASSUME TypeOK, AttemptKnown, NEW self \in Procs, NEW f \in Files, InspectTarget(self, f)
    PROVE  GoesOn(self)
  <1>1. proc[self] \in Proc
    BY DEF TypeOK
  <1>2. proc[self].pc \in Stays /\ proc[self].pub \in Pubs
    BY DEF InspectTarget, At, Stays, Outside, Pc, AttemptKnown
  <1>3. RowsKept
    BY DEF InspectTarget, RowsKept
  <1>4. QED
    BY <1>2, <1>3, GotoContinues, CompensateContinues DEF InspectTarget, GoesOn, Stays, Outside, Pc

\* The placement of WriteFileCAS goes on with a known publication, or leaves.
LEMMA PlaceTargetShape ==
    ASSUME TypeOK, AttemptKnown, NEW self \in Procs, NEW f \in Files, PlaceTarget(self, f)
    PROVE  GoesOn(self)
  <1>1. proc[self] \in Proc
    BY DEF TypeOK
  <1>2. proc[self].pc \in Stays /\ proc[self].pub \in Pubs
    BY DEF PlaceTarget, At, Stays, Outside, Pc, AttemptKnown
  <1>3. RowsKept
    BY DEF PlaceTarget, RowsKept
  <1>4. QED
    BY <1>2, <1>3, GotoContinues, CompensateContinues DEF PlaceTarget, GoesOn, Stays, Outside, Pc

\* The persisted progress of the write loop goes on with a known publication,
\* or leaves.
LEMMA SaveProgressShape ==
    ASSUME TypeOK, AttemptKnown, NEW self \in Procs, NEW f \in Files, SaveProgress(self, f)
    PROVE  GoesOn(self)
  <1>1. proc[self] \in Proc
    BY DEF TypeOK
  <1>2. proc[self].pc \in Stays /\ proc[self].pub \in Pubs
    BY DEF SaveProgress, At, Stays, Outside, Pc, AttemptKnown
  <1>3. pubs[proc[self].pub] \in Row /\ pubs[proc[self].pub].status # "none"
    BY <1>2 DEF TypeOK, AttemptKnown, SaveProgress, At
  <1>4. UNCHANGED pubs => RowsKept
    BY DEF RowsKept
  <1>5. RowsKept
    BY <1>2, <1>3, <1>4, SetRowKeeps DEF SaveProgress, Row
  <1>6. ASSUME Become(self, [proc[self] EXCEPT !.todo = proc[self].todo \ {f},
                       !.pc = IF proc[self].todo \ {f} = {} THEN "verify" ELSE "inspect"]), lock' = lock
        PROVE GoesOn(self)
    BY <1>1, <1>2, <1>5, <1>6, BecomeGoesOn DEF Stays, Outside, Pc, Proc
  <1>7. QED
    BY <1>2, <1>5, <1>6, CompensateContinues DEF SaveProgress, GoesOn

\* VerifyTargets goes on with a known publication, or leaves.
LEMMA VerifyTargetsShape ==
    ASSUME TypeOK, AttemptKnown, NEW self \in Procs, VerifyTargets(self)
    PROVE  GoesOn(self)
  <1>1. proc[self] \in Proc
    BY DEF TypeOK
  <1>2. proc[self].pc \in Stays /\ proc[self].pub \in Pubs
    BY DEF VerifyTargets, At, Stays, Outside, Pc, AttemptKnown
  <1>3. RowsKept
    BY DEF VerifyTargets, RowsKept
  <1>4. QED
    BY <1>2, <1>3, GotoContinues, CompensateContinues DEF VerifyTargets, GoesOn, Stays, Outside, Pc, Verified

\* The transaction that completes a publication goes on with a known
\* publication, or leaves.
LEMMA CommitPublicationShape ==
    ASSUME TypeOK, AttemptKnown, NEW self \in Procs, CommitPublication(self)
    PROVE  GoesOn(self)
  <1>1. proc[self] \in Proc
    BY DEF TypeOK
  <1>2. proc[self].pc \in Stays /\ proc[self].pub \in Pubs
    BY DEF CommitPublication, At, Stays, Outside, Pc, AttemptKnown
  <1>3. pubs[proc[self].pub] \in Row /\ pubs[proc[self].pub].status # "none"
    BY <1>2 DEF TypeOK, AttemptKnown, CommitPublication, At
  <1>4. UNCHANGED pubs => RowsKept
    BY DEF RowsKept
  <1>5. RowsKept
    BY <1>2, <1>3, <1>4, SetRowKeeps DEF CommitPublication, Row
  <1>6. ASSUME Become(self, [proc[self] EXCEPT !.pc = "record", !.row = "published"]), lock' = lock
        PROVE GoesOn(self)
    BY <1>1, <1>2, <1>5, <1>6, BecomeGoesOn DEF Stays, Outside, Pc, Proc
  <1>7. QED
    BY <1>2, <1>5, <1>6, CompensateContinues DEF CommitPublication, GoesOn

\* The writing of the Markdown record goes on with a known publication, or
\* leaves.
LEMMA MaterializeShape ==
    ASSUME TypeOK, AttemptKnown, NEW self \in Procs, Materialize(self)
    PROVE  GoesOn(self)
  <1>1. proc[self] \in Proc
    BY DEF TypeOK
  <1>2. proc[self].pc \in Stays /\ proc[self].pub \in Pubs
    BY DEF Materialize, At, Stays, Outside, Pc, AttemptKnown
  <1>3. RowsKept
    BY DEF Materialize, RowsKept
  <1>4. ASSUME Become(self, [proc[self] EXCEPT !.pc = "journal", !.recordOk = FALSE]), lock' = lock
        PROVE GoesOn(self)
    BY <1>1, <1>2, <1>3, <1>4, BecomeGoesOn DEF Stays, Outside, Pc, Proc
  <1>5. QED
    BY <1>2, <1>3, <1>4, GotoContinues DEF Materialize, GoesOn, Stays, Outside, Pc

\* The terminal journal line goes on with a known publication, or leaves.
LEMMA TerminalJournalShape ==
    ASSUME TypeOK, AttemptKnown, NEW self \in Procs, TerminalJournal(self)
    PROVE  Leaves(self)
  <1>1. RowsKept
    BY DEF TerminalJournal, RowsKept
  <1>2. QED
    BY <1>1, ReturnLeaves DEF TerminalJournal

\* The journal line of a compensation goes on with a known publication, or
\* leaves.
LEMMA JournalCompensationShape ==
    ASSUME TypeOK, AttemptKnown, NEW self \in Procs, JournalCompensation(self)
    PROVE  Leaves(self)
  <1>1. RowsKept
    BY DEF JournalCompensation, RowsKept
  <1>2. QED
    BY <1>1, ReturnLeaves DEF JournalCompensation

\* The journal line of a failed rollback goes on with a known publication, or
\* leaves.
LEMMA JournalFailedRollbackShape ==
    ASSUME TypeOK, AttemptKnown, NEW self \in Procs, JournalFailedRollback(self)
    PROVE  Leaves(self)
  <1>1. RowsKept
    BY DEF JournalFailedRollback, RowsKept
  <1>2. QED
    BY <1>1, ReturnLeaves DEF JournalFailedRollback

\* The comparison of RestoreFile goes on with a known publication, or leaves.
LEMMA RestoreInspectShape ==
    ASSUME TypeOK, AttemptKnown, NEW self \in Procs, NEW f \in Files, RestoreInspect(self, f)
    PROVE  GoesOn(self)
  <1>1. proc[self] \in Proc
    BY DEF TypeOK
  <1>2. proc[self].pc \in Stays /\ proc[self].pub \in Pubs
    BY DEF RestoreInspect, At, Stays, Outside, Pc, AttemptKnown
  <1>3. RowsKept
    BY DEF RestoreInspect, RowsKept
  <1>4. (IF At(self, "undo") THEN "undo_place" ELSE "restore_place") \in Stays \ {"commit"}
    BY DEF Stays, Outside, Pc
  <1>5. QED
    BY <1>2, <1>3, <1>4, GotoGoesOn, AfterRestoreContinues DEF RestoreInspect, GoesOn

\* The placement of RestoreFile goes on with a known publication, or leaves.
LEMMA RestorePlaceShape ==
    ASSUME TypeOK, AttemptKnown, NEW self \in Procs, NEW f \in Files, RestorePlace(self, f)
    PROVE  GoesOn(self)
  <1>1. proc[self] \in Proc
    BY DEF TypeOK
  <1>2. proc[self].pc \in Stays /\ proc[self].pub \in Pubs
    BY DEF RestorePlace, At, Stays, Outside, Pc, AttemptKnown
  <1>3. RowsKept
    BY DEF RestorePlace, RowsKept
  <1>4. QED
    BY <1>2, <1>3, AfterRestoreContinues DEF RestorePlace, GoesOn, Stays, Outside, Pc

\* The transaction that closes a compensation goes on with a known
\* publication, or leaves.
LEMMA SaveCompensationShape ==
    ASSUME TypeOK, AttemptKnown, NEW self \in Procs, SaveCompensation(self)
    PROVE  GoesOn(self) \/ Leaves(self)
  <1>1. proc[self] \in Proc
    BY DEF TypeOK
  <1>2. proc[self].pc \in Stays /\ proc[self].pub \in Pubs
    BY DEF SaveCompensation, At, Stays, Outside, Pc, AttemptKnown
  <1>3. pubs[proc[self].pub] \in Row /\ pubs[proc[self].pub].status # "none"
    BY <1>2 DEF TypeOK, AttemptKnown, SaveCompensation, At
  <1>4. UNCHANGED pubs => RowsKept
    BY DEF RowsKept
  <1>5. ASSUME NEW e, SetRow(proc[self].pub, [pubs[proc[self].pub] EXCEPT !.status = "failed", !.entry = e])
        PROVE  RowsKept
    BY <1>2, <1>3, <1>5 DEF SetRow, RowsKept, TypeOK, Row
  <1>6. RowsKept
    BY <1>4, <1>5 DEF SaveCompensation
  <1>7. QED
    BY <1>2, <1>6, GotoContinues, ReturnLeaves DEF SaveCompensation, GoesOn, Stays, Outside, Pc

\* The decision of Rollback on its row goes on with a known publication, or
\* leaves.
LEMMA RollbackLoadShape ==
    ASSUME TypeOK, AttemptKnown, NEW self \in Procs, RollbackLoad(self)
    PROVE  GoesOn(self) \/ Leaves(self)
  <1>1. proc[self] \in Proc
    BY DEF TypeOK
  <1>2. proc[self].pc \in Stays /\ proc[self].pub \in Pubs
    BY DEF RollbackLoad, At, Stays, Outside, Pc, AttemptKnown
  <1>3. RowsKept
    BY DEF RollbackLoad, RowsKept
  <1>4. ASSUME NEW state, Become(self, state), state.pc \in Stays \ {"commit"}, lock' = lock,
               state.pub = proc[self].pub, state.plan = proc[self].plan
        PROVE GoesOn(self)
    BY <1>2, <1>3, <1>4, BecomeGoesOn
  <1>5. QED
    BY <1>1, <1>3, <1>4, ReturnLeaves DEF RollbackLoad, Stays, Outside, Pc, Proc

\* The persisted progress of a rollback goes on with a known publication, or
\* leaves.
LEMMA SaveRestoreShape ==
    ASSUME TypeOK, AttemptKnown, NEW self \in Procs, NEW f \in Files, SaveRestore(self, f)
    PROVE  GoesOn(self) \/ Leaves(self)
  <1>1. proc[self] \in Proc
    BY DEF TypeOK
  <1>2. proc[self].pc \in Stays /\ proc[self].pub \in Pubs
    BY DEF SaveRestore, At, Stays, Outside, Pc, AttemptKnown
  <1>3. pubs[proc[self].pub] \in Row /\ pubs[proc[self].pub].status # "none"
    BY <1>2 DEF TypeOK, AttemptKnown, SaveRestore, At
  <1>4. UNCHANGED pubs => RowsKept
    BY DEF RowsKept
  <1>5. RowsKept
    BY <1>2, <1>3, <1>4, SetRowKeeps DEF SaveRestore, Row
  <1>6. ASSUME Become(self, [proc[self] EXCEPT !.todo = proc[self].todo \ {f},
                       !.pc = IF proc[self].todo \ {f} = {} THEN "restored" ELSE "restore"]), lock' = lock
        PROVE GoesOn(self)
    BY <1>1, <1>2, <1>5, <1>6, BecomeGoesOn DEF Stays, Outside, Pc, Proc
  <1>7. QED
    BY <1>5, <1>6, ReturnLeaves DEF SaveRestore

\* The transaction of a rollback with a conflict goes on with a known
\* publication, or leaves.
LEMMA FailRollbackShape ==
    ASSUME TypeOK, AttemptKnown, NEW self \in Procs, FailRollback(self)
    PROVE  GoesOn(self) \/ Leaves(self)
  <1>1. proc[self] \in Proc
    BY DEF TypeOK
  <1>2. proc[self].pc \in Stays /\ proc[self].pub \in Pubs
    BY DEF FailRollback, At, Stays, Outside, Pc, AttemptKnown
  <1>3. pubs[proc[self].pub] \in Row /\ pubs[proc[self].pub].status # "none"
    BY <1>2 DEF TypeOK, AttemptKnown, FailRollback, At
  <1>4. UNCHANGED pubs => RowsKept
    BY DEF RowsKept
  <1>5. RowsKept
    BY <1>2, <1>3, <1>4, SetRowKeeps DEF FailRollback, Row
  <1>6. QED
    BY <1>2, <1>5, GotoContinues, ReturnLeaves DEF FailRollback, GoesOn, Stays, Outside, Pc

\* The transaction that closes a rollback goes on with a known publication, or
\* leaves.
LEMMA CommitRollbackShape ==
    ASSUME TypeOK, AttemptKnown, NEW self \in Procs, CommitRollback(self)
    PROVE  GoesOn(self) \/ Leaves(self)
  <1>1. proc[self] \in Proc
    BY DEF TypeOK
  <1>2. proc[self].pc \in Stays /\ proc[self].pub \in Pubs
    BY DEF CommitRollback, At, Stays, Outside, Pc, AttemptKnown
  <1>3. pubs[proc[self].pub] \in Row /\ pubs[proc[self].pub].status # "none"
    BY <1>2 DEF TypeOK, AttemptKnown, CommitRollback, At
  <1>4. UNCHANGED pubs => RowsKept
    BY DEF RowsKept
  <1>5. RowsKept
    BY <1>2, <1>3, <1>4, SetRowKeeps DEF CommitRollback, Row
  <1>6. ASSUME NEW w, Become(self, [proc[self] EXCEPT !.pc = "record", !.row = w]), lock' = lock
        PROVE GoesOn(self)
    BY <1>1, <1>2, <1>5, <1>6, BecomeGoesOn DEF Stays, Outside, Pc, Proc
  <1>7. QED
    BY <1>5, <1>6, ReturnLeaves DEF CommitRollback

\* The crash of an invocation goes on with a known publication, or leaves.
LEMMA CrashShape ==
    ASSUME TypeOK, AttemptKnown, NEW self \in Procs, Crash(self)
    PROVE  Leaves(self)
  <1>1. RowsKept
    BY DEF Crash, RowsKept
  <1>2. QED
    BY <1>1 DEF Crash, Leaves, Others, Become, TypeOK

\* Only five actions neither go on with a known publication nor leave.
LEMMA StepShape ==
    ASSUME TypeOK, AttemptKnown, NEW self \in Procs, Step(self)
    PROVE  \/ Acquire(self) \/ ValidateHashes(self) \/ ReconcilePublished(self)
           \/ \E p \in Pubs : InsertAttempt(self, p)
           \/ GoesOn(self) \/ Leaves(self)
  BY InsertFailsShape, CompensationAbortsShape, JournalAttemptShape, InspectTargetShape, PlaceTargetShape,
     SaveProgressShape, VerifyTargetsShape, CommitPublicationShape, MaterializeShape,
     TerminalJournalShape, JournalCompensationShape, JournalFailedRollbackShape,
     RestoreInspectShape, RestorePlaceShape, SaveCompensationShape, RollbackLoadShape,
     SaveRestoreShape, FailRollbackShape, CommitRollbackShape
  DEF Step

-----------------------------------------------------------------------------
(* The inductive invariant.  While a process is between its check of the    *)
(* tree and its snapshots, or between its verification and its commit, the  *)
(* tree is still the one it looked at: only the lock holder writes, and     *)
(* nobody edits.                                                            *)

PlanFits == \A self \in Procs : proc[self].pc = "validated" =>
    \A f \in Dest[proc[self].plan.learning] : disk[f] = proc[self].plan.prior[f]

VerifiedFits == \A self \in Procs : proc[self].pc = "commit" =>
    \A f \in Targets(proc[self].pub) : disk[f] = Post(proc[self].pub, f)

IInv == TypeOK /\ AttemptKnown /\ LockHeldInside

\* The holder going on with its publication keeps its plan and the lock.
LEMMA GoesOnInv ==
    ASSUME IInv, NEW self \in Procs, GoesOn(self)
    PROVE  AttemptKnown' /\ LockHeldInside'
  <1>1. proc[self].pub \in Pubs /\ lock = self /\ lock' = lock
    BY DEF IInv, AttemptKnown, LockHeldInside, GoesOn, Continues, Stays, Outside
  <1>2. AttemptKnown'
    BY <1>1 DEF IInv, AttemptKnown, GoesOn, Continues, Stays, Outside, Others, RowsKept
  <1>3. LockHeldInside'
    BY <1>1 DEF IInv, LockHeldInside, GoesOn, Continues, Stays, Outside, Others
  <1>4. QED
    BY <1>2, <1>3

\* An invocation that returns or crashes disturbs no other.
LEMMA LeavesInv ==
    ASSUME IInv, NEW self \in Procs, Leaves(self)
    PROVE  AttemptKnown' /\ LockHeldInside'
  BY DEF IInv, AttemptKnown, LockHeldInside, Leaves, Others, RowsKept, Idle

\* The lock file is created only when nobody is inside (lock.go, O_EXCL).
LEMMA AcquireInv ==
    ASSUME IInv, NEW self \in Procs, Acquire(self)
    PROVE  AttemptKnown' /\ LockHeldInside'
  <1>1. proc[self] \in Proc
    BY DEF IInv, TypeOK
  <1>2. CASE lock = NoProc
    <2>1. \A q \in Procs : proc[q].pc \in Outside
      BY <1>2, OwnersAssumption DEF IInv, LockHeldInside, Outside
    <2>2. PICK w \in {"locked", "find"} : Goto(self, w) /\ lock' = self
      BY <1>2 DEF Acquire
    <2>3. \A q \in Procs \ {self} : proc'[q] = proc[q]
      BY <2>2 DEF IInv, TypeOK, Goto
    <2>4. proc'[self].pc = w
      BY <1>1, <2>2 DEF IInv, TypeOK, Goto, Proc
    <2>5. QED
      BY <2>1, <2>2, <2>3, <2>4 DEF AttemptKnown, LockHeldInside, Outside
  <1>3. CASE lock # NoProc
    <2>1. Return(self) /\ UNCHANGED disk /\ UNCHANGED pubs
      BY <1>3 DEF Acquire
    <2>2. QED
      BY <2>1, ReturnLeaves, LeavesInv DEF IInv, RowsKept
  <1>4. QED
    BY <1>2, <1>3

\* Validation keeps the lock or returns it.
LEMMA ValidateHashesInv ==
    ASSUME IInv, NEW self \in Procs, ValidateHashes(self)
    PROVE  AttemptKnown' /\ LockHeldInside'
  <1>1. proc[self] \in Proc
    BY DEF IInv, TypeOK
  <1>2. CASE Goto(self, "validated") /\ UNCHANGED lock
    BY <1>1, <1>2 DEF IInv, TypeOK, AttemptKnown, LockHeldInside, ValidateHashes, At, Goto, Proc
  <1>3. CASE Return(self)
    BY <1>1, <1>3 DEF IInv, TypeOK, AttemptKnown, LockHeldInside, ValidateHashes, At, Return, Become, Idle
  <1>4. QED
    BY <1>2, <1>3 DEF ValidateHashes

\* A reconciliation adopts an existing row that carries its own plan.
LEMMA ReconcilePublishedInv ==
    ASSUME IInv, NEW self \in Procs, ReconcilePublished(self)
    PROVE  AttemptKnown' /\ LockHeldInside'
  <1>1. proc[self] \in Proc
    BY DEF IInv, TypeOK
  <1>2. ASSUME NEW p \in Pubs, pubs[p].status = "completed", pubs[p].plan = proc[self].plan,
               Become(self, [proc[self] EXCEPT !.pc = "record", !.pub = p]), UNCHANGED lock
        PROVE  AttemptKnown' /\ LockHeldInside'
    BY <1>1, <1>2 DEF IInv, TypeOK, AttemptKnown, LockHeldInside, ReconcilePublished, At, Become, Proc
  <1>3. CASE Return(self)
    BY <1>1, <1>3 DEF IInv, TypeOK, AttemptKnown, LockHeldInside, ReconcilePublished, At, Return, Become, Idle
  <1>4. QED
    BY <1>2, <1>3 DEF ReconcilePublished

\* The inserted row carries the plan of its invocation.
LEMMA InsertAttemptInv ==
    ASSUME IInv, NEW self \in Procs, NEW p \in Pubs, InsertAttempt(self, p)
    PROVE  AttemptKnown' /\ LockHeldInside'
  <1>1. proc[self] \in Proc /\ proc[self].pc = "validated" /\ lock = self
    BY DEF IInv, TypeOK, InsertAttempt, At, LockHeldInside
  <1>2. proc' = [proc EXCEPT ![self] = [proc[self] EXCEPT !.pc = "inserted", !.pub = p]]
    BY DEF InsertAttempt, Become
  <1>3. LockHeldInside'
    BY <1>1, <1>2 DEF IInv, TypeOK, LockHeldInside, InsertAttempt
  <1>4. /\ \A q \in Pubs \ {p} : pubs'[q] = pubs[q]
        /\ pubs'[p].plan = proc[self].plan /\ pubs'[p].status = "in_progress"
        /\ pubs[p].status = "none"
    BY DEF InsertAttempt, SetRow, IInv, TypeOK
  <1>5. AttemptKnown'
    BY <1>1, <1>2, <1>4 DEF IInv, TypeOK, AttemptKnown, Proc, InsertAttempt
  <1>6. QED
    BY <1>3, <1>5

\* Rollback takes a free lock and an existing row.
LEMMA RollbackAcquireInv ==
    ASSUME IInv, NEW self \in Procs, NEW p \in Pubs, RollbackAcquire(self, p)
    PROVE  AttemptKnown' /\ LockHeldInside'
  <1>1. proc' = [proc EXCEPT ![self] = [Idle EXCEPT !.pc = "load", !.op = "rollback",
                                                    !.pub = p, !.plan = pubs[p].plan]]
        /\ Idle \in Proc
    BY IdleType DEF RollbackAcquire, Become
  <1>2. QED
    BY <1>1, OwnersAssumption DEF IInv, TypeOK, AttemptKnown, LockHeldInside, RollbackAcquire, Proc

\* Reading the learning puts nobody inside the lock.
LEMMA PublishReadInv ==
    ASSUME IInv, NEW self \in Procs, NEW plan, PublishRead(self, plan)
    PROVE  AttemptKnown' /\ LockHeldInside'
  <1>1. /\ \A q \in Procs \ {self} : proc'[q] = proc[q]
        /\ proc'[self].pc = "checked"
    BY IdleType DEF PublishRead, Become, IInv, TypeOK, Proc
  <1>2. QED
    BY <1>1 DEF IInv, AttemptKnown, LockHeldInside, PublishRead

\* A preview in pieces moves one process outside the lock, and nothing else
\* but the set of previews.
LEMMA TornPreviewShape ==
    ASSUME TypeOK, NEW self \in Procs, TornPreviewStep(self)
    PROVE  /\ proc'[self].pc \in Outside /\ Others(self)
           /\ UNCHANGED <<disk, learning, pubs, lock>>
  <1>1. UNCHANGED <<disk, learning, pubs, lock>>
    BY DEF TornPreviewStep, PreviewBuild, PreviewSnapshot, PreviewCompose
  <1>2. proc'[self].pc \in Outside /\ Others(self)
    <2>1. ASSUME NEW l \in Learnings, PreviewBuild(self, l)
          PROVE  proc'[self].pc \in Outside /\ Others(self)
      BY <2>1, IdleType DEF PreviewBuild, Outside, Proc, Become, Others, TypeOK
    <2>2. ASSUME PreviewSnapshot(self)
          PROVE  proc'[self].pc \in Outside /\ Others(self)
      BY <2>2 DEF PreviewSnapshot, Outside, TypeOK, Proc, Become, Others
    <2>3. ASSUME PreviewCompose(self)
          PROVE  proc'[self].pc \in Outside /\ Others(self)
      BY <2>3 DEF PreviewCompose, Outside, Idle, Become, Others, TypeOK
    <2>4. QED
      BY <2>1, <2>2, <2>3 DEF TornPreviewStep
  <1>3. QED
    BY <1>1, <1>2

\* IInv is inductive.
LEMMA NextInv ==
    ASSUME IInv, [Next]_vars
    PROVE  IInv'
  <1>1. TypeOK'
    BY NextType DEF IInv
  <1>2. ASSUME NEW self \in Procs, Step(self)
        PROVE  AttemptKnown' /\ LockHeldInside'
    BY <1>2, StepShape, AcquireInv, ValidateHashesInv, ReconcilePublishedInv,
       InsertAttemptInv, GoesOnInv, LeavesInv DEF IInv
  <1>3. ASSUME NEW self \in Procs, Crash(self)
        PROVE  AttemptKnown' /\ LockHeldInside'
    BY <1>3, CrashShape, LeavesInv DEF IInv
  <1>4. ASSUME NEW self \in Procs, NEW plan \in previews, PublishRead(self, plan)
        PROVE  AttemptKnown' /\ LockHeldInside'
    BY <1>4, PublishReadInv
  <1>5. ASSUME NEW self \in Procs, NEW p \in Pubs, RollbackAcquire(self, p)
        PROVE  AttemptKnown' /\ LockHeldInside'
    BY <1>5, RollbackAcquireInv
  <1>6. ASSUME NEW l \in Learnings, Preview(l) \/ Reject(l)
        PROVE  AttemptKnown' /\ LockHeldInside'
    BY <1>6 DEF IInv, AttemptKnown, LockHeldInside, Preview, Reject
  <1>7. CASE RemoveStaleLock
    BY <1>1, <1>7, OwnersAssumption DEF IInv, AttemptKnown, LockHeldInside, RemoveStaleLock
  <1>8. ASSUME NEW f \in Files, Edit(f)
        PROVE  AttemptKnown' /\ LockHeldInside'
    BY <1>8 DEF IInv, AttemptKnown, LockHeldInside, Edit
  <1>9. CASE UNCHANGED vars
    BY <1>1, <1>9 DEF IInv, AttemptKnown, LockHeldInside, vars
  <1>10. ASSUME NEW self \in Procs, TornPreviewStep(self)
         PROVE  AttemptKnown' /\ LockHeldInside'
    BY <1>10, TornPreviewShape DEF IInv, AttemptKnown, LockHeldInside, Others, Outside
  <1>11. QED
    BY <1>1, <1>2, <1>3, <1>4, <1>5, <1>6, <1>7, <1>8, <1>9, <1>10 DEF Next, IInv

\* IInv holds at first.
LEMMA InitInv == Init => IInv
  <1>1. Init => AttemptKnown /\ LockHeldInside
    BY DEF Init, AttemptKnown, LockHeldInside, Idle
  <1>2. QED
    BY <1>1, InitType DEF IInv

\* Whatever the interleaving of invocations, crashes, faults, edits and
\* rejections, every store keeps its shape.
THEOREM TypeCorrect == Spec => []TypeOK
  <1>1. Spec => []IInv
    BY InitInv, NextInv, PTL DEF Spec
  <1>2. IInv => TypeOK
    BY DEF IInv
  <1>3. QED
    BY <1>1, <1>2, PTL

\* The lock file serializes the engine: whoever is inside owns it, on every
\* path through Publish, the compensation, Rollback and the reconciliations.
THEOREM LockCorrect == Spec => []LockHeldInside
  <1>1. Spec => []IInv
    BY InitInv, NextInv, PTL DEF Spec
  <1>2. IInv => LockHeldInside
    BY DEF IInv
  <1>3. QED
    BY <1>1, <1>2, PTL

\* No step of any other invocation replaces the publication an invocation
\* works on, or the plan of its row (publish_op.go from step 8b on, Rollback).
THEOREM AttemptCorrect == Spec => []AttemptKnown
  <1>1. Spec => []IInv
    BY InitInv, NextInv, PTL DEF Spec
  <1>2. IInv => AttemptKnown
    BY DEF IInv
  <1>3. QED
    BY <1>1, <1>2, PTL

-----------------------------------------------------------------------------
(* The tree between a check and its use, when nobody edits *)

\* Only the holder of the lock, at work on its publication, changes the tree.
LEMMA StepDisk ==
    ASSUME IInv, NEW self \in Procs, Step(self), disk' # disk
    PROVE  GoesOn(self)
  <1>1. PICK f \in Files : PlaceTarget(self, f) \/ RestorePlace(self, f)
    BY DEF Step, Acquire, ValidateHashes, InsertAttempt, InsertFails, CompensationAborts, JournalAttempt,
           InspectTarget, SaveProgress, RestoreInspect, SaveRestore, VerifyTargets,
           CommitPublication, Materialize, TerminalJournal, SaveCompensation,
           JournalCompensation, RollbackLoad, FailRollback, JournalFailedRollback,
           CommitRollback, ReconcilePublished
  <1>2. QED
    BY <1>1, PlaceTargetShape, RestorePlaceShape DEF IInv

FInv == IInv /\ PlanFits /\ VerifiedFits /\ SnapshotIsPrior

\* With no edit in the budget, nobody edits.
LEMMA EditsAreSpent ==
    ASSUME TypeOK, Budget["edit"] = 0, NEW f, Edit(f)
    PROVE  FALSE
  <1>1. used["edit"] \in Nat /\ used["edit"] < 0
    BY DEF Edit, Spend, TypeOK, Kinds
  <1>2. QED
    BY <1>1

\* The holder of the lock may write: nobody else is between a check and its use.
LEMMA GoesOnFits ==
    ASSUME FInv, NEW self \in Procs, GoesOn(self)
    PROVE  PlanFits' /\ VerifiedFits' /\ SnapshotIsPrior'
  <1>1. lock = self /\ proc[self].pub \in Pubs
    BY DEF FInv, IInv, AttemptKnown, LockHeldInside, GoesOn, Continues, Stays, Outside
  <1>2. \A q \in Procs \ {self} : proc'[q].pc \in Outside
    BY <1>1 DEF FInv, IInv, LockHeldInside, GoesOn, Continues, Others, Outside
  <1>3. \A p \in Pubs : \A f : Post(p, f)' = Post(p, f)
    BY DEF GoesOn, Continues, RowsKept, Post
  <1>4. PlanFits'
    BY <1>2 DEF PlanFits, GoesOn, Continues, Stays, Outside
  <1>5. VerifiedFits'
    BY <1>1, <1>2, <1>3 DEF VerifiedFits, GoesOn, Continues, RowsKept, Targets, Verified, Outside
  <1>6. SnapshotIsPrior'
    BY DEF FInv, SnapshotIsPrior, GoesOn, Continues, RowsKept, Targets
  <1>7. QED
    BY <1>4, <1>5, <1>6

\* An invocation that leaves has used or dropped what it checked.
LEMMA LeavesFits ==
    ASSUME FInv, NEW self \in Procs, Leaves(self)
    PROVE  PlanFits' /\ VerifiedFits' /\ SnapshotIsPrior'
  <1>1. \A p \in Pubs : \A f : Post(p, f)' = Post(p, f)
    BY DEF Leaves, RowsKept, Post
  <1>2. PlanFits'
    BY DEF FInv, PlanFits, Leaves, Others, Idle
  <1>3. \A q \in Procs : proc'[q].pc = "commit" => proc'[q] = proc[q] /\ proc[q].pub \in Pubs
    BY DEF Leaves, Others, Idle, FInv, IInv, AttemptKnown
  <1>4. VerifiedFits'
    BY <1>1, <1>3 DEF FInv, VerifiedFits, Leaves, RowsKept, Targets
  <1>5. SnapshotIsPrior'
    BY DEF FInv, SnapshotIsPrior, Leaves, RowsKept, Targets
  <1>6. QED
    BY <1>2, <1>4, <1>5

\* A step that leaves the tree and the rows alone and brings no process to
\* "validated" or to "commit" keeps the three facts.
LEMMA QuietFits ==
    ASSUME FInv, UNCHANGED <<disk, pubs>>,
           \A q \in Procs : proc'[q] = proc[q] \/ proc'[q].pc \notin {"validated", "commit"}
    PROVE  PlanFits' /\ VerifiedFits' /\ SnapshotIsPrior'
  BY DEF FInv, PlanFits, VerifiedFits, SnapshotIsPrior, Targets, Post

\* Validation passes only over the tree of the preview (publish_op.go, step 6).
LEMMA ValidateHashesFits ==
    ASSUME FInv, NEW self \in Procs, ValidateHashes(self)
    PROVE  PlanFits' /\ VerifiedFits' /\ SnapshotIsPrior'
  <1>1. proc[self] \in Proc
    BY DEF FInv, IInv, TypeOK
  <1>2. CASE Return(self)
    BY <1>2, ReturnLeaves, LeavesFits DEF FInv, IInv, ValidateHashes, RowsKept
  <1>3. CASE /\ Goto(self, "validated")
             /\ \A f \in Dest[proc[self].plan.learning] : disk[f] = proc[self].plan.prior[f]
    <2>1. /\ \A q \in Procs \ {self} : proc'[q] = proc[q]
          /\ proc'[self].plan = proc[self].plan /\ proc'[self].pc = "validated"
      BY <1>1, <1>3 DEF Goto, FInv, IInv, TypeOK, Proc
    <2>2. UNCHANGED <<disk, pubs>>
      BY DEF ValidateHashes
    <2>3. PlanFits'
      BY <1>3, <2>1, <2>2 DEF FInv, PlanFits
    <2>4. VerifiedFits' /\ SnapshotIsPrior'
      BY <2>1, <2>2 DEF FInv, VerifiedFits, SnapshotIsPrior, Targets, Post
    <2>5. QED
      BY <2>3, <2>4
  <1>4. QED
    BY <1>2, <1>3 DEF ValidateHashes

\* The snapshots are taken of the tree that was just validated (step 8).
LEMMA InsertAttemptFits ==
    ASSUME FInv, NEW self \in Procs, NEW p \in Pubs, InsertAttempt(self, p)
    PROVE  PlanFits' /\ VerifiedFits' /\ SnapshotIsPrior'
  <1>1. proc[self].pc = "validated" /\ UNCHANGED disk /\ pubs[p].status = "none"
    BY DEF InsertAttempt, At
  <1>2. /\ \A q \in Procs \ {self} : proc'[q] = proc[q]
        /\ proc'[self].pc = "inserted"
    BY DEF InsertAttempt, Become, FInv, IInv, TypeOK, Proc
  <1>3. \A q \in Pubs \ {p} : pubs'[q] = pubs[q]
    BY DEF InsertAttempt, SetRow, FInv, IInv, TypeOK
  <1>4. pubs'[p].plan = proc[self].plan /\ pubs'[p].orig = disk
    BY DEF InsertAttempt, SetRow, FInv, IInv, TypeOK
  <1>5. PlanFits'
    BY <1>1, <1>2 DEF FInv, PlanFits
  <1>6. \A q \in Procs : proc[q].pc = "commit" => proc[q].pub \in Pubs \ {p}
    BY <1>1 DEF FInv, IInv, AttemptKnown
  <1>7. VerifiedFits'
    BY <1>1, <1>2, <1>3, <1>6 DEF FInv, VerifiedFits, Targets, Post
  <1>8. \A f \in Dest[proc[self].plan.learning] : disk[f] = proc[self].plan.prior[f]
    BY <1>1 DEF FInv, PlanFits
  <1>9. SnapshotIsPrior'
    BY <1>3, <1>4, <1>8 DEF FInv, SnapshotIsPrior, Targets
  <1>10. QED
    BY <1>5, <1>7, <1>9

\* FInv is inductive when nobody edits.
LEMMA NextFits ==
    ASSUME Budget["edit"] = 0, FInv, [Next]_vars
    PROVE  FInv'
  <1>1. IInv'
    BY NextInv DEF FInv
  <1>2. ASSUME NEW self \in Procs, Acquire(self)
        PROVE  PlanFits' /\ VerifiedFits' /\ SnapshotIsPrior'
    <2>1. proc[self] \in Proc /\ UNCHANGED <<disk, pubs>>
      BY <1>2 DEF FInv, IInv, TypeOK, Acquire
    <2>2. \A q \in Procs : proc'[q] = proc[q] \/ proc'[q].pc \notin {"validated", "commit"}
      <3>1. ASSUME NEW w \in {"locked", "find"}, Goto(self, w)
            PROVE  \A q \in Procs : proc'[q] = proc[q] \/ proc'[q].pc = w
        BY <2>1, <3>1 DEF FInv, IInv, TypeOK, Goto, Proc
      <3>2. ASSUME Return(self)
            PROVE  \A q \in Procs : proc'[q] = proc[q] \/ proc'[q].pc = "idle"
        BY <3>2 DEF FInv, IInv, TypeOK, Return, Become, Idle
      <3>3. QED
        BY <1>2, <3>1, <3>2 DEF Acquire
    <2>3. QED
      BY <2>1, <2>2, QuietFits
  <1>3. ASSUME NEW self \in Procs, ReconcilePublished(self)
        PROVE  PlanFits' /\ VerifiedFits' /\ SnapshotIsPrior'
    <2>1. proc[self] \in Proc /\ UNCHANGED <<disk, pubs>>
      BY <1>3 DEF FInv, IInv, TypeOK, ReconcilePublished
    <2>2. \A q \in Procs : proc'[q] = proc[q] \/ proc'[q].pc \notin {"validated", "commit"}
      <3>1. ASSUME NEW p \in Pubs, Become(self, [proc[self] EXCEPT !.pc = "record", !.pub = p])
            PROVE  \A q \in Procs : proc'[q] = proc[q] \/ proc'[q].pc = "record"
        BY <2>1, <3>1 DEF FInv, IInv, TypeOK, Become, Proc
      <3>2. ASSUME Return(self)
            PROVE  \A q \in Procs : proc'[q] = proc[q] \/ proc'[q].pc = "idle"
        BY <3>2 DEF FInv, IInv, TypeOK, Return, Become, Idle
      <3>3. QED
        BY <1>3, <3>1, <3>2 DEF ReconcilePublished
    <2>3. QED
      BY <2>1, <2>2, QuietFits
  <1>4. ASSUME NEW self \in Procs, Step(self)
        PROVE  PlanFits' /\ VerifiedFits' /\ SnapshotIsPrior'
    BY <1>2, <1>3, <1>4, StepShape, ValidateHashesFits, InsertAttemptFits, GoesOnFits, LeavesFits
    DEF FInv, IInv
  <1>5. ASSUME NEW self \in Procs, Crash(self)
        PROVE  PlanFits' /\ VerifiedFits' /\ SnapshotIsPrior'
    BY <1>5, CrashShape, LeavesFits DEF FInv, IInv
  <1>6. ASSUME NEW self \in Procs, NEW plan \in previews, PublishRead(self, plan)
        PROVE  PlanFits' /\ VerifiedFits' /\ SnapshotIsPrior'
    <2>1. \A q \in Procs : proc'[q] = proc[q] \/ proc'[q].pc = "checked"
      BY <1>6, IdleType DEF PublishRead, Become, FInv, IInv, TypeOK, Proc
    <2>2. QED
      BY <1>6, <2>1, QuietFits DEF PublishRead
  <1>7. ASSUME NEW self \in Procs, NEW p \in Pubs, RollbackAcquire(self, p)
        PROVE  PlanFits' /\ VerifiedFits' /\ SnapshotIsPrior'
    <2>1. \A q \in Procs : proc'[q] = proc[q] \/ proc'[q].pc = "load"
      BY <1>7, IdleType DEF RollbackAcquire, Become, FInv, IInv, TypeOK, Proc
    <2>2. QED
      BY <1>7, <2>1, QuietFits DEF RollbackAcquire
  <1>8. ASSUME NEW l \in Learnings, Preview(l) \/ Reject(l)
        PROVE  PlanFits' /\ VerifiedFits' /\ SnapshotIsPrior'
    BY <1>8, QuietFits DEF Preview, Reject
  <1>9. CASE RemoveStaleLock
    BY <1>1, <1>9, QuietFits DEF RemoveStaleLock, FInv
  <1>10. ASSUME NEW f \in Files, Edit(f)
         PROVE  FALSE
    BY <1>10, EditsAreSpent DEF FInv, IInv
  <1>11. CASE UNCHANGED vars
    BY <1>1, <1>11, QuietFits DEF vars, FInv
  <1>12. ASSUME NEW self \in Procs, TornPreviewStep(self)
         PROVE  PlanFits' /\ VerifiedFits' /\ SnapshotIsPrior'
    <2>1. \A q \in Procs : proc'[q] = proc[q] \/ proc'[q].pc \notin {"validated", "commit"}
      BY <1>12, TornPreviewShape DEF FInv, IInv, Others, Outside
    <2>2. QED
      BY <1>12, <2>1, TornPreviewShape, QuietFits DEF FInv, IInv
  <1>13. QED
    BY <1>1, <1>4, <1>5, <1>6, <1>7, <1>8, <1>9, <1>10, <1>11, <1>12 DEF Next, FInv

\* FInv holds at first.
LEMMA InitFits == Init => FInv
  <1>1. Init => PlanFits /\ VerifiedFits /\ SnapshotIsPrior
    BY DEF Init, PlanFits, VerifiedFits, SnapshotIsPrior, Idle, NoRow
  <1>2. QED
    BY <1>1, InitInv DEF FInv

\* Unless somebody edits, what a rollback would restore is what the approver
\* of the preview saw, however many invocations, faults and crashes there are.
THEOREM SnapshotCorrect == ASSUME Budget["edit"] = 0 PROVE Spec => []SnapshotIsPrior
  <1>1. FInv /\ [Next]_vars => FInv'
    BY NextFits
  <1>2. FInv => SnapshotIsPrior
    BY DEF FInv
  <1>3. QED
    BY InitFits, <1>1, <1>2, PTL DEF Spec

-----------------------------------------------------------------------------
(* What the terminal status of a row and of a learning rest on *)

\* The rows other than its own are out of an invocation's reach, and only the
\* commit of Publish completes one.
LEMMA CompletedByCommit ==
    ASSUME TypeOK, AttemptKnown, NEW self \in Procs, Step(self), NEW p \in Pubs,
           pubs[p].status # "completed", pubs'[p].status = "completed"
    PROVE  CommitPublication(self) /\ p = proc[self].pub
  <1>1. pubs' # pubs
    OBVIOUS
  <1>2. ASSUME NEW q \in Pubs, InsertAttempt(self, q)
        PROVE  FALSE
    BY <1>2 DEF InsertAttempt, SetRow, TypeOK
  <1>3. ASSUME NEW f \in Files, SaveProgress(self, f) \/ SaveRestore(self, f)
        PROVE  FALSE
    <2>1. proc[self].pub \in Pubs
      BY <1>3 DEF SaveProgress, SaveRestore, AttemptKnown, At
    <2>2. PICK e : SetRow(proc[self].pub, [pubs[proc[self].pub] EXCEPT !.entry[f] = e])
      BY <1>1, <1>3 DEF SaveProgress, SaveRestore
    <2>3. QED
      BY <2>1, <2>2 DEF SetRow, TypeOK, Row
  <1>4. CASE SaveCompensation(self)
    <2>1. proc[self].pub \in Pubs
      BY <1>4 DEF SaveCompensation, AttemptKnown, At
    <2>2. PICK e : SetRow(proc[self].pub,
                          [pubs[proc[self].pub] EXCEPT !.status = "failed", !.entry = e])
      BY <1>1, <1>4 DEF SaveCompensation
    <2>3. QED
      BY <2>1, <2>2 DEF SetRow, TypeOK, Row
  <1>5. CASE FailRollback(self) \/ CommitRollback(self)
    <2>1. proc[self].pub \in Pubs
      BY <1>5 DEF FailRollback, CommitRollback, AttemptKnown, At
    <2>2. PICK w \in {"failed", "rolled_back"} :
              SetRow(proc[self].pub, [pubs[proc[self].pub] EXCEPT !.status = w])
      BY <1>1, <1>5 DEF FailRollback, CommitRollback
    <2>3. QED
      BY <2>1, <2>2 DEF SetRow, TypeOK, Row
  <1>6. CASE CommitPublication(self)
    <2>1. proc[self].pub \in Pubs
      BY <1>6 DEF CommitPublication, AttemptKnown, At
    <2>2. QED
      BY <1>1, <1>6, <2>1 DEF CommitPublication, SetRow, TypeOK
  <1>7. QED
    BY <1>1, <1>2, <1>3, <1>4, <1>5, <1>6
    DEF Step, Acquire, ValidateHashes, InsertFails, CompensationAborts, JournalAttempt, InspectTarget,
        PlaceTarget, RestoreInspect, RestorePlace, VerifyTargets, Materialize,
        TerminalJournal, JournalCompensation, RollbackLoad, JournalFailedRollback,
        ReconcilePublished

\* Reads, crashes, edits and rejections complete no row.
LEMMA OnlyStepsCompleteRows ==
    ASSUME [Next]_vars, NEW p \in Pubs,
           pubs[p].status # "completed", pubs'[p].status = "completed"
    PROVE  \E self \in Procs : Step(self)
  BY DEF Next, vars, Preview, Reject, PublishRead, RollbackAcquire, Crash,
         RemoveStaleLock, Edit, TornPreviewStep, PreviewBuild, PreviewSnapshot,
         PreviewCompose

\* Unless somebody edits, a row is completed only over a tree that holds every
\* planned byte: between verifyTargets and the transaction nothing moves.
THEOREM CommitCorrect == ASSUME Budget["edit"] = 0 PROVE Spec => CompletesOverPlannedTree
  <1>1. FInv /\ [Next]_vars => FInv'
    BY NextFits
  <1>2. FInv /\ [Next]_vars =>
          [\A p \in Pubs : pubs[p].status # "completed" /\ pubs'[p].status = "completed" =>
               \A f \in Targets(p) : disk[f] = Post(p, f)]_vars
    <2>1. ASSUME FInv, [Next]_vars, NEW p \in Pubs,
                 pubs[p].status # "completed", pubs'[p].status = "completed"
          PROVE  \A f \in Targets(p) : disk[f] = Post(p, f)
      <3>1. PICK self \in Procs : CommitPublication(self) /\ p = proc[self].pub
        BY <2>1, OnlyStepsCompleteRows, CompletedByCommit DEF FInv, IInv
      <3>2. QED
        BY <2>1, <3>1 DEF FInv, VerifiedFits, CommitPublication, At
    <2>2. QED
      BY <2>1
  <1>3. QED
    BY InitFits, <1>1, <1>2, PTL DEF Spec, CompletesOverPlannedTree

PInv == IInv /\ PublishedHasPublication

\* No transaction leaves a published learning without its publication: the two
\* are committed together by Publish and withdrawn together by Rollback.
LEMMA PublishedStep ==
    ASSUME PInv, NEW self \in Procs, Step(self)
    PROVE  PublishedHasPublication'
  <1>1. ASSUME NEW p \in Pubs, InsertAttempt(self, p)
        PROVE  PublishedHasPublication'
    BY <1>1 DEF InsertAttempt, SetRow, PInv, IInv, TypeOK, PublishedHasPublication
  <1>2. ASSUME NEW f \in Files, SaveProgress(self, f) \/ SaveRestore(self, f), pubs' # pubs
        PROVE  PublishedHasPublication'
    <2>1. proc[self].pub \in Pubs
      BY <1>2 DEF SaveProgress, SaveRestore, PInv, IInv, AttemptKnown, At
    <2>2. PICK e : SetRow(proc[self].pub, [pubs[proc[self].pub] EXCEPT !.entry[f] = e])
      BY <1>2 DEF SaveProgress, SaveRestore
    <2>3. \A p \in Pubs : pubs'[p].plan = pubs[p].plan /\ pubs'[p].status = pubs[p].status
      BY <2>1, <2>2 DEF SetRow, PInv, IInv, TypeOK, Row
    <2>4. UNCHANGED learning
      BY <1>2 DEF SaveProgress, SaveRestore
    <2>5. QED
      BY <2>3, <2>4 DEF PInv, PublishedHasPublication
  <1>3. ASSUME SaveCompensation(self) \/ FailRollback(self), pubs' # pubs
        PROVE  PublishedHasPublication'
    <2>1. proc[self].pub \in Pubs
      BY <1>3 DEF SaveCompensation, FailRollback, PInv, IInv, AttemptKnown, At
    <2>2. \A p \in Pubs : /\ pubs'[p].plan = pubs[p].plan
                          /\ pubs'[p].status \in {pubs[p].status, "failed"}
      <3>1. PICK e : \/ SetRow(proc[self].pub, [pubs[proc[self].pub] EXCEPT !.status = "failed"])
                   \/ SetRow(proc[self].pub,
                             [pubs[proc[self].pub] EXCEPT !.status = "failed", !.entry = e])
        BY <1>3 DEF SaveCompensation, FailRollback
      <3>2. pubs[proc[self].pub] \in Row /\ pubs \in [Pubs -> Row]
        BY <2>1 DEF PInv, IInv, TypeOK
      <3>3. CASE SetRow(proc[self].pub, [pubs[proc[self].pub] EXCEPT !.status = "failed"])
        BY <2>1, <3>2, <3>3 DEF SetRow, Row
      <3>4. CASE SetRow(proc[self].pub,
                      [pubs[proc[self].pub] EXCEPT !.status = "failed", !.entry = e])
        BY <2>1, <3>2, <3>4 DEF SetRow, Row
      <3>5. QED
        BY <3>1, <3>3, <3>4
    <2>3. UNCHANGED learning
      BY <1>3 DEF SaveCompensation, FailRollback
    <2>4. QED
      BY <2>2, <2>3 DEF PInv, PublishedHasPublication
  <1>4. ASSUME CommitPublication(self), ~UNCHANGED <<pubs, learning>>
        PROVE  PublishedHasPublication'
    <2>1. proc[self].pub \in Pubs
      BY <1>4 DEF CommitPublication, PInv, IInv, AttemptKnown, At
    <2>2. /\ SetRow(proc[self].pub, [pubs[proc[self].pub] EXCEPT !.status = "completed"])
          /\ learning' = [learning EXCEPT ![pubs[proc[self].pub].plan.learning] = "published"]
      BY <1>4 DEF CommitPublication
    <2>3. /\ \A p \in Pubs : /\ pubs'[p].plan = pubs[p].plan
                             /\ pubs'[p].status \in {pubs[p].status, "completed"}
          /\ pubs'[proc[self].pub].status = "completed"
      BY <2>1, <2>2 DEF SetRow, PInv, IInv, TypeOK, Row
    <2>4. \A l \in Learnings : learning'[l] = "published" =>
              learning[l] = "published" \/ l = pubs[proc[self].pub].plan.learning
      BY <2>2 DEF PInv, IInv, TypeOK
    <2>5. QED
      BY <2>1, <2>3, <2>4 DEF PInv, PublishedHasPublication
  <1>5. ASSUME CommitRollback(self), ~UNCHANGED <<pubs, learning>>
        PROVE  PublishedHasPublication'
    <2> DEFINE p0 == proc[self].pub
               l0 == pubs[p0].plan.learning
    <2>1. p0 \in Pubs /\ l0 \in Learnings
      BY <1>5 DEF CommitRollback, PInv, IInv, AttemptKnown, At, TypeOK, Row, Plan
    <2>2. /\ SetRow(p0, [pubs[p0] EXCEPT !.status = "rolled_back"])
          /\ learning' = [learning EXCEPT ![l0] =
                             IF learning[l0] = "published" THEN "approved" ELSE learning[l0]]
      BY <1>5 DEF CommitRollback
    <2>3. /\ \A p \in Pubs : pubs'[p].plan = pubs[p].plan
          /\ \A p \in Pubs \ {p0} : pubs'[p].status = pubs[p].status
      BY <2>1, <2>2 DEF SetRow, PInv, IInv, TypeOK, Row
    <2>4. learning'[l0] # "published" /\ \A l \in Learnings \ {l0} : learning'[l] = learning[l]
      BY <2>1, <2>2 DEF PInv, IInv, TypeOK
    <2>5. ASSUME NEW l \in Learnings, learning'[l] = "published"
          PROVE  \E p \in Pubs : pubs'[p].plan.learning = l
                                 /\ pubs'[p].status \in {"completed", "failed"}
      <3>1. l # l0 /\ learning[l] = "published"
        BY <2>4, <2>5
      <3>2. PICK p \in Pubs : pubs[p].plan.learning = l
                              /\ pubs[p].status \in {"completed", "failed"}
        BY <3>1 DEF PInv, PublishedHasPublication
      <3>3. p # p0
        BY <3>1, <3>2
      <3>4. QED
        BY <2>3, <3>2, <3>3
    <2>6. QED
      BY <2>5 DEF PublishedHasPublication
  <1>6. CASE UNCHANGED <<pubs, learning>>
    BY <1>6 DEF PInv, PublishedHasPublication
  <1>7. QED
    BY <1>1, <1>2, <1>3, <1>4, <1>5, <1>6
    DEF Step, Acquire, ValidateHashes, InsertFails, CompensationAborts, JournalAttempt, InspectTarget,
        PlaceTarget, SaveProgress, SaveRestore, RestoreInspect, RestorePlace,
        VerifyTargets, Materialize, TerminalJournal, SaveCompensation,
        JournalCompensation, RollbackLoad, FailRollback, JournalFailedRollback,
        ReconcilePublished

\* A learning is never published without a publication that completed, in
\* whatever order invocations, faults, crashes, edits and rejections come.
THEOREM PublishedCorrect == Spec => []PublishedHasPublication
  <1>1. Init => PInv
    <2>1. Init => PublishedHasPublication
      BY DEF Init, PublishedHasPublication
    <2>2. QED
      BY <2>1, InitInv DEF PInv
  <1>2. PInv /\ [Next]_vars => PInv'
    <2> SUFFICES ASSUME PInv, [Next]_vars PROVE PublishedHasPublication'
      BY NextInv DEF PInv
    <2>1. ASSUME NEW self \in Procs, Step(self)
          PROVE  PublishedHasPublication'
      BY <2>1, PublishedStep
    <2>2. ASSUME NEW l \in Learnings, Preview(l) \/ Reject(l)
          PROVE  PublishedHasPublication'
      BY <2>2 DEF Preview, Reject, PInv, IInv, TypeOK, PublishedHasPublication
    <2>3. CASE UNCHANGED <<pubs, learning>>
      BY <2>3 DEF PInv, PublishedHasPublication
    <2>4. QED
      BY <2>1, <2>2, <2>3 DEF Next, vars, PublishRead, RollbackAcquire, Crash,
         RemoveStaleLock, Edit, TornPreviewStep, PreviewBuild, PreviewSnapshot,
         PreviewCompose
  <1>3. PInv => PublishedHasPublication
    BY DEF PInv
  <1>4. QED
    BY <1>1, <1>2, <1>3, PTL DEF Spec

\* Nobody but the owner of the lock is inside, and it works on its own publication.
THEOREM OwnWorkCorrect == Spec => []OwnsItsWork
  <1>1. Spec => []LockHeldInside /\ []AttemptKnown
    BY LockCorrect, AttemptCorrect
  <1>2. LockHeldInside /\ AttemptKnown => OwnsItsWork
    BY DEF OwnsItsWork
  <1>3. QED
    BY <1>1, <1>2, PTL

\* When nobody edits, a publication starts from the tree that its plan saw and
\* completes over the tree that its plan holds.
THEOREM PlanKept == ASSUME Budget["edit"] = 0 PROVE Spec => PlanIsKept
  <1>1. Spec => []SnapshotIsPrior
    BY SnapshotCorrect
  <1>2. Spec => CompletesOverPlannedTree
    BY CommitCorrect
  <1>3. QED
    BY <1>1, <1>2 DEF PlanIsKept


-----------------------------------------------------------------------------
(* What is replaced, and what an undo takes away.  Between the comparison   *)
(* of one target and its placement the target is what was compared, if      *)
(* nobody edits it just then; a plan was composed from the very bytes that  *)
(* it replaces, if nobody edits and previews are not torn.                  *)

Window == {"place", "undo_place", "restore_place"}

\* A plan is composed from the tree that was snapshotted.
Whole(plan) == plan.prior = plan.base
PlansWhole ==
    /\ \A plan \in previews : Whole(plan)
    /\ \A p \in Pubs : Whole(pubs[p].plan)
    /\ \A self \in Procs : Whole(proc[self].plan)

NeverTorn == \A self \in Procs : proc[self].pc \notin {"built", "snapped"}

\* A loop runs over targets of the publication it is about.
Within(self) == IF proc[self].pc \in Stays THEN Targets(proc[self].pub) ELSE {}
TodoFits == \A self \in Procs : proc[self].todo \subseteq Within(self)

\* What was compared is still there when it is replaced.  (A file that was
\* absent may have appeared meanwhile: the placement itself looks again.)
ComparedFits == \A self \in Procs : \A f \in Files : Current(self, f) =>
    /\ proc[self].pc = "place" /\ pubs[proc[self].pub].orig[f] # NoFile =>
           disk[f] = pubs[proc[self].pub].orig[f]
    /\ proc[self].pc \in {"undo_place", "restore_place"} => disk[f] = Post(proc[self].pub, f)

KInv == IInv /\ ComparedFits /\ TodoFits
UInv == FInv /\ KInv /\ PlansWhole /\ NeverTorn

\* A step either comes to no placement, or has just compared the target it will
\* place.
Settles(self) ==
    /\ proc'[self].todo \subseteq proc[self].todo \cup Within(self)
    /\ proc'[self].pc \notin Window

Arrives(self, f) ==
    /\ Current(self, f)
    /\ proc'[self].todo = proc[self].todo /\ proc'[self].pub = proc[self].pub
    /\ \/ proc'[self].pc = "place" /\ disk[f] = pubs[proc[self].pub].orig[f]
       \/ proc'[self].pc \in {"undo_place", "restore_place"} /\ disk[f] = Post(proc[self].pub, f)
    /\ UNCHANGED <<disk, pubs>>

LEMMA BecomeSettles ==
    ASSUME TypeOK, NEW self \in Procs, NEW state, Become(self, state),
           state.todo \subseteq proc[self].todo \cup Within(self), state.pc \notin Window
    PROVE  Settles(self)
  BY DEF Settles, Become, TypeOK

LEMMA GotoSettles ==
    ASSUME TypeOK, NEW self \in Procs, NEW pc, Goto(self, pc), pc \notin Window
    PROVE  Settles(self)
  BY DEF Settles, Goto, TypeOK, Proc

LEMMA ReturnSettles ==
    ASSUME TypeOK, NEW self \in Procs, Return(self)
    PROVE  Settles(self)
  BY DEF Settles, Return, Become, TypeOK, Idle, Window

LEMMA CompensateSettles ==
    ASSUME TypeOK, NEW self \in Procs, Compensate(self), proc[self].pc \in Stays
    PROVE  Settles(self)
  <1>1. proc[self] \in Proc
    BY DEF TypeOK
  <1>2. QED
    BY <1>1, BecomeSettles DEF Compensate, Within, Window, Proc

LEMMA AfterRestoreSettles ==
    ASSUME TypeOK, NEW self \in Procs, NEW f, NEW ok \in BOOLEAN, AfterRestore(self, f, ok)
    PROVE  Settles(self)
  <1>1. proc[self] \in Proc
    BY DEF TypeOK
  <1>2. CASE proc[self].op = "publish"
    <2> DEFINE bad == IF ok THEN proc[self].bad ELSE proc[self].bad \cup {f}
               rest == proc[self].todo \ {f}
               state == [proc[self] EXCEPT !.bad = bad, !.todo = rest,
                           !.pc = IF rest = {} THEN "undo_save" ELSE "undo"]
    <2>1. Become(self, state)
      BY <1>2 DEF AfterRestore
    <2>2. state.todo = rest /\ state.pc \in {"undo_save", "undo"}
      BY <1>1 DEF Proc
    <2> HIDE DEF state
    <2>3. QED
      BY <2>1, <2>2, BecomeSettles DEF Window
  <1>3. CASE proc[self].op # "publish"
    <2> DEFINE bad == IF ok THEN proc[self].bad ELSE proc[self].bad \cup {f}
               state == [proc[self] EXCEPT !.bad = bad, !.pc = "restore_save"]
    <2>1. Become(self, state)
      BY <1>3 DEF AfterRestore
    <2>2. state.todo = proc[self].todo /\ state.pc = "restore_save"
      BY <1>1 DEF Proc
    <2> HIDE DEF state
    <2>3. QED
      BY <2>1, <2>2, BecomeSettles DEF Window
  <1>4. QED
    BY <1>2, <1>3

\* The two comparisons.
LEMMA InspectTargetMoves ==
    ASSUME TypeOK, NEW self \in Procs, NEW f \in Files, InspectTarget(self, f)
    PROVE  Settles(self) \/ Arrives(self, f)
  <1>1. proc[self] \in Proc /\ proc[self].pc \in Stays
    BY DEF TypeOK, InspectTarget, At, Stays, Outside, Pc
  <1>2. CASE Compensate(self)
    BY <1>1, <1>2, CompensateSettles
  <1>3. CASE Goto(self, "place") /\ disk[f] = pubs[proc[self].pub].orig[f]
    <2>1. proc'[self] = [proc[self] EXCEPT !.pc = "place"]
      BY <1>3 DEF Goto, TypeOK
    <2>2. QED
      BY <1>1, <1>3, <2>1 DEF Arrives, InspectTarget, Proc
  <1>4. QED
    BY <1>2, <1>3 DEF InspectTarget

LEMMA RestoreInspectMoves ==
    ASSUME TypeOK, NEW self \in Procs, NEW f \in Files, RestoreInspect(self, f)
    PROVE  Settles(self) \/ Arrives(self, f)
  <1>1. proc[self] \in Proc
    BY DEF TypeOK
  <1> DEFINE where == IF At(self, "undo") THEN "undo_place" ELSE "restore_place"
  <1>2. CASE AfterRestore(self, f, TRUE) \/ AfterRestore(self, f, FALSE)
    BY <1>2, AfterRestoreSettles
  <1>3. CASE Goto(self, where) /\ disk[f] = Post(proc[self].pub, f)
    <2>1. where \in {"undo_place", "restore_place"}
      OBVIOUS
    <2> HIDE DEF where
    <2>2. proc'[self] = [proc[self] EXCEPT !.pc = where]
      BY <1>3 DEF Goto, TypeOK
    <2>3. QED
      BY <1>1, <1>3, <2>1, <2>2 DEF Arrives, RestoreInspect, Proc
  <1>4. QED
    BY <1>2, <1>3 DEF RestoreInspect

\* The write loop.
LEMMA WriteMoves ==
    ASSUME TypeOK, NEW self \in Procs, NEW f \in Files,
           PlaceTarget(self, f) \/ SaveProgress(self, f)
    PROVE  Settles(self)
  <1>1. proc[self] \in Proc /\ proc[self].pc \in Stays
    BY DEF TypeOK, PlaceTarget, SaveProgress, At, Stays, Outside, Pc
  <1>2. CASE Compensate(self)
    BY <1>1, <1>2, CompensateSettles
  <1>3. CASE Goto(self, "progress")
    BY <1>3, GotoSettles DEF Window
  <1>4. CASE Become(self, [proc[self] EXCEPT !.todo = proc[self].todo \ {f},
                              !.pc = IF proc[self].todo \ {f} = {} THEN "verify" ELSE "inspect"])
    BY <1>1, <1>4, BecomeSettles DEF Proc, Window
  <1>5. QED
    BY <1>2, <1>3, <1>4 DEF PlaceTarget, SaveProgress

\* Both restore loops.
LEMMA RestoreMoves ==
    ASSUME TypeOK, NEW self \in Procs, NEW f \in Files,
           RestorePlace(self, f) \/ SaveRestore(self, f)
    PROVE  Settles(self)
  <1>1. proc[self] \in Proc
    BY DEF TypeOK
  <1>2. CASE AfterRestore(self, f, TRUE) \/ AfterRestore(self, f, FALSE)
    BY <1>2, AfterRestoreSettles
  <1>3. CASE Return(self)
    BY <1>3, ReturnSettles
  <1>4. CASE Become(self, [proc[self] EXCEPT !.todo = proc[self].todo \ {f},
                              !.pc = IF proc[self].todo \ {f} = {} THEN "restored" ELSE "restore"])
    BY <1>1, <1>4, BecomeSettles DEF Proc, Window
  <1>5. QED
    BY <1>2, <1>3, <1>4 DEF RestorePlace, SaveRestore

\* Where a loop begins.
LEMMA BeginMoves ==
    ASSUME TypeOK, NEW self \in Procs,
           JournalAttempt(self) \/ VerifyTargets(self) \/ CommitPublication(self)
             \/ RollbackLoad(self)
    PROVE  Settles(self)
  <1>1. proc[self] \in Proc /\ proc[self].pc \in Stays
    BY DEF TypeOK, JournalAttempt, VerifyTargets, CommitPublication, RollbackLoad, At,
           Stays, Outside, Pc
  <1>2. CASE Compensate(self)
    BY <1>1, <1>2, CompensateSettles
  <1>3. CASE Return(self)
    BY <1>3, ReturnSettles
  <1>4. ASSUME NEW w \in {"inspect", "restore"},
               Become(self, [proc[self] EXCEPT !.pc = w, !.todo = Targets(proc[self].pub)])
        PROVE  Settles(self)
    BY <1>1, <1>4, BecomeSettles DEF Proc, Window, Within
  <1>5. CASE Goto(self, "commit")
    BY <1>5, GotoSettles DEF Window
  <1>6. CASE Become(self, [proc[self] EXCEPT !.pc = "record", !.row = "published"])
    BY <1>1, <1>6, BecomeSettles DEF Proc, Window
  <1>7. ASSUME NEW s, Become(self, [proc[self] EXCEPT !.pc = "record",
                                      !.op = "reconcile_rolled_back", !.row = s])
        PROVE  Settles(self)
    BY <1>1, <1>7, BecomeSettles DEF Proc, Window
  <1>8. ASSUME Become(self, [proc[self] EXCEPT !.pc = "inspect", !.todo = Targets(proc[self].pub)])
        PROVE  Settles(self)
    BY <1>4, <1>8
  <1>9. ASSUME Become(self, [proc[self] EXCEPT !.pc = "restore", !.todo = Targets(proc[self].pub)])
        PROVE  Settles(self)
    BY <1>4, <1>9
  <1>10. CASE JournalAttempt(self)
    BY <1>3, <1>8, <1>10 DEF JournalAttempt
  <1>11. CASE VerifyTargets(self)
    BY <1>2, <1>5, <1>11 DEF VerifyTargets
  <1>12. CASE CommitPublication(self)
    BY <1>2, <1>6, <1>12 DEF CommitPublication
  <1>13. CASE RollbackLoad(self)
    BY <1>3, <1>7, <1>9, <1>13 DEF RollbackLoad
  <1>14. QED
    BY <1>10, <1>11, <1>12, <1>13

\* Everything before and after the loops.
LEMMA OtherMoves ==
    ASSUME TypeOK, NEW self \in Procs,
           \/ Acquire(self) \/ ValidateHashes(self) \/ InsertFails(self) \/ Materialize(self)
           \/ TerminalJournal(self) \/ CompensationAborts(self) \/ SaveCompensation(self)
           \/ JournalCompensation(self) \/ FailRollback(self) \/ JournalFailedRollback(self)
           \/ CommitRollback(self) \/ ReconcilePublished(self)
           \/ \E p \in Pubs : InsertAttempt(self, p)
    PROVE  Settles(self)
  <1>1. proc[self] \in Proc
    BY DEF TypeOK
  <1>2. ASSUME Return(self) PROVE Settles(self)
    BY <1>2, ReturnSettles
  <1>3. ASSUME NEW w \in Pc \ Window, Goto(self, w) PROVE Settles(self)
    BY <1>3, GotoSettles
  <1>4. CASE Acquire(self)
    <2>1. (IF proc[self].op = "publish" THEN "locked" ELSE "find") \in Pc \ Window
      BY DEF Pc, Window
    <2>2. QED
      BY <1>2, <1>3, <1>4, <2>1 DEF Acquire
  <1>5. CASE ValidateHashes(self) \/ InsertFails(self) \/ TerminalJournal(self)
               \/ CompensationAborts(self) \/ JournalCompensation(self)
               \/ JournalFailedRollback(self) \/ SaveCompensation(self) \/ FailRollback(self)
    <2>1. {"validated", "undo_journal", "fail_journal"} \subseteq Pc \ Window
      BY DEF Pc, Window
    <2>2. QED
      BY <1>2, <1>3, <1>5, <2>1
      DEF ValidateHashes, InsertFails, TerminalJournal, CompensationAborts,
          JournalCompensation, JournalFailedRollback, SaveCompensation, FailRollback
  <1>6. CASE Materialize(self)
    <2>1. ASSUME Become(self, [proc[self] EXCEPT !.pc = "journal", !.recordOk = FALSE])
          PROVE  Settles(self)
      BY <1>1, <2>1, BecomeSettles DEF Proc, Window
    <2>2. "journal" \in Pc \ Window
      BY DEF Pc, Window
    <2>3. QED
      BY <1>3, <1>6, <2>1, <2>2 DEF Materialize
  <1>7. CASE CommitRollback(self)
    <2>1. ASSUME NEW s, Become(self, [proc[self] EXCEPT !.pc = "record", !.row = s])
          PROVE  Settles(self)
      BY <1>1, <2>1, BecomeSettles DEF Proc, Window
    <2>2. QED
      BY <1>2, <1>7, <2>1 DEF CommitRollback
  <1>8. CASE ReconcilePublished(self)
    <2>1. ASSUME NEW p, Become(self, [proc[self] EXCEPT !.pc = "record", !.pub = p])
          PROVE  Settles(self)
      BY <1>1, <2>1, BecomeSettles DEF Proc, Window
    <2>2. QED
      BY <1>2, <1>8, <2>1 DEF ReconcilePublished
  <1>9. ASSUME NEW p \in Pubs, InsertAttempt(self, p) PROVE Settles(self)
    <2>1. Become(self, [proc[self] EXCEPT !.pc = "inserted", !.pub = p])
      BY <1>9 DEF InsertAttempt
    <2>2. QED
      BY <1>1, <2>1, BecomeSettles DEF Proc, Window
  <1>10. QED
    BY <1>4, <1>5, <1>6, <1>7, <1>8, <1>9

LEMMA StepMoves ==
    ASSUME TypeOK, NEW self \in Procs, Step(self)
    PROVE  Settles(self) \/ \E f \in Files : Arrives(self, f)
  BY InspectTargetMoves, RestoreInspectMoves, WriteMoves, RestoreMoves, BeginMoves, OtherMoves
  DEF Step

\* Plans are persisted by previews only.
LEMMA StepPreviews ==
    ASSUME NEW self \in Procs, Step(self)
    PROVE  UNCHANGED previews
  BY DEF Step, Acquire, ValidateHashes, InsertAttempt, InsertFails, CompensationAborts,
         JournalAttempt, InspectTarget, PlaceTarget, SaveProgress, RestoreInspect, RestorePlace,
         SaveRestore, VerifyTargets, CommitPublication, Materialize, TerminalJournal,
         SaveCompensation, JournalCompensation, RollbackLoad, FailRollback,
         JournalFailedRollback, CommitRollback, ReconcilePublished

\* Only the process that takes a step moves.
LEMMA StepOthers ==
    ASSUME TypeOK, AttemptKnown, NEW self \in Procs, Step(self)
    PROVE  Others(self)
  <1>1. CASE Acquire(self) \/ ValidateHashes(self) \/ ReconcilePublished(self)
               \/ \E p \in Pubs : InsertAttempt(self, p)
    BY <1>1 DEF Acquire, ValidateHashes, ReconcilePublished, InsertAttempt, Goto, Return, Become,
                Others, TypeOK
  <1>2. CASE GoesOn(self) \/ Leaves(self)
    BY <1>2 DEF GoesOn, Continues, Leaves
  <1>3. QED
    BY <1>1, <1>2, StepShape

\* No step changes the plan or the originals of a row that is there.
LEMMA StepRows ==
    ASSUME TypeOK, AttemptKnown, NEW self \in Procs, Step(self)
    PROVE  \A p \in Pubs : pubs[p].status # "none" =>
               pubs'[p].plan = pubs[p].plan /\ pubs'[p].orig = pubs[p].orig
  <1>1. CASE Acquire(self) \/ ValidateHashes(self) \/ ReconcilePublished(self)
    BY <1>1 DEF Acquire, ValidateHashes, ReconcilePublished
  <1>2. ASSUME NEW q \in Pubs, InsertAttempt(self, q)
        PROVE  \A p \in Pubs : pubs[p].status # "none" =>
                   pubs'[p].plan = pubs[p].plan /\ pubs'[p].orig = pubs[p].orig
    BY <1>2 DEF InsertAttempt, SetRow, TypeOK
  <1>3. CASE GoesOn(self) \/ Leaves(self)
    BY <1>3 DEF GoesOn, Continues, Leaves, RowsKept
  <1>4. QED
    BY <1>1, <1>2, <1>3, StepShape

\* A process whose publication stays as it is keeps what is within its loop.
LEMMA SameWithin ==
    ASSUME IInv, NEW q \in Procs, proc'[q] = proc[q],
           \A p \in Pubs : pubs[p].status # "none" =>
               pubs'[p].plan = pubs[p].plan /\ pubs'[p].orig = pubs[p].orig
    PROVE  Within(q)' = Within(q)
  <1>1. proc[q].pc \in Stays => proc[q].pub \in Pubs /\ pubs[proc[q].pub].status # "none"
    BY DEF IInv, AttemptKnown, Stays, Outside
  <1>2. QED
    BY <1>1 DEF Within, Targets

\* No step leads a loop beyond its publication.
LEMMA StepTodo ==
    ASSUME IInv, TodoFits, NEW self \in Procs, Step(self)
    PROVE  TodoFits'
  <1> SUFFICES ASSUME NEW q \in Procs PROVE proc'[q].todo \subseteq Within(q)'
    BY DEF TodoFits
  <1>1. CASE q # self
    <2>1. proc'[q] = proc[q]
      BY <1>1, StepOthers DEF IInv, Others
    <2>2. QED
      BY <2>1, SameWithin, StepRows DEF IInv, TodoFits
  <1>2. CASE q = self
    <2>1. proc'[self].todo \subseteq Within(self)
      BY StepMoves DEF IInv, TodoFits, Settles, Arrives
    <2>2. CASE proc[self].pc \notin Stays
      BY <1>2, <2>1, <2>2 DEF Within
    <2>3. CASE Leaves(self)
      BY <1>2, <2>3 DEF Leaves, Idle
    <2>4. CASE GoesOn(self)
      <3>1. proc[self].pub \in Pubs
        BY <2>4 DEF IInv, AttemptKnown, GoesOn, Continues, Stays, Outside
      <3>2. Within(self)' = Within(self)
        BY <2>4, <3>1 DEF GoesOn, Continues, RowsKept, Within, Targets
      <3>3. QED
        BY <1>2, <2>1, <3>2
    <2>5. QED
      BY <2>2, <2>3, <2>4, StepShape
      DEF IInv, Acquire, ValidateHashes, ReconcilePublished, InsertAttempt, At, Stays, Outside
  <1>3. QED
    BY <1>1, <1>2

\* What a process compared stays compared while the target, its row and the
\* process itself stay as they are.
LEMMA StaysCompared ==
    ASSUME KInv, NEW q \in Procs, proc'[q] = proc[q],
           NEW f \in Files, Current(q, f)', proc[q].pc \in Window => disk'[f] = disk[f],
           \A p \in Pubs : pubs[p].status # "none" =>
               pubs'[p].plan = pubs[p].plan /\ pubs'[p].orig = pubs[p].orig
    PROVE  /\ proc'[q].pc = "place" /\ pubs'[proc'[q].pub].orig[f] # NoFile =>
                  disk'[f] = pubs'[proc'[q].pub].orig[f]
           /\ proc'[q].pc \in {"undo_place", "restore_place"} =>
                  disk'[f] = Post(proc[q].pub, f)'
  <1>1. Current(q, f)
    BY DEF Current
  <1>2. CASE proc[q].pc \in Window
    <2>1. proc[q].pub \in Pubs /\ pubs[proc[q].pub].status # "none"
      BY <1>2 DEF KInv, IInv, AttemptKnown, Window
    <2>2. Post(proc[q].pub, f)' = Post(proc[q].pub, f)
      BY <2>1 DEF Post
    <2>3. pubs'[proc'[q].pub].orig = pubs[proc[q].pub].orig /\ disk'[f] = disk[f]
      BY <1>2, <2>1
    <2>4. /\ proc[q].pc = "place" /\ pubs[proc[q].pub].orig[f] # NoFile =>
                 disk[f] = pubs[proc[q].pub].orig[f]
          /\ proc[q].pc \in {"undo_place", "restore_place"} => disk[f] = Post(proc[q].pub, f)
      BY <1>1 DEF KInv, ComparedFits
    <2>5. QED
      BY <2>2, <2>3, <2>4
  <1>3. CASE proc[q].pc \notin Window
    BY <1>3 DEF Window
  <1>4. QED
    BY <1>2, <1>3

\* A step places what it compared itself; nobody else is about to place.
LEMMA StepCompared ==
    ASSUME KInv, NEW self \in Procs, Step(self)
    PROVE  ComparedFits'
  <1> SUFFICES ASSUME NEW q \in Procs, NEW g \in Files, Current(q, g)'
               PROVE  /\ proc'[q].pc = "place" /\ pubs'[proc'[q].pub].orig[g] # NoFile =>
                             disk'[g] = pubs'[proc'[q].pub].orig[g]
                      /\ proc'[q].pc \in {"undo_place", "restore_place"} =>
                             disk'[g] = Post(proc[q].pub, g)'
    BY DEF ComparedFits
  <1>1. Settles(self) \/ \E f \in Files : Arrives(self, f)
    BY StepMoves DEF KInv, IInv
  <1>2. CASE q # self
    <2>1. proc'[q] = proc[q]
      BY <1>2, StepOthers DEF KInv, IInv, Others
    <2>2. ASSUME disk' # disk, proc[q].pc \in Window PROVE FALSE
      <3>1. proc[self].pc \in Stays
        BY <2>2, StepDisk DEF KInv, GoesOn, Continues
      <3>2. QED
        BY <1>2, <2>2, <3>1 DEF KInv, IInv, LockHeldInside, Window, Stays, Outside
    <2>3. QED
      BY <2>1, <2>2, StaysCompared, StepRows DEF KInv, IInv
  <1>3. CASE q = self /\ Settles(self)
    BY <1>3 DEF Settles, Window
  <1>4. ASSUME q = self, NEW f \in Files, Arrives(self, f)
        PROVE  /\ proc'[q].pc = "place" /\ pubs'[proc'[q].pub].orig[g] # NoFile =>
                      disk'[g] = pubs'[proc'[q].pub].orig[g]
               /\ proc'[q].pc \in {"undo_place", "restore_place"} =>
                      disk'[g] = Post(proc[q].pub, g)'
    <2>1. g <= f /\ f <= g
      BY <1>4 DEF Arrives, Current
    <2>2. g = f
      BY <2>1, FilesAssumption
    <2>3. Post(proc[q].pub, g)' = Post(proc[q].pub, g)
      BY <1>4 DEF Arrives, Post
    <2>4. QED
      BY <1>4, <2>2, <2>3 DEF Arrives
  <1>5. QED
    BY <1>1, <1>2, <1>3, <1>4

\* The bytes a publication writes are a file's.
LEMMA PostIsText ==
    ASSUME TypeOK, NEW p \in Pubs, NEW f \in Files
    PROVE  Post(p, f) # NoFile
  <1>1. pubs[p].plan.learning \in Learnings /\ pubs[p].plan.base[f] \in Content
    BY DEF TypeOK, Row, Plan
  <1>2. Post(p, f) \in SUBSET (Learnings \cup {UserText})
    BY <1>1 DEF Post, Compose, Content
  <1>3. QED
    BY <1>2, NoFileAssumption

\* An edit between comparison and rename is left out; one that makes an absent
\* file appear is not.
LEMMA EditCompared ==
    ASSUME KInv, NEW f \in Files, Edit(f), RacingEdits = FALSE
    PROVE  ComparedFits'
  <1> SUFFICES ASSUME NEW q \in Procs, NEW g \in Files, Current(q, g)'
               PROVE  /\ proc'[q].pc = "place" /\ pubs'[proc'[q].pub].orig[g] # NoFile =>
                             disk'[g] = pubs'[proc'[q].pub].orig[g]
                      /\ proc'[q].pc \in {"undo_place", "restore_place"} =>
                             disk'[g] = Post(proc[q].pub, g)'
    BY DEF ComparedFits
  <1>1. UNCHANGED <<proc, pubs>> /\ \A h \in Files \ {f} : disk'[h] = disk[h]
    BY DEF Edit, KInv, IInv, TypeOK
  <1>2. Current(q, g)
    BY <1>1 DEF Current
  <1>3. CASE g # f \/ proc[q].pc \notin Window
    BY <1>1, <1>3, StaysCompared
  <1>4. CASE g = f /\ proc[q].pc \in Window
    <2>1. disk[f] = NoFile
      BY <1>2, <1>4 DEF Edit, InWindow, Window
    <2>2. proc[q].pub \in Pubs
      BY <1>4 DEF KInv, IInv, AttemptKnown, Window
    <2>3. proc[q].pc = "place" /\ pubs[proc[q].pub].orig[g] = NoFile
      BY <1>2, <1>4, <2>1, <2>2, PostIsText DEF KInv, IInv, ComparedFits, Window
    <2>4. QED
      BY <1>1, <2>3
  <1>5. QED
    BY <1>3, <1>4

\* KInv is inductive when nobody edits between a comparison and its rename.
LEMMA NextCompared ==
    ASSUME RacingEdits = FALSE \/ Budget["edit"] = 0, KInv, [Next]_vars
    PROVE  KInv'
  <1>1. IInv'
    BY NextInv DEF KInv
  <1>2. ASSUME UNCHANGED <<disk, pubs>>, NEW self \in Procs, Others(self),
               proc'[self] = proc[self] \/ proc'[self].pc \notin Window,
               proc'[self] = proc[self] \/ proc'[self].todo = {}
        PROVE  ComparedFits' /\ TodoFits'
    <2>1. ASSUME NEW q \in Procs, NEW g \in Files, Current(q, g)'
          PROVE  /\ proc'[q].pc = "place" /\ pubs'[proc'[q].pub].orig[g] # NoFile =>
                        disk'[g] = pubs'[proc'[q].pub].orig[g]
                 /\ proc'[q].pc \in {"undo_place", "restore_place"} =>
                        disk'[g] = Post(proc[q].pub, g)'
      <3>1. CASE proc'[q] = proc[q]
        BY <1>2, <2>1, <3>1, StaysCompared
      <3>2. CASE proc'[q].pc \notin Window
        BY <3>2 DEF Window
      <3>3. QED
        BY <1>2, <3>1, <3>2 DEF Others
    <2>2. ASSUME NEW q \in Procs PROVE proc'[q].todo \subseteq Within(q)'
      <3>1. CASE proc'[q] = proc[q]
        BY <1>2, <3>1, SameWithin DEF KInv, TodoFits
      <3>2. QED
        BY <1>2, <3>1 DEF Others
    <2>3. QED
      BY <2>1, <2>2 DEF ComparedFits, TodoFits
  <1>3. ASSUME NEW self \in Procs, Step(self)
        PROVE  ComparedFits' /\ TodoFits'
    BY <1>3, StepCompared, StepTodo DEF KInv
  <1>4. ASSUME NEW f \in Files, Edit(f)
        PROVE  ComparedFits' /\ TodoFits'
    <2>1. TodoFits'
      BY <1>4 DEF Edit, KInv, TodoFits, Within, Targets
    <2>2. QED
      BY <1>4, <2>1, EditCompared, EditsAreSpent DEF KInv, IInv
  <1>5. ASSUME NEW self \in Procs, Crash(self)
        PROVE  ComparedFits' /\ TodoFits'
    <2>1. Others(self) /\ proc'[self] = Idle /\ UNCHANGED <<disk, pubs>>
      BY <1>5 DEF Crash, Become, Others, KInv, IInv, TypeOK
    <2>2. QED
      BY <1>2, <2>1 DEF Idle, Window
  <1>6. ASSUME NEW self \in Procs, NEW plan \in previews, PublishRead(self, plan)
        PROVE  ComparedFits' /\ TodoFits'
    <2>1. Others(self) /\ proc'[self].pc = "checked" /\ proc'[self].todo = {}
          /\ UNCHANGED <<disk, pubs>>
      BY <1>6, IdleType DEF PublishRead, Become, Others, KInv, IInv, TypeOK, Idle
    <2>2. QED
      BY <1>2, <2>1 DEF Window
  <1>7. ASSUME NEW self \in Procs, NEW p \in Pubs, RollbackAcquire(self, p)
        PROVE  ComparedFits' /\ TodoFits'
    <2>1. Others(self) /\ proc'[self].pc = "load" /\ proc'[self].todo = {}
          /\ UNCHANGED <<disk, pubs>>
      BY <1>7, IdleType DEF RollbackAcquire, Become, Others, KInv, IInv, TypeOK, Idle
    <2>2. QED
      BY <1>2, <2>1 DEF Window
  <1>8. ASSUME NEW self \in Procs, TornPreviewStep(self)
        PROVE  ComparedFits' /\ TodoFits'
    <2>1. Others(self) /\ proc'[self].pc \in Outside /\ UNCHANGED <<disk, pubs>>
      BY <1>8, TornPreviewShape DEF KInv, IInv
    <2>2. proc'[self].todo \in {proc[self].todo, {}}
      <3>1. proc[self] \in Proc
        BY DEF KInv, IInv, TypeOK
      <3>2. ASSUME NEW l \in Learnings, PreviewBuild(self, l)
            PROVE  proc'[self].todo = {}
        BY <3>2 DEF PreviewBuild, Become, Idle, KInv, IInv, TypeOK
      <3>3. ASSUME PreviewSnapshot(self)
            PROVE  proc'[self].todo = proc[self].todo
        BY <3>1, <3>3 DEF PreviewSnapshot, Become, Proc, KInv, IInv, TypeOK
      <3>4. ASSUME PreviewCompose(self)
            PROVE  proc'[self].todo = {}
        BY <3>4 DEF PreviewCompose, Become, Idle, KInv, IInv, TypeOK
      <3>5. QED
        BY <1>8, <3>2, <3>3, <3>4 DEF TornPreviewStep
    <2>3. proc[self].todo = {}
      BY <1>8 DEF TornPreviewStep, PreviewBuild, PreviewSnapshot, PreviewCompose, At,
                  KInv, TodoFits, Within, Stays, Outside
    <2>4. QED
      BY <1>2, <2>1, <2>2, <2>3 DEF Outside, Window
  <1>9. ASSUME UNCHANGED <<disk, pubs, proc>>
        PROVE  ComparedFits' /\ TodoFits'
    BY <1>9 DEF KInv, ComparedFits, TodoFits, Within, Targets, Current, Post
  <1>10. ASSUME NEW l \in Learnings, Preview(l) \/ Reject(l)
         PROVE  ComparedFits' /\ TodoFits'
    BY <1>9, <1>10 DEF Preview, Reject
  <1>11. ASSUME RemoveStaleLock \/ UNCHANGED vars
         PROVE  ComparedFits' /\ TodoFits'
    BY <1>9, <1>11 DEF RemoveStaleLock, vars
  <1>12. ComparedFits' /\ TodoFits'
    BY <1>3, <1>4, <1>5, <1>6, <1>7, <1>8, <1>10, <1>11 DEF Next
  <1>13. QED
    BY <1>1, <1>12 DEF KInv

\* KInv holds at first.
LEMMA InitCompared == Init => KInv
  BY InitInv DEF Init, KInv, ComparedFits, TodoFits, Current, Idle

\* Of all steps but edits only these two change the tree.
LEMMA OnlyPlacementsWrite ==
    ASSUME TypeOK, [Next]_vars, disk' # disk, used'["edit"] = used["edit"]
    PROVE  \E self \in Procs, g \in Files : PlaceTarget(self, g) \/ RestorePlace(self, g)
  <1>1. ASSUME NEW f \in Files, Edit(f)
        PROVE  FALSE
    <2>1. used["edit"] \in Nat /\ used' = [used EXCEPT !["edit"] = used["edit"] + 1]
      BY <1>1 DEF Edit, Spend, TypeOK, Kinds
    <2>2. used'["edit"] = used["edit"] + 1
      BY <2>1 DEF TypeOK, Kinds
    <2>3. QED
      BY <2>1, <2>2
  <1>2. PICK self \in Procs : Step(self)
    BY <1>1 DEF Next, vars, Preview, Reject, PublishRead, RollbackAcquire, Crash,
         RemoveStaleLock, TornPreviewStep, PreviewBuild, PreviewSnapshot, PreviewCompose
  <1>3. QED
    BY <1>2 DEF Step, Acquire, ValidateHashes, InsertAttempt, InsertFails, CompensationAborts,
           JournalAttempt, InspectTarget, SaveProgress, RestoreInspect, SaveRestore,
           VerifyTargets, CommitPublication, Materialize, TerminalJournal, SaveCompensation,
           JournalCompensation, RollbackLoad, FailRollback, JournalFailedRollback,
           CommitRollback, ReconcilePublished

\* What a placement or a restoration replaces is what it compared.
LEMMA ReplacesCompared ==
    ASSUME KInv, NEW self \in Procs, NEW g \in Files,
           PlaceTarget(self, g) \/ RestorePlace(self, g),
           NEW f \in Files, disk'[f] # disk[f]
    PROVE  /\ f = g /\ Current(self, g) /\ lock = self /\ proc[self].pc \in Stays
           /\ proc[self].pub \in Pubs /\ pubs[proc[self].pub].status # "none"
           /\ pubs[proc[self].pub].plan = proc[self].plan
           /\ PlaceTarget(self, g) => /\ disk[g] = pubs[proc[self].pub].orig[g]
                                      /\ disk'[g] = Post(proc[self].pub, g)
           /\ RestorePlace(self, g) => /\ disk[g] = Post(proc[self].pub, g)
                                       /\ disk'[g] = pubs[proc[self].pub].orig[g]
  <1>1. Current(self, g) /\ proc[self].pc \in Window
    BY DEF PlaceTarget, RestorePlace, At, Window
  <1>2. f = g
    BY DEF PlaceTarget, RestorePlace, KInv, IInv, TypeOK
  <1>3. /\ proc[self].pub \in Pubs /\ pubs[proc[self].pub].status # "none" /\ lock = self
        /\ pubs[proc[self].pub].plan = proc[self].plan /\ proc[self].pc \in Stays
    BY <1>1 DEF KInv, IInv, AttemptKnown, LockHeldInside, Window, Stays, Outside, Pc
  <1>4. ASSUME PlaceTarget(self, g)
        PROVE  disk[g] = pubs[proc[self].pub].orig[g] /\ disk'[g] = Post(proc[self].pub, g)
    BY <1>1, <1>2, <1>4 DEF PlaceTarget, At, KInv, IInv, TypeOK, ComparedFits
  <1>5. ASSUME RestorePlace(self, g)
        PROVE  disk[g] = Post(proc[self].pub, g) /\ disk'[g] = pubs[proc[self].pub].orig[g]
    BY <1>1, <1>2, <1>5 DEF RestorePlace, At, KInv, IInv, TypeOK, ComparedFits
  <1>6. QED
    BY <1>1, <1>2, <1>3, <1>4, <1>5

\* Whatever else is edited, as long as it is not between a comparison and its
\* rename: the engine replaces only the original it snapshotted or the bytes it
\* published itself.
THEOREM KnownBytesCorrect ==
    ASSUME RacingEdits = FALSE PROVE Spec => ReplacesOnlyKnownBytes
  <1>1. KInv /\ [Next]_vars => KInv'
    BY NextCompared
  <1>2. KInv /\ [Next]_vars =>
          [\A f \in Files : disk'[f] # disk[f] /\ used'["edit"] = used["edit"] =>
              \E self \in Procs :
                  /\ lock = self /\ proc[self].pub # 0
                  /\ disk[f] \in {pubs[proc[self].pub].orig[f], Post(proc[self].pub, f)}]_vars
    <2>1. ASSUME KInv, [Next]_vars, NEW f \in Files,
                 disk'[f] # disk[f], used'["edit"] = used["edit"]
          PROVE  \E self \in Procs :
                    /\ lock = self /\ proc[self].pub # 0
                    /\ disk[f] \in {pubs[proc[self].pub].orig[f], Post(proc[self].pub, f)}
      <3>1. PICK self \in Procs, g \in Files : PlaceTarget(self, g) \/ RestorePlace(self, g)
        BY <2>1, OnlyPlacementsWrite DEF KInv, IInv
      <3>2. lock = self /\ proc[self].pub \in Pubs
        BY <2>1, <3>1, ReplacesCompared
      <3>3. proc[self].pub # 0
        BY <3>2, BoundsAssumption DEF Pubs
      <3>4. disk[f] \in {pubs[proc[self].pub].orig[f], Post(proc[self].pub, f)}
        BY <2>1, <3>1, ReplacesCompared
      <3>5. QED
        BY <3>2, <3>3, <3>4
    <2>2. QED
      BY <2>1
  <1>3. QED
    BY InitCompared, <1>1, <1>2, PTL DEF Spec, ReplacesOnlyKnownBytes

-----------------------------------------------------------------------------
(* Whose text an undo takes away *)

UndoFits == PlansWhole /\ NeverTorn

\* The holder of the lock moves on: nobody else is in a loop, and what it is
\* about to place it has just compared.
LEMMA GoesOnUndo ==
    ASSUME IInv, UndoFits, NEW self \in Procs, Step(self), GoesOn(self)
    PROVE  UndoFits'
  <1>1. proc'[self].pc \in Stays /\ proc'[self].plan = proc[self].plan
        /\ Others(self) /\ RowsKept
    BY DEF GoesOn, Continues
  <1>2. PlansWhole'
    BY <1>1, StepPreviews DEF UndoFits, PlansWhole, Others, RowsKept
  <1>3. NeverTorn'
    BY <1>1 DEF UndoFits, NeverTorn, Stays, Outside, Others
  <1>4. QED
    BY <1>2, <1>3 DEF UndoFits

\* A process that takes up a whole plan disturbs no other.
LEMMA StartsUndo ==
    ASSUME IInv, UndoFits, NEW self \in Procs, Others(self),
           proc'[self].pc \notin {"built", "snapped"}, Whole(proc'[self].plan),
           \A plan \in previews' : Whole(plan),
           \A p \in Pubs : Whole(pubs'[p].plan)
    PROVE  UndoFits'
  BY DEF UndoFits, PlansWhole, NeverTorn, Others

\* A preview's plan is whole when the tree does not change under it.
LEMMA QuietUndo ==
    ASSUME IInv, UndoFits, UNCHANGED <<pubs, proc>>, \A plan \in previews' : Whole(plan)
    PROVE  UndoFits'
  BY DEF UndoFits, PlansWhole, NeverTorn

\* The plan in hand when there is none is whole.
LEMMA IdleIsWhole == Whole(Idle.plan) /\ Whole(NoRow.plan)
  BY DEF Idle, NoRow, SomePlan, Whole

\* Returning and crashing leave no plan in hand.
LEMMA LeavesUndo ==
    ASSUME IInv, UndoFits, NEW self \in Procs, Leaves(self), UNCHANGED previews
    PROVE  UndoFits'
  <1>1. proc'[self] = Idle /\ Others(self) /\ RowsKept /\ Idle.pc \notin {"built", "snapped"}
    BY DEF Leaves, Idle
  <1>2. QED
    BY <1>1, IdleIsWhole, StartsUndo DEF UndoFits, PlansWhole, RowsKept

\* The steps that begin with a publication keep the plan in hand, and a new row
\* carries that plan.
LEMMA BeginsUndo ==
    ASSUME IInv, UndoFits, NEW self \in Procs,
           \/ Acquire(self) \/ ValidateHashes(self) \/ ReconcilePublished(self)
           \/ \E p \in Pubs : InsertAttempt(self, p)
    PROVE  UndoFits'
  <1>1. /\ proc[self] \in Proc /\ Whole(proc[self].plan)
        /\ UNCHANGED <<disk, previews>> /\ \A plan \in previews' : Whole(plan)
    BY DEF UndoFits, IInv, TypeOK, PlansWhole, Acquire, ValidateHashes, ReconcilePublished,
           InsertAttempt
  <1>2. ASSUME UNCHANGED pubs, Others(self), proc'[self].plan = proc[self].plan,
               proc'[self].pc \notin {"built", "snapped"}
        PROVE  UndoFits'
    BY <1>1, <1>2, StartsUndo DEF UndoFits, PlansWhole
  <1>3. ASSUME UNCHANGED pubs, NEW w \in {"locked", "find", "validated"}, Goto(self, w)
        PROVE  UndoFits'
    BY <1>1, <1>2, <1>3 DEF Goto, Others, IInv, TypeOK, Proc
  <1>4. ASSUME NEW w \in {"record", "inserted"}, NEW p \in Pubs,
               Become(self, [proc[self] EXCEPT !.pc = w, !.pub = p])
        PROVE  Others(self) /\ proc'[self].pc = w /\ proc'[self].plan = proc[self].plan
    BY <1>1, <1>4 DEF Become, Others, IInv, TypeOK, Proc
  <1>5. CASE Return(self) /\ UNCHANGED pubs
    BY <1>1, <1>5, ReturnLeaves, LeavesUndo DEF IInv, RowsKept
  <1>6. CASE Acquire(self)
    BY <1>3, <1>5, <1>6 DEF Acquire
  <1>7. CASE ValidateHashes(self)
    BY <1>3, <1>5, <1>7 DEF ValidateHashes
  <1>8. CASE ReconcilePublished(self)
    <2>1. ASSUME NEW p \in Pubs, Become(self, [proc[self] EXCEPT !.pc = "record", !.pub = p])
          PROVE  UndoFits'
      BY <1>2, <1>4, <1>8, <2>1 DEF ReconcilePublished
    <2>2. QED
      BY <1>5, <1>8, <2>1 DEF ReconcilePublished
  <1>9. ASSUME NEW p \in Pubs, InsertAttempt(self, p)
        PROVE  UndoFits'
    <2>1. Others(self) /\ proc'[self].pc = "inserted" /\ proc'[self].plan = proc[self].plan
      BY <1>4, <1>9 DEF InsertAttempt
    <2>2. pubs'[p].plan = proc[self].plan /\ \A q \in Pubs \ {p} : pubs'[q] = pubs[q]
      BY <1>9 DEF InsertAttempt, SetRow, IInv, TypeOK
    <2>3. \A q \in Pubs : Whole(pubs'[q].plan)
      BY <1>1, <2>2 DEF UndoFits, PlansWhole
    <2>4. QED
      BY <1>1, <2>1, <2>3, StartsUndo
  <1>10. QED
    BY <1>6, <1>7, <1>8, <1>9

\* Plans stay whole when no preview is torn, whoever edits between previews.
LEMMA NextWhole ==
    ASSUME TornPreview = FALSE, IInv, UndoFits, [Next]_vars
    PROVE  UndoFits'
  <1>2. ASSUME NEW self \in Procs, Step(self)
        PROVE  UndoFits'
    BY <1>2, StepShape, StepPreviews, BeginsUndo, GoesOnUndo, LeavesUndo DEF IInv
  <1>3. ASSUME NEW self \in Procs, Crash(self)
        PROVE  UndoFits'
    <2>1. UNCHANGED previews
      BY <1>3 DEF Crash
    <2>2. QED
      BY <1>3, <2>1, CrashShape, LeavesUndo DEF IInv
  <1>4. ASSUME NEW self \in Procs, NEW plan \in previews, PublishRead(self, plan)
        PROVE  UndoFits'
    <2>1. Others(self) /\ proc'[self].pc = "checked" /\ proc'[self].plan = plan
      BY <1>4, IdleType DEF PublishRead, Become, Others, IInv, TypeOK, Idle
    <2>2. UNCHANGED <<previews, pubs>>
      BY <1>4 DEF PublishRead
    <2>3. QED
      BY <2>1, <2>2, StartsUndo DEF UndoFits, PlansWhole
  <1>5. ASSUME NEW self \in Procs, NEW p \in Pubs, RollbackAcquire(self, p)
        PROVE  UndoFits'
    <2>1. Others(self) /\ proc'[self].pc = "load" /\ proc'[self].plan = pubs[p].plan
      BY <1>5, IdleType DEF RollbackAcquire, Become, Others, IInv, TypeOK, Idle
    <2>2. UNCHANGED <<previews, pubs>>
      BY <1>5 DEF RollbackAcquire
    <2>3. QED
      BY <2>1, <2>2, StartsUndo DEF UndoFits, PlansWhole
  <1>6. ASSUME NEW l \in Learnings, Preview(l)
        PROVE  UndoFits'
    <2>1. UNCHANGED <<pubs, proc>>
      BY <1>6 DEF Preview
    <2>2. \A plan \in previews' : Whole(plan)
      BY <1>6 DEF Preview, Whole, UndoFits, PlansWhole
    <2>3. QED
      BY <2>1, <2>2, QuietUndo
  <1>7. ASSUME UNCHANGED <<previews, pubs, proc>>
        PROVE  UndoFits'
    BY <1>7, QuietUndo DEF UndoFits, PlansWhole
  <1>8. ASSUME NEW l \in Learnings, Reject(l)
        PROVE  UndoFits'
    BY <1>7, <1>8 DEF Reject
  <1>9. ASSUME RemoveStaleLock PROVE UndoFits'
    BY <1>7, <1>9 DEF RemoveStaleLock
  <1>10. ASSUME UNCHANGED vars PROVE UndoFits'
    BY <1>7, <1>10 DEF vars
  <1>11. ASSUME NEW f \in Files, Edit(f)
         PROVE  UndoFits'
    BY <1>7, <1>11 DEF Edit
  <1>12. ASSUME NEW self \in Procs, TornPreviewStep(self)
         PROVE  FALSE
    BY <1>12 DEF TornPreviewStep, PreviewBuild, PreviewSnapshot, PreviewCompose, At, UndoFits,
                 NeverTorn
  <1>13. QED
    BY <1>2, <1>3, <1>4, <1>5, <1>6, <1>8, <1>9, <1>10, <1>11, <1>12 DEF Next

\* UInv is inductive when nobody edits either.
LEMMA NextUndo ==
    ASSUME Budget["edit"] = 0, TornPreview = FALSE, UInv, [Next]_vars
    PROVE  UInv'
  <1>1. FInv' /\ KInv'
    BY NextFits, NextCompared DEF UInv
  <1>2. UndoFits'
    BY NextWhole DEF UInv, KInv, UndoFits
  <1>3. QED
    BY <1>1, <1>2 DEF UInv, UndoFits

\* UInv holds at first.
LEMMA InitUndo == Init => UInv
  <1>1. ASSUME Init PROVE PlansWhole /\ NeverTorn
    <2>1. PlansWhole
      BY <1>1, IdleIsWhole DEF Init, PlansWhole
    <2>2. NeverTorn
      BY <1>1 DEF Init, NeverTorn, Idle
    <2>3. QED
      BY <2>1, <2>2
  <1>2. QED
    BY <1>1, InitFits, InitCompared DEF UInv

\* With no edit in the budget, none is ever spent.
LEMMA UneditedBudget ==
    ASSUME TypeOK, TypeOK', Budget["edit"] = 0
    PROVE  used'["edit"] = used["edit"]
  BY DEF TypeOK, Kinds

\* A step takes a learning's text from a file.
Removes(l, f) == /\ disk[f] # NoFile /\ l \in disk[f]
                 /\ disk'[f] = NoFile \/ l \notin disk'[f]

\* Placing a publication's bytes takes no learning's text away, they were
\* composed from what the target still holds; restoring its original takes
\* away its own learning alone.
LEMMA RemovesOwn ==
    ASSUME UInv, NEW self \in Procs, NEW g \in Files,
           PlaceTarget(self, g) \/ RestorePlace(self, g),
           NEW l \in Learnings, NEW f \in Files, Removes(l, f)
    PROVE  lock = self /\ proc[self].pub # 0 /\ proc[self].plan.learning = l
  <1> DEFINE p == proc[self].pub
  <1>1. disk'[f] # disk[f]
    BY DEF Removes
  <1>2. /\ f = g /\ Current(self, g) /\ lock = self /\ proc[self].pc \in Stays
        /\ p \in Pubs /\ pubs[p].status # "none" /\ pubs[p].plan = proc[self].plan
        /\ PlaceTarget(self, g) => disk[g] = pubs[p].orig[g] /\ disk'[g] = Post(p, g)
        /\ RestorePlace(self, g) => disk[g] = Post(p, g) /\ disk'[g] = pubs[p].orig[g]
    BY <1>1, ReplacesCompared DEF UInv
  <1>3. g \in Targets(p)
    BY <1>2 DEF UInv, KInv, TodoFits, Within, Current
  <1>4. pubs[p].orig[g] = pubs[p].plan.base[g]
    BY <1>2, <1>3 DEF UInv, FInv, SnapshotIsPrior, PlansWhole, Whole
  <1>5. ASSUME PlaceTarget(self, g) PROVE FALSE
    <2>1. l \in Post(p, g)
      BY <1>2, <1>4, <1>5 DEF Removes, Post, Compose
    <2>2. Post(p, g) # NoFile
      BY <1>2, PostIsText DEF UInv, KInv, IInv
    <2>3. QED
      BY <1>2, <1>5, <2>1, <2>2 DEF Removes
  <1>6. l = pubs[p].plan.learning
    BY <1>2, <1>4, <1>5 DEF Removes, Post, Compose
  <1>7. p # 0
    BY <1>2, BoundsAssumption DEF Pubs
  <1>8. QED
    BY <1>2, <1>6, <1>7

\* When nobody edits and nothing changes the tree under a preview, the text of
\* a learning leaves a file only by the hand of an invocation that undoes a
\* publication of that very learning, whatever faults and crashes there are.
THEOREM OnlyOwnUndoCorrect ==
    ASSUME Budget["edit"] = 0, TornPreview = FALSE
    PROVE  Spec => OnlyOwnUndoRemoves
  <1>1. UInv /\ [Next]_vars => UInv'
    BY NextUndo
  <1>2. UInv /\ UInv' /\ [Next]_vars =>
          [\A l \in Learnings, f \in Files :
              /\ disk[f] # NoFile /\ l \in disk[f]
              /\ disk'[f] = NoFile \/ l \notin disk'[f]
              => \E self \in Procs :
                    lock = self /\ proc[self].pub # 0 /\ proc[self].plan.learning = l]_vars
    <2>1. ASSUME UInv, UInv', [Next]_vars, NEW l \in Learnings, NEW f \in Files, Removes(l, f)
          PROVE  \E self \in Procs :
                    lock = self /\ proc[self].pub # 0 /\ proc[self].plan.learning = l
      <3>1. disk' # disk
        BY <2>1 DEF Removes
      <3>2. PICK self \in Procs, g \in Files : PlaceTarget(self, g) \/ RestorePlace(self, g)
        BY <2>1, <3>1, OnlyPlacementsWrite, UneditedBudget DEF UInv, KInv, IInv
      <3>3. QED
        BY <2>1, <3>2, RemovesOwn
    <2>2. QED
      BY <2>1 DEF Removes
  <1>3. QED
    BY InitUndo, <1>1, <1>2, PTL DEF Spec, OnlyOwnUndoRemoves

-----------------------------------------------------------------------------
(* The order of the rows, when no two publications start within one second *)

\* What an invocation is about does not change under way.
Restoring == {"restore", "restore_place", "restore_save", "restored"}
Undoing == {"undo", "undo_place", "undo_save"}
Publishing == {"locked", "validated", "inserted", "inspect", "place", "progress", "verify",
               "commit"} \cup Undoing
OpFits == \A self \in Procs :
    /\ proc[self].pc \in Publishing => proc[self].op = "publish"
    /\ proc[self].pc \in Restoring \cup {"load"} => proc[self].op = "rollback"

\* Rows are filled in their order, each in a later second.
Ordered == \A p \in Pubs : pubs[p].status # "none" =>
    /\ pubs[p].started <= clock
    /\ \A q \in Pubs : q < p => pubs[q].status # "none" /\ pubs[q].started < pubs[p].started

\* Nothing newer in force owns a target of what is being rolled back.
NewestFits == \A self \in Procs : proc[self].pc \in Restoring =>
    \A q \in Pubs : q > proc[self].pub /\ Active(q) =>
        Targets(q) \cap Targets(proc[self].pub) = {}

OInv == IInv /\ OpFits /\ Ordered /\ NewestFits

\* The invocation changes only where it is.
Moves(self, To) ==
    /\ proc'[self].pc \in To /\ proc'[self].op = proc[self].op
    /\ proc'[self].pub = proc[self].pub /\ proc'[self].plan = proc[self].plan

\* Goto moves the invocation to a step and changes nothing else of it.
LEMMA GotoIs ==
    ASSUME TypeOK, NEW self \in Procs, NEW pc, Goto(self, pc)
    PROVE  /\ Moves(self, {pc}) /\ Others(self)
           /\ proc'[self].todo = proc[self].todo /\ proc'[self].bad = proc[self].bad
  <1>1. proc[self] \in Proc
    BY DEF TypeOK
  <1>2. QED
    BY <1>1 DEF Goto, Moves, Others, TypeOK, Proc

\* The compensation starts over every target, with nothing in the way yet.
LEMMA CompensateIs ==
    ASSUME TypeOK, NEW self \in Procs, Compensate(self)
    PROVE  /\ Moves(self, {"undo"}) /\ Others(self)
           /\ proc'[self].todo = Targets(proc[self].pub) /\ proc'[self].bad = {}
  <1>1. proc[self] \in Proc
    BY DEF TypeOK
  <1>2. QED
    BY <1>1 DEF Compensate, Become, Moves, Others, TypeOK, Proc

\* After one target the compensation goes on, and a rollback saves the entry.
LEMMA AfterRestoreIs ==
    ASSUME TypeOK, NEW self \in Procs, NEW f, NEW ok \in BOOLEAN, AfterRestore(self, f, ok)
    PROVE  /\ Others(self)
           /\ ok => proc'[self].bad = proc[self].bad
           /\ ~ok => proc'[self].bad = proc[self].bad \cup {f}
           /\ proc[self].op = "publish" =>
                 /\ Moves(self, {"undo", "undo_save"})
                 /\ proc'[self].todo = proc[self].todo \ {f}
                 /\ proc'[self].pc = "undo_save" => proc'[self].todo = {}
           /\ proc[self].op # "publish" =>
                 proc'[self].todo = proc[self].todo /\ Moves(self, {"restore_save"})
  <1>1. proc[self] \in Proc
    BY DEF TypeOK
  <1> DEFINE bad == IF ok THEN proc[self].bad ELSE proc[self].bad \cup {f}
  <1>2. (ok => bad = proc[self].bad) /\ (~ok => bad = proc[self].bad \cup {f})
    OBVIOUS
  <1>3. CASE proc[self].op = "publish"
    <2> DEFINE rest == proc[self].todo \ {f}
    <2>1. proc' = [proc EXCEPT ![self] = [proc[self] EXCEPT !.bad = bad, !.todo = rest,
                                 !.pc = IF rest = {} THEN "undo_save" ELSE "undo"]]
      BY <1>3 DEF AfterRestore, Become
    <2> HIDE DEF bad
    <2>2. /\ proc'[self].bad = bad /\ proc'[self].todo = rest /\ Others(self)
          /\ Moves(self, {"undo", "undo_save"})
          /\ proc'[self].pc = "undo_save" => rest = {}
      BY <1>1, <2>1 DEF Proc, TypeOK, Others, Moves
    <2>3. QED
      BY <1>2, <1>3, <2>2
  <1>4. CASE proc[self].op # "publish"
    <2>1. proc' = [proc EXCEPT ![self] = [proc[self] EXCEPT !.bad = bad, !.pc = "restore_save"]]
      BY <1>4 DEF AfterRestore, Become
    <2> HIDE DEF bad
    <2>2. proc'[self].bad = bad /\ proc'[self].todo = proc[self].todo /\ Others(self)
          /\ Moves(self, {"restore_save"})
      BY <1>1, <2>1 DEF Proc, TypeOK, Others, Moves
    <2>3. QED
      BY <1>2, <1>4, <2>2
  <1>5. QED
    BY <1>3, <1>4

\* Who returns is idle.
LEMMA ReturnIs ==
    ASSUME TypeOK, NEW self \in Procs, Return(self)
    PROVE  proc'[self] = Idle /\ Others(self)
  BY DEF Return, Become, Others, TypeOK

\* Going on in a loop, or from one to the next.
LEMMA LoopIs ==
    ASSUME TypeOK, NEW self \in Procs, NEW pc, NEW todo,
           Become(self, [proc[self] EXCEPT !.pc = pc, !.todo = todo])
    PROVE  /\ Moves(self, {pc}) /\ Others(self)
           /\ proc'[self].todo = todo /\ proc'[self].bad = proc[self].bad
  <1>1. proc[self] \in Proc
    BY DEF TypeOK
  <1>2. QED
    BY <1>1 DEF Become, Moves, Others, TypeOK, Proc

\* The same, as the loops that take one target off write it.
LEMMA RestLoopIs ==
    ASSUME TypeOK, NEW self \in Procs, NEW pc, NEW todo,
           Become(self, [proc[self] EXCEPT !.todo = todo, !.pc = pc])
    PROVE  /\ Moves(self, {pc}) /\ Others(self)
           /\ proc'[self].todo = todo /\ proc'[self].bad = proc[self].bad
  <1>1. proc[self] \in Proc
    BY DEF TypeOK
  <1>2. QED
    BY <1>1 DEF Become, Moves, Others, TypeOK, Proc

\* The rows stay but for the progress of their entries, or one changes status.
RowsAlike == \A p \in Pubs :
    /\ pubs'[p].plan = pubs[p].plan /\ pubs'[p].orig = pubs[p].orig
    /\ pubs'[p].status = pubs[p].status /\ pubs'[p].started = pubs[p].started

Sets(p, w) == \A q \in Pubs :
    /\ pubs'[q].plan = pubs[q].plan /\ pubs'[q].orig = pubs[q].orig
    /\ pubs'[q].status = (IF q = p THEN w ELSE pubs[q].status)
    /\ pubs'[q].started = pubs[q].started

\* The progress of one entry leaves everything else of the rows alone.
LEMMA SetEntryIs ==
    ASSUME TypeOK, NEW p \in Pubs, NEW f \in Files, NEW e,
           SetRow(p, [pubs[p] EXCEPT !.entry[f] = e])
    PROVE  /\ RowsAlike /\ \A q \in Pubs \ {p} : pubs'[q] = pubs[q]
           /\ pubs'[p].entry[f] = e
           /\ \A g \in Files \ {f} : pubs'[p].entry[g] = pubs[p].entry[g]
  <1>1. pubs[p] \in Row
    BY DEF TypeOK
  <1>2. pubs' = [pubs EXCEPT ![p] = [pubs[p] EXCEPT !.entry = [pubs[p].entry EXCEPT ![f] = e]]]
    BY DEF SetRow
  <1>3. pubs'[p].entry = [pubs[p].entry EXCEPT ![f] = e] /\ RowsAlike
        /\ \A q \in Pubs \ {p} : pubs'[q] = pubs[q]
    BY <1>1, <1>2 DEF TypeOK, Row, RowsAlike
  <1>4. pubs[p].entry \in [Files -> EntryState]
    BY <1>1 DEF Row
  <1>5. QED
    BY <1>3, <1>4

\* A status changes in its own row and alone.
LEMMA SetStatusIs ==
    ASSUME TypeOK, NEW p \in Pubs, NEW w, SetRow(p, [pubs[p] EXCEPT !.status = w])
    PROVE  Sets(p, w) /\ \A q \in Pubs : pubs'[q].entry = pubs[q].entry
  <1>1. pubs[p] \in Row
    BY DEF TypeOK
  <1>2. QED
    BY <1>1 DEF SetRow, TypeOK, Row, Sets

\* So it does when the outcome of every target is written with it.
LEMMA SetOutcomeIs ==
    ASSUME TypeOK, NEW p \in Pubs, NEW w, NEW e,
           SetRow(p, [pubs[p] EXCEPT !.status = w, !.entry = e])
    PROVE  Sets(p, w) /\ pubs'[p].entry = e /\ \A q \in Pubs \ {p} : pubs'[q] = pubs[q]
  <1>1. pubs[p] \in Row
    BY DEF TypeOK
  <1>2. QED
    BY <1>1 DEF SetRow, TypeOK, Row, Sets

\* The actions that write nothing but progress into the rows.
Writes(self) == CommitPublication(self) \/ SaveCompensation(self) \/ FailRollback(self)
                \/ CommitRollback(self)

\* All other steps but an insertion leave statuses, plans and originals alone.
LEMMA StepRowsAlike ==
    ASSUME TypeOK, AttemptKnown, NEW self \in Procs, Step(self), ~Writes(self),
           \A p \in Pubs : ~InsertAttempt(self, p)
    PROVE  RowsAlike
  <1>1. CASE pubs' = pubs
    BY <1>1 DEF RowsAlike
  <1>2. ASSUME NEW f \in Files, SaveProgress(self, f) \/ SaveRestore(self, f), pubs' # pubs
        PROVE  RowsAlike
    <2>1. proc[self].pub \in Pubs
      BY <1>2 DEF SaveProgress, SaveRestore, AttemptKnown, At
    <2>2. PICK e : SetRow(proc[self].pub, [pubs[proc[self].pub] EXCEPT !.entry[f] = e])
      BY <1>2 DEF SaveProgress, SaveRestore
    <2>3. QED
      BY <2>1, <2>2, SetEntryIs
  <1>3. QED
    BY <1>1, <1>2
    DEF Step, Writes, Acquire, ValidateHashes, InsertFails, CompensationAborts, JournalAttempt,
        InspectTarget, PlaceTarget, RestoreInspect, RestorePlace, VerifyTargets, Materialize,
        TerminalJournal, JournalCompensation, RollbackLoad, JournalFailedRollback,
        ReconcilePublished

\* Each of the four closes or completes its own row, or gives up.
LEMMA WritesOwn ==
    ASSUME IInv, NEW self \in Procs, Writes(self)
    PROVE  /\ proc[self].pub \in Pubs /\ pubs[proc[self].pub].status # "none"
           /\ \/ RowsAlike
              \/ CommitPublication(self) /\ Sets(proc[self].pub, "completed")
              \/ ~CommitPublication(self) /\ \E w \in {"failed", "rolled_back"} :
                     Sets(proc[self].pub, w)
  <1>1. proc[self].pub \in Pubs /\ pubs[proc[self].pub].status # "none"
    BY DEF Writes, CommitPublication, SaveCompensation, FailRollback, CommitRollback, At,
           IInv, AttemptKnown
  <1>2. CASE pubs' = pubs
    BY <1>1, <1>2 DEF RowsAlike
  <1>3. CASE pubs' # pubs /\ CommitPublication(self)
    BY <1>1, <1>3, SetStatusIs DEF CommitPublication, IInv
  <1>4. CASE pubs' # pubs /\ (FailRollback(self) \/ CommitRollback(self))
    <2>1. proc[self].pc = "restored"
      BY <1>4 DEF FailRollback, CommitRollback, At
    <2>2. ~CommitPublication(self)
      BY <2>1 DEF CommitPublication, At
    <2>3. QED
      BY <1>1, <1>4, <2>2, SetStatusIs DEF FailRollback, CommitRollback, IInv
  <1>5. CASE pubs' # pubs /\ SaveCompensation(self)
    <2>1. ~CommitPublication(self)
      BY <1>5 DEF CommitPublication, SaveCompensation, At
    <2>2. PICK e : SetRow(proc[self].pub,
                          [pubs[proc[self].pub] EXCEPT !.status = "failed", !.entry = e])
      BY <1>5 DEF SaveCompensation
    <2>3. QED
      BY <1>1, <2>1, <2>2, SetOutcomeIs DEF IInv
  <1>6. QED
    BY <1>2, <1>3, <1>4, <1>5 DEF Writes

\* Rows keep their order, whoever crashes in between.
LEMMA OrderedStep ==
    ASSUME SharedSecond = FALSE, IInv, Ordered, NEW self \in Procs, Step(self)
    PROVE  Ordered'
  <1>1. Pubs \subseteq Nat /\ clock \in Nat /\ \A p \in Pubs : pubs[p].started \in Nat
    BY BoundsAssumption DEF IInv, TypeOK, Row, Pubs
  <1>2. ASSUME NEW p \in Pubs, InsertAttempt(self, p)
        PROVE  Ordered'
    <2>1. /\ clock' = clock + 1 /\ pubs'[p].started = clock' /\ pubs'[p].status = "in_progress"
          /\ \A q \in Pubs \ {p} : pubs'[q] = pubs[q]
          /\ pubs[p].status = "none" /\ \A q \in Pubs : q < p => pubs[q].status # "none"
      BY <1>2 DEF InsertAttempt, SetRow, IInv, TypeOK
    <2>2. \A q \in Pubs : q > p => pubs[q].status = "none"
      BY <1>1, <2>1 DEF Ordered
    <2>3. QED
      BY <1>1, <2>1, <2>2 DEF Ordered
  <1>3. CASE RowsAlike /\ UNCHANGED clock
    BY <1>3 DEF Ordered, RowsAlike
  <1>4. CASE Writes(self)
    <2>1. UNCHANGED clock
      BY <1>4 DEF Writes, CommitPublication, SaveCompensation, FailRollback, CommitRollback
    <2>2. \A p \in Pubs : /\ pubs'[p].started = pubs[p].started
                          /\ pubs'[p].status = "none" <=> pubs[p].status = "none"
      BY <1>4, WritesOwn DEF RowsAlike, Sets
    <2>3. QED
      BY <2>1, <2>2 DEF Ordered
  <1>5. (\A p \in Pubs : ~InsertAttempt(self, p)) => UNCHANGED clock
    BY DEF Step, Acquire, ValidateHashes, InsertFails, CompensationAborts, JournalAttempt,
        InspectTarget, PlaceTarget, SaveProgress, RestoreInspect, RestorePlace, SaveRestore,
        VerifyTargets, CommitPublication, Materialize, TerminalJournal, SaveCompensation,
        JournalCompensation, RollbackLoad, FailRollback, JournalFailedRollback, CommitRollback,
        ReconcilePublished
  <1>6. QED
    BY <1>2, <1>3, <1>4, <1>5, StepRowsAlike DEF IInv

\* Where a step leads: out of every loop, on with a publication, into or on with
\* its compensation, or into or on with a rollback, which begins only where
\* nothing newer is in force.
Begins(self) ==
    /\ proc'[self].pc \in {"undo", "restore"} /\ proc'[self].pub = proc[self].pub
    /\ proc'[self].todo = Targets(proc[self].pub)
Flow(self) ==
    \/ proc'[self].pc \notin Publishing \cup Restoring \cup {"load"}
    \/ proc'[self].pc \in Publishing \ Undoing /\ proc'[self].op = "publish"
    \/ /\ proc'[self].pc \in Undoing /\ proc'[self].op = "publish" /\ RowsAlike
       /\ proc[self].pc \in Undoing \/ Begins(self)
    \/ /\ proc'[self].pc \in Restoring /\ proc'[self].op = "rollback"
       /\ proc'[self].pub = proc[self].pub /\ RowsAlike
       /\ proc[self].pc \in Restoring \/ (Begins(self) /\ ~NewerOwner(proc[self].pub))

\* Flow, from one kind of step to the next: who returns is in no loop.
LEMMA IdleFlow ==
    ASSUME TypeOK, NEW self \in Procs, Return(self)
    PROVE  Flow(self)
  BY ReturnIs DEF Flow, Idle, Publishing, Restoring, Undoing

\* A publication goes on.
LEMMA PublishFlow ==
    ASSUME NEW self \in Procs, proc[self].op = "publish",
           NEW To, Moves(self, To), To \subseteq Publishing \ Undoing
    PROVE  Flow(self)
  BY DEF Flow, Moves

\* A publication that fails begins its compensation.
LEMMA CompensateFlow ==
    ASSUME TypeOK, NEW self \in Procs, proc[self].op = "publish", Compensate(self), UNCHANGED pubs
    PROVE  Flow(self)
  <1>1. RowsAlike
    BY DEF RowsAlike
  <1>2. Moves(self, {"undo"}) /\ proc'[self].todo = Targets(proc[self].pub)
    BY CompensateIs
  <1>3. QED
    BY <1>1, <1>2 DEF Flow, Moves, Begins, Undoing

\* The write loop goes on or is compensated.
LEMMA WriteFlow ==
    ASSUME IInv, OpFits, NEW self \in Procs, NEW f \in Files,
           InspectTarget(self, f) \/ PlaceTarget(self, f) \/ SaveProgress(self, f)
    PROVE  Flow(self)
  <1>1. proc[self].op = "publish"
    BY DEF OpFits, Publishing, InspectTarget, PlaceTarget, SaveProgress, At
  <1>2. CASE Compensate(self) /\ UNCHANGED pubs
    BY <1>1, <1>2, CompensateFlow DEF IInv
  <1>3. ASSUME NEW w \in {"place", "progress"}, Goto(self, w) PROVE Flow(self)
    <2>1. {w} \subseteq Publishing \ Undoing
      BY DEF Publishing, Undoing
    <2>2. QED
      BY <1>1, <1>3, <2>1, GotoIs, PublishFlow DEF IInv
  <1>4. ASSUME Become(self, [proc[self] EXCEPT !.todo = proc[self].todo \ {f},
                      !.pc = IF proc[self].todo \ {f} = {} THEN "verify" ELSE "inspect"])
        PROVE Flow(self)
    <2> DEFINE w == IF proc[self].todo \ {f} = {} THEN "verify" ELSE "inspect"
    <2>1. {w} \subseteq Publishing \ Undoing
      BY DEF Publishing, Undoing
    <2>2. Moves(self, {w})
      BY <1>4, RestLoopIs DEF IInv
    <2>3. QED
      BY <1>1, <2>1, <2>2, PublishFlow DEF IInv
  <1>5. QED
    BY <1>2, <1>3, <1>4 DEF InspectTarget, PlaceTarget, SaveProgress

\* The steps of a publication before its first write.
LEMMA BeginFlow ==
    ASSUME IInv, OpFits, NEW self \in Procs,
           \/ Acquire(self) \/ ValidateHashes(self) \/ \E p \in Pubs : InsertAttempt(self, p)
           \/ InsertFails(self) \/ JournalAttempt(self) \/ ReconcilePublished(self)
    PROVE  Flow(self)
  <1>1. proc[self] \in Proc
    BY DEF IInv, TypeOK
  <1>2. CASE Return(self)
    BY <1>2, IdleFlow DEF IInv
  <1>3. ASSUME NEW w \in {"locked", "validated"}, Goto(self, w), proc[self].op = "publish"
        PROVE  Flow(self)
    <2>1. {w} \subseteq Publishing \ Undoing
      BY DEF Publishing, Undoing
    <2>2. QED
      BY <1>3, <2>1, GotoIs, PublishFlow DEF IInv
  <1>4. ASSUME NEW w \in {"find"}, Goto(self, w) PROVE Flow(self)
    BY <1>4, GotoIs DEF IInv, Flow, Moves, Publishing, Undoing, Restoring
  <1>5. ASSUME Become(self, [proc[self] EXCEPT !.pc = "inspect", !.todo = Targets(proc[self].pub)]),
               proc[self].op = "publish"
        PROVE  Flow(self)
    <2>1. {"inspect"} \subseteq Publishing \ Undoing
      BY DEF Publishing, Undoing
    <2>2. Moves(self, {"inspect"})
      BY <1>5, LoopIs DEF IInv
    <2>3. QED
      BY <1>5, <2>1, <2>2, PublishFlow DEF IInv
  <1>6. ASSUME NEW p \in Pubs, NEW w,
               Become(self, [proc[self] EXCEPT !.pc = w, !.pub = p])
        PROVE  proc'[self].pc = w /\ proc'[self].op = proc[self].op
    BY <1>1, <1>6 DEF Become, IInv, TypeOK, Proc
  <1>7. CASE Acquire(self)
    BY <1>2, <1>3, <1>4, <1>7 DEF Acquire
  <1>8. CASE ValidateHashes(self)
    BY <1>2, <1>3, <1>8 DEF ValidateHashes, OpFits, Publishing, At
  <1>9. CASE InsertFails(self)
    BY <1>2, <1>9 DEF InsertFails
  <1>10. CASE JournalAttempt(self)
    BY <1>2, <1>5, <1>10 DEF JournalAttempt, OpFits, Publishing, At
  <1>11. ASSUME NEW p \in Pubs, InsertAttempt(self, p) PROVE Flow(self)
    <2>1. proc[self].op = "publish"
      BY <1>11 DEF InsertAttempt, OpFits, Publishing, At
    <2>2. proc'[self].pc = "inserted" /\ proc'[self].op = "publish"
      BY <1>6, <1>11, <2>1 DEF InsertAttempt
    <2>3. QED
      BY <2>2 DEF Flow, Publishing, Undoing
  <1>12. CASE ReconcilePublished(self)
    <2>1. ASSUME NEW p \in Pubs, Become(self, [proc[self] EXCEPT !.pc = "record", !.pub = p])
          PROVE  Flow(self)
      BY <1>6, <2>1 DEF Flow, Publishing, Undoing, Restoring
    <2>2. QED
      BY <1>2, <1>12, <2>1 DEF ReconcilePublished
  <1>13. QED
    BY <1>7, <1>8, <1>9, <1>10, <1>11, <1>12

\* The steps that verify, commit, record, journal and close.
LEMMA EndFlow ==
    ASSUME IInv, OpFits, NEW self \in Procs,
           \/ VerifyTargets(self) \/ CommitPublication(self) \/ Materialize(self)
           \/ TerminalJournal(self) \/ CompensationAborts(self) \/ SaveCompensation(self)
           \/ JournalCompensation(self) \/ FailRollback(self) \/ JournalFailedRollback(self)
           \/ CommitRollback(self)
    PROVE  Flow(self)
  <1>1. proc[self] \in Proc
    BY DEF IInv, TypeOK
  <1>2. CASE Return(self)
    BY <1>2, IdleFlow DEF IInv
  <1>3. ASSUME NEW w \in {"journal", "undo_journal", "fail_journal"}, Goto(self, w)
        PROVE  Flow(self)
    BY <1>3, GotoIs DEF IInv, Flow, Moves, Publishing, Undoing, Restoring
  <1>4. ASSUME NEW s, Become(self, [proc[self] EXCEPT !.pc = "record", !.row = s])
        PROVE  Flow(self)
    <2>1. proc'[self].pc = "record"
      BY <1>1, <1>4 DEF Become, IInv, TypeOK, Proc
    <2>2. QED
      BY <2>1 DEF Flow, Publishing, Undoing, Restoring
  <1>5. ASSUME Become(self, [proc[self] EXCEPT !.pc = "journal", !.recordOk = FALSE])
        PROVE  Flow(self)
    <2>1. proc'[self].pc = "journal"
      BY <1>1, <1>5 DEF Become, IInv, TypeOK, Proc
    <2>2. QED
      BY <2>1 DEF Flow, Publishing, Undoing, Restoring
  <1>6. CASE VerifyTargets(self) \/ CommitPublication(self)
    <2>1. proc[self].op = "publish" /\ {"commit"} \subseteq Publishing \ Undoing
      BY <1>6 DEF OpFits, Publishing, Undoing, VerifyTargets, CommitPublication, At
    <2>2. CASE Compensate(self) /\ UNCHANGED pubs
      BY <2>1, <2>2, CompensateFlow DEF IInv
    <2>3. CASE Goto(self, "commit")
      BY <2>1, <2>3, GotoIs, PublishFlow DEF IInv
    <2>4. QED
      BY <1>4, <1>6, <2>2, <2>3 DEF VerifyTargets, CommitPublication
  <1>7. CASE Materialize(self)
    BY <1>3, <1>5, <1>7 DEF Materialize
  <1>8. CASE CommitRollback(self)
    BY <1>2, <1>4, <1>8 DEF CommitRollback
  <1>9. QED
    BY <1>2, <1>3, <1>6, <1>7, <1>8
    DEF TerminalJournal, CompensationAborts, SaveCompensation, JournalCompensation,
        FailRollback, JournalFailedRollback

\* The loop that puts targets back stays what it is.
LEMMA RestoreFlow ==
    ASSUME IInv, OpFits, NEW self \in Procs, NEW f \in Files,
           RestoreInspect(self, f) \/ RestorePlace(self, f) \/ SaveRestore(self, f)
    PROVE  Flow(self)
  <1>1. RowsAlike
    <2>1. ~Writes(self) /\ \A p \in Pubs : ~InsertAttempt(self, p)
      BY DEF RestoreInspect, RestorePlace, SaveRestore, Writes, CommitPublication,
             SaveCompensation, FailRollback, CommitRollback, InsertAttempt, At
    <2>2. QED
      BY <2>1, StepRowsAlike DEF IInv, Step
  <1>2. CASE proc[self].pc \in Undoing
    <2>1. proc[self].op = "publish"
      BY <1>2 DEF OpFits, Publishing
    <2>2. ASSUME NEW To, Moves(self, To), To \subseteq Undoing PROVE Flow(self)
      BY <1>1, <1>2, <2>1, <2>2 DEF Flow, Moves
    <2>3. CASE AfterRestore(self, f, TRUE) \/ AfterRestore(self, f, FALSE)
      <3>1. Moves(self, {"undo", "undo_save"})
        BY <2>1, <2>3, AfterRestoreIs DEF IInv
      <3>2. {"undo", "undo_save"} \subseteq Undoing
        BY DEF Undoing
      <3>3. QED
        BY <2>2, <3>1, <3>2
    <2>4. CASE Goto(self, "undo_place")
      <3>1. {"undo_place"} \subseteq Undoing
        BY DEF Undoing
      <3>2. QED
        BY <2>2, <2>4, <3>1, GotoIs DEF IInv
    <2>5. QED
      BY <1>2, <2>3, <2>4 DEF RestoreInspect, RestorePlace, SaveRestore, Undoing, At
  <1>3. CASE proc[self].pc \in Restoring
    <2>1. proc[self].op = "rollback"
      BY <1>3 DEF OpFits
    <2>2. ASSUME NEW w \in Restoring, Moves(self, {w}) PROVE Flow(self)
      BY <1>1, <1>3, <2>1, <2>2 DEF Flow, Moves
    <2>3. CASE AfterRestore(self, f, TRUE) \/ AfterRestore(self, f, FALSE)
      <3>1. proc[self].op # "publish"
        BY <2>1
      <3>2. Moves(self, {"restore_save"})
        BY <2>3, <3>1, AfterRestoreIs DEF IInv
      <3>3. QED
        BY <2>2, <3>2 DEF Restoring
    <2>4. CASE Goto(self, "restore_place")
      BY <2>2, <2>4, GotoIs DEF IInv, Restoring
    <2>5. ASSUME Become(self, [proc[self] EXCEPT !.todo = proc[self].todo \ {f},
                      !.pc = IF proc[self].todo \ {f} = {} THEN "restored" ELSE "restore"])
          PROVE Flow(self)
      <3> DEFINE w == IF proc[self].todo \ {f} = {} THEN "restored" ELSE "restore"
      <3>1. Moves(self, {w})
        BY <2>5, RestLoopIs DEF IInv
      <3>2. w \in Restoring
        BY DEF Restoring
      <3>3. QED
        BY <2>2, <3>1, <3>2
    <2>6. CASE Return(self)
      BY <2>6, IdleFlow DEF IInv
    <2>7. QED
      BY <1>3, <2>3, <2>4, <2>5, <2>6 DEF RestoreInspect, RestorePlace, SaveRestore, Restoring, At
  <1>4. QED
    BY <1>2, <1>3 DEF RestoreInspect, RestorePlace, SaveRestore, Undoing, Restoring, At

\* A rollback begins only where nothing newer is in force (RollbackLoad).
LEMMA LoadFlow ==
    ASSUME IInv, OpFits, NEW self \in Procs, RollbackLoad(self)
    PROVE  Flow(self)
  <1>1. proc[self] \in Proc /\ proc[self].op = "rollback" /\ RowsAlike
    BY DEF IInv, TypeOK, OpFits, RollbackLoad, At, RowsAlike
  <1>2. CASE Return(self)
    BY <1>2, IdleFlow DEF IInv
  <1>3. ASSUME NEW s, Become(self, [proc[self] EXCEPT !.pc = "record",
                                      !.op = "reconcile_rolled_back", !.row = s])
        PROVE  Flow(self)
    <2>1. proc'[self].pc = "record"
      BY <1>1, <1>3 DEF Become, IInv, TypeOK, Proc
    <2>2. QED
      BY <2>1 DEF Flow, Publishing, Undoing, Restoring
  <1>4. ASSUME Become(self, [proc[self] EXCEPT !.pc = "restore", !.todo = Targets(proc[self].pub)]),
               ~NewerOwner(proc[self].pub)
        PROVE  Flow(self)
    <2>1. Moves(self, {"restore"}) /\ proc'[self].todo = Targets(proc[self].pub)
      BY <1>4, LoopIs DEF IInv
    <2>2. QED
      BY <1>1, <1>4, <2>1 DEF Flow, Moves, Begins, Restoring
  <1>5. QED
    BY <1>2, <1>3, <1>4 DEF RollbackLoad

\* Every step flows.
LEMMA StepFlow ==
    ASSUME IInv, OpFits, NEW self \in Procs, Step(self)
    PROVE  Flow(self)
  BY WriteFlow, BeginFlow, EndFlow, RestoreFlow, LoadFlow DEF Step

\* The attempt stays known, as a step of its own.
LEMMA StepAttempt ==
    ASSUME IInv, NEW self \in Procs, Step(self)
    PROVE  AttemptKnown'
  BY NextInv DEF IInv, Next

\* Whoever is inside is the only one that moves: others can only fail to get in.
LEMMA InsideAlone ==
    ASSUME IInv, NEW self \in Procs, Step(self), NEW q \in Procs \ {self},
           proc[q].pc \notin Outside
    PROVE  UNCHANGED <<disk, pubs>>
  <1>1. lock = q
    BY DEF IInv, LockHeldInside, Outside
  <1>2. proc[self].pc \in Outside
    BY <1>1 DEF IInv, LockHeldInside, Outside
  <1>3. Acquire(self)
    BY <1>2 DEF Step, Outside, At, Acquire, ValidateHashes, InsertAttempt, InsertFails,
       CompensationAborts, JournalAttempt, InspectTarget, PlaceTarget, SaveProgress,
       RestoreInspect, RestorePlace, SaveRestore, VerifyTargets, CommitPublication,
       Materialize, TerminalJournal, SaveCompensation, JournalCompensation, RollbackLoad,
       FailRollback, JournalFailedRollback, CommitRollback, ReconcilePublished
  <1>4. QED
    BY <1>3 DEF Acquire

\* Nothing newer comes into force under a rollback: it holds the lock.
LEMMA FlowStep ==
    ASSUME OInv, NEW self \in Procs, Step(self)
    PROVE  OpFits' /\ NewestFits'
  <1>1. Others(self) /\ Flow(self)
    BY StepOthers, StepFlow DEF OInv, IInv
  <1>2. OpFits'
    BY <1>1 DEF OInv, OpFits, Others, Flow, Publishing, Undoing, Restoring
  <1>3. ASSUME NEW q \in Procs, proc'[q].pc \in Restoring
        PROVE  \A r \in Pubs : r > proc'[q].pub /\ Active(r)' =>
                   Targets(r)' \cap Targets(proc[q].pub)' = {}
    <2>1. CASE q = self
      <3>1. /\ proc'[self].pub = proc[self].pub /\ RowsAlike
            /\ proc[self].pc \in Restoring \/ ~NewerOwner(proc[self].pub)
        BY <1>1, <1>3, <2>1 DEF Flow, Publishing, Undoing, Restoring
      <3>2. proc'[self].pub \in Pubs /\ pubs'[proc'[self].pub].status # "none"
        BY <1>3, <2>1, StepAttempt DEF OInv, AttemptKnown, Restoring
      <3>3. \A r \in Pubs : r > proc[self].pub /\ Active(r) =>
                Targets(r) \cap Targets(proc[self].pub) = {}
        BY <3>1, <3>2 DEF OInv, NewestFits, NewerOwner, Ordered, Active, RowsAlike
      <3>4. QED
        BY <2>1, <3>1, <3>2, <3>3 DEF RowsAlike, Active, Targets
    <2>2. CASE q # self
      <3>1. proc'[q] = proc[q]
        BY <1>1, <2>2 DEF Others
      <3>2. UNCHANGED pubs
        BY <1>3, <2>2, <3>1, InsideAlone DEF OInv, Restoring, Outside
      <3>3. QED
        BY <1>3, <3>1, <3>2 DEF OInv, NewestFits, Active, Targets
    <2>3. QED
      BY <2>1, <2>2
  <1>4. QED
    BY <1>2, <1>3 DEF NewestFits

\* An invocation stays where it is, ends, or starts a preview, a publication or
\* a rollback.
Rests(q) == proc'[q] = proc[q] \/ /\ proc'[q].bad \in {proc[q].bad, {}}
                                  /\ \/ proc'[q].todo = {}
                                     \/ proc'[q].todo = proc[q].todo /\ proc[q].pc = "built"
                                  /\ \/ proc'[q].pc \in Outside
                                     \/ proc'[q].pc = "load" /\ proc'[q].op = "rollback"

\* Everything that is no step of an invocation under way leaves the rows alone,
\* and starts an invocation or ends one.
LEMMA OtherActs ==
    ASSUME IInv, [Next]_vars, \A self \in Procs : ~Step(self)
    PROVE  /\ UNCHANGED <<pubs, clock>> /\ \A q \in Procs : Rests(q)
           /\ disk' = disk \/ \E f \in Files : Edit(f)
  <1> USE DEF Rests
  <1>1. Idle.pc = "idle" /\ Idle.bad = {} /\ Idle.todo = {} /\ Idle \in Proc
    BY IdleType DEF Idle
  <1>2. \A q \in Procs : proc[q] \in Proc
    BY DEF IInv, TypeOK
  <1>3. ASSUME NEW self \in Procs, Crash(self)
        PROVE  UNCHANGED <<disk, pubs, clock>> /\ \A q \in Procs : Rests(q)
    BY <1>1, <1>3 DEF Crash, Become, IInv, TypeOK, Outside
  <1>4. ASSUME NEW self \in Procs, NEW plan \in previews, PublishRead(self, plan)
        PROVE  UNCHANGED <<disk, pubs, clock>> /\ \A q \in Procs : Rests(q)
    <2>1. /\ proc'[self].pc = "checked" /\ proc'[self].bad = {} /\ proc'[self].todo = {}
          /\ Others(self)
      BY <1>1, <1>4 DEF PublishRead, Become, IInv, TypeOK, Proc, Others
    <2>2. QED
      BY <1>4, <2>1 DEF PublishRead, Outside, Others
  <1>5. ASSUME NEW self \in Procs, NEW p \in Pubs, RollbackAcquire(self, p)
        PROVE  UNCHANGED <<disk, pubs, clock>> /\ \A q \in Procs : Rests(q)
    <2>1. /\ proc'[self].pc = "load" /\ proc'[self].op = "rollback" /\ proc'[self].bad = {}
          /\ proc'[self].todo = {} /\ Others(self)
      BY <1>1, <1>5 DEF RollbackAcquire, Become, IInv, TypeOK, Proc, Others
    <2>2. QED
      BY <1>5, <2>1 DEF RollbackAcquire, Others
  <1>6. ASSUME NEW self \in Procs, TornPreviewStep(self)
        PROVE  UNCHANGED <<disk, pubs, clock>> /\ \A q \in Procs : Rests(q)
    <2>1. UNCHANGED <<disk, pubs, clock>>
      BY <1>6 DEF TornPreviewStep, PreviewBuild, PreviewSnapshot, PreviewCompose
    <2>2. /\ proc'[self].bad \in {proc[self].bad, {}}
          /\ \/ proc'[self].todo = {}
             \/ proc'[self].todo = proc[self].todo /\ proc[self].pc = "built"
      <3>1. ASSUME NEW l \in Learnings, PreviewBuild(self, l)
            PROVE  proc'[self].bad = {} /\ proc'[self].todo = {}
        BY <1>1, <3>1 DEF PreviewBuild, Become, IInv, TypeOK, Proc
      <3>2. ASSUME PreviewSnapshot(self)
            PROVE  /\ proc'[self].bad = proc[self].bad /\ proc'[self].todo = proc[self].todo
                   /\ proc[self].pc = "built"
        BY <1>2, <3>2 DEF PreviewSnapshot, Become, At, IInv, TypeOK, Proc
      <3>3. ASSUME PreviewCompose(self)
            PROVE  proc'[self].bad = {} /\ proc'[self].todo = {}
        BY <1>1, <3>3 DEF PreviewCompose, Become, IInv, TypeOK
      <3>4. QED
        BY <1>6, <3>1, <3>2, <3>3 DEF TornPreviewStep
    <2>3. QED
      BY <1>6, <2>1, <2>2, TornPreviewShape DEF IInv, Others
  <1>7. ASSUME NEW l \in Learnings, Preview(l) \/ Reject(l)
        PROVE  UNCHANGED <<disk, pubs, clock>> /\ \A q \in Procs : Rests(q)
    BY <1>7 DEF Preview, Reject
  <1>8. CASE RemoveStaleLock
    BY <1>8 DEF RemoveStaleLock
  <1>9. ASSUME NEW f \in Files, Edit(f)
        PROVE  UNCHANGED <<pubs, clock>> /\ \A q \in Procs : Rests(q)
    BY <1>9 DEF Edit
  <1>10. CASE UNCHANGED vars
    BY <1>10 DEF vars
  <1>11. QED
    BY <1>3, <1>4, <1>5, <1>6, <1>7, <1>8, <1>9, <1>10 DEF Next

\* Loops stay within their publications, and invocations go on with what they
\* came for, whoever edits and whatever is published within one second.
LEMMA NextLoops ==
    ASSUME IInv, TodoFits, OpFits, [Next]_vars
    PROVE  TodoFits' /\ OpFits'
  <1>1. CASE \E self \in Procs : Step(self)
    <2>1. PICK self \in Procs : Step(self)
      BY <1>1
    <2>2. Others(self) /\ Flow(self)
      BY <2>1, StepOthers, StepFlow DEF IInv
    <2>3. OpFits'
      BY <2>2 DEF OpFits, Others, Flow, Publishing, Undoing, Restoring
    <2>4. QED
      BY <2>1, <2>3, StepTodo
  <1>2. CASE \A self \in Procs : ~Step(self)
    <2>1. UNCHANGED pubs /\ \A q \in Procs : Rests(q)
      BY <1>2, OtherActs
    <2>2. OpFits'
      BY <2>1 DEF OpFits, Rests, Outside, Publishing, Undoing, Restoring
    <2>3. ASSUME NEW q \in Procs PROVE proc'[q].todo \subseteq Within(q)'
      <3>1. CASE proc'[q] = proc[q]
        BY <2>1, <3>1 DEF TodoFits, Within, Targets
      <3>2. CASE proc'[q].todo = {}
        BY <3>2
      <3>3. CASE proc'[q].todo = proc[q].todo /\ proc[q].pc = "built"
        BY <3>3 DEF TodoFits, Within, Stays, Outside
      <3>4. QED
        BY <2>1, <3>1, <3>2, <3>3 DEF Rests
    <2>4. QED
      BY <2>2, <2>3 DEF TodoFits
  <1>3. QED
    BY <1>1, <1>2

\* OInv is inductive when no two publications start within one second.
LEMMA NextOrder ==
    ASSUME SharedSecond = FALSE, OInv, [Next]_vars
    PROVE  OInv'
  <1>1. IInv'
    BY NextInv DEF OInv
  <1>2. CASE \E self \in Procs : Step(self)
    BY <1>1, <1>2, OrderedStep, FlowStep DEF OInv
  <1>3. CASE \A self \in Procs : ~Step(self)
    <2>1. UNCHANGED <<pubs, clock>> /\ \A q \in Procs : Rests(q)
      BY <1>3, OtherActs DEF OInv
    <2>2. OpFits'
      BY <2>1 DEF OInv, OpFits, Rests, Outside, Publishing, Undoing, Restoring
    <2>3. Ordered'
      BY <2>1 DEF OInv, Ordered
    <2>4. \A q \in Procs : proc'[q].pc \in Restoring => proc'[q] = proc[q]
      BY <2>1 DEF Rests, Outside, Restoring
    <2>5. NewestFits'
      BY <2>1, <2>4 DEF OInv, NewestFits, Active, Targets
    <2>6. QED
      BY <1>1, <2>2, <2>3, <2>5 DEF OInv
  <1>4. QED
    BY <1>2, <1>3

\* OInv holds at first.
LEMMA InitOrder == Init => OInv
  <1>1. Init => OpFits /\ Ordered /\ NewestFits
    BY DEF Init, OpFits, Ordered, NewestFits, Idle, NoRow, Publishing, Undoing, Restoring
  <1>2. QED
    BY <1>1, InitInv DEF OInv

-----------------------------------------------------------------------------
(* What a loop has put back, when nobody edits *)

\* A target that is done is in conflict or back to its original bytes, and the
\* row says restored only if it is.
Restored(self) ==
    LET p == proc[self].pub IN
    proc[self].pc \in Undoing \cup Restoring =>
        /\ \A f \in Targets(p) \ proc[self].todo : f \in proc[self].bad \/ disk[f] = pubs[p].orig[f]
        /\ proc[self].pc \in {"undo_save", "restored"} => proc[self].todo = {}
        /\ proc[self].pc = "restore_save" => \A f \in Targets(p) :
               Current(self, f) => f \in proc[self].bad \/ disk[f] = pubs[p].orig[f]
        /\ proc[self].pc \in Restoring => \A f \in Targets(p) \ proc[self].todo :
               pubs[p].entry[f] = "restored" => disk[f] = pubs[p].orig[f]
RestoredFits == \A self \in Procs : Restored(self)

RInv == OInv /\ TodoFits /\ RestoredFits

\* What a loop works on is its publication, one target after the other.
LEMMA WorkKnown ==
    ASSUME IInv, TodoFits, NEW self \in Procs, proc[self].pc \in Undoing \cup Restoring
    PROVE  /\ proc[self].pub \in Pubs /\ proc[self].todo \subseteq Targets(proc[self].pub)
           /\ \A f, g \in proc[self].todo : Current(self, f) /\ Current(self, g) => f = g
  <1>1. proc[self].pub \in Pubs
    BY DEF IInv, AttemptKnown, Undoing, Restoring
  <1>2. proc[self].todo \subseteq Targets(proc[self].pub)
    BY DEF TodoFits, Within, Stays, Pc, Outside, Undoing, Restoring
  <1>3. proc[self].todo \subseteq Nat
    BY FilesAssumption DEF IInv, TypeOK, Proc
  <1>4. QED
    BY <1>1, <1>2, <1>3 DEF Current

\* One target is put back, or found to be in the way.
LEMMA RestoredAfter ==
    ASSUME IInv, OpFits, TodoFits, NEW self \in Procs, Restored(self), NEW f \in Files,
           proc[self].pc \in {"undo", "undo_place", "restore", "restore_place"},
           Current(self, f), UNCHANGED pubs, \A g \in Files \ {f} : disk'[g] = disk[g],
           \/ AfterRestore(self, f, TRUE) /\ disk'[f] = pubs[proc[self].pub].orig[f]
           \/ AfterRestore(self, f, FALSE) /\ UNCHANGED disk
           \/ AfterRestore(self, f, FALSE) /\ disk'[f] = pubs[proc[self].pub].orig[f]
    PROVE  Restored(self)'
  <1> DEFINE p == proc[self].pub
  <1>1. /\ p \in Pubs /\ proc[self].todo \subseteq Targets(p)
        /\ \A g \in proc[self].todo : Current(self, g) => g = f
    BY WorkKnown DEF Undoing, Restoring, Current
  <1>2. Targets(p) \subseteq Files
    BY <1>1, TargetsType DEF IInv
  <1>3. AfterRestore(self, f, TRUE) => proc'[self].bad = proc[self].bad
    BY AfterRestoreIs DEF IInv
  <1>4. AfterRestore(self, f, FALSE) => proc'[self].bad = proc[self].bad \cup {f}
    BY AfterRestoreIs DEF IInv
  <1>5. f \in proc'[self].bad \/ disk'[f] = pubs[p].orig[f]
    BY <1>3, <1>4
  <1>6. proc[self].bad \subseteq proc'[self].bad
    BY <1>3, <1>4
  <1>7. \A g \in Targets(p) \ proc[self].todo : g \in proc'[self].bad \/ disk'[g] = pubs[p].orig[g]
    BY <1>2, <1>5, <1>6 DEF Restored, Undoing, Restoring
  <1>8. CASE proc[self].op = "publish"
    <2>1. /\ Moves(self, {"undo", "undo_save"}) /\ proc'[self].todo = proc[self].todo \ {f}
          /\ proc'[self].pc = "undo_save" => proc'[self].todo = {}
      BY <1>8, AfterRestoreIs DEF IInv
    <2>2. QED
      BY <1>5, <1>7, <2>1 DEF Moves, Restored, Restoring, Targets
  <1>9. CASE proc[self].op # "publish"
    <2>1. Moves(self, {"restore_save"}) /\ proc'[self].todo = proc[self].todo
      BY <1>9, AfterRestoreIs DEF IInv
    <2>2. \A g : Current(self, g)' <=> Current(self, g)
      BY <2>1 DEF Current
    <2>3. proc[self].pc \in Restoring
      BY <1>9 DEF OpFits, Publishing, Undoing, Restoring
    <2>4. \A g \in Targets(p) \ proc[self].todo :
              pubs[p].entry[g] = "restored" => disk'[g] = pubs[p].orig[g]
      <3>1. f \in proc[self].todo
        BY DEF Current
      <3>2. QED
        BY <1>2, <2>3, <3>1 DEF Restored
    <2>5. \A g \in Targets(p) : Current(self, g) =>
              g \in proc'[self].bad \/ disk'[g] = pubs[p].orig[g]
      BY <1>1, <1>5 DEF Current
    <2>6. proc'[self].pc = "restore_save" /\ proc'[self].pub = p
      BY <2>1 DEF Moves
    <2>7. QED
      <3>1. UNCHANGED Targets(p)
        BY <2>6 DEF Targets
      <3>2. ~(proc'[self].pc \in {"undo_save", "restored"})
        BY <2>6
      <3>3. \A g \in Targets(p) : Current(self, g)' =>
                g \in proc'[self].bad \/ disk'[g] = pubs[p].orig[g]
        BY <2>2, <2>5
      <3>4. QED
        BY <1>7, <2>1, <2>4, <2>6, <3>1, <3>2, <3>3 DEF Restored
  <1>10. QED
    BY <1>8, <1>9

\* The loops of the compensation and of the rollback.
LEMMA RestoredLoop ==
    ASSUME IInv, OpFits, TodoFits, NEW self \in Procs, Restored(self), NEW f \in Files,
           RestoreInspect(self, f) \/ RestorePlace(self, f) \/ SaveRestore(self, f)
    PROVE  Restored(self)'
  <1> DEFINE p == proc[self].pub
  <1>1. /\ p \in Pubs /\ proc[self].todo \subseteq Targets(p)
        /\ Targets(p) \subseteq Files /\ Current(self, f)
    <2>1. proc[self].pc \in Undoing \cup Restoring /\ Current(self, f)
      BY DEF RestoreInspect, RestorePlace, SaveRestore, At, Undoing, Restoring
    <2>2. QED
      BY <2>1, WorkKnown, TargetsType DEF IInv
  <1>2. disk \in [Files -> Content]
    BY DEF IInv, TypeOK
  <1>3. ASSUME At(self, "undo") \/ At(self, "restore"), UNCHANGED <<disk, pubs>>,
               Goto(self, IF At(self, "undo") THEN "undo_place" ELSE "restore_place")
        PROVE  Restored(self)'
    <2>1. proc'[self].pc = IF At(self, "undo") THEN "undo_place" ELSE "restore_place"
      BY <1>3, GotoIs DEF IInv, Moves
    <2>2. /\ proc'[self].pub = p /\ proc'[self].todo = proc[self].todo
          /\ proc'[self].bad = proc[self].bad
      BY <1>3, GotoIs DEF IInv, Moves
    <2>3. QED
      BY <1>3, <2>1, <2>2 DEF Restored, Targets, At, Undoing, Restoring
  <1>4. CASE RestoreInspect(self, f)
    <2>1. proc[self].pc \in {"undo", "undo_place", "restore", "restore_place"}
      BY <1>4 DEF RestoreInspect, At
    <2>2. CASE AfterRestore(self, f, FALSE) \/ (disk[f] = pubs[p].orig[f] /\ AfterRestore(self, f, TRUE))
      BY <1>1, <1>4, <2>1, <2>2, RestoredAfter DEF RestoreInspect
    <2>3. QED
      BY <1>3, <1>4, <2>2 DEF RestoreInspect
  <1>5. CASE RestorePlace(self, f)
    <2>1. proc[self].pc \in {"undo", "undo_place", "restore", "restore_place"}
      BY <1>5 DEF RestorePlace, At
    <2>2. CASE AfterRestore(self, f, FALSE) /\ UNCHANGED disk
      BY <1>1, <1>5, <2>1, <2>2, RestoredAfter DEF RestorePlace
    <2>3. CASE /\ AfterRestore(self, f, TRUE) \/ AfterRestore(self, f, FALSE)
               /\ disk' = [disk EXCEPT ![f] = pubs[p].orig[f]]
      <3>1. disk'[f] = pubs[p].orig[f] /\ \A g \in Files \ {f} : disk'[g] = disk[g]
        BY <1>2, <2>3
      <3>2. QED
        BY <1>1, <1>5, <2>1, <2>3, <3>1, RestoredAfter DEF RestorePlace
    <2>4. QED
      BY <1>5, <2>2, <2>3 DEF RestorePlace
  <1>6. ASSUME Return(self) PROVE Restored(self)'
    BY <1>6, ReturnIs DEF IInv, Idle, Restored, Undoing, Restoring
  <1>7. CASE SaveRestore(self, f) /\ ~Return(self)
    <2> DEFINE w == IF f \in proc[self].bad THEN "conflict" ELSE "restored"
               next == IF proc[self].todo \ {f} = {} THEN "restored" ELSE "restore"
    <2>1. /\ SetRow(p, [pubs[p] EXCEPT !.entry[f] = w]) /\ UNCHANGED disk
          /\ Become(self, [proc[self] EXCEPT !.todo = proc[self].todo \ {f}, !.pc = next])
      BY <1>7 DEF SaveRestore
    <2>2. w = "restored" => f \notin proc[self].bad
      OBVIOUS
    <2>3. next \in {"restored", "restore"} /\ (next = "restored" => proc[self].todo \ {f} = {})
      OBVIOUS
    <2> HIDE DEF w, next
    <2>4. /\ RowsAlike /\ pubs'[p].entry[f] = w
          /\ \A g \in Files \ {f} : pubs'[p].entry[g] = pubs[p].entry[g]
      BY <1>1, <2>1, SetEntryIs DEF IInv
    <2>5. /\ proc'[self].pc = next /\ proc'[self].pub = p
          /\ proc'[self].todo = proc[self].todo \ {f} /\ proc'[self].bad = proc[self].bad
      <3>1. /\ Moves(self, {next}) /\ proc'[self].bad = proc[self].bad
            /\ proc'[self].todo = proc[self].todo \ {f}
        BY <2>1, RestLoopIs DEF IInv
      <3>2. QED
        BY <3>1 DEF Moves
    <2>6. proc[self].pc = "restore_save" /\ proc[self].pc \in Restoring
      BY <1>7 DEF SaveRestore, At, Restoring
    <2>7. UNCHANGED Targets(p) /\ pubs'[p].orig = pubs[p].orig
      BY <1>1, <2>4, <2>5 DEF RowsAlike, Targets
    <2>8. \A g \in Targets(p) \ proc'[self].todo :
              /\ g \in proc'[self].bad \/ disk'[g] = pubs'[p].orig[g]
              /\ pubs'[p].entry[g] = "restored" => disk'[g] = pubs'[p].orig[g]
      BY <1>1, <2>1, <2>2, <2>4, <2>5, <2>6, <2>7 DEF Restored
    <2>9. QED
      BY <2>3, <2>5, <2>7, <2>8 DEF Restored
  <1>8. QED
    BY <1>4, <1>5, <1>6, <1>7

\* Where a compensation or a rollback may go.
LEMMA RestoreEnds ==
    ASSUME IInv, NEW self \in Procs, Step(self), proc[self].pc \in Undoing \cup Restoring
    PROVE  \/ \E f \in Files : \/ RestoreInspect(self, f) \/ RestorePlace(self, f)
                               \/ SaveRestore(self, f)
           \/ proc'[self].pc \notin Undoing \cup Restoring
  <1>1. \/ \E f \in Files : RestoreInspect(self, f) \/ RestorePlace(self, f) \/ SaveRestore(self, f)
        \/ SaveCompensation(self) \/ CompensationAborts(self)
        \/ FailRollback(self) \/ CommitRollback(self)
    BY DEF Undoing, Restoring, Step, At, Acquire, ValidateHashes, InsertAttempt, InsertFails,
       JournalAttempt, InspectTarget, PlaceTarget, SaveProgress, VerifyTargets,
       CommitPublication, Materialize, TerminalJournal, JournalCompensation, RollbackLoad,
       JournalFailedRollback, ReconcilePublished
  <1>2. ASSUME Return(self) PROVE proc'[self].pc \notin Undoing \cup Restoring
    BY <1>2, ReturnIs DEF IInv, Idle, Undoing, Restoring
  <1>3. ASSUME NEW w \in {"undo_journal", "fail_journal"}, Goto(self, w)
        PROVE  proc'[self].pc \notin Undoing \cup Restoring
    BY <1>3, GotoIs DEF IInv, Moves, Undoing, Restoring
  <1>4. ASSUME NEW s, Become(self, [proc[self] EXCEPT !.pc = "record", !.row = s])
        PROVE  proc'[self].pc \notin Undoing \cup Restoring
    <2>1. proc[self] \in Proc
      BY DEF IInv, TypeOK
    <2>2. proc'[self].pc = "record"
      BY <1>4, <2>1 DEF Become, IInv, TypeOK, Proc
    <2>3. QED
      BY <2>2 DEF Undoing, Restoring
  <1>5. QED
    BY <1>1, <1>2, <1>3, <1>4
    DEF SaveCompensation, CompensationAborts, FailRollback, CommitRollback

\* Every step keeps what has been put back.
LEMMA RestoredStep ==
    ASSUME IInv, OpFits, TodoFits, RestoredFits, NEW self \in Procs, Step(self)
    PROVE  RestoredFits'
  <1>1. Others(self) /\ Flow(self)
    BY StepOthers, StepFlow DEF IInv
  <1>2. Restored(self)'
    <2>1. CASE proc'[self].pc \notin Undoing \cup Restoring
      BY <2>1 DEF Restored
    <2>2. CASE Begins(self) /\ RowsAlike
      <3>1. proc'[self].pc \in {"undo", "restore"} /\ proc'[self].todo = Targets(proc[self].pub)
            /\ proc'[self].pub = proc[self].pub
        BY <2>2 DEF Begins
      <3>2. proc'[self].pub \in Pubs
        BY <3>1, StepAttempt DEF AttemptKnown
      <3>3. Targets(proc[self].pub)' = proc'[self].todo
        BY <2>2, <3>1, <3>2 DEF Targets, RowsAlike
      <3>4. QED
        BY <3>1, <3>3 DEF Restored
    <2>3. CASE proc[self].pc \in Undoing \cup Restoring
      BY <2>1, <2>3, RestoreEnds, RestoredLoop DEF RestoredFits
    <2>4. QED
      BY <1>1, <2>1, <2>2, <2>3 DEF Flow, Publishing, Undoing, Restoring
  <1>3. ASSUME NEW q \in Procs \ {self} PROVE Restored(q)'
    <2>1. proc'[q] = proc[q]
      BY <1>1 DEF Others
    <2>2. CASE proc[q].pc \in Undoing \cup Restoring
      <3>1. UNCHANGED <<disk, pubs>>
        BY <2>2, InsideAlone DEF Outside, Undoing, Restoring
      <3>2. QED
        BY <2>1, <3>1 DEF RestoredFits, Restored, Targets, Current
    <2>3. QED
      BY <2>1, <2>2 DEF Restored
  <1>4. QED
    BY <1>2, <1>3 DEF RestoredFits

\* RInv is inductive when nobody edits.
LEMMA NextRestored ==
    ASSUME SharedSecond = FALSE, Budget["edit"] = 0, KInv, RInv, [Next]_vars
    PROVE  RInv'
  <1>1. OInv' /\ TodoFits'
    BY NextOrder, NextCompared DEF RInv, KInv
  <1>2. CASE \E self \in Procs : Step(self)
    BY <1>1, <1>2, RestoredStep DEF RInv, OInv
  <1>3. CASE \A self \in Procs : ~Step(self)
    <2>1. UNCHANGED <<disk, pubs>> /\ \A q \in Procs : Rests(q)
      BY <1>3, OtherActs, EditsAreSpent DEF RInv, OInv, IInv
    <2>2. ASSUME NEW q \in Procs PROVE Restored(q)'
      <3>1. proc'[q] = proc[q] \/ proc'[q].pc \notin Undoing \cup Restoring
        BY <2>1 DEF Rests, Outside, Undoing, Restoring
      <3>2. QED
        BY <2>1, <3>1 DEF RInv, RestoredFits, Restored, Targets, Current
    <2>3. QED
      BY <1>1, <2>2 DEF RInv, RestoredFits
  <1>4. QED
    BY <1>2, <1>3

\* RInv holds at first.
LEMMA InitRestored == Init => RInv
  <1>1. Init => RestoredFits
    BY DEF Init, RestoredFits, Restored, Idle, Undoing, Restoring
  <1>2. QED
    BY <1>1, InitOrder, InitCompared DEF RInv, KInv

\* A row that is closed as restored is closed over its original tree.
LEMMA ClosesStep ==
    ASSUME RInv, [Next]_vars, NEW p \in Pubs, pubs[p].status # pubs'[p].status,
           pubs'[p].status \in {"failed", "rolled_back"},
           \A f \in Targets(p) : pubs'[p].entry[f] = "restored",
           NEW f \in Targets(p)
    PROVE  disk[f] = pubs[p].orig[f]
  <1>1. PICK self \in Procs : Step(self)
    <2>1. \E self \in Procs : Step(self)
      BY OtherActs DEF RInv, OInv
    <2>2. QED
      BY <2>1
  <1>2. pubs[p] \in Row /\ f \in Files
    BY TargetsType DEF RInv, OInv, IInv, TypeOK
  <1>3. ASSUME NEW q \in Pubs, InsertAttempt(self, q) PROVE FALSE
    <2>1. pubs'[p].status = "in_progress" \/ pubs'[p] = pubs[p]
      BY <1>3 DEF InsertAttempt, SetRow, RInv, OInv, IInv, TypeOK
    <2>2. QED
      BY <2>1
  <1>4. Writes(self)
    BY <1>1, <1>3, StepRowsAlike DEF RInv, OInv, IInv, RowsAlike
  <1>5. p = proc[self].pub /\ ~CommitPublication(self)
    BY <1>4, WritesOwn DEF RInv, OInv, RowsAlike, Sets
  <1>6. CASE SaveCompensation(self)
    <2>1. proc[self].pc = "undo_save" /\ proc[self].todo = {}
      BY <1>6 DEF SaveCompensation, At, RInv, RestoredFits, Restored, Undoing
    <2>2. f \in proc[self].bad \/ disk[f] = pubs[p].orig[f]
      BY <1>5, <2>1 DEF RInv, RestoredFits, Restored, Undoing
    <2>3. pubs' # pubs
      OBVIOUS
    <2>4. pubs' = [pubs EXCEPT ![p] = [pubs[p] EXCEPT !.status = "failed",
             !.entry = [g \in Files |-> IF g \notin Targets(p) THEN pubs[p].entry[g]
                         ELSE IF g \in proc[self].bad THEN "conflict" ELSE "restored"]]]
      BY <1>5, <1>6, <2>3, <1>2 DEF SaveCompensation, SetRow, Row
    <2>5. pubs'[p].entry[f] = IF f \in proc[self].bad THEN "conflict" ELSE "restored"
      BY <1>2, <2>4 DEF RInv, OInv, IInv, TypeOK, Row
    <2>6. QED
      BY <2>2, <2>5
  <1>7. CASE FailRollback(self) \/ CommitRollback(self)
    <2>1. proc[self].pc = "restored" /\ proc[self].todo = {}
      BY <1>7 DEF FailRollback, CommitRollback, At, RInv, RestoredFits, Restored, Restoring
    <2>2. pubs[p].entry[f] = "restored" => disk[f] = pubs[p].orig[f]
      BY <1>5, <2>1 DEF RInv, RestoredFits, Restored, Restoring
    <2>3. PICK w : SetRow(p, [pubs[p] EXCEPT !.status = w])
      BY <1>5, <1>7 DEF FailRollback, CommitRollback
    <2>4. pubs'[p].entry = pubs[p].entry
      BY <2>3, SetStatusIs DEF RInv, OInv, IInv
    <2>5. QED
      BY <2>2, <2>4
  <1>8. QED
    BY <1>4, <1>5, <1>6, <1>7 DEF Writes

-----------------------------------------------------------------------------
(* The stack of publications over each file, while nothing has failed *)

Calm == used["fault"] = 0 /\ used["edit"] = 0
Owns(p, f) == Active(p) /\ f \in Targets(p)
Knows(p, f) == {pubs[p].orig[f], Post(p, f)}

\* The newest publication that owns a file knows what it holds, and each one
\* below knows what the next one found.
TopFits == \A f \in Files, p \in Pubs :
    Owns(p, f) /\ (\A q \in Pubs : q > p => ~Owns(q, f)) => disk[f] \in Knows(p, f)
ChainFits == \A f \in Files, p \in Pubs, q \in Pubs :
    Owns(p, f) /\ Owns(q, f) /\ p < q /\ (\A r \in Pubs : p < r /\ r < q => ~Owns(r, f))
        => pubs[q].orig[f] \in Knows(p, f)
NoneFailed == \A p \in Pubs : pubs[p].status # "failed"
NoConflict == \A p \in Pubs, f \in Files : pubs[p].entry[f] # "conflict"
Stack == TopFits /\ ChainFits /\ NoneFailed /\ NoConflict

\* A publication under way is the newest row and has written what it has done;
\* a rollback under way has met nothing it does not know.
Writing == {"inspect", "place", "progress", "verify"}
Placed(self, f) == f \notin proc[self].todo \/ (proc[self].pc = "progress" /\ Current(self, f))
Work(self) ==
    LET p == proc[self].pub IN
    /\ proc[self].pc \notin Undoing /\ proc[self].bad = {}
    /\ proc[self].pc \in Restoring => Active(p)
    /\ proc[self].pc \in {"inserted", "commit"} \cup Writing =>
          pubs[p].status = "in_progress" /\ \A q \in Pubs : q > p => pubs[q].status = "none"
    /\ proc[self].pc = "inserted" => \A f \in Targets(p) : disk[f] = pubs[p].orig[f]
    /\ proc[self].pc \in Writing => \A f \in Targets(p) :
          disk[f] = IF Placed(self, f) THEN Post(p, f) ELSE pubs[p].orig[f]
    /\ proc[self].pc = "verify" => proc[self].todo = {}
WorkFits == \A self \in Procs : Work(self)

SInv == Calm => Stack /\ WorkFits

\* A fault is not spent in a calm run.
LEMMA NoFault ==
    ASSUME TypeOK, Calm', NEW kind \in {"fault", "edit"}, Spend(kind)
    PROVE  FALSE
  BY DEF TypeOK, Calm, Spend, Kinds

\* A run that is calm after a step was calm before it.
LEMMA CalmBefore ==
    ASSUME TypeOK, Calm', [Next]_vars
    PROVE  Calm
  <1>1. UNCHANGED used \/ \E kind \in Kinds : Spend(kind)
    <2>1. ASSUME NEW self \in Procs, Step(self)
          PROVE  UNCHANGED used \/ \E kind \in Kinds : Spend(kind)
      BY <2>1 DEF Kinds, Free, Step, Acquire, ValidateHashes, InsertAttempt, InsertFails,
         CompensationAborts, JournalAttempt, InspectTarget, PlaceTarget, SaveProgress,
         RestoreInspect, RestorePlace, SaveRestore, VerifyTargets, CommitPublication,
         Materialize, TerminalJournal, SaveCompensation, JournalCompensation, RollbackLoad,
         FailRollback, JournalFailedRollback, CommitRollback, ReconcilePublished
    <2>2. QED
      BY <2>1 DEF Kinds, Next, vars, Preview, Reject, TornPreviewStep, PreviewBuild,
         PreviewSnapshot, PreviewCompose, PublishRead, RollbackAcquire, Crash,
         RemoveStaleLock, Edit
  <1>2. QED
    BY <1>1 DEF TypeOK, Calm, Spend, Kinds

\* The stack stands while the rows are alike, nothing is found in the way and
\* the tree stays.
LEMMA StackQuiet ==
    ASSUME Stack, RowsAlike, UNCHANGED disk, NoConflict'
    PROVE  Stack'
  BY DEF Stack, TopFits, ChainFits, NoneFailed, RowsAlike, Owns, Knows, Active, Targets, Post

\* An invocation that is not in a loop has nothing to keep.
LEMMA WorkOut ==
    ASSUME NEW self \in Procs, proc'[self].bad = {},
           proc'[self].pc \notin {"inserted", "commit"} \cup Writing \cup Undoing \cup Restoring
    PROVE  Work(self)'
  BY DEF Work, Writing

\* Who returns has nothing to keep.
LEMMA ReturnWork ==
    ASSUME TypeOK, NEW self \in Procs, Return(self)
    PROVE  Work(self)'
  BY ReturnIs, WorkOut DEF Idle, Writing, Undoing, Restoring

\* Steps outside every loop.
LEMMA OutWork ==
    ASSUME IInv, Calm', NEW self \in Procs, Work(self),
           \/ Acquire(self) \/ ValidateHashes(self) \/ InsertFails(self)
           \/ Materialize(self) \/ TerminalJournal(self) \/ JournalCompensation(self)
           \/ JournalFailedRollback(self) \/ ReconcilePublished(self)
    PROVE  Work(self)' /\ UNCHANGED <<disk, pubs>>
  <1>1. UNCHANGED <<disk, pubs>>
    BY DEF Acquire, ValidateHashes, InsertFails, Materialize, TerminalJournal,
           JournalCompensation, JournalFailedRollback, ReconcilePublished
  <1>2. proc[self] \in Proc /\ proc[self].bad = {}
    BY DEF IInv, TypeOK, Work
  <1>3. CASE Return(self)
    BY <1>1, <1>3, ReturnWork DEF IInv
  <1>4. ASSUME NEW w \in {"locked", "find", "validated", "journal"}, Goto(self, w)
        PROVE  Work(self)'
    <2>1. proc'[self].pc = w /\ proc'[self].bad = {}
      BY <1>2, <1>4 DEF Goto, IInv, TypeOK, Proc
    <2>2. QED
      BY <2>1, WorkOut DEF Writing, Undoing, Restoring
  <1>5. ASSUME NEW p \in Pubs, Become(self, [proc[self] EXCEPT !.pc = "record", !.pub = p])
        PROVE  Work(self)'
    <2>1. proc'[self].pc = "record" /\ proc'[self].bad = {}
      BY <1>2, <1>5 DEF Become, IInv, TypeOK, Proc
    <2>2. QED
      BY <2>1, WorkOut DEF Writing, Undoing, Restoring
  <1>6. CASE Acquire(self)
    BY <1>1, <1>3, <1>4, <1>6 DEF Acquire
  <1>7. CASE ValidateHashes(self)
    BY <1>1, <1>3, <1>4, <1>7 DEF ValidateHashes
  <1>8. CASE Materialize(self)
    BY <1>1, <1>4, <1>8, NoFault DEF Materialize, IInv
  <1>9. CASE ReconcilePublished(self)
    BY <1>1, <1>3, <1>5, <1>9 DEF ReconcilePublished
  <1>10. QED
    BY <1>1, <1>3, <1>6, <1>7, <1>8, <1>9
    DEF InsertFails, TerminalJournal, JournalCompensation, JournalFailedRollback

\* What is known of an invocation in the write loop.
LEMMA WritingKnown ==
    ASSUME IInv, TodoFits, NEW self \in Procs, Work(self), proc[self].pc \in Writing
    PROVE  /\ proc[self].pub \in Pubs /\ proc[self].todo \subseteq Targets(proc[self].pub)
           /\ Targets(proc[self].pub) \subseteq Files
           /\ \A f, g \in proc[self].todo : Current(self, f) /\ Current(self, g) => f = g
           /\ \A f \in Targets(proc[self].pub) : disk[f] =
                 IF Placed(self, f) THEN Post(proc[self].pub, f) ELSE pubs[proc[self].pub].orig[f]
  <1>1. proc[self].pub \in Pubs
    BY DEF IInv, AttemptKnown, Writing
  <1>2. proc[self].todo \subseteq Targets(proc[self].pub)
    BY DEF TodoFits, Within, Stays, Pc, Outside, Writing
  <1>3. proc[self].todo \subseteq Nat
    BY FilesAssumption DEF IInv, TypeOK, Proc
  <1>4. QED
    BY <1>1, <1>2, <1>3, TargetsType DEF Current, IInv, Work

\* The rows of an invocation that goes on stay as they are.
LEMMA WorkOn ==
    ASSUME IInv, NEW self \in Procs, Work(self), RowsAlike, proc[self].pub \in Pubs,
           proc[self].pc \in {"inserted"} \cup Writing,
           NEW To, Moves(self, To), To \subseteq {"commit"} \cup Writing,
           proc'[self].bad = proc[self].bad,
           proc'[self].pc = "verify" => proc'[self].todo = {},
           proc'[self].pc # "commit" => \A f \in Targets(proc[self].pub) :
               disk'[f] = IF Placed(self, f)' THEN Post(proc[self].pub, f)
                          ELSE pubs[proc[self].pub].orig[f]
    PROVE  Work(self)'
  <1> DEFINE p == proc[self].pub
  <1>1. proc'[self].pc \in {"commit"} \cup Writing /\ proc'[self].pub = p
    BY DEF Moves
  <1>2. /\ UNCHANGED Targets(p) /\ pubs'[p].orig = pubs[p].orig
        /\ \A f : UNCHANGED Post(p, f)
    BY <1>1 DEF RowsAlike, Targets, Post
  <1>3. pubs'[p].status = "in_progress" /\ \A q \in Pubs : q > p => pubs'[q].status = "none"
    BY DEF RowsAlike, Work
  <1>4. proc'[self].bad = {}
    BY DEF Work
  <1>5. proc'[self].pc \notin Undoing \cup Restoring \cup {"inserted"}
    BY <1>1 DEF Writing, Undoing, Restoring
  <1>6. proc'[self].pc \in Writing => \A f \in Targets(p)' :
            disk'[f] = IF Placed(self, f)' THEN Post(p, f)' ELSE pubs'[p].orig[f]
    BY <1>1, <1>2 DEF Writing
  <1>7. QED
    BY <1>1, <1>3, <1>4, <1>5, <1>6 DEF Work

\* The write loop begins with every target at its original.
LEMMA StartWork ==
    ASSUME IInv, Calm', NEW self \in Procs, Work(self), JournalAttempt(self)
    PROVE  Work(self)' /\ UNCHANGED <<disk, pubs>>
  <1> DEFINE p == proc[self].pub
  <1>1. /\ UNCHANGED <<disk, pubs>> /\ proc[self].pc = "inserted" /\ p \in Pubs /\ RowsAlike
        /\ Become(self, [proc[self] EXCEPT !.pc = "inspect", !.todo = Targets(p)])
    BY NoFault DEF JournalAttempt, At, IInv, AttemptKnown, RowsAlike
  <1>2. /\ Moves(self, {"inspect"}) /\ proc'[self].todo = Targets(p)
        /\ proc'[self].bad = proc[self].bad
    BY <1>1, LoopIs DEF IInv
  <1>3. proc'[self].pc = "inspect"
    BY <1>2 DEF Moves
  <1>4. \A f \in Targets(p) : ~Placed(self, f)'
    BY <1>2, <1>3 DEF Placed
  <1>5. \A f \in Targets(p) : disk'[f] = pubs[p].orig[f]
    BY <1>1 DEF Work
  <1>6. {"inspect"} \subseteq {"commit"} \cup Writing
    BY DEF Writing
  <1>7. QED
    BY <1>1, <1>2, <1>3, <1>4, <1>5, <1>6, WorkOn

\* The comparison finds the original.
LEMMA InspectWork ==
    ASSUME IInv, TodoFits, Calm', NEW self \in Procs, Work(self), NEW f \in Files,
           InspectTarget(self, f)
    PROVE  Work(self)' /\ UNCHANGED <<disk, pubs>>
  <1> DEFINE p == proc[self].pub
  <1>1. /\ UNCHANGED <<disk, pubs>> /\ proc[self].pc = "inspect" /\ f \in proc[self].todo
        /\ RowsAlike /\ proc[self].pc \in Writing
    BY DEF InspectTarget, At, Current, RowsAlike, Writing
  <1>2. disk[f] = pubs[p].orig[f] /\ p \in Pubs
    BY <1>1, WritingKnown DEF Placed
  <1>3. Goto(self, "place")
    BY <1>2, NoFault DEF InspectTarget, IInv
  <1>4. /\ Moves(self, {"place"}) /\ proc'[self].todo = proc[self].todo
        /\ proc'[self].bad = proc[self].bad
    BY <1>3, GotoIs DEF IInv
  <1>5. proc'[self].pc = "place"
    BY <1>4 DEF Moves
  <1>6. \A g : Placed(self, g)' <=> Placed(self, g)
    BY <1>1, <1>4, <1>5 DEF Placed
  <1>7. \A g \in Targets(p) : disk'[g] = IF Placed(self, g)' THEN Post(p, g) ELSE pubs[p].orig[g]
    BY <1>1, <1>6, WritingKnown
  <1>8. {"place"} \subseteq {"commit"} \cup Writing
    BY DEF Writing
  <1>9. QED
    BY <1>1, <1>2, <1>4, <1>5, <1>7, <1>8, WorkOn

\* The placement writes the newest row's bytes.
LEMMA PlaceWork ==
    ASSUME IInv, TodoFits, Calm', Stack, NEW self \in Procs, Work(self), NEW f \in Files,
           PlaceTarget(self, f)
    PROVE  Work(self)' /\ Stack'
  <1> DEFINE p == proc[self].pub
  <1>1. /\ UNCHANGED pubs /\ proc[self].pc = "place" /\ Current(self, f) /\ f \in proc[self].todo
        /\ RowsAlike /\ proc[self].pc \in Writing
    BY DEF PlaceTarget, At, Current, RowsAlike, Writing
  <1>2. /\ disk[f] = pubs[p].orig[f] /\ p \in Pubs /\ f \in Targets(p)
        /\ Targets(p) \subseteq Files /\ \A g \in proc[self].todo : Current(self, g) => g = f
    BY <1>1, WritingKnown DEF Placed
  <1>3. Goto(self, "progress") /\ disk' = [disk EXCEPT ![f] = Post(p, f)]
    BY <1>2, NoFault DEF PlaceTarget, IInv
  <1>4. /\ Moves(self, {"progress"}) /\ proc'[self].todo = proc[self].todo
        /\ proc'[self].bad = proc[self].bad
    BY <1>3, GotoIs DEF IInv
  <1>5. proc'[self].pc = "progress"
    BY <1>4 DEF Moves
  <1>6. disk'[f] = Post(p, f) /\ \A g \in Files \ {f} : disk'[g] = disk[g]
    BY <1>3 DEF IInv, TypeOK
  <1>7. \A g : Placed(self, g)' <=> g \notin proc[self].todo \/ Current(self, g)
    BY <1>4, <1>5 DEF Placed, Current
  <1>8. \A g : Placed(self, g) <=> g \notin proc[self].todo
    BY <1>1 DEF Placed
  <1>9. \A g \in Targets(p) : disk'[g] = IF Placed(self, g)' THEN Post(p, g) ELSE pubs[p].orig[g]
    <2>1. CASE ~Placed(self, f)'
      BY <1>1, <1>7, <2>1
    <2>2. ASSUME NEW g \in Targets(p) \ {f}
          PROVE  disk'[g] = IF Placed(self, g)' THEN Post(p, g) ELSE pubs[p].orig[g]
      <3>1. Placed(self, g)' <=> Placed(self, g)
        BY <1>2, <1>7, <1>8, <2>2
      <3>2. disk'[g] = disk[g]
        BY <1>2, <1>6
      <3>3. QED
        BY <1>1, <3>1, <3>2, WritingKnown
    <2>3. QED
      BY <1>6, <2>1, <2>2
  <1>10. Work(self)'
    <2>1. {"progress"} \subseteq {"commit"} \cup Writing
      BY DEF Writing
    <2>2. QED
      BY <1>1, <1>2, <1>4, <1>5, <1>9, <2>1, WorkOn
  <1>11. Owns(p, f) /\ \A q \in Pubs : q > p => ~Owns(q, f)
    BY <1>1, <1>2 DEF Work, Owns, Active
  <1>12. TopFits'
    <2>1. ASSUME NEW g \in Files, NEW q \in Pubs, Owns(q, g), \A r \in Pubs : r > q => ~Owns(r, g)
          PROVE  disk'[g] \in Knows(q, g)
      <3>1. CASE g = f
        <4>1. q = p
          BY <1>2, <1>11, <2>1, <3>1, BoundsAssumption DEF Pubs
        <4>2. QED
          BY <1>6, <3>1, <4>1 DEF Knows
      <3>2. CASE g # f
        BY <1>6, <2>1, <3>2 DEF Stack, TopFits
      <3>3. QED
        BY <3>1, <3>2
    <2>2. QED
      BY <1>1, <2>1 DEF TopFits, Owns, Knows, Active, Targets, Post
  <1>13. ChainFits' /\ NoneFailed' /\ NoConflict'
    BY <1>1 DEF Stack, ChainFits, NoneFailed, NoConflict, Owns, Knows, Active, Targets, Post
  <1>14. QED
    BY <1>10, <1>12, <1>13 DEF Stack

\* The entry of a target that is written says published.
LEMMA ProgressWork ==
    ASSUME IInv, TodoFits, Calm', Stack, NEW self \in Procs, Work(self), NEW f \in Files,
           SaveProgress(self, f)
    PROVE  Work(self)' /\ Stack'
  <1> DEFINE p == proc[self].pub
             rest == proc[self].todo \ {f}
             next == IF rest = {} THEN "verify" ELSE "inspect"
  <1>1. /\ UNCHANGED disk /\ proc[self].pc = "progress" /\ Current(self, f)
        /\ f \in proc[self].todo /\ proc[self].pc \in Writing
    BY DEF SaveProgress, At, Current, Writing
  <1>2. /\ p \in Pubs /\ \A g \in proc[self].todo : Current(self, g) => g = f
    BY <1>1, WritingKnown
  <1>3. /\ SetRow(p, [pubs[p] EXCEPT !.entry[f] = "published"])
        /\ Become(self, [proc[self] EXCEPT !.todo = rest, !.pc = next])
    BY NoFault DEF SaveProgress, IInv
  <1>4. /\ RowsAlike /\ pubs'[p].entry[f] = "published"
        /\ \A g \in Files \ {f} : pubs'[p].entry[g] = pubs[p].entry[g]
        /\ \A q \in Pubs \ {p} : pubs'[q] = pubs[q]
    <2> DEFINE word == "published"
    <2>1. SetRow(p, [pubs[p] EXCEPT !.entry[f] = word])
      BY <1>3
    <2> HIDE DEF rest, next, word
    <2>2. /\ RowsAlike /\ pubs'[p].entry[f] = word
          /\ \A g \in Files \ {f} : pubs'[p].entry[g] = pubs[p].entry[g]
          /\ \A q \in Pubs \ {p} : pubs'[q] = pubs[q]
      BY <1>2, <2>1, SetEntryIs DEF IInv
    <2>3. QED
      BY <2>2 DEF word
  <1>5. next \in {"verify", "inspect"} /\ (next = "verify" => rest = {})
    OBVIOUS
  <1> HIDE DEF next
  <1>6. /\ Moves(self, {next}) /\ proc'[self].todo = rest
        /\ proc'[self].bad = proc[self].bad
    BY <1>3, RestLoopIs DEF IInv
  <1>7. proc'[self].pc = next
    BY <1>6 DEF Moves
  <1>8. \A g : Placed(self, g)' <=> Placed(self, g)
    BY <1>1, <1>2, <1>5, <1>6, <1>7 DEF Placed, Current
  <1>9. \A g \in Targets(p) : disk'[g] = IF Placed(self, g)' THEN Post(p, g) ELSE pubs[p].orig[g]
    BY <1>1, <1>8, WritingKnown
  <1>10. {next} \subseteq {"commit"} \cup Writing
    BY <1>5 DEF Writing
  <1>11. NoConflict'
    BY <1>2, <1>4 DEF Stack, NoConflict
  <1>12. QED
    BY <1>1, <1>2, <1>4, <1>5, <1>6, <1>7, <1>9, <1>10, <1>11, WorkOn, StackQuiet

\* The verification finds the bytes of the plan.
LEMMA VerifyWork ==
    ASSUME IInv, TodoFits, Calm', NEW self \in Procs, Work(self), VerifyTargets(self)
    PROVE  Work(self)' /\ UNCHANGED <<disk, pubs>>
  <1> DEFINE p == proc[self].pub
  <1>1. /\ UNCHANGED <<disk, pubs>> /\ proc[self].pc = "verify" /\ RowsAlike
        /\ proc[self].pc \in Writing
    BY DEF VerifyTargets, At, RowsAlike, Writing
  <1>2. proc[self].todo = {} /\ p \in Pubs
    BY <1>1, WritingKnown DEF Work
  <1>3. \A f \in Targets(p) : disk[f] = Post(p, f)
    BY <1>1, <1>2, WritingKnown DEF Placed
  <1>4. Goto(self, "commit")
    BY <1>3, NoFault DEF VerifyTargets, IInv
  <1>5. Moves(self, {"commit"}) /\ proc'[self].bad = proc[self].bad
    BY <1>4, GotoIs DEF IInv
  <1>6. proc'[self].pc = "commit"
    BY <1>5 DEF Moves
  <1>7. QED
    BY <1>1, <1>2, <1>5, <1>6, WorkOn

\* A row that is completed stays in force.
LEMMA CommitWork ==
    ASSUME IInv, Calm', Stack, NEW self \in Procs, Work(self), CommitPublication(self)
    PROVE  Work(self)' /\ Stack'
  <1> DEFINE p == proc[self].pub
  <1>1. /\ SetRow(p, [pubs[p] EXCEPT !.status = "completed"]) /\ UNCHANGED disk
        /\ Become(self, [proc[self] EXCEPT !.pc = "record", !.row = "published"])
    BY NoFault DEF CommitPublication, IInv
  <1>2. p \in Pubs /\ pubs[p].status = "in_progress" /\ proc[self].bad = {}
    BY DEF CommitPublication, At, IInv, AttemptKnown, Work
  <1>3. Sets(p, "completed") /\ \A q \in Pubs : pubs'[q].entry = pubs[q].entry
    BY <1>1, <1>2, SetStatusIs DEF IInv
  <1>4. \A q \in Pubs : /\ Active(q)' <=> Active(q)
                        /\ pubs'[q].plan = pubs[q].plan /\ pubs'[q].orig = pubs[q].orig
    BY <1>2, <1>3 DEF Sets, Active
  <1>5. TopFits' /\ ChainFits'
    BY <1>1, <1>4 DEF Stack, TopFits, ChainFits, Owns, Knows, Targets, Post
  <1>6. NoneFailed' /\ NoConflict'
    BY <1>3 DEF Stack, NoneFailed, NoConflict, Sets
  <1>7. proc'[self].pc = "record" /\ proc'[self].bad = {}
    <2>1. proc[self] \in Proc
      BY DEF IInv, TypeOK
    <2>2. QED
      BY <1>1, <1>2, <2>1 DEF Become, IInv, TypeOK, Proc
  <1>8. Work(self)'
    BY <1>7, WorkOut DEF Writing, Undoing, Restoring
  <1>9. QED
    BY <1>5, <1>6, <1>8 DEF Stack

\* A new row goes on top of its files and finds what the row below knows.
LEMMA InsertWork ==
    ASSUME IInv, Ordered, Stack, NEW self \in Procs, Work(self), NEW p \in Pubs,
           InsertAttempt(self, p)
    PROVE  Work(self)' /\ Stack'
  <1> DEFINE plan == proc[self].plan
  <1>1. /\ pubs[p].status = "none" /\ UNCHANGED disk /\ \A q \in Pubs \ {p} : pubs'[q] = pubs[q]
        /\ pubs'[p].status = "in_progress" /\ pubs'[p].plan = plan /\ pubs'[p].orig = disk
        /\ pubs'[p].entry = [f \in Files |-> "pending"]
    BY DEF InsertAttempt, SetRow, IInv, TypeOK
  <1>2. \A q \in Pubs : q > p => pubs[q].status = "none" /\ pubs'[q].status = "none"
    <2>1. Pubs \subseteq Nat
      BY BoundsAssumption DEF Pubs
    <2>2. QED
      BY <1>1, <2>1 DEF Ordered
  <1>3. proc'[self].pc = "inserted" /\ proc'[self].pub = p /\ proc'[self].bad = {}
    <2>1. proc[self] \in Proc /\ proc[self].bad = {}
      BY DEF IInv, TypeOK, Work
    <2>2. QED
      BY <2>1 DEF InsertAttempt, Become, IInv, TypeOK, Proc
  <1>4. Work(self)'
    BY <1>1, <1>2, <1>3 DEF Work, Writing, Undoing, Restoring
  <1>5. \A q \in Pubs \ {p}, f \in Files : /\ Owns(q, f)' <=> Owns(q, f)
                                           /\ Knows(q, f)' = Knows(q, f)
    BY <1>1 DEF Owns, Knows, Active, Targets, Post
  <1>6. \A f \in Files : ~Owns(p, f) /\ \A q \in Pubs : q > p => ~Owns(q, f) /\ ~Owns(q, f)'
    BY <1>1, <1>2 DEF Owns, Active
  <1>7. \A f \in Files : disk[f] \in Knows(p, f)'
    BY <1>1 DEF Knows
  <1>8. Pubs \subseteq Nat
    BY BoundsAssumption DEF Pubs
  <1>9. TopFits'
    <2>1. ASSUME NEW f \in Files, NEW q \in Pubs, Owns(q, f)',
                 \A r \in Pubs : r > q => ~Owns(r, f)'
          PROVE  disk[f] \in Knows(q, f)'
      <3>1. CASE q = p
        BY <1>7, <3>1
      <3>2. CASE q # p
        <4>1. \A r \in Pubs : r > q => ~Owns(r, f)
          BY <1>5, <1>6, <2>1
        <4>2. QED
          BY <1>5, <2>1, <3>2, <4>1 DEF Stack, TopFits
      <3>3. QED
        BY <3>1, <3>2
    <2>2. QED
      BY <1>1, <2>1 DEF TopFits
  <1>10. ChainFits'
    <2>1. ASSUME NEW f \in Files, NEW q \in Pubs, NEW r \in Pubs, Owns(q, f)', Owns(r, f)', q < r,
                 \A s \in Pubs : q < s /\ s < r => ~Owns(s, f)'
          PROVE  pubs'[r].orig[f] \in Knows(q, f)'
      <3>1. q # p
        BY <1>6, <1>8, <2>1
      <3>2. CASE r = p
        <4>1. \A s \in Pubs : s > q => ~Owns(s, f)
          BY <1>5, <1>6, <1>8, <2>1, <3>2
        <4>2. disk[f] \in Knows(q, f)
          BY <1>5, <2>1, <3>1, <4>1 DEF Stack, TopFits
        <4>3. QED
          BY <1>1, <1>5, <3>1, <3>2, <4>2
      <3>3. CASE r # p
        <4>1. \A s \in Pubs : q < s /\ s < r => ~Owns(s, f)
          BY <1>5, <1>6, <2>1
        <4>2. pubs[r].orig[f] \in Knows(q, f)
          BY <1>5, <2>1, <3>1, <3>3, <4>1 DEF Stack, ChainFits
        <4>3. QED
          BY <1>1, <1>5, <3>1, <3>3, <4>2
      <3>4. QED
        BY <3>2, <3>3
    <2>2. QED
      BY <2>1 DEF ChainFits
  <1>11. NoneFailed' /\ NoConflict'
    BY <1>1 DEF Stack, NoneFailed, NoConflict
  <1>12. QED
    BY <1>4, <1>9, <1>10, <1>11 DEF Stack

\* A rollback that goes on.
LEMMA WorkBack ==
    ASSUME NEW self \in Procs, Work(self), RowsAlike, proc[self].pub \in Pubs,
           Active(proc[self].pub), NEW To, Moves(self, To), To \subseteq Restoring,
           proc'[self].bad = proc[self].bad
    PROVE  Work(self)'
  <1>1. proc'[self].pc \in Restoring /\ proc'[self].pub = proc[self].pub
    BY DEF Moves
  <1>2. Active(proc[self].pub)'
    BY <1>1 DEF Active, RowsAlike
  <1>3. proc'[self].bad = {}
    BY DEF Work
  <1>4. proc'[self].pc \notin {"inserted", "commit"} \cup Writing \cup Undoing
    BY <1>1 DEF Restoring, Writing, Undoing
  <1>5. QED
    BY <1>2, <1>3, <1>4 DEF Work, Writing

\* A rollback begins on a row that is in force.
LEMMA LoadWork ==
    ASSUME IInv, Stack, NEW self \in Procs, Work(self), RollbackLoad(self)
    PROVE  Work(self)' /\ UNCHANGED <<disk, pubs>>
  <1> DEFINE p == proc[self].pub
  <1>1. /\ UNCHANGED <<disk, pubs>> /\ RowsAlike /\ p \in Pubs /\ pubs[p].status # "none"
        /\ proc[self] \in Proc /\ proc[self].bad = {}
    BY DEF RollbackLoad, At, IInv, AttemptKnown, TypeOK, RowsAlike, Work
  <1>2. CASE Return(self)
    BY <1>1, <1>2, ReturnWork DEF IInv
  <1>3. ASSUME NEW s, Become(self, [proc[self] EXCEPT !.pc = "record",
                                      !.op = "reconcile_rolled_back", !.row = s])
        PROVE  Work(self)'
    <2>1. proc'[self].pc = "record" /\ proc'[self].bad = {}
      BY <1>1, <1>3 DEF Become, IInv, TypeOK, Proc
    <2>2. QED
      BY <2>1, WorkOut DEF Writing, Undoing, Restoring
  <1>4. ASSUME Become(self, [proc[self] EXCEPT !.pc = "restore", !.todo = Targets(p)]),
               pubs[p].status # "rolled_back"
        PROVE  Work(self)'
    <2>1. Active(p)
      <3>1. pubs[p].status \in PubStatus /\ pubs[p].status # "failed"
        BY <1>1 DEF IInv, TypeOK, Row, Stack, NoneFailed
      <3>2. QED
        BY <1>1, <1>4, <3>1 DEF Active, PubStatus
    <2>2. Moves(self, {"restore"}) /\ proc'[self].bad = proc[self].bad
      BY <1>4, LoopIs DEF IInv
    <2>3. {"restore"} \subseteq Restoring
      BY DEF Restoring
    <2>4. QED
      BY <1>1, <2>1, <2>2, <2>3, WorkBack
  <1>5. QED
    BY <1>1, <1>2, <1>3, <1>4 DEF RollbackLoad

\* What a rollback finds is its own.
LEMMA RestoringKnown ==
    ASSUME IInv, OpFits, NewestFits, TodoFits, Stack, NEW self \in Procs, Work(self),
           NEW f \in Files, proc[self].pc \in Restoring, Current(self, f)
    PROVE  /\ proc[self].pub \in Pubs /\ Active(proc[self].pub) /\ proc[self].op # "publish"
           /\ Owns(proc[self].pub, f)
           /\ \A q \in Pubs : q > proc[self].pub => ~Owns(q, f)
           /\ disk[f] \in Knows(proc[self].pub, f)
  <1> DEFINE p == proc[self].pub
  <1>1. p \in Pubs /\ Active(p) /\ proc[self].op # "publish"
    BY DEF IInv, AttemptKnown, Work, OpFits, Restoring
  <1>2. f \in Targets(p)
    BY WorkKnown DEF Current
  <1>3. Owns(p, f) /\ \A q \in Pubs : q > p => ~Owns(q, f)
    BY <1>1, <1>2 DEF Owns, NewestFits
  <1>4. QED
    BY <1>1, <1>3 DEF Stack, TopFits

\* A rollback finds and leaves what it knows on top of its files.
LEMMA RestoreWork ==
    ASSUME IInv, OpFits, NewestFits, TodoFits, Calm', Stack, NEW self \in Procs, Work(self),
           NEW f \in Files, RestoreInspect(self, f) \/ RestorePlace(self, f)
    PROVE  Work(self)' /\ Stack'
  <1> DEFINE p == proc[self].pub
  <1>1. /\ UNCHANGED pubs /\ RowsAlike /\ Current(self, f)
        /\ proc[self].pc \in Restoring
    BY DEF RestoreInspect, RestorePlace, At, RowsAlike, Work, Undoing, Restoring
  <1>2. /\ p \in Pubs /\ Active(p) /\ proc[self].op # "publish" /\ Owns(p, f)
        /\ \A q \in Pubs : q > p => ~Owns(q, f)
        /\ disk[f] \in Knows(p, f)
    BY <1>1, RestoringKnown
  <1>3. \/ AfterRestore(self, f, TRUE)
        \/ Goto(self, "restore_place")
    BY <1>1, <1>2, NoFault DEF RestoreInspect, RestorePlace, Knows, IInv, At, Restoring
  <1>4. Work(self)'
    <2>1. CASE AfterRestore(self, f, TRUE)
      <3>1. Moves(self, {"restore_save"}) /\ proc'[self].bad = proc[self].bad
        BY <1>2, <2>1, AfterRestoreIs DEF IInv
      <3>2. {"restore_save"} \subseteq Restoring
        BY DEF Restoring
      <3>3. QED
        BY <1>1, <1>2, <3>1, <3>2, WorkBack
    <2>2. CASE Goto(self, "restore_place")
      <3>1. Moves(self, {"restore_place"}) /\ proc'[self].bad = proc[self].bad
        BY <2>2, GotoIs DEF IInv
      <3>2. {"restore_place"} \subseteq Restoring
        BY DEF Restoring
      <3>3. QED
        BY <1>1, <1>2, <3>1, <3>2, WorkBack
    <2>3. QED
      BY <1>3, <2>1, <2>2
  <1>5. disk' = disk \/ disk' = [disk EXCEPT ![f] = pubs[p].orig[f]]
    BY DEF RestoreInspect, RestorePlace
  <1>6. disk'[f] \in Knows(p, f) /\ \A g \in Files \ {f} : disk'[g] = disk[g]
    BY <1>2, <1>5 DEF IInv, TypeOK, Knows
  <1>7. TopFits'
    <2>1. ASSUME NEW g \in Files, NEW q \in Pubs, Owns(q, g), \A r \in Pubs : r > q => ~Owns(r, g)
          PROVE  disk'[g] \in Knows(q, g)
      <3>1. CASE g = f
        <4>1. q = p
          BY <1>2, <2>1, <3>1, BoundsAssumption DEF Pubs
        <4>2. QED
          BY <1>6, <3>1, <4>1
      <3>2. CASE g # f
        BY <1>6, <2>1, <3>2 DEF Stack, TopFits
      <3>3. QED
        BY <3>1, <3>2
    <2>2. QED
      BY <1>1, <2>1 DEF TopFits, Owns, Knows, Active, Targets, Post
  <1>8. ChainFits' /\ NoneFailed' /\ NoConflict'
    BY <1>1 DEF Stack, ChainFits, NoneFailed, NoConflict, Owns, Knows, Active, Targets, Post
  <1>9. QED
    BY <1>4, <1>7, <1>8 DEF Stack

\* The entry of a target that is put back says restored.
LEMMA SaveRestoreWork ==
    ASSUME IInv, OpFits, NewestFits, TodoFits, Calm', Stack, NEW self \in Procs, Work(self),
           NEW f \in Files, SaveRestore(self, f)
    PROVE  Work(self)' /\ Stack'
  <1> DEFINE p == proc[self].pub
             rest == proc[self].todo \ {f}
             next == IF rest = {} THEN "restored" ELSE "restore"
             word == "restored"
  <1>1. /\ UNCHANGED disk /\ Current(self, f) /\ proc[self].pc \in Restoring
    BY DEF SaveRestore, At, Restoring
  <1>2. p \in Pubs /\ Active(p) /\ proc[self].bad = {}
    BY <1>1, RestoringKnown DEF Work
  <1>3. /\ SetRow(p, [pubs[p] EXCEPT !.entry[f] = word])
        /\ Become(self, [proc[self] EXCEPT !.todo = rest, !.pc = next])
    BY <1>2, NoFault DEF SaveRestore, IInv
  <1>4. word # "conflict" /\ {next} \subseteq Restoring
    BY DEF Restoring
  <1> HIDE DEF rest, next, word
  <1>5. /\ RowsAlike /\ \A q \in Pubs \ {p} : pubs'[q] = pubs[q]
        /\ pubs'[p].entry[f] = word
        /\ \A g \in Files \ {f} : pubs'[p].entry[g] = pubs[p].entry[g]
    <2>1. TypeOK /\ p \in Pubs /\ SetRow(p, [pubs[p] EXCEPT !.entry[f] = word])
      BY <1>2, <1>3 DEF IInv
    <2> HIDE DEF p
    <2>2. QED
      BY ONLY <2>1, SetEntryIs
  <1>6. Moves(self, {next}) /\ proc'[self].bad = proc[self].bad
    BY <1>3, RestLoopIs DEF IInv
  <1>7. NoConflict'
    BY <1>2, <1>4, <1>5 DEF Stack, NoConflict
  <1>8. QED
    BY <1>1, <1>2, <1>4, <1>5, <1>6, <1>7, WorkBack, StackQuiet

\* A rollback takes the top off the stack of each of its files.
LEMMA CommitRollbackWork ==
    ASSUME IInv, OpFits, NewestFits, RestoredFits, Calm', Stack, NEW self \in Procs, Work(self),
           CommitRollback(self)
    PROVE  Work(self)' /\ Stack'
  <1> DEFINE p == proc[self].pub
  <1>1. /\ SetRow(p, [pubs[p] EXCEPT !.status = "rolled_back"]) /\ UNCHANGED disk
        /\ proc[self].pc = "restored"
        /\ \E s : Become(self, [proc[self] EXCEPT !.pc = "record", !.row = s])
    BY NoFault DEF CommitRollback, At, IInv
  <1>2. p \in Pubs /\ Active(p) /\ proc[self].bad = {} /\ proc[self].pc \in Restoring
    BY <1>1 DEF IInv, AttemptKnown, Work, Restoring
  <1>3. Sets(p, "rolled_back") /\ \A q \in Pubs : pubs'[q].entry = pubs[q].entry
    BY <1>1, <1>2, SetStatusIs DEF IInv
  <1>4. \A f \in Targets(p) : disk[f] = pubs[p].orig[f]
    BY <1>1, <1>2 DEF RestoredFits, Restored, Restoring
  <1>5. \A f \in Files, q \in Pubs : q > p => ~(Owns(q, f) /\ f \in Targets(p))
    BY <1>2 DEF NewestFits, Owns
  <1>6. \A f \in Files, q \in Pubs : /\ Owns(q, f)' <=> Owns(q, f) /\ q # p
                                     /\ Knows(q, f)' = Knows(q, f)
                                     /\ pubs'[q].orig = pubs[q].orig
    BY <1>2, <1>3 DEF Sets, Owns, Knows, Active, Targets, Post
  <1>7. Pubs \subseteq Nat
    BY BoundsAssumption DEF Pubs
  <1>8. TopFits'
    <2>1. ASSUME NEW f \in Files, NEW q \in Pubs, Owns(q, f), q # p,
                 \A r \in Pubs : r > q => ~(Owns(r, f) /\ r # p)
          PROVE  disk[f] \in Knows(q, f)
      <3>1. CASE \A r \in Pubs : r > q => ~Owns(r, f)
        BY <2>1, <3>1 DEF Stack, TopFits
      <3>2. CASE ~(\A r \in Pubs : r > q => ~Owns(r, f))
        <4>1. p > q /\ Owns(p, f)
          BY <2>1, <3>2
        <4>2. \A r \in Pubs : q < r /\ r < p => ~Owns(r, f)
          BY <1>2, <1>7, <2>1
        <4>3. pubs[p].orig[f] \in Knows(q, f)
          BY <1>2, <2>1, <4>1, <4>2 DEF Stack, ChainFits
        <4>4. QED
          BY <1>4, <4>1, <4>3 DEF Owns
      <3>3. QED
        BY <3>1, <3>2
    <2>2. QED
      BY <1>1, <1>6, <2>1 DEF TopFits
  <1>9. ChainFits'
    <2>1. ASSUME NEW f \in Files, NEW q \in Pubs, NEW r \in Pubs, Owns(q, f), Owns(r, f),
                 q < r, q # p, r # p,
                 \A s \in Pubs : q < s /\ s < r => ~(Owns(s, f) /\ s # p)
          PROVE  pubs[r].orig[f] \in Knows(q, f)
      <3>1. ~(p < r /\ Owns(p, f))
        BY <1>2, <1>5, <2>1 DEF Owns
      <3>2. QED
        BY <2>1, <3>1 DEF Stack, ChainFits
    <2>2. QED
      BY <1>6, <2>1 DEF ChainFits
  <1>10. NoneFailed' /\ NoConflict'
    BY <1>3 DEF Stack, NoneFailed, NoConflict, Sets
  <1>11. Work(self)'
    <2>1. proc'[self].pc = "record" /\ proc'[self].bad = {}
      <3>1. proc[self] \in Proc
        BY DEF IInv, TypeOK
      <3>2. QED
        BY <1>1, <1>2, <3>1 DEF Become, IInv, TypeOK, Proc
    <2>2. QED
      BY <2>1, WorkOut DEF Writing, Undoing, Restoring
  <1>12. QED
    BY <1>8, <1>9, <1>10, <1>11 DEF Stack

\* In a calm run every step keeps the stack.
LEMMA StepWork ==
    ASSUME RInv, Calm', Stack, WorkFits, NEW self \in Procs, Step(self)
    PROVE  Stack' /\ WorkFits'
  <1> USE DEF RInv, OInv
  <1>1. Work(self) /\ IInv /\ TypeOK
    BY DEF WorkFits, IInv
  <1>2. ASSUME UNCHANGED <<disk, pubs>> PROVE Stack'
    BY <1>2, StackQuiet DEF RowsAlike, Stack, NoConflict
  <1>3. Stack' /\ Work(self)'
    <2>1. ASSUME NEW f \in Files,
                 \/ InspectTarget(self, f) \/ PlaceTarget(self, f) \/ SaveProgress(self, f)
                 \/ RestoreInspect(self, f) \/ RestorePlace(self, f) \/ SaveRestore(self, f)
          PROVE  Stack' /\ Work(self)'
      BY <1>1, <1>2, <2>1, InspectWork, PlaceWork, ProgressWork, RestoreWork, SaveRestoreWork
    <2>2. ASSUME NEW p \in Pubs, InsertAttempt(self, p)
          PROVE  Stack' /\ Work(self)'
      BY <1>1, <2>2, InsertWork
    <2>3. CASE VerifyTargets(self) \/ JournalAttempt(self) \/ RollbackLoad(self)
      BY <1>1, <1>2, <2>3, VerifyWork, StartWork, LoadWork
    <2>4. CASE CommitPublication(self) \/ CommitRollback(self)
      BY <1>1, <2>4, CommitWork, CommitRollbackWork
    <2>5. ASSUME CompensationAborts(self) \/ SaveCompensation(self) \/ FailRollback(self)
          PROVE  FALSE
      BY <1>1, <2>5 DEF CompensationAborts, SaveCompensation, FailRollback, At, Work, Undoing
    <2>6. CASE \/ Acquire(self) \/ ValidateHashes(self) \/ InsertFails(self)
               \/ Materialize(self) \/ TerminalJournal(self) \/ JournalCompensation(self)
               \/ JournalFailedRollback(self) \/ ReconcilePublished(self)
      BY <1>1, <1>2, <2>6, OutWork
    <2>7. QED
      BY <2>1, <2>2, <2>3, <2>4, <2>5, <2>6 DEF Step
  <1>4. ASSUME NEW q \in Procs \ {self} PROVE Work(q)'
    <2>1. proc'[q] = proc[q] /\ Work(q)
      BY <1>1, StepOthers DEF Others, WorkFits, IInv
    <2>2. CASE proc[q].pc \in Outside
      BY <2>1, <2>2, WorkOut DEF Work, Outside, Writing, Undoing, Restoring
    <2>3. CASE proc[q].pc \notin Outside
      <3>1. UNCHANGED <<disk, pubs>>
        BY <1>1, <2>3, InsideAlone
      <3>2. QED
        BY <2>1, <3>1 DEF Work, Placed, Current, Targets, Post, Active
    <2>4. QED
      BY <2>2, <2>3
  <1>5. QED
    BY <1>3, <1>4 DEF WorkFits

\* SInv is inductive.
LEMMA NextStack ==
    ASSUME RInv, SInv, [Next]_vars
    PROVE  SInv'
  <1>1. SUFFICES ASSUME Calm' PROVE Stack' /\ WorkFits'
    BY DEF SInv
  <1>2. TypeOK /\ IInv
    BY DEF RInv, OInv, IInv
  <1>3. Stack /\ WorkFits
    BY <1>1, <1>2, CalmBefore DEF SInv
  <1>4. CASE \E self \in Procs : Step(self)
    BY <1>1, <1>3, <1>4, StepWork
  <1>5. CASE \A self \in Procs : ~Step(self)
    <2>1. UNCHANGED <<disk, pubs>> /\ \A q \in Procs : Rests(q)
      BY <1>1, <1>2, <1>5, OtherActs, NoFault DEF Edit
    <2>2. Stack'
      BY <1>3, <2>1, StackQuiet DEF RowsAlike, Stack, NoConflict
    <2>3. ASSUME NEW q \in Procs PROVE Work(q)'
      <3>1. Work(q)
        BY <1>3 DEF WorkFits
      <3>2. CASE proc'[q] = proc[q]
        BY <2>1, <3>1, <3>2 DEF Work, Placed, Current, Targets, Post, Active
      <3>3. CASE proc'[q] # proc[q]
        <4>1. proc'[q].bad = {} /\ proc'[q].pc \in Outside \cup {"load"}
          BY <2>1, <3>1, <3>3 DEF Rests, Work
        <4>2. QED
          BY <4>1, WorkOut DEF Outside, Writing, Undoing, Restoring
      <3>4. QED
        BY <3>2, <3>3
    <2>4. QED
      BY <2>2, <2>3 DEF WorkFits
  <1>6. QED
    BY <1>4, <1>5

\* SInv holds at first.
LEMMA InitStack == Init => SInv
  <1>1. Init => Stack
    BY DEF Init, Stack, TopFits, ChainFits, NoneFailed, NoConflict, NoRow, Owns, Active
  <1>2. Init => WorkFits
    BY DEF Init, WorkFits, Work, Idle, Writing, Undoing, Restoring
  <1>3. QED
    BY <1>1, <1>2 DEF SInv

\* While no two publications start within one second and nobody edits, undoing
\* starts at the newest publication, meets nothing foreign in a calm run and
\* closes a row as restored only over its original tree, however many
\* invocations, publications, faults and crashes there are.
THEOREM UndoExactCorrect ==
    ASSUME SharedSecond = FALSE, Budget["edit"] = 0
    PROVE  Spec => UndoIsExact
  <1> DEFINE Inv == KInv /\ RInv /\ SInv
             Closes == \A p \in Pubs :
                 /\ pubs[p].status # pubs'[p].status
                 /\ pubs'[p].status \in {"failed", "rolled_back"}
                 /\ \A f \in Targets(p) : pubs'[p].entry[f] = "restored"
                 => \A f \in Targets(p) : disk[f] = pubs[p].orig[f]
  <1>1. Init => Inv
    BY InitCompared, InitRestored, InitStack
  <1>2. Inv /\ [Next]_vars => Inv'
    BY NextCompared, NextRestored, NextStack
  <1>3. Inv => ConflictsAreForeign /\ RestoresOnlyNewest
    <2>1. SInv => ConflictsAreForeign
      BY DEF SInv, Calm, Stack, NoConflict, ConflictsAreForeign
    <2>2. RInv => RestoresOnlyNewest
      BY DEF RInv, OInv, NewestFits, RestoresOnlyNewest, Restoring
    <2>3. QED
      BY <2>1, <2>2
  <1>4. Inv /\ [Next]_vars => [Closes]_vars
    BY ClosesStep
  <1>5. QED
    BY <1>1, <1>2, <1>3, <1>4, PTL DEF Spec, UndoIsExact, ClosesOverOriginalTree

-----------------------------------------------------------------------------
(* The engine keeps its promise: the abstract specification, step by step. *)
(* A row is in progress while its publication writes or compensates, and a *)
(* rollback works on a row that is not closed yet.                         *)

Opened == Publishing \ {"locked", "validated"}
Undoable == {"in_progress", "completed", "failed"}
OpenFits == \A self \in Procs :
    /\ proc[self].pc \in Opened => pubs[proc[self].pub].status = "in_progress"
    /\ proc[self].pc \in Restoring => pubs[proc[self].pub].status \in Undoable

EInv == UInv /\ OpFits /\ OpenFits

\* Where a step of the invocation leads, the row is as that place requires.
Fitted(self) ==
    /\ proc'[self].pc \in Opened => pubs'[proc'[self].pub].status = "in_progress"
    /\ proc'[self].pc \in Restoring => pubs'[proc'[self].pub].status \in Undoable

\* A step that leads out of the loops requires nothing.
LEMMA OutFitted ==
    ASSUME NEW self \in Procs, proc'[self].pc \notin Opened \cup Restoring
    PROVE  Fitted(self)
  BY DEF Fitted

\* Returning leads out of the loops.
LEMMA ReturnFitted ==
    ASSUME TypeOK, NEW self \in Procs, Return(self)
    PROVE  Fitted(self)
  BY ReturnIs, OutFitted DEF Idle, Opened, Publishing, Restoring, Undoing

\* A publication that goes on has its row in progress, as before.
LEMMA OpenedFitted ==
    ASSUME IInv, OpenFits, NEW self \in Procs, proc[self].pc \in Opened, RowsAlike,
           NEW To, Moves(self, To), To \subseteq Opened
    PROVE  Fitted(self)
  <1>1. proc[self].pub \in Pubs
    BY DEF IInv, AttemptKnown, Opened, Publishing, Undoing
  <1>2. proc'[self].pc \in Opened /\ proc'[self].pub = proc[self].pub
    BY DEF Moves
  <1>3. proc'[self].pc \notin Restoring
    BY <1>2 DEF Opened, Publishing, Undoing, Restoring
  <1>4. QED
    BY <1>1, <1>2, <1>3 DEF Fitted, OpenFits, RowsAlike

\* A rollback that goes on still has its row to close.
LEMMA RestoringFitted ==
    ASSUME IInv, OpenFits, NEW self \in Procs, proc[self].pc \in Restoring, RowsAlike,
           NEW To, Moves(self, To), To \subseteq Restoring
    PROVE  Fitted(self)
  <1>1. proc[self].pub \in Pubs
    BY DEF IInv, AttemptKnown, Restoring
  <1>2. proc'[self].pc \in Restoring /\ proc'[self].pub = proc[self].pub
    BY DEF Moves
  <1>3. proc'[self].pc \notin Opened
    BY <1>2 DEF Opened, Publishing, Undoing, Restoring
  <1>4. QED
    BY <1>1, <1>2, <1>3 DEF Fitted, OpenFits, RowsAlike

\* A publication that fails compensates under the same row.
LEMMA CompensateFitted ==
    ASSUME IInv, OpenFits, NEW self \in Procs, proc[self].pc \in Opened,
           Compensate(self), UNCHANGED pubs
    PROVE  Fitted(self)
  <1>1. RowsAlike
    BY DEF RowsAlike
  <1>2. Moves(self, {"undo"}) /\ {"undo"} \subseteq Opened
    BY CompensateIs DEF IInv, Opened, Publishing, Undoing
  <1>3. QED
    BY <1>1, <1>2, OpenedFitted

\* The write loop.
LEMMA WriteFitted ==
    ASSUME IInv, OpenFits, NEW self \in Procs, NEW f \in Files,
           InspectTarget(self, f) \/ PlaceTarget(self, f) \/ SaveProgress(self, f)
    PROVE  Fitted(self)
  <1>1. proc[self].pc \in Opened
    BY DEF Opened, Publishing, InspectTarget, PlaceTarget, SaveProgress, At
  <1>2. RowsAlike
    <2>1. ~Writes(self) /\ \A p \in Pubs : ~InsertAttempt(self, p)
      BY DEF InspectTarget, PlaceTarget, SaveProgress, Writes, CommitPublication,
             SaveCompensation, FailRollback, CommitRollback, InsertAttempt, At
    <2>2. QED
      BY <2>1, StepRowsAlike DEF IInv, Step
  <1>3. ASSUME NEW w \in Opened, Moves(self, {w}) PROVE Fitted(self)
    BY <1>1, <1>2, <1>3, OpenedFitted
  <1>4. CASE Compensate(self)
    BY <1>3, <1>4, CompensateIs DEF IInv, Opened, Publishing, Undoing
  <1>5. ASSUME NEW w \in {"place", "progress"}, Goto(self, w) PROVE Fitted(self)
    BY <1>3, <1>5, GotoIs DEF IInv, Opened, Publishing
  <1>6. ASSUME Become(self, [proc[self] EXCEPT !.todo = proc[self].todo \ {f},
                      !.pc = IF proc[self].todo \ {f} = {} THEN "verify" ELSE "inspect"])
        PROVE Fitted(self)
    <2> DEFINE w == IF proc[self].todo \ {f} = {} THEN "verify" ELSE "inspect"
    <2>1. w \in Opened
      BY DEF Opened, Publishing
    <2>2. Moves(self, {w})
      BY <1>6, RestLoopIs DEF IInv
    <2>3. QED
      BY <1>3, <2>1, <2>2
  <1>7. QED
    BY <1>4, <1>5, <1>6 DEF InspectTarget, PlaceTarget, SaveProgress

\* The steps of a publication before its first write: the row is inserted in
\* progress.
LEMMA BeginFitted ==
    ASSUME IInv, OpenFits, NEW self \in Procs,
           \/ Acquire(self) \/ ValidateHashes(self) \/ \E p \in Pubs : InsertAttempt(self, p)
           \/ InsertFails(self) \/ JournalAttempt(self) \/ ReconcilePublished(self)
    PROVE  Fitted(self)
  <1>1. proc[self] \in Proc
    BY DEF IInv, TypeOK
  <1>2. CASE Return(self)
    BY <1>2, ReturnFitted DEF IInv
  <1>3. ASSUME NEW w \in {"locked", "find", "validated"}, Goto(self, w) PROVE Fitted(self)
    <2>1. proc'[self].pc = w
      BY <1>3, GotoIs DEF IInv, Moves
    <2>2. QED
      BY <1>3, <2>1, OutFitted DEF Opened, Publishing, Undoing, Restoring
  <1>4. ASSUME NEW p \in Pubs, NEW w,
               Become(self, [proc[self] EXCEPT !.pc = w, !.pub = p])
        PROVE  proc'[self].pc = w /\ proc'[self].pub = p
    BY <1>1, <1>4 DEF Become, IInv, TypeOK, Proc
  <1>5. CASE Acquire(self)
    BY <1>2, <1>3, <1>5 DEF Acquire
  <1>6. CASE ValidateHashes(self)
    BY <1>2, <1>3, <1>6 DEF ValidateHashes
  <1>7. CASE InsertFails(self)
    BY <1>2, <1>7 DEF InsertFails
  <1>8. CASE JournalAttempt(self)
    <2>1. proc[self].pc \in Opened /\ RowsAlike /\ {"inspect"} \subseteq Opened
      BY <1>8 DEF JournalAttempt, At, Opened, Publishing, RowsAlike
    <2>2. ASSUME Become(self, [proc[self] EXCEPT !.pc = "inspect",
                                                 !.todo = Targets(proc[self].pub)])
          PROVE  Fitted(self)
      <3>1. Moves(self, {"inspect"})
        BY <2>2, LoopIs DEF IInv
      <3>2. QED
        BY <2>1, <3>1, OpenedFitted
    <2>3. QED
      BY <1>2, <1>8, <2>2 DEF JournalAttempt
  <1>9. ASSUME NEW p \in Pubs, InsertAttempt(self, p) PROVE Fitted(self)
    <2>1. proc'[self].pc = "inserted" /\ proc'[self].pub = p
      BY <1>4, <1>9 DEF InsertAttempt
    <2>2. pubs'[p].status = "in_progress"
      BY <1>9 DEF InsertAttempt, SetRow, IInv, TypeOK
    <2>3. QED
      BY <2>1, <2>2 DEF Fitted, Undoable
  <1>10. CASE ReconcilePublished(self)
    <2>1. ASSUME NEW p \in Pubs, Become(self, [proc[self] EXCEPT !.pc = "record", !.pub = p])
          PROVE  Fitted(self)
      BY <1>4, <2>1, OutFitted DEF Opened, Publishing, Undoing, Restoring
    <2>2. QED
      BY <1>2, <1>10, <2>1 DEF ReconcilePublished
  <1>11. QED
    BY <1>5, <1>6, <1>7, <1>8, <1>9, <1>10

\* The steps that verify, commit, record, journal and close.
LEMMA EndFitted ==
    ASSUME IInv, OpenFits, NEW self \in Procs,
           \/ VerifyTargets(self) \/ CommitPublication(self) \/ Materialize(self)
           \/ TerminalJournal(self) \/ CompensationAborts(self) \/ SaveCompensation(self)
           \/ JournalCompensation(self) \/ FailRollback(self) \/ JournalFailedRollback(self)
           \/ CommitRollback(self)
    PROVE  Fitted(self)
  <1>1. proc[self] \in Proc
    BY DEF IInv, TypeOK
  <1>2. CASE Return(self)
    BY <1>2, ReturnFitted DEF IInv
  <1> DEFINE Ends == {"journal", "undo_journal", "fail_journal", "record"}
  <1>3. ASSUME proc'[self].pc \in Ends PROVE Fitted(self)
    BY <1>3, OutFitted DEF Opened, Publishing, Undoing, Restoring
  <1>4. ASSUME NEW w \in Ends, Goto(self, w) PROVE Fitted(self)
    BY <1>3, <1>4, GotoIs DEF IInv, Moves
  <1>5. ASSUME NEW s, Become(self, [proc[self] EXCEPT !.pc = "record", !.row = s])
        PROVE  Fitted(self)
    <2>1. proc'[self].pc = "record"
      BY <1>1, <1>5 DEF Become, IInv, TypeOK, Proc
    <2>2. QED
      BY <1>3, <2>1
  <1>6. ASSUME Become(self, [proc[self] EXCEPT !.pc = "journal", !.recordOk = FALSE])
        PROVE  Fitted(self)
    <2>1. proc'[self].pc = "journal"
      BY <1>1, <1>6 DEF Become, IInv, TypeOK, Proc
    <2>2. QED
      BY <1>3, <2>1
  <1>7. CASE VerifyTargets(self) \/ CommitPublication(self)
    <2>1. proc[self].pc \in Opened /\ {"commit"} \subseteq Opened
      BY <1>7 DEF Opened, Publishing, VerifyTargets, CommitPublication, At
    <2>2. CASE Compensate(self) /\ UNCHANGED pubs
      BY <2>1, <2>2, CompensateFitted
    <2>3. ASSUME Goto(self, "commit"), UNCHANGED pubs PROVE Fitted(self)
      <3>1. RowsAlike /\ Moves(self, {"commit"})
        BY <2>3, GotoIs DEF IInv, RowsAlike
      <3>2. QED
        BY <2>1, <3>1, OpenedFitted
    <2>4. QED
      BY <1>5, <1>7, <2>2, <2>3 DEF VerifyTargets, CommitPublication
  <1>8. CASE Materialize(self)
    BY <1>4, <1>6, <1>8 DEF Materialize
  <1>9. CASE CommitRollback(self)
    BY <1>2, <1>5, <1>9 DEF CommitRollback
  <1>10. QED
    BY <1>2, <1>4, <1>7, <1>8, <1>9
    DEF TerminalJournal, CompensationAborts, SaveCompensation, JournalCompensation,
        FailRollback, JournalFailedRollback

\* The loop that puts targets back.
LEMMA RestoreFitted ==
    ASSUME IInv, OpFits, OpenFits, NEW self \in Procs, NEW f \in Files,
           RestoreInspect(self, f) \/ RestorePlace(self, f) \/ SaveRestore(self, f)
    PROVE  Fitted(self)
  <1>1. RowsAlike
    <2>1. ~Writes(self) /\ \A p \in Pubs : ~InsertAttempt(self, p)
      BY DEF RestoreInspect, RestorePlace, SaveRestore, Writes, CommitPublication,
             SaveCompensation, FailRollback, CommitRollback, InsertAttempt, At
    <2>2. QED
      BY <2>1, StepRowsAlike DEF IInv, Step
  <1>2. CASE proc[self].pc \in Undoing
    <2>1. proc[self].op = "publish" /\ proc[self].pc \in Opened
      BY <1>2 DEF OpFits, Publishing, Opened, Undoing
    <2>2. ASSUME NEW To, Moves(self, To), To \subseteq Undoing PROVE Fitted(self)
      <3>1. To \subseteq Opened
        BY <2>2 DEF Opened, Publishing, Undoing
      <3>2. QED
        BY <1>1, <2>1, <2>2, <3>1, OpenedFitted
    <2>3. CASE AfterRestore(self, f, TRUE) \/ AfterRestore(self, f, FALSE)
      <3>1. Moves(self, {"undo", "undo_save"}) /\ {"undo", "undo_save"} \subseteq Undoing
        BY <2>1, <2>3, AfterRestoreIs DEF IInv, Undoing
      <3>2. QED
        BY <2>2, <3>1
    <2>4. CASE Goto(self, "undo_place")
      <3>1. Moves(self, {"undo_place"}) /\ {"undo_place"} \subseteq Undoing
        BY <2>4, GotoIs DEF IInv, Undoing
      <3>2. QED
        BY <2>2, <3>1
    <2>5. QED
      BY <1>2, <2>3, <2>4 DEF RestoreInspect, RestorePlace, SaveRestore, Undoing, At
  <1>3. CASE proc[self].pc \in Restoring
    <2>1. proc[self].op # "publish"
      BY <1>3 DEF OpFits
    <2>2. ASSUME NEW w \in Restoring, Moves(self, {w}) PROVE Fitted(self)
      BY <1>1, <1>3, <2>2, RestoringFitted
    <2>3. CASE AfterRestore(self, f, TRUE) \/ AfterRestore(self, f, FALSE)
      BY <2>1, <2>2, <2>3, AfterRestoreIs DEF IInv, Restoring
    <2>4. CASE Goto(self, "restore_place")
      BY <2>2, <2>4, GotoIs DEF IInv, Restoring
    <2>5. ASSUME Become(self, [proc[self] EXCEPT !.todo = proc[self].todo \ {f},
                      !.pc = IF proc[self].todo \ {f} = {} THEN "restored" ELSE "restore"])
          PROVE Fitted(self)
      <3> DEFINE w == IF proc[self].todo \ {f} = {} THEN "restored" ELSE "restore"
      <3>1. Moves(self, {w})
        BY <2>5, RestLoopIs DEF IInv
      <3>2. w \in Restoring
        BY DEF Restoring
      <3>3. QED
        BY <2>2, <3>1, <3>2
    <2>6. CASE Return(self)
      BY <2>6, ReturnFitted DEF IInv
    <2>7. QED
      BY <1>3, <2>3, <2>4, <2>5, <2>6 DEF RestoreInspect, RestorePlace, SaveRestore, Restoring, At
  <1>4. QED
    BY <1>2, <1>3 DEF RestoreInspect, RestorePlace, SaveRestore, Undoing, Restoring, At

\* A rollback restores only under a row that is not rolled back.
LEMMA LoadFitted ==
    ASSUME IInv, OpFits, OpenFits, NEW self \in Procs, RollbackLoad(self)
    PROVE  Fitted(self)
  <1>1. /\ proc[self] \in Proc /\ UNCHANGED pubs
        /\ proc[self].pub \in Pubs /\ pubs[proc[self].pub].status \in PubStatus \ {"none"}
    BY DEF IInv, TypeOK, Row, AttemptKnown, RollbackLoad, At
  <1>2. CASE Return(self)
    BY <1>2, ReturnFitted DEF IInv
  <1>3. ASSUME NEW s, Become(self, [proc[self] EXCEPT !.pc = "record",
                                      !.op = "reconcile_rolled_back", !.row = s])
        PROVE  Fitted(self)
    <2>1. proc'[self].pc = "record"
      BY <1>1, <1>3 DEF Become, IInv, TypeOK, Proc
    <2>2. QED
      BY <2>1, OutFitted DEF Opened, Publishing, Undoing, Restoring
  <1>4. ASSUME Become(self, [proc[self] EXCEPT !.pc = "restore", !.todo = Targets(proc[self].pub)]),
               pubs[proc[self].pub].status # "rolled_back"
        PROVE  Fitted(self)
    <2>1. proc'[self].pc = "restore" /\ proc'[self].pub = proc[self].pub
      BY <1>4, LoopIs DEF IInv, Moves
    <2>2. QED
      BY <1>1, <1>4, <2>1 DEF Fitted, Undoable, PubStatus, Opened, Publishing, Undoing
  <1>5. QED
    BY <1>2, <1>3, <1>4 DEF RollbackLoad

\* Every step leads where its row fits.
LEMMA StepFitted ==
    ASSUME IInv, OpFits, OpenFits, NEW self \in Procs, Step(self)
    PROVE  Fitted(self)
  BY WriteFitted, BeginFitted, EndFitted, RestoreFitted, LoadFitted DEF Step

\* What an invocation is about, and the status of its row, stay as they are.
LEMMA NextEngine ==
    ASSUME Budget["edit"] = 0, TornPreview = FALSE, EInv, [Next]_vars
    PROVE  EInv'
  <1>1. UInv'
    BY NextUndo DEF EInv
  <1>2. IInv
    BY DEF EInv, UInv, KInv
  <1>3. ASSUME NEW self \in Procs, Step(self) PROVE OpFits' /\ OpenFits'
    <2>1. Others(self) /\ Flow(self) /\ Fitted(self)
      BY <1>2, <1>3, StepOthers, StepFlow, StepFitted DEF IInv, EInv
    <2>2. OpFits'
      BY <2>1 DEF EInv, OpFits, Others, Flow, Publishing, Undoing, Restoring
    <2>3. ASSUME NEW q \in Procs \ {self}, proc[q].pc \in Opened \cup Restoring
          PROVE  UNCHANGED pubs
      BY <1>2, <1>3, <2>3, InsideAlone DEF Opened, Publishing, Undoing, Restoring, Outside
    <2>4. OpenFits'
      BY <2>1, <2>3 DEF EInv, OpenFits, Fitted, Others
    <2>5. QED
      BY <2>2, <2>4
  <1>4. ASSUME \A self \in Procs : ~Step(self) PROVE OpFits' /\ OpenFits'
    <2>1. UNCHANGED pubs /\ \A q \in Procs : Rests(q)
      BY <1>2, <1>4, OtherActs
    <2>2. OpFits'
      BY <2>1 DEF EInv, OpFits, Rests, Outside, Publishing, Undoing, Restoring
    <2>3. \A q \in Procs : proc'[q].pc \in Opened \cup Restoring => proc'[q] = proc[q]
      BY <2>1 DEF Rests, Outside, Opened, Publishing, Undoing, Restoring
    <2>4. OpenFits'
      BY <2>1, <2>3 DEF EInv, OpenFits
    <2>5. QED
      BY <2>2, <2>4
  <1>5. QED
    BY <1>1, <1>3, <1>4 DEF EInv

\* EInv holds at first.
LEMMA InitEngine == Init => EInv
  <1>1. Init => OpFits /\ OpenFits
    BY DEF Init, OpFits, OpenFits, Idle, Opened, Publishing, Undoing, Restoring
  <1>2. QED
    BY <1>1, InitUndo DEF EInv

-----------------------------------------------------------------------------
(* What the abstract specification sees of a state: the stage and the owner *)
(* of each row, the published learnings and where each learning's text is.  *)

StageOf(status) ==
    CASE status = "none" -> "none"
      [] status = "in_progress" -> "open"
      [] status = "completed" -> "done"
      [] status = "failed" -> "held"
      [] status = "rolled_back" -> "undone"
Stages == [p \in Pubs |-> StageOf(pubs[p].status)]
Owners == [p \in Pubs |-> pubs[p].plan.learning]
Shown == {l \in Learnings : learning[l] = "published"}
Texts == [l \in Learnings |-> {f \in Files : disk[f] # NoFile /\ l \in disk[f]}]

\* Progress of entries is not seen.
LEMMA AlikeSeen ==
    ASSUME RowsAlike
    PROVE  Stages' = Stages /\ Owners' = Owners
  BY DEF RowsAlike, Stages, Owners

\* The stage each status stands for.
LEMMA StageIs ==
    /\ StageOf("none") = "none" /\ StageOf("in_progress") = "open"
    /\ StageOf("completed") = "done" /\ StageOf("failed") = "held"
    /\ StageOf("rolled_back") = "undone"
  BY DEF StageOf

\* The change of one status is seen in its row alone.
LEMMA StatusSeen ==
    ASSUME NEW p \in Pubs, NEW w,
           \A q \in Pubs : pubs'[q].status = (IF q = p THEN w ELSE pubs[q].status)
    PROVE  Stages' = [Stages EXCEPT ![p] = StageOf(w)]
  <1> DEFINE New == [Stages EXCEPT ![p] = StageOf(w)]
  <1>1. \A q \in Pubs : Stages'[q] = New[q]
    BY DEF Stages
  <1>2. DOMAIN Stages' = Pubs /\ DOMAIN New = Pubs
    BY DEF Stages
  <1>3. Stages' = [q \in Pubs |-> Stages'[q]] /\ New = [q \in Pubs |-> New[q]]
    BY <1>2 DEF Stages
  <1>4. QED
    BY <1>1, <1>3

\* So it is when the rows change in nothing else.
LEMMA SetsSeen ==
    ASSUME NEW p \in Pubs, NEW w, Sets(p, w)
    PROVE  Stages' = [Stages EXCEPT ![p] = StageOf(w)] /\ Owners' = Owners
  BY StatusSeen DEF Sets, Owners

\* A tree that stays shows the same texts.
LEMMA DiskSeen == UNCHANGED disk => UNCHANGED Texts
  BY DEF Texts

\* What is not seen is a step of the promise that changes nothing.
LEMMA Unseen ==
    ASSUME UNCHANGED <<Stages, Owners, Shown, Texts>>
    PROVE  UNCHANGED Promise!vars
  BY DEF Promise!vars, Stages, StageOf, Owners, Shown, Texts

\* The initial tree shows no text, and no row.
LEMMA InitSeen == Init => Promise!Init
  <1> SUFFICES ASSUME Init PROVE Promise!Init
    OBVIOUS
  <1>1. Stages = [p \in Pubs |-> "none"]
    BY DEF Init, NoRow, Stages, StageOf
  <1>2. Owners \in [Pubs -> Learnings]
    BY IdleType DEF Init, NoRow, Owners, Plan
  <1>3. Shown = {}
    BY DEF Init, Shown
  <1>4. Texts = [l \in Learnings |-> {}]
    <2>1. \A l \in Learnings, f \in Files : ~(disk[f] # NoFile /\ l \in disk[f])
      BY BaseAssumption DEF Init
    <2>2. QED
      BY <2>1 DEF Texts
  <1>5. QED
    BY <1>1, <1>2, <1>3, <1>4 DEF Promise!Init, Stages, StageOf, Owners, Shown, Texts

\* The steps of the promise, in these terms: a row that is inserted is an Open.
LEMMA OpensRow ==
    ASSUME NEW p \in Pubs, NEW l \in Learnings, Stages[p] = "none",
           Stages' = [Stages EXCEPT ![p] = "open"], Owners' = [Owners EXCEPT ![p] = l],
           UNCHANGED <<Shown, Texts>>
    PROVE  Promise!Next
  <1>1. Promise!Open(p, l)
    BY DEF Promise!Open, Promise!Move, Stages, StageOf, Owners, Shown, Texts
  <1>2. QED
    BY <1>1 DEF Promise!Next

\* A target that gains its text is a Write.
LEMMA WritesText ==
    ASSUME NEW p \in Pubs, NEW f \in Files, Stages[p] = "open", f \in Dest[Owners[p]],
           Texts' = [Texts EXCEPT ![Owners[p]] = @ \cup {f}],
           UNCHANGED <<Stages, Owners, Shown>>
    PROVE  Promise!Next
  <1>1. Promise!Write(p, f)
    BY DEF Promise!Write, Stages, StageOf, Owners, Shown, Texts
  <1>2. QED
    BY <1>1 DEF Promise!Next

\* A target that loses it is a Remove.
LEMMA RemovesText ==
    ASSUME NEW p \in Pubs, NEW f \in Files, Stages[p] \in {"open", "done", "held"},
           Texts' = [Texts EXCEPT ![Owners[p]] = @ \ {f}],
           UNCHANGED <<Stages, Owners, Shown>>
    PROVE  Promise!Next
  <1>1. Promise!Remove(p, f)
    BY DEF Promise!Remove, Stages, StageOf, Owners, Shown, Texts
  <1>2. QED
    BY <1>1 DEF Promise!Next

\* A row that is completed over all of its text is a Complete.
LEMMA CompletesRow ==
    ASSUME NEW p \in Pubs, Stages[p] = "open", Dest[Owners[p]] \subseteq Texts[Owners[p]],
           Stages' = [Stages EXCEPT ![p] = "done"], Shown' = Shown \cup {Owners[p]},
           UNCHANGED <<Owners, Texts>>
    PROVE  Promise!Next
  <1>1. Promise!Complete(p)
    BY DEF Promise!Complete, Promise!Move, Stages, StageOf, Owners, Shown, Texts
  <1>2. QED
    BY <1>1 DEF Promise!Next

\* A row that ends failed is a Hold.
LEMMA HoldsRow ==
    ASSUME NEW p \in Pubs, Stages[p] \in {"open", "done", "held"},
           Stages' = [Stages EXCEPT ![p] = "held"], UNCHANGED <<Owners, Shown, Texts>>
    PROVE  Promise!Next
  <1>1. Promise!Hold(p)
    BY DEF Promise!Hold, Promise!Move, Stages, StageOf, Owners, Shown, Texts
  <1>2. QED
    BY <1>1 DEF Promise!Next

\* A row that is closed with its learning is an Undo.
LEMMA UndoesRow ==
    ASSUME NEW p \in Pubs, Stages[p] \in {"open", "done", "held"},
           Stages' = [Stages EXCEPT ![p] = "undone"], Shown' = Shown \ {Owners[p]},
           UNCHANGED <<Owners, Texts>>
    PROVE  Promise!Next
  <1>1. Promise!Undo(p)
    BY DEF Promise!Undo, Promise!Move, Stages, StageOf, Owners, Shown, Texts
  <1>2. QED
    BY <1>1 DEF Promise!Next

\* The insertion of a row opens its publication.
LEMMA InsertKept ==
    ASSUME IInv, NEW self \in Procs, NEW p \in Pubs, InsertAttempt(self, p)
    PROVE  Promise!Next
  <1>1. PICK l \in Learnings : l = proc[self].plan.learning
    BY DEF IInv, TypeOK, Proc, Plan
  <1>2. /\ pubs[p].status = "none" /\ pubs'[p].status = "in_progress"
        /\ pubs'[p].plan.learning = l /\ \A q \in Pubs \ {p} : pubs'[q] = pubs[q]
        /\ UNCHANGED <<disk, learning>>
    BY <1>1 DEF InsertAttempt, SetRow, IInv, TypeOK
  <1>3. Stages[p] = "none" /\ Stages' = [Stages EXCEPT ![p] = "open"]
    BY <1>2, StatusSeen, StageIs DEF Stages
  <1>4. Owners' = [Owners EXCEPT ![p] = l]
    BY <1>2 DEF Owners
  <1>5. UNCHANGED <<Shown, Texts>>
    BY <1>2 DEF Shown, Texts
  <1>6. QED
    BY <1>3, <1>4, <1>5, OpensRow

\* Content composed for a learning differs from what it was composed from by
\* that learning alone.
LEMMA ComposedSeen ==
    ASSUME EInv, NEW p \in Pubs, pubs[p].status # "none", NEW f \in Targets(p)
    PROVE  /\ Post(p, f) # NoFile /\ pubs[p].plan.learning \in Post(p, f)
           /\ \A l \in Learnings \ {pubs[p].plan.learning} :
                  l \in Post(p, f) <=> (pubs[p].orig[f] # NoFile /\ l \in pubs[p].orig[f])
  <1>1. TypeOK /\ f \in Files
    BY TargetsType DEF EInv, UInv, KInv, IInv
  <1>2. Post(p, f) # NoFile
    BY <1>1, PostIsText
  <1>3. pubs[p].orig[f] = pubs[p].plan.base[f]
    BY DEF EInv, UInv, FInv, SnapshotIsPrior, PlansWhole, Whole
  <1>4. QED
    BY <1>2, <1>3 DEF Post, Compose

\* When one file changes in what it holds of one learning at most, the texts
\* change there at most.
LEMMA TextsSeen ==
    ASSUME NEW l \in Learnings, NEW g \in Files,
           \A f \in Files \ {g} : disk'[f] = disk[f],
           \A k \in Learnings \ {l} : Holds(k, disk'[g]) <=> Holds(k, disk[g])
    PROVE  /\ Holds(l, disk'[g]) => Texts' = [Texts EXCEPT ![l] = @ \cup {g}]
           /\ ~Holds(l, disk'[g]) => Texts' = [Texts EXCEPT ![l] = @ \ {g}]
  <1>1. \A k \in Learnings : /\ Texts[k] = {f \in Files : Holds(k, disk[f])}
                             /\ Texts'[k] = {f \in Files : Holds(k, disk'[f])}
    BY DEF Texts, Holds
  <1>2. Texts = [k \in Learnings |-> Texts[k]] /\ Texts' = [k \in Learnings |-> Texts'[k]]
    BY DEF Texts
  <1>3. \A k \in Learnings \ {l} : Texts'[k] = Texts[k]
    <2> SUFFICES ASSUME NEW k \in Learnings \ {l} PROVE Texts'[k] = Texts[k]
      OBVIOUS
    <2>1. \A f \in Files : Holds(k, disk'[f]) <=> Holds(k, disk[f])
      BY DEF Holds
    <2>2. QED
      BY <1>1, <2>1
  <1>4. Holds(l, disk'[g]) => Texts'[l] = Texts[l] \cup {g}
    BY <1>1
  <1>5. ~Holds(l, disk'[g]) => Texts'[l] = Texts[l] \ {g}
    BY <1>1
  <1>6. QED
    BY <1>2, <1>3, <1>4, <1>5

\* A placement writes the learning's text into a target of an open publication,
\* a restoration takes it out again, if it was not there before.
LEMMA PlacementKept ==
    ASSUME EInv, NEW self \in Procs, NEW g \in Files,
           PlaceTarget(self, g) \/ RestorePlace(self, g), disk' # disk
    PROVE  Promise!Next \/ UNCHANGED Promise!vars
  <1>1. disk'[g] # disk[g] /\ \A f \in Files \ {g} : disk'[f] = disk[f]
    <2>1. PICK c : disk' = [disk EXCEPT ![g] = c]
      BY DEF PlaceTarget, RestorePlace
    <2>2. disk \in [Files -> Content]
      BY DEF EInv, UInv, KInv, IInv, TypeOK
    <2>3. QED
      BY <2>1, <2>2
  <1>2. /\ Current(self, g) /\ proc[self].pc \in Stays /\ proc[self].pub \in Pubs
        /\ pubs[proc[self].pub].status # "none"
        /\ PlaceTarget(self, g) => /\ disk[g] = pubs[proc[self].pub].orig[g]
                                   /\ disk'[g] = Post(proc[self].pub, g)
        /\ RestorePlace(self, g) => /\ disk[g] = Post(proc[self].pub, g)
                                    /\ disk'[g] = pubs[proc[self].pub].orig[g]
    BY <1>1, ReplacesCompared DEF EInv, UInv
  <1>3. PICK p \in Pubs : p = proc[self].pub
    BY <1>2
  <1>4. PICK l \in Learnings : l = pubs[p].plan.learning
    BY DEF EInv, UInv, KInv, IInv, TypeOK, Row, Plan
  <1>5. g \in Targets(p)
    BY <1>2, <1>3 DEF EInv, UInv, KInv, TodoFits, Within, Current
  <1>6. UNCHANGED <<Stages, Owners, Shown>>
    BY DEF PlaceTarget, RestorePlace, Stages, Owners, Shown
  <1>7. Owners[p] = l /\ g \in Dest[Owners[p]] /\ Stages[p] = StageOf(pubs[p].status)
    BY <1>4, <1>5 DEF Owners, Stages, Targets
  <1>8. /\ Holds(l, Post(p, g))
        /\ \A k \in Learnings \ {l} : Holds(k, Post(p, g)) <=> Holds(k, pubs[p].orig[g])
    BY <1>2, <1>3, <1>4, <1>5, ComposedSeen DEF Holds
  <1>9. CASE PlaceTarget(self, g)
    <2>1. pubs[p].status = "in_progress"
      BY <1>3, <1>9 DEF PlaceTarget, At, EInv, OpenFits, Opened, Publishing
    <2>2. disk[g] = pubs[p].orig[g] /\ disk'[g] = Post(p, g)
      BY <1>2, <1>3, <1>9
    <2>3. Texts' = [Texts EXCEPT ![l] = @ \cup {g}]
      BY <1>1, <1>8, <2>2, TextsSeen
    <2>4. QED
      BY <1>6, <1>7, <2>1, <2>3, StageIs, WritesText
  <1>10. CASE RestorePlace(self, g)
    <2>1. pubs[p].status \in Undoable
      BY <1>3, <1>10 DEF RestorePlace, At, EInv, OpenFits, Opened, Publishing, Undoing,
                         Restoring, Undoable
    <2>2. disk[g] = Post(p, g) /\ disk'[g] = pubs[p].orig[g]
      BY <1>2, <1>3, <1>10
    <2>3. CASE Holds(l, disk'[g])
      <3>1. Texts' = [Texts EXCEPT ![l] = @ \cup {g}]
        BY <1>1, <1>8, <2>2, <2>3, TextsSeen
      <3>2. g \in Texts[l] /\ l \in DOMAIN Texts
        BY <1>8, <2>2 DEF Texts, Holds
      <3>3. UNCHANGED Texts
        BY <3>1, <3>2 DEF Texts
      <3>4. QED
        BY <1>6, <3>3, Unseen
    <2>4. CASE ~Holds(l, disk'[g])
      <3>1. Texts' = [Texts EXCEPT ![l] = @ \ {g}]
        BY <1>1, <1>8, <2>2, <2>4, TextsSeen
      <3>2. Stages[p] \in {"open", "done", "held"}
        BY <1>7, <2>1, StageIs DEF Undoable
      <3>3. QED
        BY <1>6, <1>7, <3>1, <3>2, RemovesText
    <2>5. QED
      BY <2>3, <2>4
  <1>11. QED
    BY <1>9, <1>10

\* The commit completes an open publication whose text is in every target, and
\* publishes the learning with it.
LEMMA CommitKept ==
    ASSUME EInv, NEW self \in Procs, CommitPublication(self)
    PROVE  Promise!Next \/ UNCHANGED Promise!vars
  <1>1. CASE UNCHANGED <<pubs, learning>>
    <2>1. UNCHANGED <<Stages, Owners, Shown, Texts>>
      BY <1>1 DEF CommitPublication, Stages, Owners, Shown, Texts
    <2>2. QED
      BY <2>1, Unseen
  <1>2. CASE ~UNCHANGED <<pubs, learning>>
    <2>1. PICK p \in Pubs : p = proc[self].pub /\ pubs[p].status = "in_progress"
      BY DEF CommitPublication, At, EInv, OpenFits, Opened, Publishing, UInv, KInv, IInv,
             AttemptKnown
    <2>2. PICK l \in Learnings : l = pubs[p].plan.learning
      BY DEF EInv, UInv, KInv, IInv, TypeOK, Row, Plan
    <2>3. /\ SetRow(p, [pubs[p] EXCEPT !.status = "completed"])
          /\ learning' = [learning EXCEPT ![l] = "published"] /\ UNCHANGED disk
      BY <1>2, <2>1, <2>2 DEF CommitPublication
    <2>4. Stages' = [Stages EXCEPT ![p] = "done"] /\ Owners' = Owners
      BY <2>3, SetStatusIs, SetsSeen, StageIs DEF EInv, UInv, KInv, IInv
    <2>5. Owners[p] = l /\ Stages[p] = "open"
      BY <2>1, <2>2, StageIs DEF Owners, Stages
    <2>6. Shown' = Shown \cup {l}
      BY <2>3 DEF Shown, EInv, UInv, KInv, IInv, TypeOK
    <2>7. Dest[l] \subseteq Texts[l]
      <3> SUFFICES ASSUME NEW f \in Dest[l] PROVE f \in Texts[l]
        OBVIOUS
      <3>1. f \in Targets(p) /\ f \in Files
        BY <2>2, DestAssumption DEF Targets
      <3>2. disk[f] = Post(p, f)
        BY <2>1, <3>1 DEF CommitPublication, At, EInv, UInv, FInv, VerifiedFits
      <3>3. disk[f] # NoFile /\ l \in disk[f]
        BY <2>1, <2>2, <3>1, <3>2, ComposedSeen
      <3>4. QED
        BY <3>1, <3>3 DEF Texts
    <2>8. UNCHANGED Texts
      BY <2>3, DiskSeen
    <2>9. QED
      BY <2>4, <2>5, <2>6, <2>7, <2>8, CompletesRow
  <1>3. QED
    BY <1>1, <1>2

\* A compensation or a rollback that ends in failure holds the publication.
LEMMA FailKept ==
    ASSUME EInv, NEW self \in Procs, SaveCompensation(self) \/ FailRollback(self)
    PROVE  Promise!Next \/ UNCHANGED Promise!vars
  <1>1. UNCHANGED <<Shown, Texts>>
    BY DEF SaveCompensation, FailRollback, Shown, Texts
  <1>2. CASE UNCHANGED pubs
    <2>1. UNCHANGED <<Stages, Owners>>
      BY <1>2 DEF Stages, Owners
    <2>2. QED
      BY <1>1, <2>1, Unseen
  <1>3. CASE pubs' # pubs
    <2>1. PICK p \in Pubs : p = proc[self].pub /\ pubs[p].status \in Undoable
      BY DEF SaveCompensation, FailRollback, At, EInv, OpenFits, Opened, Publishing, Undoing,
             Restoring, Undoable, UInv, KInv, IInv, AttemptKnown
    <2>2. CASE FailRollback(self)
      <3>1. SetRow(p, [pubs[p] EXCEPT !.status = "failed"])
        BY <1>3, <2>1, <2>2 DEF FailRollback
      <3>2. Sets(p, "failed")
        BY <3>1, SetStatusIs DEF EInv, UInv, KInv, IInv
      <3>3. Stages' = [Stages EXCEPT ![p] = "held"] /\ Owners' = Owners
        BY <3>2, SetsSeen, StageIs
      <3>4. QED
        BY <1>1, <2>1, <3>3, StageIs, HoldsRow DEF Stages, Undoable
    <2>3. CASE SaveCompensation(self)
      <3>1. PICK e : SetRow(p, [pubs[p] EXCEPT !.status = "failed", !.entry = e])
        BY <1>3, <2>1, <2>3 DEF SaveCompensation
      <3>2. Sets(p, "failed")
        BY <3>1, SetOutcomeIs DEF EInv, UInv, KInv, IInv
      <3>3. Stages' = [Stages EXCEPT ![p] = "held"] /\ Owners' = Owners
        BY <3>2, SetsSeen, StageIs
      <3>4. QED
        BY <1>1, <2>1, <3>3, StageIs, HoldsRow DEF Stages, Undoable
    <2>4. QED
      BY <2>2, <2>3
  <1>4. QED
    BY <1>2, <1>3

\* A rollback that closes its row undoes the publication and takes the learning
\* back from published with it.
LEMMA RollbackKept ==
    ASSUME EInv, NEW self \in Procs, CommitRollback(self)
    PROVE  Promise!Next \/ UNCHANGED Promise!vars
  <1>1. CASE UNCHANGED <<pubs, learning>>
    <2>1. UNCHANGED <<Stages, Owners, Shown, Texts>>
      BY <1>1 DEF CommitRollback, Stages, Owners, Shown, Texts
    <2>2. QED
      BY <2>1, Unseen
  <1>2. CASE ~UNCHANGED <<pubs, learning>>
    <2>1. PICK p \in Pubs : p = proc[self].pub /\ pubs[p].status \in Undoable
      BY DEF CommitRollback, At, EInv, OpenFits, Restoring, UInv, KInv, IInv, AttemptKnown
    <2>2. PICK l \in Learnings : l = pubs[p].plan.learning
      BY DEF EInv, UInv, KInv, IInv, TypeOK, Row, Plan
    <2>3. /\ SetRow(p, [pubs[p] EXCEPT !.status = "rolled_back"]) /\ UNCHANGED disk
          /\ learning' = [learning EXCEPT ![l] =
                             IF learning[l] = "published" THEN "approved" ELSE learning[l]]
      BY <1>2, <2>1, <2>2 DEF CommitRollback
    <2>4. Stages' = [Stages EXCEPT ![p] = "undone"] /\ Owners' = Owners
      BY <2>3, SetStatusIs, SetsSeen, StageIs DEF EInv, UInv, KInv, IInv
    <2>5. Owners[p] = l /\ Stages[p] \in {"open", "done", "held"}
      BY <2>1, <2>2, StageIs DEF Owners, Stages, Undoable
    <2>6. Shown' = Shown \ {l}
      BY <2>3 DEF Shown, EInv, UInv, KInv, IInv, TypeOK
    <2>7. QED
      BY <2>3, <2>4, <2>5, <2>6, DiskSeen, UndoesRow
  <1>3. QED
    BY <1>1, <1>2

\* Every step of an invocation is one of the promise, or is not seen.
LEMMA StepKept ==
    ASSUME EInv, NEW self \in Procs, Step(self)
    PROVE  Promise!Next \/ UNCHANGED Promise!vars
  <1>1. CASE \E p \in Pubs : InsertAttempt(self, p)
    BY <1>1, InsertKept DEF EInv, UInv, KInv
  <1>2. CASE Writes(self)
    BY <1>2, CommitKept, FailKept, RollbackKept DEF Writes
  <1>3. CASE disk' # disk /\ \E g \in Files : PlaceTarget(self, g) \/ RestorePlace(self, g)
    BY <1>3, PlacementKept
  <1>4. ASSUME ~Writes(self), \A p \in Pubs : ~InsertAttempt(self, p), UNCHANGED disk
        PROVE  Promise!Next \/ UNCHANGED Promise!vars
    <2>1. UNCHANGED learning
      BY <1>4 DEF Step, Writes, Acquire, ValidateHashes, InsertFails, CompensationAborts,
         JournalAttempt, InspectTarget, PlaceTarget, SaveProgress, RestoreInspect, RestorePlace,
         SaveRestore, VerifyTargets, Materialize, TerminalJournal, JournalCompensation,
         RollbackLoad, JournalFailedRollback, ReconcilePublished
    <2>2. UNCHANGED <<Stages, Owners>>
      BY <1>4, StepRowsAlike, AlikeSeen DEF EInv, UInv, KInv, IInv
    <2>3. UNCHANGED <<Shown, Texts>>
      BY <1>4, <2>1, DiskSeen DEF Shown
    <2>4. QED
      BY <2>2, <2>3, Unseen
  <1>5. disk' # disk => \E g \in Files : PlaceTarget(self, g) \/ RestorePlace(self, g)
    BY DEF Step, Acquire, ValidateHashes, InsertAttempt, InsertFails, CompensationAborts,
           JournalAttempt, InspectTarget, SaveProgress, RestoreInspect, SaveRestore,
           VerifyTargets, CommitPublication, Materialize, TerminalJournal, SaveCompensation,
           JournalCompensation, RollbackLoad, FailRollback, JournalFailedRollback,
           CommitRollback, ReconcilePublished
  <1>6. QED
    BY <1>1, <1>2, <1>3, <1>4, <1>5

\* What is no step of an invocation under way is not seen: previews, beginnings,
\* crashes, stale locks and rejections of learnings that are approved only.
LEMMA OtherKept ==
    ASSUME Budget["edit"] = 0, EInv, [Next]_vars, \A self \in Procs : ~Step(self)
    PROVE  UNCHANGED Promise!vars
  <1>1. IInv
    BY DEF EInv, UInv, KInv
  <1>2. UNCHANGED <<pubs, disk>>
    BY <1>1, OtherActs, EditsAreSpent DEF IInv
  <1>3. UNCHANGED Shown
    <2>1. ASSUME NEW l \in Learnings, Reject(l)
          PROVE  UNCHANGED Shown
      BY <1>1, <2>1 DEF Reject, Shown, IInv, TypeOK
    <2>2. ASSUME UNCHANGED learning
          PROVE  UNCHANGED Shown
      BY <2>2 DEF Shown
    <2>3. QED
      BY <2>1, <2>2 DEF Next, vars, Preview, TornPreviewStep, PreviewBuild, PreviewSnapshot,
         PreviewCompose, PublishRead, RollbackAcquire, Crash, RemoveStaleLock, Edit
  <1>4. UNCHANGED <<Stages, Owners, Texts>>
    BY <1>2 DEF Stages, Owners, Texts
  <1>5. QED
    BY <1>3, <1>4, Unseen

\* When nobody edits and nothing changes the tree under a preview, the engine
\* implements its promise: however many invocations run, and whatever faults,
\* crashes and rejections there are, text enters a target only under an open
\* publication of its learning and leaves it only under one that is not undone,
\* a row completes only over all of its text, and the learning turns with it.
THEOREM PromiseKept ==
    ASSUME Budget["edit"] = 0, TornPreview = FALSE
    PROVE  Spec => KeepsPromise
  <1>1. EInv /\ [Next]_vars => EInv'
    BY NextEngine
  <1>2. EInv /\ [Next]_vars => [Promise!Next]_(Promise!vars)
    <2>1. ASSUME EInv, [Next]_vars
          PROVE  Promise!Next \/ UNCHANGED Promise!vars
      BY <2>1, StepKept, OtherKept
    <2>2. QED
      BY <2>1
  <1>3. QED
    BY InitEngine, InitSeen, <1>1, <1>2, PTL DEF Spec, KeepsPromise, Promise!Spec

-----------------------------------------------------------------------------
(* Whose publication accounts for each text in the tree, whoever edits,     *)
(* fails, crashes or publishes within one second: only the preview must see *)
(* one tree.  A text may leave a file without its row knowing, never        *)
(* outlive the rows that can take it out.                                   *)

\* Every text of some content of a file is told of by a row.
Told(c, f) == \A l \in Learnings : Holds(l, c) => \E p \in Pubs : Tells(p, l, f)

\* A publication adds text and takes none away, even when the file was edited
\* between its validation and its snapshot.
OrigsKept == \A p \in Pubs : pubs[p].status # "none" =>
    \A f \in Targets(p), l \in Learnings : Holds(l, pubs[p].orig[f]) => Holds(l, Post(p, f))

\* A target is in the way, or holds no text that its original lacks.
Gone(self, f) == f \in proc[self].bad \/
    \A l \in Learnings : Holds(l, disk[f]) => Holds(l, pubs[proc[self].pub].orig[f])

\* What an invocation may put into a target at any moment is told of before it
\* does, and what it has put back holds nothing but the text of the original.
Accounts(self) ==
    LET p == proc[self].pub IN
    /\ proc[self].pc = "validated" => \A f \in Dest[proc[self].plan.learning] :
          /\ Told(proc[self].plan.base[f], f)
          /\ \A l \in Learnings : Holds(l, disk[f]) => Holds(l, proc[self].plan.base[f])
    /\ proc[self].pc \in Opened => \A f \in Targets(p) : Told(Post(p, f), f)
    /\ proc[self].pc = "restore_place" =>
          \A f \in Targets(p) : Current(self, f) => Told(pubs[p].orig[f], f)
    /\ proc[self].pc \in Restoring => \A f \in Targets(p) \ proc[self].todo : Gone(self, f)
    /\ proc[self].pc = "restore_save" =>
          \A f \in Targets(p) : Current(self, f) => Gone(self, f)
    /\ proc[self].pc = "restored" => proc[self].todo = {}
AccountFits == \A self \in Procs : Accounts(self)

AInv == IInv /\ TodoFits /\ OpFits /\ UndoFits /\ TextAccountedFor /\ OrigsKept /\ AccountFits

\* The bytes composed for a learning hold its own text and what they were
\* composed from.
LEMMA ComposeHolds ==
    ASSUME NEW k \in Learnings, NEW l \in Learnings, NEW f, NEW c \in Content
    PROVE  Holds(l, Compose(k, f, c)) <=> l = k \/ Holds(l, c)
  <1>1. Compose(k, f, c) \in SUBSET (Learnings \cup {UserText})
    BY DEF Compose, Content
  <1>2. Compose(k, f, c) # NoFile
    BY <1>1, NoFileAssumption
  <1>3. QED
    BY <1>2 DEF Compose, Holds

\* A row that keeps its plan and its originals, and can still be rolled back,
\* tells of the same texts.
LEMMA StillTells ==
    ASSUME NEW p \in Pubs, NEW l, NEW f, Tells(p, l, f), pubs'[p].plan = pubs[p].plan,
           pubs'[p].orig = pubs[p].orig, pubs'[p].status \in Recoverable
    PROVE  Tells(p, l, f)'
  BY DEF Tells, Targets

\* Only a rollback that has put everything back closes a row to its texts.
LEMMA StepTells ==
    ASSUME IInv, NEW self \in Procs, Step(self),
           NEW p \in Pubs, NEW l, NEW f, Tells(p, l, f), ~Tells(p, l, f)'
    PROVE  CommitRollback(self) /\ p = proc[self].pub
  <1>1. pubs[p].status \in Recoverable /\ pubs[p].status # "none"
    BY DEF Tells, Recoverable
  <1>2. ASSUME NEW q \in Pubs, InsertAttempt(self, q) PROVE FALSE
    <2>1. pubs'[p] = pubs[p]
      BY <1>1, <1>2 DEF InsertAttempt, SetRow, IInv, TypeOK
    <2>2. QED
      BY <1>1, <2>1, StillTells
  <1>3. ~RowsAlike
    BY <1>1, StillTells DEF RowsAlike
  <1>4. ASSUME NEW q \in Pubs, NEW w \in Recoverable, Sets(q, w) PROVE FALSE
    BY <1>1, <1>4, StillTells DEF Sets
  <1>5. Writes(self)
    BY <1>2, <1>3, StepRowsAlike DEF IInv
  <1>6. proc[self].pub \in Pubs
    BY <1>5, WritesOwn
  <1>7. ~CommitPublication(self)
    <2>1. CommitPublication(self) => Sets(proc[self].pub, "completed")
      BY <1>3, <1>5, WritesOwn
    <2>2. QED
      BY <1>4, <1>6, <2>1 DEF Recoverable
  <1>8. ~FailRollback(self)
    <2>1. FailRollback(self) =>
              SetRow(proc[self].pub, [pubs[proc[self].pub] EXCEPT !.status = "failed"])
      BY <1>3 DEF FailRollback, RowsAlike
    <2>2. FailRollback(self) => Sets(proc[self].pub, "failed")
      BY <1>6, <2>1, SetStatusIs DEF IInv
    <2>3. QED
      BY <1>4, <1>6, <2>2 DEF Recoverable
  <1>9. ~SaveCompensation(self)
    <2>1. SaveCompensation(self) => \E e :
              SetRow(proc[self].pub, [pubs[proc[self].pub] EXCEPT !.status = "failed", !.entry = e])
      BY <1>3 DEF SaveCompensation, RowsAlike
    <2>2. SaveCompensation(self) => Sets(proc[self].pub, "failed")
      BY <1>6, <2>1, SetOutcomeIs DEF IInv
    <2>3. QED
      BY <1>4, <1>6, <2>2 DEF Recoverable
  <1>10. CommitRollback(self)
    BY <1>5, <1>7, <1>8, <1>9 DEF Writes
  <1>11. p = proc[self].pub
    <2>1. PICK w : Sets(proc[self].pub, w)
      BY <1>3, <1>5, WritesOwn
    <2>2. QED
      BY <1>1, <2>1, StillTells DEF Sets
  <1>12. QED
    BY <1>10, <1>11

\* A placement and a restoration write what was told of.
LEMMA WrittenTold ==
    ASSUME AInv, NEW self \in Procs, Step(self), NEW f \in Files
    PROVE  Told(disk'[f], f)
  <1>1. CASE disk'[f] = disk[f]
    BY <1>1 DEF AInv, TextAccountedFor, Told
  <1>2. CASE disk'[f] # disk[f]
    <2>1. PICK g \in Files : PlaceTarget(self, g) \/ RestorePlace(self, g)
      BY <1>2 DEF Step, Acquire, ValidateHashes, InsertAttempt, InsertFails,
         CompensationAborts, JournalAttempt, InspectTarget, SaveProgress, RestoreInspect,
         SaveRestore, VerifyTargets, CommitPublication, Materialize, TerminalJournal,
         SaveCompensation, JournalCompensation, RollbackLoad, FailRollback,
         JournalFailedRollback, CommitRollback, ReconcilePublished
    <2>2. PICK p \in Pubs : /\ p = proc[self].pub /\ pubs[p].status # "none"
                            /\ proc[self].pc \in Stays /\ Current(self, g)
      BY <2>1 DEF PlaceTarget, RestorePlace, At, AInv, IInv, AttemptKnown, Stays, Outside, Pc
    <2>3. f = g /\ f \in Targets(p)
      <3>1. f = g
        BY <1>2, <2>1 DEF PlaceTarget, RestorePlace, AInv, IInv, TypeOK
      <3>2. QED
        BY <2>2, <3>1 DEF AInv, TodoFits, Within, Current
    <2>4. CASE PlaceTarget(self, g)
      <3>1. disk'[f] = Post(p, f) /\ proc[self].pc \in Opened
        BY <1>2, <2>2, <2>3, <2>4
        DEF PlaceTarget, At, AInv, IInv, TypeOK, Opened, Publishing
      <3>2. QED
        BY <2>2, <2>3, <3>1 DEF AInv, AccountFits, Accounts
    <2>5. CASE RestorePlace(self, g)
      <3>1. disk'[f] = pubs[p].orig[f] /\ proc[self].pc \in {"undo_place", "restore_place"}
        BY <1>2, <2>2, <2>3, <2>5 DEF RestorePlace, At, AInv, IInv, TypeOK
      <3>2. CASE proc[self].pc = "undo_place"
        <4>1. Told(Post(p, f), f)
          BY <2>2, <2>3, <3>2 DEF AInv, AccountFits, Accounts, Opened, Publishing, Undoing
        <4>2. QED
          BY <2>2, <2>3, <3>1, <4>1 DEF AInv, OrigsKept, Told
      <3>3. CASE proc[self].pc = "restore_place"
        BY <2>2, <2>3, <3>1, <3>3 DEF AInv, AccountFits, Accounts
      <3>4. QED
        BY <3>1, <3>2, <3>3
    <2>6. QED
      BY <2>1, <2>4, <2>5
  <1>3. QED
    BY <1>1, <1>2

\* No step strands a text: the rollback that closes its row has looked at every
\* target and left none in the way.
LEMMA StepText ==
    ASSUME AInv, NEW self \in Procs, Step(self)
    PROVE  TextAccountedFor'
  <1> SUFFICES ASSUME NEW f \in Files, NEW l \in Learnings, Holds(l, disk'[f])
               PROVE  \E p \in Pubs : Tells(p, l, f)'
    BY DEF TextAccountedFor, Holds
  <1>1. PICK p \in Pubs : Tells(p, l, f)
    BY WrittenTold DEF Told
  <1>2. CASE Tells(p, l, f)'
    BY <1>2
  <1>3. CASE ~Tells(p, l, f)'
    <2>1. CommitRollback(self) /\ p = proc[self].pub
      BY <1>1, <1>3, StepTells DEF AInv
    <2>2. /\ proc[self].pc = "restored" /\ proc[self].bad = {} /\ disk' = disk
          /\ f \in Targets(p) /\ ~Holds(l, pubs[p].orig[f])
      BY <1>1, <2>1 DEF CommitRollback, At, Tells
    <2>3. proc[self].todo = {} /\ Gone(self, f)
      BY <2>1, <2>2 DEF AInv, AccountFits, Accounts, Restoring
    <2>4. QED
      BY <2>1, <2>2, <2>3 DEF Gone
  <1>4. QED
    BY <1>2, <1>3

\* An insertion backs up no text that the plan would not write again; nothing
\* else touches plans or originals.
LEMMA StepOrigs ==
    ASSUME AInv, NEW self \in Procs, Step(self)
    PROVE  OrigsKept'
  <1> SUFFICES ASSUME NEW p \in Pubs, pubs'[p].status # "none", NEW f \in Targets(p)',
                      NEW l \in Learnings, Holds(l, pubs'[p].orig[f])
               PROVE  Holds(l, Post(p, f)')
    BY DEF OrigsKept, Holds
  <1>1. CASE pubs[p].status # "none"
    <2>1. pubs'[p].plan = pubs[p].plan /\ pubs'[p].orig = pubs[p].orig
      BY <1>1, StepRows DEF AInv, IInv
    <2>2. QED
      BY <1>1, <2>1 DEF AInv, OrigsKept, Targets, Post
  <1>2. CASE pubs[p].status = "none"
    <2>1. InsertAttempt(self, p)
      <3>1. ~RowsAlike
        BY <1>2 DEF RowsAlike
      <3>2. ~Writes(self)
        <4>1. ASSUME NEW q \in Pubs, NEW w, Sets(q, w), pubs[q].status # "none" PROVE FALSE
          BY <1>2, <4>1 DEF Sets
        <4>2. QED
          BY <3>1, <4>1, WritesOwn DEF AInv
      <3>3. PICK q \in Pubs : InsertAttempt(self, q)
        BY <3>1, <3>2, StepRowsAlike DEF AInv, IInv
      <3>4. q = p
        BY <1>2, <3>3 DEF InsertAttempt, SetRow, AInv, IInv, TypeOK
      <3>5. QED
        BY <3>3, <3>4
    <2>2. /\ pubs'[p].plan = proc[self].plan /\ pubs'[p].orig = disk
          /\ proc[self].pc = "validated"
      BY <2>1 DEF InsertAttempt, SetRow, At, AInv, IInv, TypeOK
    <2>3. f \in Dest[proc[self].plan.learning] /\ f \in Files
      BY <2>2, DestAssumption DEF Targets, AInv, IInv, TypeOK, Proc, Plan
    <2>4. Holds(l, pubs'[p].plan.base[f])
      BY <2>2, <2>3 DEF AInv, AccountFits, Accounts
    <2>5. pubs'[p].plan.learning \in Learnings /\ pubs'[p].plan.base[f] \in Content
      BY <2>2, <2>3 DEF AInv, IInv, TypeOK, Proc, Plan
    <2>6. QED
      BY <2>4, <2>5, ComposeHolds DEF Post
  <1>3. QED
    BY <1>1, <1>2

\* A validated plan was composed from what its targets hold.
LEMMA ValidatedAccounts ==
    ASSUME AInv, NEW self \in Procs, ValidateHashes(self), proc'[self].pc = "validated"
    PROVE  Accounts(self)'
  <1>1. proc[self] \in Proc /\ proc[self].plan.prior = proc[self].plan.base
    BY DEF AInv, IInv, TypeOK, UndoFits, PlansWhole, Whole
  <1>2. ~Return(self)
    BY ReturnIs DEF AInv, IInv, Idle
  <1>3. /\ \A f \in Dest[proc[self].plan.learning] : disk[f] = proc[self].plan.prior[f]
        /\ Goto(self, "validated") /\ UNCHANGED <<disk, pubs>>
    BY <1>2 DEF ValidateHashes
  <1>4. proc'[self].plan = proc[self].plan
    BY <1>3, GotoIs DEF AInv, IInv, Moves
  <1>5. \A c, f : Told(c, f) => Told(c, f)'
    BY <1>3 DEF Told, Tells, Targets, Holds
  <1>6. Dest[proc[self].plan.learning] \subseteq Files
    BY <1>1, DestAssumption DEF Proc, Plan
  <1>7. \A f \in Dest[proc[self].plan.learning] :
            Told(disk[f], f) /\ disk[f] = proc[self].plan.base[f]
    BY <1>1, <1>3, <1>6 DEF AInv, TextAccountedFor, Told
  <1>8. \A f \in Dest[proc'[self].plan.learning] :
            /\ Told(proc[self].plan.base[f], f)'
            /\ \A l \in Learnings : Holds(l, disk'[f]) => Holds(l, proc'[self].plan.base[f])
    BY <1>3, <1>4, <1>5, <1>7
  <1>9. QED
    BY <1>8 DEF Accounts, Opened, Publishing, Undoing, Restoring

\* A row is inserted for bytes that are told of, its own text by itself.
LEMMA InsertedAccounts ==
    ASSUME AInv, NEW self \in Procs, NEW p \in Pubs, InsertAttempt(self, p)
    PROVE  Accounts(self)'
  <1>1. /\ pubs'[p].plan = proc[self].plan /\ pubs'[p].orig = disk
        /\ pubs'[p].status = "in_progress" /\ proc[self].pc = "validated" /\ disk' = disk
        /\ proc[self] \in Proc
    BY DEF InsertAttempt, SetRow, At, AInv, IInv, TypeOK
  <1>2. proc'[self].pc = "inserted" /\ proc'[self].pub = p
    BY <1>1 DEF InsertAttempt, Become, AInv, IInv, TypeOK, Proc
  <1>3. Step(self) /\ ~CommitRollback(self)
    BY <1>1 DEF Step, CommitRollback, At
  <1>4. ASSUME NEW f \in Targets(p)' PROVE Told(Post(p, f), f)'
    <2>1. f \in Dest[proc[self].plan.learning] /\ f \in Files
      BY <1>1, DestAssumption DEF Targets, Proc, Plan
    <2>2. ASSUME NEW l \in Learnings, Holds(l, proc[self].plan.base[f]) \/ Holds(l, disk[f])
          PROVE  \E q \in Pubs : Tells(q, l, f)'
      <3>1. Told(proc[self].plan.base[f], f) /\ Told(disk[f], f)
        BY <1>1, <2>1 DEF AInv, AccountFits, Accounts, TextAccountedFor, Told
      <3>2. PICK q \in Pubs : Tells(q, l, f)
        BY <2>2, <3>1 DEF Told
      <3>3. Tells(q, l, f)'
        BY <1>3, <3>2, StepTells DEF AInv
      <3>4. QED
        BY <3>3
    <2>3. ASSUME NEW l \in Learnings, Holds(l, Post(p, f)')
          PROVE  \E q \in Pubs : Tells(q, l, f)'
      <3>1. l = pubs'[p].plan.learning \/ Holds(l, pubs'[p].plan.base[f])
        <4>1. pubs'[p].plan.learning \in Learnings /\ pubs'[p].plan.base[f] \in Content
          BY <1>1, <2>1 DEF Proc, Plan
        <4>2. QED
          BY <2>3, <4>1, ComposeHolds DEF Post
      <3>2. CASE Holds(l, pubs'[p].plan.base[f]) \/ Holds(l, disk[f])
        BY <1>1, <2>2, <3>2
      <3>3. CASE l = pubs'[p].plan.learning /\ ~Holds(l, disk[f])
        <4>1. Tells(p, l, f)'
          BY <1>1, <3>3 DEF Tells, Recoverable, Holds
        <4>2. QED
          BY <4>1
      <3>4. QED
        BY <3>1, <3>2, <3>3
    <2>4. QED
      BY <2>3 DEF Told, Holds
  <1>5. QED
    BY <1>2, <1>4 DEF Accounts, Restoring

\* Publications are only begun by the insertion of their row.
LEMMA OpenedFrom ==
    ASSUME IInv, OpFits, NEW self \in Procs, Step(self), proc'[self].pc \in Opened,
           \A p \in Pubs : ~InsertAttempt(self, p)
    PROVE  proc[self].pc \in Opened
  <1> SUFFICES ASSUME proc[self].pc \notin Opened PROVE FALSE
    OBVIOUS
  <1>1. proc[self] \in Proc
    BY DEF IInv, TypeOK
  <1>2. ~Return(self)
    BY ReturnIs DEF IInv, Idle, Opened, Publishing, Undoing
  <1>3. ASSUME NEW w \in {"locked", "find", "validated", "journal", "undo_journal",
                          "fail_journal", "restore_place"}, Goto(self, w)
        PROVE  FALSE
    BY <1>3, GotoIs DEF IInv, Moves, Opened, Publishing, Undoing
  <1>4. ASSUME NEW w \in {"record", "journal", "restore", "restored"}, proc'[self].pc = w
        PROVE  FALSE
    BY <1>4 DEF Opened, Publishing, Undoing
  <1>5. ~Acquire(self) /\ ~ValidateHashes(self) /\ ~InsertFails(self) /\ ~TerminalJournal(self)
        /\ ~JournalCompensation(self) /\ ~JournalFailedRollback(self) /\ ~FailRollback(self)
    BY <1>2, <1>3 DEF Acquire, ValidateHashes, InsertFails, TerminalJournal,
       JournalCompensation, JournalFailedRollback, FailRollback
  <1>6. ~ReconcilePublished(self)
    <2>1. ASSUME NEW p, Become(self, [proc[self] EXCEPT !.pc = "record", !.pub = p])
          PROVE  FALSE
      BY <1>1, <1>4, <2>1 DEF Become, IInv, TypeOK, Proc
    <2>2. QED
      BY <1>2, <2>1 DEF ReconcilePublished
  <1>7. ~Materialize(self)
    <2>1. ASSUME Become(self, [proc[self] EXCEPT !.pc = "journal", !.recordOk = FALSE])
          PROVE  FALSE
      BY <1>1, <1>4, <2>1 DEF Become, IInv, TypeOK, Proc
    <2>2. QED
      BY <1>3, <2>1 DEF Materialize
  <1>8. ~CommitRollback(self)
    <2>1. ASSUME NEW s, Become(self, [proc[self] EXCEPT !.pc = "record", !.row = s])
          PROVE  FALSE
      BY <1>1, <1>4, <2>1 DEF Become, IInv, TypeOK, Proc
    <2>2. QED
      BY <1>2, <2>1 DEF CommitRollback
  <1>9. ~RollbackLoad(self)
    <2>1. ASSUME NEW s, Become(self, [proc[self] EXCEPT !.pc = "record",
                                        !.op = "reconcile_rolled_back", !.row = s])
          PROVE  FALSE
      BY <1>1, <1>4, <2>1 DEF Become, IInv, TypeOK, Proc
    <2>2. ASSUME NEW todo, Become(self, [proc[self] EXCEPT !.pc = "restore", !.todo = todo])
          PROVE  FALSE
      BY <1>4, <2>2, LoopIs DEF IInv, Moves
    <2>3. QED
      BY <1>2, <2>1, <2>2 DEF RollbackLoad
  <1>10. ASSUME NEW f \in Files, RestoreInspect(self, f) \/ RestorePlace(self, f) PROVE FALSE
    <2>1. proc[self].pc \in {"restore", "restore_place"}
      BY <1>10 DEF RestoreInspect, RestorePlace, At, Opened, Publishing, Undoing
    <2>2. proc[self].op # "publish"
      BY <2>1 DEF OpFits, Restoring
    <2>3. ASSUME NEW ok \in BOOLEAN, AfterRestore(self, f, ok) PROVE FALSE
      BY <2>2, <2>3, AfterRestoreIs DEF IInv, Moves, Opened, Publishing, Undoing
    <2>4. QED
      BY <1>3, <1>10, <2>1, <2>3 DEF RestoreInspect, RestorePlace, At
  <1>11. ASSUME NEW f \in Files, SaveRestore(self, f) PROVE FALSE
    <2> DEFINE rest == proc[self].todo \ {f}
               w == IF rest = {} THEN "restored" ELSE "restore"
    <2>1. Become(self, [proc[self] EXCEPT !.todo = rest, !.pc = w])
      BY <1>2, <1>11 DEF SaveRestore
    <2>2. proc'[self].pc = w
      BY <2>1, RestLoopIs DEF IInv, Moves
    <2>3. QED
      BY <1>4, <2>2
  <1>12. QED
    BY <1>5, <1>6, <1>7, <1>8, <1>9, <1>10, <1>11
    DEF Step, JournalAttempt, InspectTarget, PlaceTarget, SaveProgress, VerifyTargets,
        CommitPublication, CompensationAborts, SaveCompensation, At, Opened, Publishing, Undoing

\* A publication under way closes no row.
LEMMA OpenedAccounts ==
    ASSUME AInv, NEW self \in Procs, Step(self),
           proc[self].pc \in Opened, proc'[self].pc \in Opened
    PROVE  Accounts(self)'
  <1>1. proc[self].pub \in Pubs
    BY DEF AInv, IInv, AttemptKnown, Opened, Publishing, Undoing
  <1>2. GoesOn(self)
    <2>1. ~Leaves(self)
      BY DEF Leaves, Idle, Opened, Publishing, Undoing
    <2>2. QED
      BY <2>1, StepShape DEF AInv, IInv, Acquire, ValidateHashes, ReconcilePublished,
         InsertAttempt, At, Opened, Publishing, Undoing
  <1>3. /\ proc'[self].pub = proc[self].pub /\ UNCHANGED Targets(proc[self].pub)
        /\ \A f : Post(proc[self].pub, f)' = Post(proc[self].pub, f)
    BY <1>1, <1>2 DEF GoesOn, Continues, RowsKept, Targets, Post
  <1>4. ~CommitRollback(self)
    BY DEF CommitRollback, At, Opened, Publishing, Undoing
  <1>5. ASSUME NEW f \in Targets(proc[self].pub) PROVE Told(Post(proc[self].pub, f), f)'
    <2>1. Told(Post(proc[self].pub, f), f)
      BY DEF AInv, AccountFits, Accounts
    <2>2. ASSUME NEW l \in Learnings, Holds(l, Post(proc[self].pub, f))
          PROVE  \E p \in Pubs : Tells(p, l, f)'
      BY <1>4, <2>1, <2>2, StepTells DEF AInv, Told
    <2>3. QED
      BY <1>3, <2>2 DEF Told, Holds
  <1>6. QED
    BY <1>3, <1>5 DEF Accounts, Opened, Publishing, Undoing, Restoring

\* After one target a rollback has put it back or found it in the way.
LEMMA GoneAfter ==
    ASSUME IInv, OpFits, TodoFits, NEW self \in Procs, Accounts(self), NEW f \in Files,
           proc[self].pc \in {"restore", "restore_place"}, Current(self, f),
           UNCHANGED pubs, \A g \in Files \ {f} : disk'[g] = disk[g],
           \/ AfterRestore(self, f, TRUE) /\ disk'[f] = pubs[proc[self].pub].orig[f]
           \/ AfterRestore(self, f, FALSE)
    PROVE  Accounts(self)'
  <1> DEFINE p == proc[self].pub
  <1>1. /\ p \in Pubs /\ proc[self].pc \in Restoring
        /\ \A g \in proc[self].todo : Current(self, g) => g = f
    BY WorkKnown DEF Restoring, Current
  <1>2. Targets(p) \subseteq Files /\ f \in proc[self].todo
    BY <1>1, TargetsType DEF IInv, Current
  <1>3. proc[self].op # "publish"
    BY <1>1 DEF OpFits
  <1>4. /\ proc'[self].pc = "restore_save" /\ proc'[self].pub = p
        /\ proc'[self].todo = proc[self].todo
    BY <1>3, AfterRestoreIs DEF IInv, Moves
  <1>5. /\ AfterRestore(self, f, TRUE) => proc'[self].bad = proc[self].bad
        /\ AfterRestore(self, f, FALSE) => proc'[self].bad = proc[self].bad \cup {f}
    <2>1. AfterRestore(self, f, TRUE) => proc'[self].bad = proc[self].bad
      BY AfterRestoreIs DEF IInv
    <2>2. AfterRestore(self, f, FALSE) => proc'[self].bad = proc[self].bad \cup {f}
      BY AfterRestoreIs DEF IInv
    <2>3. QED
      BY <2>1, <2>2
  <1>6. Gone(self, f)'
    BY <1>4, <1>5 DEF Gone
  <1>7. \A g \in Targets(p) \ proc[self].todo : Gone(self, g)'
    BY <1>1, <1>2, <1>4, <1>5 DEF Accounts, Gone
  <1>8. UNCHANGED Targets(p)
    BY <1>4 DEF Targets
  <1>9. \A g \in Targets(p) : Current(self, g)' => g = f
    BY <1>1, <1>4 DEF Current
  <1>10. QED
    BY <1>4, <1>6, <1>7, <1>8, <1>9 DEF Accounts, Opened, Publishing, Undoing

\* The loop of the rollback: it restores only over the bytes it published, and
\* so only originals whose texts are told of.
LEMMA GoneLoop ==
    ASSUME AInv, NEW self \in Procs, NEW f \in Files, proc[self].pc \in Restoring,
           RestoreInspect(self, f) \/ RestorePlace(self, f) \/ SaveRestore(self, f)
    PROVE  Accounts(self)'
  <1> DEFINE p == proc[self].pub
  <1>1. /\ IInv /\ OpFits /\ TodoFits /\ Accounts(self) /\ disk \in [Files -> Content]
        /\ Current(self, f) /\ f \in Files
    BY DEF AInv, IInv, TypeOK, AccountFits, RestoreInspect, RestorePlace, SaveRestore
  <1>2. /\ p \in Pubs /\ pubs[p].status # "none" /\ f \in proc[self].todo /\ f \in Targets(p)
        /\ Targets(p) \subseteq Files
        /\ \A g \in proc[self].todo : Current(self, g) => g = f
    BY <1>1, WorkKnown, TargetsType DEF IInv, AttemptKnown, Restoring, Current
  <1>3. CASE RestoreInspect(self, f)
    <2>1. proc[self].pc = "restore" /\ UNCHANGED <<disk, pubs>>
      BY <1>3 DEF RestoreInspect, At, Restoring
    <2>2. CASE AfterRestore(self, f, FALSE) \/ (disk[f] = pubs[p].orig[f] /\ AfterRestore(self, f, TRUE))
      BY <1>1, <2>1, <2>2, GoneAfter
    <2>3. CASE disk[f] = Post(p, f) /\ Goto(self, "restore_place")
      <3>1. /\ proc'[self].pc = "restore_place" /\ proc'[self].pub = p
            /\ proc'[self].todo = proc[self].todo /\ proc'[self].bad = proc[self].bad
        BY <1>1, <2>3, GotoIs DEF IInv, Moves
      <3>2. Told(pubs[p].orig[f], f)
        BY <1>2, <2>3 DEF AInv, TextAccountedFor, OrigsKept, Told
      <3>3. \A g \in Targets(p) : Current(self, g)' => g = f
        BY <1>2, <3>1 DEF Current
      <3>4. UNCHANGED Targets(p) /\ Told(pubs[p].orig[f], f)'
        BY <2>1, <3>1, <3>2 DEF Targets, Told, Tells, Holds
      <3>5. \A g \in Targets(p) \ proc[self].todo : Gone(self, g)'
        BY <1>1, <2>1, <3>1 DEF Accounts, Gone
      <3>6. QED
        BY <2>1, <3>1, <3>3, <3>4, <3>5 DEF Accounts, Opened, Publishing, Undoing
    <2>4. QED
      BY <1>3, <2>1, <2>2, <2>3 DEF RestoreInspect, At
  <1>4. CASE RestorePlace(self, f)
    <2>1. proc[self].pc = "restore_place" /\ UNCHANGED pubs
      BY <1>4 DEF RestorePlace, At, Restoring
    <2>2. \A g \in Files \ {f} : disk'[g] = disk[g]
      BY <1>1, <1>4 DEF RestorePlace
    <2>3. \/ AfterRestore(self, f, TRUE) /\ disk'[f] = pubs[p].orig[f]
          \/ AfterRestore(self, f, FALSE)
      BY <1>1, <1>4 DEF RestorePlace
    <2>4. QED
      BY <1>1, <2>1, <2>2, <2>3, GoneAfter
  <1>5. ASSUME Return(self) PROVE Accounts(self)'
    BY <1>1, <1>5, ReturnIs DEF IInv, Idle, Accounts, Opened, Publishing, Undoing, Restoring
  <1>6. CASE SaveRestore(self, f) /\ ~Return(self)
    <2> DEFINE next == IF proc[self].todo \ {f} = {} THEN "restored" ELSE "restore"
    <2>1. /\ UNCHANGED disk /\ proc[self].pc = "restore_save"
          /\ Become(self, [proc[self] EXCEPT !.todo = proc[self].todo \ {f}, !.pc = next])
      BY <1>6 DEF SaveRestore, At
    <2>2. RowsAlike
      <3>1. PICK e : SetRow(p, [pubs[p] EXCEPT !.entry[f] = e])
        BY <1>6 DEF SaveRestore
      <3>2. QED
        BY <1>1, <1>2, <3>1, SetEntryIs DEF IInv
    <2>3. next \in {"restored", "restore"} /\ (next = "restored" => proc[self].todo \ {f} = {})
      OBVIOUS
    <2> HIDE DEF next
    <2>4. /\ proc'[self].pc = next /\ proc'[self].pub = p
          /\ proc'[self].todo = proc[self].todo \ {f} /\ proc'[self].bad = proc[self].bad
      <3>1. /\ Moves(self, {next}) /\ proc'[self].bad = proc[self].bad
            /\ proc'[self].todo = proc[self].todo \ {f}
        BY <1>1, <2>1, RestLoopIs DEF IInv
      <3>2. QED
        BY <3>1 DEF Moves
    <2>5. \A g : Gone(self, g) => Gone(self, g)'
      BY <1>2, <2>1, <2>2, <2>4 DEF Gone, RowsAlike
    <2>6. \A g \in Targets(p) \ proc'[self].todo : Gone(self, g)
      BY <1>1, <1>2, <2>1, <2>4 DEF Accounts, Restoring
    <2>7. UNCHANGED Targets(p)
      BY <1>2, <2>2, <2>4 DEF RowsAlike, Targets
    <2>8. QED
      BY <2>3, <2>4, <2>5, <2>6, <2>7 DEF Accounts, Opened, Publishing, Undoing
  <1>7. QED
    BY <1>3, <1>4, <1>5, <1>6

\* An invocation that stays where it is keeps its accounts while the rows stay
\* and files only lose text.
LEMMA AccountsStay ==
    ASSUME IInv, NEW q \in Procs, Accounts(q), proc'[q] = proc[q], UNCHANGED pubs,
           \A g \in Files, l \in Learnings : Holds(l, disk'[g]) => Holds(l, disk[g])
    PROVE  Accounts(q)'
  <1> DEFINE p == proc[q].pub
  <1>1. Dest[proc[q].plan.learning] \subseteq Files
    BY DestAssumption DEF IInv, TypeOK, Proc, Plan
  <1>2. proc[q].pc \in Opened \cup Restoring => p \in Pubs /\ Targets(p) \subseteq Files
    BY TargetsType DEF IInv, AttemptKnown, Opened, Publishing, Undoing, Restoring
  <1>3. /\ UNCHANGED Targets(p) /\ \A f : Post(p, f)' = Post(p, f) /\ Current(q, f)' = Current(q, f)
    BY DEF Targets, Post, Current
  <1>4. \A c, f : Told(c, f)' <=> Told(c, f)
    BY DEF Told, Tells, Targets, Holds
  <1>5. \A g \in Files : Gone(q, g) => Gone(q, g)'
    BY DEF Gone
  <1>6. proc[q].pc = "validated" => \A f \in Dest[proc[q].plan.learning] :
            /\ Told(proc[q].plan.base[f], f)'
            /\ \A l \in Learnings : Holds(l, disk'[f]) => Holds(l, proc'[q].plan.base[f])
    BY <1>1, <1>4 DEF Accounts
  <1>7. proc[q].pc \in Opened => \A f \in Targets(p) : Told(Post(p, f), f)'
    BY <1>3 DEF Accounts, Told, Tells, Targets, Holds
  <1>8. proc[q].pc = "restore_place" =>
            \A f \in Targets(p) : Current(q, f) => Told(pubs[p].orig[f], f)'
    BY DEF Accounts, Told, Tells, Targets, Holds
  <1>9. proc[q].pc \in Restoring => \A f \in Targets(p) \ proc[q].todo : Gone(q, f)'
    BY <1>2, <1>5 DEF Accounts
  <1>10. proc[q].pc = "restore_save" => \A f \in Targets(p) : Current(q, f) => Gone(q, f)'
    BY <1>2, <1>5 DEF Accounts, Restoring
  <1>11. QED
    BY <1>3, <1>6, <1>7, <1>8, <1>9, <1>10 DEF Accounts

\* A step leaves the account of its invocation right.
LEMMA StepAccounts ==
    ASSUME AInv, NEW self \in Procs, Step(self)
    PROVE  AccountFits'
  <1>1. Others(self) /\ Flow(self) /\ IInv
    BY StepOthers, StepFlow DEF AInv, IInv
  <1>2. Accounts(self)'
    <2>1. CASE proc'[self].pc \notin {"validated"} \cup Opened \cup Restoring
      BY <2>1 DEF Accounts, Restoring
    <2>2. CASE proc'[self].pc = "validated"
      <3>1. ValidateHashes(self)
        <4>1. ~Leaves(self) /\ ~GoesOn(self)
          BY <2>2 DEF Leaves, GoesOn, Continues, Idle, Stays
        <4>2. proc[self] \in Proc
          BY <1>1 DEF IInv, TypeOK
        <4>3. ~Acquire(self)
          BY <1>1, <2>2, ReturnIs, GotoIs DEF Acquire, IInv, Idle, Moves
        <4>4. ASSUME NEW w, NEW p, Become(self, [proc[self] EXCEPT !.pc = w, !.pub = p])
              PROVE  w = "validated"
          BY <1>1, <2>2, <4>2, <4>4 DEF Become, IInv, TypeOK, Proc
        <4>5. ~ReconcilePublished(self)
          <5>1. ~Return(self)
            BY <1>1, <2>2, ReturnIs DEF IInv, Idle
          <5>2. ~\E p \in Pubs : Become(self, [proc[self] EXCEPT !.pc = "record", !.pub = p])
            BY <4>4
          <5>3. QED
            BY <5>1, <5>2 DEF ReconcilePublished
        <4>6. \A p \in Pubs : ~InsertAttempt(self, p)
          BY <4>4 DEF InsertAttempt
        <4>7. QED
          BY <1>1, <4>1, <4>3, <4>5, <4>6, StepShape DEF IInv
      <3>2. QED
        BY <2>2, <3>1, ValidatedAccounts
    <2>3. CASE proc'[self].pc \in Opened
      BY <1>1, <2>3, InsertedAccounts, OpenedFrom, OpenedAccounts DEF AInv
    <2>4. CASE proc'[self].pc \in Restoring
      <3>1. \/ proc[self].pc \in Restoring
            \/ Begins(self) /\ RowsAlike /\ proc'[self].pc = "restore"
        BY <1>1, <2>4 DEF Flow, Begins, Publishing, Undoing, Restoring
      <3>2. CASE proc[self].pc \in Restoring
        BY <1>1, <2>4, <3>2, RestoreEnds, GoneLoop
      <3>3. CASE Begins(self) /\ RowsAlike /\ proc'[self].pc = "restore"
        <4>1. proc'[self].pub = proc[self].pub /\ proc'[self].pub \in Pubs
          BY <1>1, <3>3, StepAttempt DEF Begins, AttemptKnown
        <4>2. Targets(proc[self].pub)' = proc'[self].todo
          BY <3>3, <4>1 DEF Begins, RowsAlike, Targets
        <4>3. QED
          BY <3>3, <4>1, <4>2 DEF Accounts, Opened, Publishing, Undoing
      <3>4. QED
        BY <3>1, <3>2, <3>3
    <2>5. QED
      BY <2>1, <2>2, <2>3, <2>4
  <1>3. ASSUME NEW q \in Procs \ {self} PROVE Accounts(q)'
    <2>1. proc'[q] = proc[q] /\ Accounts(q)
      BY <1>1 DEF Others, AInv, AccountFits
    <2>2. CASE proc[q].pc \in Outside
      BY <2>1, <2>2 DEF Accounts, Outside, Opened, Publishing, Undoing, Restoring
    <2>3. CASE proc[q].pc \notin Outside
      <3>1. UNCHANGED <<disk, pubs>>
        BY <1>1, <2>3, InsideAlone
      <3>2. QED
        BY <1>1, <2>1, <3>1, AccountsStay
    <2>4. QED
      BY <2>2, <2>3
  <1>4. QED
    BY <1>2, <1>3 DEF AccountFits

\* Whoever edits types no learning's text.
LEMMA EditShrinks ==
    ASSUME TypeOK, NEW f \in Files, Edit(f), NEW g \in Files, NEW l \in Learnings,
           Holds(l, disk'[g])
    PROVE  Holds(l, disk[g])
  <1>1. PICK c \in {NoFile, {UserText},
                    (IF disk[f] = NoFile THEN {} ELSE disk[f]) \cup {UserText}} :
            disk' = [disk EXCEPT ![f] = c]
    BY DEF Edit
  <1>2. CASE g # f
    BY <1>1, <1>2 DEF TypeOK
  <1>3. CASE g = f
    <2>1. disk'[g] = c
      BY <1>1, <1>3 DEF TypeOK
    <2>2. l # UserText
      BY BaseAssumption
    <2>3. QED
      BY <1>1, <1>3, <2>1, <2>2 DEF Holds
  <1>4. QED
    BY <1>2, <1>3

\* AInv is inductive when no preview is torn.
LEMMA NextAccounts ==
    ASSUME TornPreview = FALSE, AInv, [Next]_vars
    PROVE  AInv'
  <1>1. IInv' /\ TodoFits' /\ OpFits' /\ UndoFits'
    BY NextInv, NextLoops, NextWhole DEF AInv
  <1>2. CASE \E self \in Procs : Step(self)
    BY <1>1, <1>2, StepText, StepOrigs, StepAccounts DEF AInv
  <1>3. CASE \A self \in Procs : ~Step(self)
    <2>1. /\ UNCHANGED pubs /\ \A q \in Procs : Rests(q)
          /\ disk' = disk \/ \E f \in Files : Edit(f)
      BY <1>3, OtherActs DEF AInv
    <2>2. \A g \in Files, l \in Learnings : Holds(l, disk'[g]) => Holds(l, disk[g])
      BY <2>1, EditShrinks DEF AInv, IInv
    <2>3. TextAccountedFor'
      BY <2>1, <2>2 DEF AInv, TextAccountedFor, Tells, Targets, Holds
    <2>4. OrigsKept'
      BY <2>1 DEF AInv, OrigsKept, Targets, Post, Holds
    <2>5. ASSUME NEW q \in Procs PROVE Accounts(q)'
      <3>1. CASE proc'[q] = proc[q]
        BY <2>1, <2>2, <3>1, AccountsStay DEF AInv, AccountFits
      <3>2. CASE proc'[q] # proc[q]
        BY <2>1, <3>2 DEF Rests, Accounts, Outside, Opened, Publishing, Undoing, Restoring
      <3>3. QED
        BY <3>1, <3>2
    <2>6. QED
      BY <1>1, <2>3, <2>4, <2>5 DEF AInv, AccountFits
  <1>4. QED
    BY <1>2, <1>3

\* AInv holds at first: the tree holds no learning's text.
LEMMA InitAccounts == Init => AInv
  <1> SUFFICES ASSUME Init PROVE AInv
    OBVIOUS
  <1>1. IInv /\ TodoFits /\ OpFits /\ UndoFits
    BY InitCompared, InitOrder, InitUndo DEF KInv, OInv, UInv, UndoFits
  <1>2. TextAccountedFor
    BY BaseAssumption DEF Init, TextAccountedFor, Holds
  <1>3. OrigsKept
    BY DEF Init, NoRow, OrigsKept
  <1>4. AccountFits
    BY DEF Init, Idle, AccountFits, Accounts, Opened, Publishing, Undoing, Restoring
  <1>5. QED
    BY <1>1, <1>2, <1>3, <1>4 DEF AInv

\* No text is stranded: as long as a preview sees one tree, a file holds the
\* text of a learning only while a row of that learning can still take it out,
\* however many publications, editors, faults and crashes there are, racing
\* edits and publications of one second included.
THEOREM TextAccountedCorrect ==
    ASSUME TornPreview = FALSE PROVE Spec => []TextAccountedFor
  <1>1. AInv /\ [Next]_vars => AInv'
    BY NextAccounts
  <1>2. AInv => TextAccountedFor
    BY DEF AInv
  <1>3. QED
    BY InitAccounts, <1>1, <1>2, PTL DEF Spec

-----------------------------------------------------------------------------
(* Which bytes the tree holds while nothing has failed and nobody has       *)
(* edited: what was there before, or what a row in force planned.           *)

\* A file is as it was, or holds what a row in force planned for it.
Founded == \A f \in Files :
    disk[f] = Base[f] \/ \E p \in Pubs : Owns(p, f) /\ disk[f] = Post(p, f)

\* And so was each file when a row in force found it, by an older row: what a
\* rollback brings to light is founded in its turn.
OrigsFounded == \A p \in Pubs, f \in Files : Owns(p, f) =>
    \/ pubs[p].orig[f] = Base[f]
    \/ \E q \in Pubs : q < p /\ Owns(q, f) /\ pubs[p].orig[f] = Post(q, f)

CalmFits == RestoredFits /\ Stack /\ WorkFits /\ Founded /\ OrigsFounded
BInv == OInv /\ TodoFits /\ (Calm => CalmFits)

\* Rows that stay in force with their plans and originals keep files founded.
LEMMA FoundedQuiet ==
    ASSUME Founded, OrigsFounded,
           \A p \in Pubs : /\ Active(p)' <=> Active(p)
                           /\ pubs'[p].plan = pubs[p].plan /\ pubs'[p].orig = pubs[p].orig
    PROVE  OrigsFounded' /\ (UNCHANGED disk => Founded')
  BY DEF Founded, OrigsFounded, Owns, Targets, Post

\* A new row finds its files founded.
LEMMA InsertFounded ==
    ASSUME IInv, Ordered, Founded, OrigsFounded, NEW self \in Procs, NEW p \in Pubs,
           InsertAttempt(self, p)
    PROVE  Founded' /\ OrigsFounded'
  <1>1. /\ pubs[p].status = "none" /\ UNCHANGED disk /\ pubs'[p].orig = disk
        /\ \A q \in Pubs \ {p} : pubs'[q] = pubs[q]
    BY DEF InsertAttempt, SetRow, IInv, TypeOK
  <1>2. \A q \in Pubs : Active(q) => q < p
    <2>1. Pubs \subseteq Nat
      BY BoundsAssumption DEF Pubs
    <2>2. QED
      BY <1>1, <2>1 DEF Ordered, Active
  <1>3. \A q \in Pubs \ {p}, f \in Files : /\ Owns(q, f)' <=> Owns(q, f)
                                           /\ Post(q, f)' = Post(q, f)
    BY <1>1 DEF Owns, Active, Targets, Post
  <1>4. \A f \in Files : ~Owns(p, f)
    BY <1>1 DEF Owns, Active
  <1>5. Founded'
    BY <1>1, <1>3, <1>4 DEF Founded
  <1>6. OrigsFounded'
    <2>1. ASSUME NEW r \in Pubs, NEW f \in Files, Owns(r, f)'
          PROVE  \/ pubs'[r].orig[f] = Base[f]
                 \/ \E q \in Pubs : q < r /\ Owns(q, f)' /\ pubs'[r].orig[f] = Post(q, f)'
      <3>1. CASE r = p
        <4>1. disk[f] = Base[f] \/ \E q \in Pubs : Owns(q, f) /\ disk[f] = Post(q, f)
          BY DEF Founded
        <4>2. \A q \in Pubs : Owns(q, f) => q < p /\ q # p
          BY <1>2, <1>4 DEF Owns
        <4>3. QED
          BY <1>1, <1>3, <3>1, <4>1, <4>2
      <3>2. CASE r # p
        <4>1. Owns(r, f) /\ pubs'[r].orig = pubs[r].orig
          BY <1>1, <1>3, <2>1, <3>2
        <4>2. \A q \in Pubs : Owns(q, f) => q # p
          BY <1>4
        <4>3. QED
          BY <1>3, <4>1, <4>2 DEF OrigsFounded
      <3>3. QED
        BY <3>1, <3>2
    <2>2. QED
      BY <2>1 DEF OrigsFounded
  <1>7. QED
    BY <1>5, <1>6

\* A placement writes what its row planned, a restoration what its row found.
LEMMA WriteFounded ==
    ASSUME OInv, TodoFits, Stack, Founded, OrigsFounded, NEW self \in Procs, Work(self),
           NEW f \in Files, PlaceTarget(self, f) \/ RestorePlace(self, f)
    PROVE  Founded' /\ OrigsFounded'
  <1> DEFINE p == proc[self].pub
  <1> USE DEF OInv
  <1>1. UNCHANGED pubs /\ Current(self, f)
    BY DEF PlaceTarget, RestorePlace
  <1>2. \A q \in Pubs : /\ Active(q)' <=> Active(q)
                        /\ pubs'[q].plan = pubs[q].plan /\ pubs'[q].orig = pubs[q].orig
    BY <1>1 DEF Active
  <1>3. p \in Pubs /\ Owns(p, f)
    <2>1. CASE PlaceTarget(self, f)
      <3>1. proc[self].pc = "place" /\ proc[self].pc \in Writing
        BY <2>1 DEF PlaceTarget, At, Writing
      <3>2. p \in Pubs /\ f \in Targets(p)
        BY <1>1, <3>1, WritingKnown DEF Current
      <3>3. QED
        BY <3>1, <3>2 DEF Owns, Active, Work
    <2>2. CASE RestorePlace(self, f)
      <3>1. proc[self].pc \in Restoring
        BY <2>2 DEF RestorePlace, At, Work, Undoing, Restoring
      <3>2. QED
        BY <1>1, <3>1, RestoringKnown
    <2>3. QED
      BY <2>1, <2>2
  <1>4. /\ \A g \in Files \ {f} : disk'[g] = disk[g]
        /\ disk'[f] \in {disk[f], Post(p, f), pubs[p].orig[f]}
    BY DEF PlaceTarget, RestorePlace, IInv, TypeOK
  <1>5. \A c : c \in {disk[f], Post(p, f), pubs[p].orig[f]} =>
            c = Base[f] \/ \E q \in Pubs : Owns(q, f) /\ c = Post(q, f)
    BY <1>3 DEF Founded, OrigsFounded
  <1>6. \A g \in Files : disk'[g] = Base[g] \/ \E q \in Pubs : Owns(q, g) /\ disk'[g] = Post(q, g)
    BY <1>4, <1>5 DEF Founded
  <1>7. QED
    BY <1>1, <1>2, <1>6, FoundedQuiet DEF Founded, Owns, Active, Targets, Post

\* A row that is closed takes its bytes with it: its targets are as it found
\* them, and nothing newer in force was founded on it.
LEMMA RollbackFounded ==
    ASSUME OInv, RestoredFits, Calm', Founded, OrigsFounded, NEW self \in Procs, Work(self),
           CommitRollback(self)
    PROVE  Founded' /\ OrigsFounded'
  <1> DEFINE p == proc[self].pub
  <1> USE DEF OInv
  <1>1. /\ SetRow(p, [pubs[p] EXCEPT !.status = "rolled_back"]) /\ UNCHANGED disk
        /\ proc[self].pc = "restored"
    BY NoFault DEF CommitRollback, At, IInv
  <1>2. p \in Pubs /\ Active(p) /\ proc[self].bad = {} /\ proc[self].pc \in Restoring
    BY <1>1 DEF IInv, AttemptKnown, Work, Restoring
  <1>3. Sets(p, "rolled_back")
    BY <1>1, <1>2, SetStatusIs DEF IInv
  <1>4. \A f \in Targets(p) : disk[f] = pubs[p].orig[f]
    BY <1>1, <1>2 DEF RestoredFits, Restored, Restoring
  <1>5. \A f \in Files, q \in Pubs : q > p => ~(Owns(q, f) /\ f \in Targets(p))
    BY <1>2 DEF NewestFits, Owns
  <1>6. \A f \in Files, q \in Pubs : /\ Owns(q, f)' <=> Owns(q, f) /\ q # p
                                     /\ Post(q, f)' = Post(q, f)
                                     /\ pubs'[q].orig = pubs[q].orig
    BY <1>2, <1>3 DEF Sets, Owns, Active, Targets, Post
  <1>7. Pubs \subseteq Nat
    BY BoundsAssumption DEF Pubs
  <1>8. ASSUME NEW f \in Files
        PROVE  disk[f] = Base[f] \/ \E q \in Pubs : Owns(q, f) /\ q # p /\ disk[f] = Post(q, f)
    <2>1. CASE f \in Targets(p)
      <3>1. \/ pubs[p].orig[f] = Base[f]
            \/ \E q \in Pubs : q < p /\ Owns(q, f) /\ pubs[p].orig[f] = Post(q, f)
        BY <1>2, <2>1 DEF OrigsFounded, Owns
      <3>2. \A q \in Pubs : q < p => q # p
        BY <1>2, <1>7
      <3>3. QED
        BY <1>4, <2>1, <3>1, <3>2
    <2>2. CASE f \notin Targets(p)
      BY <2>2 DEF Founded, Owns
    <2>3. QED
      BY <2>1, <2>2
  <1>9. Founded'
    BY <1>1, <1>6, <1>8 DEF Founded
  <1>10. OrigsFounded'
    <2>1. ASSUME NEW r \in Pubs, NEW f \in Files, Owns(r, f)
          PROVE  \/ pubs[r].orig[f] = Base[f]
                 \/ \E q \in Pubs : q < r /\ Owns(q, f) /\ q # p /\ pubs[r].orig[f] = Post(q, f)
      <3>1. ~(p < r /\ Owns(p, f))
        BY <1>2, <1>5, <2>1 DEF Owns
      <3>2. QED
        BY <2>1, <3>1 DEF OrigsFounded
    <2>2. QED
      BY <1>6, <2>1 DEF OrigsFounded
  <1>11. QED
    BY <1>9, <1>10

\* In a calm run every step keeps the tree founded.
LEMMA StepFounded ==
    ASSUME OInv, TodoFits, Calm', CalmFits, NEW self \in Procs, Step(self)
    PROVE  Founded' /\ OrigsFounded'
  <1> USE DEF OInv, CalmFits
  <1>1. Work(self) /\ TypeOK
    BY DEF WorkFits, IInv
  <1>2. ASSUME NEW p \in Pubs, InsertAttempt(self, p) PROVE Founded' /\ OrigsFounded'
    BY <1>2, InsertFounded
  <1>3. CASE \E f \in Files : PlaceTarget(self, f) \/ RestorePlace(self, f)
    BY <1>1, <1>3, WriteFounded
  <1>4. CASE CommitRollback(self)
    BY <1>1, <1>4, RollbackFounded
  <1>5. ASSUME SaveCompensation(self) \/ FailRollback(self) PROVE FALSE
    BY <1>1, <1>5 DEF SaveCompensation, FailRollback, At, Work, Undoing
  <1>6. CASE CommitPublication(self)
    <2>1. UNCHANGED disk /\ proc[self].pub \in Pubs /\ pubs[proc[self].pub].status = "in_progress"
      BY <1>1, <1>6 DEF CommitPublication, At, IInv, AttemptKnown, Work
    <2>2. RowsAlike \/ Sets(proc[self].pub, "completed")
      BY <1>6, WritesOwn DEF Writes
    <2>3. \A p \in Pubs : /\ Active(p)' <=> Active(p)
                          /\ pubs'[p].plan = pubs[p].plan /\ pubs'[p].orig = pubs[p].orig
      BY <2>1, <2>2 DEF Active, RowsAlike, Sets
    <2>4. QED
      BY <2>1, <2>3, FoundedQuiet
  <1>7. CASE /\ \A p \in Pubs : ~InsertAttempt(self, p)
             /\ \A f \in Files : ~PlaceTarget(self, f) /\ ~RestorePlace(self, f)
             /\ ~Writes(self)
    <2>1. RowsAlike
      BY <1>7, StepRowsAlike DEF IInv
    <2>2. UNCHANGED disk
      BY <1>7 DEF Step, Writes, Acquire, ValidateHashes, InsertFails, CompensationAborts,
         JournalAttempt, InspectTarget, SaveProgress, RestoreInspect, SaveRestore,
         VerifyTargets, Materialize, TerminalJournal, JournalCompensation, RollbackLoad,
         JournalFailedRollback, ReconcilePublished
    <2>3. QED
      BY <2>1, <2>2, FoundedQuiet DEF RowsAlike, Active
  <1>8. QED
    BY <1>2, <1>3, <1>4, <1>5, <1>6, <1>7 DEF Writes

\* BInv is inductive when no two publications start within one second.
LEMMA NextBytes ==
    ASSUME SharedSecond = FALSE, BInv, [Next]_vars
    PROVE  BInv'
  <1>1. OInv' /\ TodoFits'
    BY NextOrder, NextLoops DEF BInv, OInv
  <1>2. ASSUME Calm' PROVE CalmFits'
    <2>1. Calm /\ CalmFits /\ RInv /\ SInv
      BY <1>2, CalmBefore DEF BInv, OInv, IInv, CalmFits, RInv, SInv
    <2>2. Stack' /\ WorkFits'
      BY <1>2, <2>1, NextStack DEF SInv
    <2>3. CASE \E self \in Procs : Step(self)
      BY <1>2, <2>1, <2>2, <2>3, RestoredStep, StepFounded DEF BInv, OInv, CalmFits
    <2>4. CASE \A self \in Procs : ~Step(self)
      <3>1. UNCHANGED <<disk, pubs>> /\ \A q \in Procs : Rests(q)
        BY <1>2, <2>4, OtherActs, NoFault DEF BInv, OInv, IInv, Edit
      <3>2. ASSUME NEW q \in Procs PROVE Restored(q)'
        <4>1. proc'[q] = proc[q] \/ proc'[q].pc \notin Undoing \cup Restoring
          BY <3>1 DEF Rests, Outside, Undoing, Restoring
        <4>2. QED
          BY <2>1, <3>1, <4>1 DEF CalmFits, RestoredFits, Restored, Targets, Current
      <3>3. Founded' /\ OrigsFounded'
        BY <2>1, <3>1, FoundedQuiet DEF CalmFits, Active
      <3>4. QED
        BY <2>2, <3>2, <3>3 DEF CalmFits, RestoredFits
    <2>5. QED
      BY <2>3, <2>4
  <1>3. QED
    BY <1>1, <1>2 DEF BInv

\* BInv holds at first.
LEMMA InitBytes == Init => BInv
  <1>1. Init => Founded /\ OrigsFounded
    BY DEF Init, Founded, OrigsFounded, NoRow, Owns, Active
  <1>2. Init => Calm
    BY DEF Init, Calm, Kinds
  <1>3. QED
    BY <1>1, <1>2, InitRestored, InitStack DEF BInv, RInv, SInv, CalmFits

\* Whatever a publication put into the tree, a row that can still be rolled
\* back accounts for it, when previews see one tree and no two publications
\* start within one second: each text however much was edited or failed or
\* crashed, each byte as long as nothing failed and nobody edited.
THEOREM TreeAccountedCorrect ==
    ASSUME SharedSecond = FALSE, TornPreview = FALSE
    PROVE  Spec => []TreeAccountedFor
  <1>1. AInv /\ BInv /\ [Next]_vars => (AInv /\ BInv)'
    BY NextAccounts, NextBytes
  <1>2. AInv /\ BInv => TreeAccountedFor
    <2>1. BInv => BytesAccountedFor
      BY DEF BInv, Calm, CalmFits, Founded, Owns, Active, BytesAccountedFor, Recoverable
    <2>2. AInv => TextAccountedFor
      BY DEF AInv
    <2>3. QED
      BY <2>1, <2>2 DEF TreeAccountedFor
  <1>3. QED
    BY InitAccounts, InitBytes, <1>1, <1>2, PTL DEF Spec
=============================================================================
