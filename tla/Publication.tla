---------------------------- MODULE Publication ----------------------------
(***************************************************************************)
(* The publication engine (src/internal/publish): Preview, Publish, the    *)
(* compensation of a failed Publish, Rollback and the two reconciliations, *)
(* over the three stores they keep in step: the project tree, the SQLite   *)
(* rows and the append-only journal (with the Markdown record of each      *)
(* learning as a fourth, derived, copy).                                   *)
(*                                                                         *)
(* A process is one invocation of the CLI or of an MCP tool.  It advances  *)
(* one externally visible effect at a time (a lock file operation, a       *)
(* transaction, a file placement, a journal line), and it may crash        *)
(* between any two.  An editor, which takes no lock, may change a file     *)
(* at any time; a curator may reject a learning at any time.               *)
(***************************************************************************)
EXTENDS Naturals, FiniteSets

CONSTANTS
    Procs,          \* invocations that may be in flight together
    Files,          \* target paths, numbered in the order a plan lists them
    Learnings,      \* learnings approved for publication
    Managed,        \* files whose foreign content a plan preserves
    Base,           \* [Files -> Content], the tree before the first publication
    Dest,           \* [Learnings -> SUBSET Files], the targets of each learning
    UserText,       \* what a person typed into a file
    NoFile,         \* the content of a path that does not exist
    NoProc,         \* no process, as the owner of a free lock
    DeadProc,       \* the owner of a lock file whose process crashed
    MaxPubs,        \* bound: publication rows
    MaxPreviews,    \* bound: persisted previews
    Budget,         \* bound: how many faults, crashes, edits, rejections
    SharedSecond,   \* may two publications start within one second?
    RacingEdits,    \* may an edit change bytes between their check and the rename?
    TornPreview     \* may the tree change between two reads of one preview?

Pubs == 1..MaxPubs
Kinds == {"fault", "crash", "edit", "reject"}
Content == (SUBSET (Learnings \cup {UserText})) \cup {NoFile}

ASSUME FilesAssumption == Files \subseteq Nat
ASSUME LearningsAssumption == Learnings # {}
ASSUME DestAssumption == Dest \in [Learnings -> (SUBSET Files) \ {{}}]
ASSUME BaseAssumption == Base \in [Files -> {NoFile} \cup SUBSET {UserText}]
                         /\ UserText \notin Learnings
ASSUME NoFileAssumption == \A c \in SUBSET (Learnings \cup {UserText}) : c # NoFile
ASSUME BoundsAssumption ==
    /\ MaxPubs \in Nat /\ MaxPreviews \in Nat
    /\ Budget \in [Kinds -> Nat]
    /\ SharedSecond \in BOOLEAN /\ RacingEdits \in BOOLEAN /\ TornPreview \in BOOLEAN
ASSUME OwnersAssumption == NoProc \notin Procs /\ DeadProc \notin Procs
                           /\ NoProc # DeadProc

VARIABLES
    disk,       \* the tree: content of each file
    learning,   \* learnings.status
    record,     \* the status each Markdown record shows
    previews,   \* the persisted plans
    pubs,       \* the rows of table publications
    clock,      \* the second in which the latest row was started
    journal,    \* the latest journal line of each publication
    lock,       \* owner of .royo-learn/publication.lock
    proc,       \* the invocations
    used        \* what has been spent of Budget

vars == <<disk, learning, record, previews, pubs, clock, journal, lock, proc, used>>

-----------------------------------------------------------------------------
(* Values *)

LearningStatus == {"approved", "published", "rejected"}
PubStatus == {"none", "in_progress", "completed", "failed", "rolled_back"}
EntryState == {"pending", "published", "restored", "conflict"}
JournalStatus == {"none", "attempting", "completed", "completed_record_failed",
                  "completed_reconciled", "rolled_back", "rollback_failed",
                  "rolled_back_record_failed", "rolled_back_reconciled"}
Op == {"publish", "reconcile_published", "rollback", "reconcile_rolled_back"}
Pc == {"idle", "built", "snapped", "checked", "locked", "validated", "inserted", "inspect", "place",
       "progress", "verify", "commit", "record", "journal", "undo", "undo_place",
       "undo_save", "undo_journal", "find", "load", "restore", "restore_place",
       "restore_save", "restored", "fail_journal"}

\* The preview hash covers the learning, the policy and every target's prior
\* and posterior bytes.  "prior" is the tree that was snapshotted, "base" the
\* one the posterior bytes were composed from, which is read separately.
Plan == [learning : Learnings, prior : [Files -> Content], base : [Files -> Content]]

Row == [status : PubStatus, plan : Plan, orig : [Files -> Content],
        entry : [Files -> EntryState], started : Nat]

\* "row" is the learning row the invocation read and will write back,
\* "todo" the targets of the current loop still ahead, "bad" the targets whose
\* restore failed, "recordOk" whether the Markdown record was written.
Proc == [pc : Pc, op : Op, plan : Plan, pub : Pubs \cup {0}, row : LearningStatus,
         todo : SUBSET Files, bad : SUBSET Files, recordOk : BOOLEAN]

SomePlan == [learning |-> CHOOSE l \in Learnings : TRUE, prior |-> Base, base |-> Base]
Idle == [pc |-> "idle", op |-> "publish", plan |-> SomePlan, pub |-> 0,
         row |-> "approved", todo |-> {}, bad |-> {}, recordOk |-> TRUE]
NoRow == [status |-> "none", plan |-> SomePlan, orig |-> Base,
          entry |-> [f \in Files |-> "pending"], started |-> 0]

\* buildPublishContents and composeTargetContent: a managed file keeps its
\* foreign text around the block, a generated skill is rebuilt from the
\* learning ids its frontmatter lists, and both gain the learning.
Compose(l, f, c) ==
    {l} \cup IF c = NoFile THEN {} ELSE IF f \in Managed THEN c ELSE c \cap Learnings

Targets(p) == Dest[pubs[p].plan.learning]
Post(p, f) == Compose(pubs[p].plan.learning, f, pubs[p].plan.base[f])
Active(p) == pubs[p].status \in {"in_progress", "completed"}

\* Mutant: completed rows are left out of the query.
NewerInProgress(p) == \E q \in Pubs :
    /\ pubs[q].status = "in_progress"
    /\ pubs[q].started > pubs[p].started
    /\ Targets(q) \cap Targets(p) # {}

\* HasNewerActivePublicationOverlap: started_at is compared at its stored
\* resolution, one second, and only in_progress and completed rows count.
NewerOwner(p) == \E q \in Pubs :
    /\ Active(q)
    /\ pubs[q].started > pubs[p].started
    /\ Targets(q) \cap Targets(p) # {}

-----------------------------------------------------------------------------
(* Control *)

At(self, pc) == proc[self].pc = pc
\* The first target of the loop that is still ahead.
Current(self, f) == f \in proc[self].todo /\ \A g \in proc[self].todo : f <= g
Goto(self, pc) == proc' = [proc EXCEPT ![self].pc = pc]
Become(self, state) == proc' = [proc EXCEPT ![self] = state]

\* Mutant: an early return that skips the release of the lock.
ReturnWithLock(self) ==
    /\ Become(self, Idle)
    /\ UNCHANGED lock

\* Returning runs the deferred lock.Release, which removes the lock file only
\* if it still holds this invocation's token.
Return(self) ==
    /\ Become(self, Idle)
    /\ lock' = IF lock = self THEN NoProc ELSE lock

Spend(kind) ==
    /\ used[kind] < Budget[kind]
    /\ used' = [used EXCEPT ![kind] = @ + 1]
Free == UNCHANGED used

SetRow(p, r) == pubs' = [pubs EXCEPT ![p] = r]
Log(p, word) == journal' = [journal EXCEPT ![p] = word]

Init ==
    /\ disk = Base
    /\ learning = [l \in Learnings |-> "approved"]
    /\ record = [l \in Learnings |-> "approved"]
    /\ previews = {}
    /\ pubs = [p \in Pubs |-> NoRow]
    /\ clock = 0
    /\ journal = [p \in Pubs |-> "none"]
    /\ lock = NoProc
    /\ proc = [self \in Procs |-> Idle]
    /\ used = [k \in Kinds |-> 0]

-----------------------------------------------------------------------------
(* Preview takes no lock.  It reads each target more than once before it     *)
(* persists the plan: a generated skill is read by buildPublishContents and  *)
(* snapshotted afterwards, a managed file is snapshotted and then read again *)
(* by composeTargetContent.                                                  *)

\* What a preview of the learning sees of the tree now.
Seen(l) == [f \in Files |-> IF f \in Dest[l] THEN disk[f] ELSE NoFile]

\* All of it, when nothing changes the tree meanwhile.
Preview(l) ==
    /\ ~TornPreview
    /\ learning[l] = "approved"
    /\ LET plan == [learning |-> l, prior |-> Seen(l), base |-> Seen(l)]
       IN /\ Cardinality(previews \cup {plan}) <= MaxPreviews
          /\ previews' = previews \cup {plan}
    /\ UNCHANGED <<disk, learning, record, pubs, clock, journal, lock, proc, used>>

\* ResolveTarget and buildPublishContents.
PreviewBuild(self, l) ==
    /\ TornPreview /\ Cardinality(previews) < MaxPreviews
    /\ At(self, "idle")
    /\ learning[l] = "approved"
    /\ Become(self, [Idle EXCEPT !.pc = "built",
                        !.plan = [learning |-> l, prior |-> Seen(l), base |-> Seen(l)]])
    /\ UNCHANGED <<disk, learning, record, previews, pubs, clock, journal, lock, used>>

\* SnapshotFile: the prior hashes.
PreviewSnapshot(self) ==
    /\ At(self, "built")
    /\ Become(self, [proc[self] EXCEPT !.pc = "snapped",
                        !.plan.prior = Seen(proc[self].plan.learning)])
    /\ UNCHANGED <<disk, learning, record, previews, pubs, clock, journal, lock, used>>

\* composeTargetContent reads a managed file that existed at first once more;
\* then the plan is persisted, unless the file is gone.
PreviewCompose(self) ==
    LET plan == proc[self].plan
        again == {f \in Dest[plan.learning] \cap Managed : plan.base[f] # NoFile} IN
    /\ At(self, "snapped")
    /\ previews' = IF \E f \in again : disk[f] = NoFile THEN previews
                   ELSE previews \cup {[plan EXCEPT !.base =
                          [f \in Files |-> IF f \in again THEN disk[f] ELSE @[f]]]}
    /\ Become(self, Idle)
    /\ UNCHANGED <<disk, learning, record, pubs, clock, journal, lock, used>>

TornPreviewStep(self) ==
    (\E l \in Learnings : PreviewBuild(self, l)) \/ PreviewSnapshot(self) \/ PreviewCompose(self)

-----------------------------------------------------------------------------
(* Publish *)

\* Steps 1-5: the learning row is read here, before the lock, and never again.
PublishRead(self, plan) ==
    /\ At(self, "idle")
    /\ learning[plan.learning] \in {"approved", "published"}
    /\ Become(self, [Idle EXCEPT
          !.pc = "checked", !.plan = plan, !.row = learning[plan.learning],
          !.op = IF learning[plan.learning] = "published"
                 THEN "reconcile_published" ELSE "publish"])
    /\ UNCHANGED <<disk, learning, record, previews, pubs, clock, journal, lock, used>>

\* acquirePublicationLock: exclusive creation of the lock file, no waiting.
Acquire(self) ==
    /\ At(self, "checked")
    /\ \/ /\ lock = NoProc
          /\ lock' = self
          /\ Goto(self, IF proc[self].op = "publish" THEN "locked" ELSE "find")
       \/ /\ lock # NoProc
          /\ Return(self)
    /\ UNCHANGED <<disk, learning, record, previews, pubs, clock, journal, used>>

\* Steps 6-7: the tree must still be the one the preview was taken of; a dirty
\* worktree is refused unless --force, so a refusal is always possible.  (The
\* bound MaxPubs is here: the lock keeps the unused row until it is inserted.)
ValidateHashes(self) ==
    /\ At(self, "locked")
    /\ LET plan == proc[self].plan IN
       \/ /\ \E p \in Pubs : pubs[p].status = "none"
          /\ \A f \in Dest[plan.learning] : disk[f] = plan.prior[f]
          /\ Goto(self, "validated")
          /\ UNCHANGED lock
       \/ Return(self)
    /\ UNCHANGED <<disk, learning, record, previews, pubs, clock, journal, used>>

\* Steps 8-8b: every target is snapshotted and backed up, then one row carries
\* the whole recovery plan.  (Nothing between the two can be told from the
\* same thing after them: the row is this invocation's own.)  started_at is
\* stored in seconds: a row starts in the second of the latest one or later.
InsertAttempt(self, p) ==
    /\ At(self, "validated")
    /\ pubs[p].status = "none" /\ \A q \in Pubs : q < p => pubs[q].status # "none"
    /\ clock' \in IF SharedSecond THEN {clock, clock + 1} ELSE {clock + 1}
    /\ SetRow(p, [status |-> "in_progress", plan |-> proc[self].plan, orig |-> disk,
                  entry |-> [f \in Files |-> "pending"], started |-> clock'])
    /\ Become(self, [proc[self] EXCEPT !.pc = "inserted", !.pub = p])
    /\ UNCHANGED <<disk, learning, record, previews, journal, lock, used>>

\* A snapshot, a backup or the insertion fails: nothing was written.
InsertFails(self) ==
    /\ At(self, "validated")
    /\ Spend("fault")
    /\ Return(self)
    /\ UNCHANGED <<disk, learning, record, previews, pubs, clock, journal>>

\* Step 9: the attempt is journalled before the first write.  When that fails
\* the row stays in_progress for a later rollback.
JournalAttempt(self) ==
    /\ At(self, "inserted")
    /\ \/ /\ Log(proc[self].pub, "attempting")
          /\ Become(self, [proc[self] EXCEPT !.pc = "inspect",
                                             !.todo = Targets(proc[self].pub)])
          /\ Free /\ UNCHANGED lock
       \/ /\ Spend("fault")
          /\ Return(self)
          /\ UNCHANGED journal
    /\ UNCHANGED <<disk, learning, record, previews, pubs, clock>>

\* compensate starts over every backed-up target, written or not.
Compensate(self) ==
    Become(self, [proc[self] EXCEPT !.pc = "undo", !.todo = Targets(proc[self].pub),
                                    !.bad = {}])

\* Step 10, first half of WriteFileCAS: the temporary file is ready and the
\* target is compared with the snapshot.
InspectTarget(self, f) ==
    /\ At(self, "inspect") /\ Current(self, f)
    /\ \/ /\ disk[f] = pubs[proc[self].pub].orig[f]
          /\ Goto(self, "place")
          /\ Free
       \/ /\ disk[f] # pubs[proc[self].pub].orig[f]
          /\ Compensate(self)
          /\ Free
       \/ Spend("fault") /\ Compensate(self)
    /\ UNCHANGED <<disk, learning, record, previews, pubs, clock, journal, lock>>

\* Mutant: an absent target is placed with Rename too.
PlaceWithRename(self, f) ==
    LET p == proc[self].pub IN
    /\ At(self, "place") /\ Current(self, f)
    /\ disk' = [disk EXCEPT ![f] = Post(p, f)]
    /\ Goto(self, "progress")
    /\ UNCHANGED <<learning, record, previews, pubs, clock, journal, lock, used>>

\* Second half of WriteFileCAS: an absent target is created exclusively with
\* Link, an existing one is replaced by Rename whatever it holds by now.
\* The placement may also be reported as failed, before or after it happened.
PlaceTarget(self, f) ==
    LET p == proc[self].pub IN
    /\ At(self, "place") /\ Current(self, f)
    /\ \/ /\ pubs[p].orig[f] = NoFile => disk[f] = NoFile
          /\ disk' = [disk EXCEPT ![f] = Post(p, f)]
          /\ \/ Goto(self, "progress") /\ Free
             \/ Compensate(self) /\ Spend("fault")
       \/ /\ pubs[p].orig[f] = NoFile /\ disk[f] # NoFile
          /\ Compensate(self)
          /\ Free /\ UNCHANGED disk
       \/ /\ Spend("fault")
          /\ Compensate(self)
          /\ UNCHANGED disk
    /\ UNCHANGED <<learning, record, previews, pubs, clock, journal, lock>>

\* Mutant: the write loop ends after its first target, past the verification.
SaveFirstOnly(self, f) ==
    /\ At(self, "progress") /\ Current(self, f)
    /\ SetRow(proc[self].pub, [pubs[proc[self].pub] EXCEPT !.entry[f] = "published"])
    /\ Goto(self, "commit")
    /\ UNCHANGED <<disk, learning, record, previews, clock, journal, lock, used>>

\* The entry of the written target is persisted as published.
SaveProgress(self, f) ==
    LET p == proc[self].pub
        rest == proc[self].todo \ {f} IN
    /\ At(self, "progress") /\ Current(self, f)
    /\ \/ /\ SetRow(p, [pubs[p] EXCEPT !.entry[f] = "published"])
          /\ Become(self, [proc[self] EXCEPT !.todo = rest,
                              !.pc = IF rest = {} THEN "verify" ELSE "inspect"])
          /\ Free
       \/ /\ Spend("fault")
          /\ Compensate(self)
          /\ UNCHANGED pubs
    /\ UNCHANGED <<disk, learning, record, previews, clock, journal, lock>>

\* Step 11, verifyTargets: every target must hold the planned bytes.
VerifyTargets(self) ==
    LET p == proc[self].pub
        ok == \A f \in Targets(p) : disk[f] = Post(p, f) IN
    /\ At(self, "verify")
    /\ \/ ok /\ Goto(self, "commit") /\ Free
       \/ ~ok /\ Compensate(self) /\ Free
       \/ Spend("fault") /\ Compensate(self)
    /\ UNCHANGED <<disk, learning, record, previews, pubs, clock, journal, lock>>

\* Mutant: the learning is committed without the row of its publication.
CommitLearningOnly(self) ==
    /\ At(self, "commit")
    /\ learning' = [learning EXCEPT ![proc[self].plan.learning] = "published"]
    /\ Become(self, [proc[self] EXCEPT !.pc = "record", !.row = "published"])
    /\ UNCHANGED <<disk, record, previews, pubs, clock, journal, lock, used>>

\* Step 12: one transaction completes the row and writes back the learning row
\* read in PublishRead, with status published, whatever it says by now.
CommitPublication(self) ==
    LET p == proc[self].pub IN
    /\ At(self, "commit")
    /\ \/ /\ SetRow(p, [pubs[p] EXCEPT !.status = "completed"])
          /\ learning' = [learning EXCEPT ![pubs[p].plan.learning] = "published"]
          /\ Become(self, [proc[self] EXCEPT !.pc = "record", !.row = "published"])
          /\ Free
       \/ /\ Spend("fault")
          /\ Compensate(self)
          /\ UNCHANGED <<pubs, learning>>
    /\ UNCHANGED <<disk, record, previews, clock, journal, lock>>

-----------------------------------------------------------------------------
(* The last two steps of Publish, Rollback and both reconciliations: write  *)
(* the Markdown record from the learning row in hand, then the journal.     *)

\* Mutant: the record shows the status of the publication, not the learning's.
MaterializeRow(self) ==
    /\ At(self, "record")
    /\ record' = [record EXCEPT ![proc[self].plan.learning] = pubs[proc[self].pub].status]
    /\ Goto(self, "journal")
    /\ UNCHANGED <<disk, learning, previews, pubs, clock, journal, lock, used>>

Materialize(self) ==
    LET l == proc[self].plan.learning IN
    /\ At(self, "record")
    /\ \/ /\ record' = [record EXCEPT ![l] = proc[self].row]
          /\ Goto(self, "journal")
          /\ Free
       \/ /\ Spend("fault")
          /\ Become(self, [proc[self] EXCEPT !.pc = "journal", !.recordOk = FALSE])
          /\ UNCHANGED record
    /\ UNCHANGED <<disk, learning, previews, pubs, clock, journal, lock>>

\* Only Publish and Rollback let the journal tell a record that was not written;
\* a reconciliation journals its word either way.
TerminalWord(op, recordOk) ==
    CASE op = "publish" -> IF recordOk THEN "completed" ELSE "completed_record_failed"
      [] op = "rollback" -> IF recordOk THEN "rolled_back" ELSE "rolled_back_record_failed"
      [] op = "reconcile_published" -> "completed_reconciled"
      [] op = "reconcile_rolled_back" -> "rolled_back_reconciled"

TerminalJournal(self) ==
    /\ At(self, "journal")
    /\ \/ /\ Log(proc[self].pub, TerminalWord(proc[self].op, proc[self].recordOk))
          /\ Free
       \/ Spend("fault") /\ UNCHANGED journal
    /\ Return(self)
    /\ UNCHANGED <<disk, learning, record, previews, pubs, clock>>

-----------------------------------------------------------------------------
(* RestoreFile, for the compensation ("undo") and for Rollback ("restore"). *)

\* After one target: the compensation goes on, a rollback saves the entry.
AfterRestore(self, f, ok) ==
    LET bad == IF ok THEN proc[self].bad ELSE proc[self].bad \cup {f}
        rest == proc[self].todo \ {f} IN
    IF proc[self].op = "publish"
    THEN Become(self, [proc[self] EXCEPT !.bad = bad, !.todo = rest,
                          !.pc = IF rest = {} THEN "undo_save" ELSE "undo"])
    ELSE Become(self, [proc[self] EXCEPT !.bad = bad, !.pc = "restore_save"])

\* Mutant: the backup is put back whatever the target holds.
RestoreBlindly(self, f) ==
    /\ At(self, "undo") \/ At(self, "restore")
    /\ Current(self, f)
    /\ Goto(self, IF At(self, "undo") THEN "undo_place" ELSE "restore_place")
    /\ UNCHANGED <<disk, learning, record, previews, pubs, clock, journal, lock, used>>

\* A target already holding its original is left alone; one that holds the
\* published bytes will be restored; anything else is a conflict.
RestoreInspect(self, f) ==
    LET p == proc[self].pub IN
    /\ At(self, "undo") \/ At(self, "restore")
    /\ Current(self, f)
    /\ \/ disk[f] = pubs[p].orig[f] /\ AfterRestore(self, f, TRUE) /\ Free
       \/ /\ disk[f] # pubs[p].orig[f] /\ disk[f] = Post(p, f)
          /\ Goto(self, IF At(self, "undo") THEN "undo_place" ELSE "restore_place")
          /\ Free
       \/ /\ disk[f] # pubs[p].orig[f] /\ disk[f] # Post(p, f)
          /\ AfterRestore(self, f, FALSE)
          /\ Free
       \/ Spend("fault") /\ AfterRestore(self, f, FALSE)
    /\ UNCHANGED <<disk, learning, record, previews, pubs, clock, journal, lock>>

\* Rename of the backup over the target, or its removal.
RestorePlace(self, f) ==
    LET p == proc[self].pub IN
    /\ At(self, "undo_place") \/ At(self, "restore_place")
    /\ Current(self, f)
    /\ \/ /\ disk' = [disk EXCEPT ![f] = pubs[p].orig[f]]
          /\ \/ AfterRestore(self, f, TRUE) /\ Free
             \/ AfterRestore(self, f, FALSE) /\ Spend("fault")
       \/ /\ AfterRestore(self, f, FALSE)
          /\ Spend("fault") /\ UNCHANGED disk
    /\ UNCHANGED <<learning, record, previews, pubs, clock, journal, lock>>

\* The compensation records the outcome of every target and the failure in one
\* transaction; if that fails the row stays in_progress.  It never touches the
\* learning.
SaveCompensation(self) ==
    LET p == proc[self].pub IN
    /\ At(self, "undo_save")
    /\ \/ /\ SetRow(p, [pubs[p] EXCEPT !.status = "failed",
                !.entry = [f \in Files |-> IF f \notin Targets(p) THEN @[f]
                            ELSE IF f \in proc[self].bad THEN "conflict" ELSE "restored"]])
          /\ Goto(self, "undo_journal")
          /\ Free /\ UNCHANGED lock
       \/ /\ Spend("fault")
          /\ Return(self)
          /\ UNCHANGED pubs
    /\ UNCHANGED <<disk, learning, record, previews, clock, journal>>

\* The row cannot be read back: compensate returns before it restores anything.
CompensationAborts(self) ==
    /\ At(self, "undo") /\ proc[self].todo = Targets(proc[self].pub)
    /\ Spend("fault")
    /\ Return(self)
    /\ UNCHANGED <<disk, learning, record, previews, pubs, clock, journal>>

JournalCompensation(self) ==
    /\ At(self, "undo_journal")
    /\ \/ /\ Log(proc[self].pub,
                 IF proc[self].bad = {} THEN "rolled_back" ELSE "rollback_failed")
          /\ Free
       \/ Spend("fault") /\ UNCHANGED journal
    /\ Return(self)
    /\ UNCHANGED <<disk, learning, record, previews, pubs, clock>>

-----------------------------------------------------------------------------
(* Rollback and the reconciliations *)

RollbackAcquire(self, p) ==
    /\ At(self, "idle")
    /\ lock = NoProc
    /\ pubs[p].status # "none"
    /\ lock' = self
    /\ Become(self, [Idle EXCEPT !.pc = "load", !.op = "rollback", !.pub = p,
                                 !.plan = pubs[p].plan])
    /\ UNCHANGED <<disk, learning, record, previews, pubs, clock, journal, used>>

\* Mutant: only a completed publication can be rolled back.
LoadCompletedOnly(self) ==
    LET p == proc[self].pub IN
    /\ At(self, "load")
    /\ IF pubs[p].status = "completed" /\ ~NewerOwner(p)
       THEN Become(self, [proc[self] EXCEPT !.pc = "restore", !.todo = Targets(p)])
            /\ UNCHANGED lock
       ELSE Return(self)
    /\ UNCHANGED <<disk, learning, record, previews, pubs, clock, journal, used>>

\* A row already rolled back is reconciled unless the journal closed it; a row
\* whose targets a newer publication owns is refused; any other is restored.
RollbackLoad(self) ==
    LET p == proc[self].pub
        rolledBack == pubs[p].status = "rolled_back"
        closed == journal[p] \in {"rolled_back", "rolled_back_reconciled"} IN
    /\ At(self, "load")
    /\ \/ /\ rolledBack /\ ~closed
          /\ Become(self, [proc[self] EXCEPT !.pc = "record",
                !.op = "reconcile_rolled_back", !.row = learning[pubs[p].plan.learning]])
          /\ UNCHANGED lock
       \/ /\ (rolledBack /\ closed) \/ (~rolledBack /\ NewerOwner(p))
          /\ Return(self)
       \/ /\ ~rolledBack /\ ~NewerOwner(p)
          /\ Become(self, [proc[self] EXCEPT !.pc = "restore", !.todo = Targets(p)])
          /\ UNCHANGED lock
    /\ UNCHANGED <<disk, learning, record, previews, pubs, clock, journal, used>>

\* One transaction per target, whether it was restored or is a conflict.
SaveRestore(self, f) ==
    LET p == proc[self].pub
        rest == proc[self].todo \ {f} IN
    /\ At(self, "restore_save") /\ Current(self, f)
    /\ \/ /\ SetRow(p, [pubs[p] EXCEPT !.entry[f] =
                          IF f \in proc[self].bad THEN "conflict" ELSE "restored"])
          /\ Become(self, [proc[self] EXCEPT !.todo = rest,
                              !.pc = IF rest = {} THEN "restored" ELSE "restore"])
          /\ Free /\ UNCHANGED lock
       \/ /\ Spend("fault")
          /\ Return(self)
          /\ UNCHANGED pubs
    /\ UNCHANGED <<disk, learning, record, previews, clock, journal>>

\* A rollback with a conflict fails the row and leaves the learning alone.
FailRollback(self) ==
    LET p == proc[self].pub IN
    /\ At(self, "restored") /\ proc[self].bad # {}
    /\ \/ /\ SetRow(p, [pubs[p] EXCEPT !.status = "failed"])
          /\ Goto(self, "fail_journal")
          /\ Free /\ UNCHANGED lock
       \/ /\ Spend("fault")
          /\ Return(self)
          /\ UNCHANGED pubs
    /\ UNCHANGED <<disk, learning, record, previews, clock, journal>>

JournalFailedRollback(self) ==
    /\ At(self, "fail_journal")
    /\ \/ Log(proc[self].pub, "rollback_failed") /\ Free
       \/ Spend("fault") /\ UNCHANGED journal
    /\ Return(self)
    /\ UNCHANGED <<disk, learning, record, previews, pubs, clock>>

\* Mutant: the row is closed although a target was left in conflict.
CommitOverConflict(self) ==
    LET p == proc[self].pub
        l == pubs[p].plan.learning IN
    /\ At(self, "restored")
    /\ SetRow(p, [pubs[p] EXCEPT !.status = "rolled_back"])
    /\ learning' = [learning EXCEPT ![l] = IF @ = "published" THEN "approved" ELSE @]
    /\ Become(self, [proc[self] EXCEPT !.pc = "record", !.row = learning'[l]])
    /\ UNCHANGED <<disk, record, previews, clock, journal, lock, used>>

\* Mutant: the row is closed and the learning left published.
CommitRowOnly(self) ==
    /\ At(self, "restored") /\ proc[self].bad = {}
    /\ SetRow(proc[self].pub, [pubs[proc[self].pub] EXCEPT !.status = "rolled_back"])
    /\ Goto(self, "record")
    /\ UNCHANGED <<disk, learning, record, previews, clock, journal, lock, used>>

\* With every target restored, one transaction re-reads the learning, takes it
\* from published back to approved and closes the row.
CommitRollback(self) ==
    LET p == proc[self].pub
        l == pubs[p].plan.learning
        status == IF learning[l] = "published" THEN "approved" ELSE learning[l] IN
    /\ At(self, "restored") /\ proc[self].bad = {}
    /\ \/ /\ SetRow(p, [pubs[p] EXCEPT !.status = "rolled_back"])
          /\ learning' = [learning EXCEPT ![l] = status]
          /\ Become(self, [proc[self] EXCEPT !.pc = "record", !.row = status])
          /\ Free /\ UNCHANGED lock
       \/ /\ Spend("fault")
          /\ Return(self)
          /\ UNCHANGED <<pubs, learning>>
    /\ UNCHANGED <<disk, record, previews, clock, journal>>

\* Mutant: any completed publication is taken for the one of this preview.
ReconcileAny(self) ==
    /\ At(self, "find")
    /\ \/ \E p \in Pubs :
             /\ pubs[p].status = "completed"
             /\ Become(self, [proc[self] EXCEPT !.pc = "record", !.pub = p])
             /\ UNCHANGED lock
       \/ /\ \A p \in Pubs : pubs[p].status # "completed"
          /\ Return(self)
    /\ UNCHANGED <<disk, learning, record, previews, pubs, clock, journal, used>>

\* reconcilePublished: Publish of a learning it read as published looks for the
\* completed publication of the same preview and only repeats the last steps.
ReconcilePublished(self) ==
    /\ At(self, "find")
    /\ \/ \E p \in Pubs :
             /\ pubs[p].status = "completed" /\ pubs[p].plan = proc[self].plan
             /\ Become(self, [proc[self] EXCEPT !.pc = "record", !.pub = p])
             /\ UNCHANGED lock
       \/ /\ \A p \in Pubs : ~(pubs[p].status = "completed" /\ pubs[p].plan = proc[self].plan)
          /\ Return(self)
    /\ UNCHANGED <<disk, learning, record, previews, pubs, clock, journal, used>>

-----------------------------------------------------------------------------
(* The environment *)

\* A crash loses the invocation; the lock file, if it holds it, stays behind.
Crash(self) ==
    /\ ~At(self, "idle")
    /\ Spend("crash")
    /\ Become(self, Idle)
    /\ lock' = IF lock = self THEN DeadProc ELSE lock
    /\ UNCHANGED <<disk, learning, record, previews, pubs, clock, journal>>

\* The operator removes the lock file of a process that is gone, as the lock
\* conflict message instructs; nothing in the code does it.
RemoveStaleLock ==
    /\ lock = DeadProc
    /\ lock' = NoProc
    /\ UNCHANGED <<disk, learning, record, previews, pubs, clock, journal, proc, used>>

\* Someone edits, creates or deletes a file, without the lock.  A file may
\* appear at any time; bytes that an invocation has just compared change before
\* it renames over them only with RacingEdits.
InWindow(f) == \E self \in Procs :
    proc[self].pc \in {"place", "undo_place", "restore_place"} /\ Current(self, f)
Edit(f) ==
    /\ RacingEdits \/ disk[f] = NoFile \/ ~InWindow(f)
    /\ Spend("edit")
    /\ \E c \in {NoFile, {UserText}, (IF disk[f] = NoFile THEN {} ELSE disk[f]) \cup {UserText}} :
          c # disk[f] /\ disk' = [disk EXCEPT ![f] = c]
    /\ UNCHANGED <<learning, record, previews, pubs, clock, journal, lock, proc>>

\* curate.Curate with decision reject on an approved learning.
Reject(l) ==
    /\ learning[l] = "approved"
    /\ Spend("reject")
    /\ learning' = [learning EXCEPT ![l] = "rejected"]
    /\ record' = [record EXCEPT ![l] = "rejected"]
    /\ UNCHANGED <<disk, previews, pubs, clock, journal, lock, proc>>

-----------------------------------------------------------------------------
\* The steps of an invocation that it takes on its own once started.
Step(self) ==
    \/ Acquire(self) \/ ValidateHashes(self)
    \/ \E p \in Pubs : InsertAttempt(self, p)
    \/ InsertFails(self) \/ JournalAttempt(self)
    \/ \E f \in Files :
          \/ InspectTarget(self, f) \/ PlaceTarget(self, f) \/ SaveProgress(self, f)
          \/ RestoreInspect(self, f) \/ RestorePlace(self, f) \/ SaveRestore(self, f)
    \/ VerifyTargets(self) \/ CommitPublication(self)
    \/ Materialize(self) \/ TerminalJournal(self)
    \/ CompensationAborts(self) \/ SaveCompensation(self) \/ JournalCompensation(self)
    \/ RollbackLoad(self) \/ FailRollback(self) \/ JournalFailedRollback(self)
    \/ CommitRollback(self) \/ ReconcilePublished(self)

Next ==
    \/ \E l \in Learnings : Preview(l) \/ Reject(l)
    \/ \E self \in Procs :
          \/ TornPreviewStep(self)
          \/ \E plan \in previews : PublishRead(self, plan)
          \/ \E p \in Pubs : RollbackAcquire(self, p)
          \/ Step(self)
          \/ Crash(self)
    \/ RemoveStaleLock
    \/ \E f \in Files : Edit(f)

Spec == Init /\ [][Next]_vars

-----------------------------------------------------------------------------
(* Type invariant *)

\* Every variable keeps the shape of the store it stands for.
TypeOK ==
    /\ disk \in [Files -> Content]
    /\ learning \in [Learnings -> LearningStatus]
    /\ record \in [Learnings -> LearningStatus]
    /\ previews \subseteq Plan
    /\ pubs \in [Pubs -> Row]
    /\ clock \in Nat
    /\ journal \in [Pubs -> JournalStatus]
    /\ lock \in Procs \cup {NoProc, DeadProc}
    /\ proc \in [Procs -> Proc]
    /\ used \in [Kinds -> Nat] /\ \A k \in Kinds : used[k] <= Budget[k]

(* Safety *)

\* From its acquisition to its return, on every path through Publish, the
\* compensation, Rollback and the reconciliations, an invocation owns the lock
\* file, so two of them are never inside (lock.go), also when lock files of
\* crashed processes are removed by hand.
LockHeldInside == \A self \in Procs :
    proc[self].pc \notin {"idle", "built", "snapped", "checked"} => lock = self

\* From the insertion of its row on, and in Rollback from the start, an
\* invocation works for one existing publication and its own plan is the one
\* that row carries: no step of any other invocation can replace it.
AttemptKnown == \A self \in Procs :
    proc[self].pc \notin {"idle", "built", "snapped", "checked", "locked", "validated",
                          "find"} =>
        /\ proc[self].pub \in Pubs
        /\ pubs[proc[self].pub].status # "none"
        /\ pubs[proc[self].pub].plan = proc[self].plan

\* The originals a rollback would restore are the bytes the preview, and so
\* the approver, saw: validateCurrentHashes runs before the snapshots, and
\* nothing comes in between (publish_op.go steps 6 and 8).
SnapshotIsPrior == \A p \in Pubs : pubs[p].status # "none" =>
    \A f \in Targets(p) : pubs[p].orig[f] = pubs[p].plan.prior[f]

\* A file holds the text of a learning.
Holds(l, content) == content # NoFile /\ l \in content

\* A row that was not rolled back, and whose backup of the file lacks the text:
\* rolling it back takes the text out again.
Recoverable == {"in_progress", "completed", "failed"}
Tells(p, l, f) ==
    /\ pubs[p].status \in Recoverable /\ pubs[p].plan.learning = l
    /\ f \in Targets(p) /\ ~Holds(l, pubs[p].orig[f])

\* No text is stranded: whatever was edited or failed or crashed, and at
\* whatever point, a file holds the text of a learning only while a row of that
\* learning can still take it out (docs/14 D20: recovery metadata precede the
\* first write, and no row is closed over what it has left behind).
TextAccountedFor == \A f \in Files, l \in Learnings :
    Holds(l, disk[f]) => \E p \in Pubs : Tells(p, l, f)

\* While nothing failed and nobody edited, crashes or not, every file is as it
\* was before the first publication or holds, to the byte, what a row that is
\* not rolled back planned for it.
BytesAccountedFor == used["fault"] = 0 /\ used["edit"] = 0 => \A f \in Files :
    \/ disk[f] = Base[f]
    \/ \E p \in Pubs : /\ pubs[p].status \in Recoverable
                       /\ f \in Targets(p)
                       /\ disk[f] = Post(p, f)

\* Whatever a publication put into the tree, a row that can still be rolled
\* back accounts for it.
TreeAccountedFor == TextAccountedFor /\ BytesAccountedFor

\* No false published: a published learning has a publication that completed
\* and was not rolled back since (a rollback that met a conflict leaves its
\* row failed and the learning published).
PublishedHasPublication == \A l \in Learnings : learning[l] = "published" =>
    \E p \in Pubs : pubs[p].plan.learning = l /\ pubs[p].status \in {"completed", "failed"}

\* The order of the rows and the ownership check keep publications stacked:
\* unless an operation failed or a person edited a file, no rollback and no
\* compensation ever meets content it does not know (RollbackLoad refuses a
\* publication under a newer one instead of finding its bytes).
ConflictsAreForeign == used["fault"] = 0 /\ used["edit"] = 0 =>
    \A p \in Pubs, f \in Files : pubs[p].entry[f] # "conflict"

\* A rollback restores files of a publication only when no later one that is
\* in progress or completed owns one of them (rows are numbered in the order
\* of their insertion).
RestoresOnlyNewest == \A self \in Procs :
    proc[self].pc \in {"restore", "restore_place", "restore_save"} =>
        \A q \in Pubs : q > proc[self].pub /\ Active(q) =>
            Targets(q) \cap Targets(proc[self].pub) = {}

\* Whoever is inside is alone and works on the publication it came for.
OwnsItsWork == LockHeldInside /\ AttemptKnown

(* What a step may never do *)

\* A publication is completed only over a tree that holds every planned byte.
CompletesOverPlannedTree == [][
    \A p \in Pubs : pubs[p].status # "completed" /\ pubs'[p].status = "completed" =>
        \A f \in Targets(p) : disk[f] = Post(p, f)]_vars

\* A row is closed as fully restored, by the compensation or by a rollback,
\* only over a tree where each of its targets is back to its original bytes.
ClosesOverOriginalTree == [][
    \A p \in Pubs :
        /\ pubs[p].status # pubs'[p].status
        /\ pubs'[p].status \in {"failed", "rolled_back"}
        /\ \A f \in Targets(p) : pubs'[p].entry[f] = "restored"
        => \A f \in Targets(p) : disk[f] = pubs[p].orig[f]]_vars

\* What a publication finds when it starts and what it leaves when it completes
\* are both what its approver saw.
PlanIsKept == []SnapshotIsPrior /\ CompletesOverPlannedTree

\* Undoing starts at the newest publication, meets nothing foreign and, where
\* it says so, has put everything back.
UndoIsExact == [](ConflictsAreForeign /\ RestoresOnlyNewest) /\ ClosesOverOriginalTree

\* The text of a learning leaves a file only while a publication of that
\* learning is rolled back or compensated: undoing one learning's publication
\* never takes another's text with it, whatever crashed in between
\* (RestoreFile compares before it restores).
OnlyOwnUndoRemoves == [][
    \A l \in Learnings, f \in Files :
        /\ disk[f] # NoFile /\ l \in disk[f]
        /\ disk'[f] = NoFile \/ l \notin disk'[f]
        => \E self \in Procs :
              lock = self /\ proc[self].pub # 0 /\ proc[self].plan.learning = l]_vars

\* The engine only ever replaces bytes it knows: the original it snapshotted
\* and backed up, or the bytes it published itself (docs/14: a target changed
\* outside the process is never overwritten by a publication or a rollback).
\* That takes the comparisons of WriteFileCAS and RestoreFile, and the exclusive
\* Link for a file that appears after the comparison.
ReplacesOnlyKnownBytes == [][
    \A f \in Files : disk'[f] # disk[f] /\ used'["edit"] = used["edit"] =>
        \E self \in Procs :
            /\ lock = self /\ proc[self].pub # 0
            /\ disk[f] \in {pubs[proc[self].pub].orig[f], Post(proc[self].pub, f)}]_vars

(* The abstract specification *)

Promise == INSTANCE PublicationPromise WITH
    stage <- [p \in Pubs |->
                 CASE pubs[p].status = "none" -> "none"
                   [] pubs[p].status = "in_progress" -> "open"
                   [] pubs[p].status = "completed" -> "done"
                   [] pubs[p].status = "failed" -> "held"
                   [] pubs[p].status = "rolled_back" -> "undone"],
    owner <- [p \in Pubs |-> pubs[p].plan.learning],
    published <- {l \in Learnings : learning[l] = "published"},
    text <- [l \in Learnings |-> {f \in Files : disk[f] # NoFile /\ l \in disk[f]}]

\* With all its invocations, its lock, its faults and its crashes, the engine
\* does nothing to the tree and to the rows that the abstract specification
\* does not allow.
KeepsPromise == Promise!Spec

(* Liveness *)

\* An invocation that was started runs to its return unless it crashes.
\* Starting one, editing, rejecting and crashing are nobody's obligation.
Fairness == \A self \in Procs : WF_vars(Step(self))

\* The operator who removes the lock of a dead process and who runs Rollback
\* for every interrupted row, as often as it takes, as the errors' next_action
\* tells.
Recovery ==
    /\ WF_vars(RemoveStaleLock)
    /\ \A p \in Pubs : SF_vars(\E self \in Procs :
          RollbackAcquire(self, p) /\ pubs[p].status = "in_progress")

LiveSpec == Spec /\ Fairness
RecoverySpec == Spec /\ Fairness /\ Recovery

\* Every path out of the engine, the error paths included, gives the lock back.
LockReleased == \A self \in Procs : lock = self ~> lock # self

\* An interrupted publication does not stay in_progress, unless a newer
\* publication of the same targets stands in the way of its rollback.
InterruptedIsResolved == \A p \in Pubs :
    pubs[p].status = "in_progress" ~> (pubs[p].status # "in_progress" \/ NewerOwner(p))
=============================================================================
