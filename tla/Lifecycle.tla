------------------------------ MODULE Lifecycle ------------------------------
(***************************************************************************)
(* The life of a learning outside of the publication engine: Capture and   *)
(* AddEvidence (internal/capture), Curate (internal/curate), and, reduced  *)
(* to the row, what Publish and Rollback (internal/publish) do to it.      *)
(*                                                                         *)
(* Every operation but Rollback reads the row of the learning in a read    *)
(* transaction of its own and writes the WHOLE row it holds in memory back *)
(* in a later one (storage.UpdateLearning, which compares no revision); the*)
(* audit event and the Markdown record follow, each by itself.  Operations *)
(* overlap: SQLite serialises their transactions, nothing else does.       *)
(***************************************************************************)
EXTENDS Naturals, Sequences, FiniteSets

CONSTANTS
    Procs,          \* invocations that may overlap
    Learnings,      \* learning ids
    Keys,           \* idempotency keys
    Contents,       \* redacted contents, one normalized hash each
    Levels,         \* evidence levels a caller may declare
    Destinations,   \* destination types that a learning may propose
    None,           \* no row, no key, no learning
    MaxCalls,       \* bound: invocations
    MaxFaults       \* bound: how many invocations fail or die half-way

ASSUME LevelsAssumption ==
    Levels \subseteq {"insufficient", "weak", "moderate", "strong"}
ASSUME DestinationsAssumption ==
    Destinations \cap {"unset", "none", "reject", "needs_evidence", "merge"} = {}
ASSUME ProcsAssumption == IsFiniteSet(Procs)
ASSUME BoundAssumption == MaxCalls \in Nat /\ MaxFaults \in Nat

VARIABLES
    learning,       \* the learnings table
    evidence,       \* how many evidence rows each operation attached
    curations,      \* the curations table, oldest first
    audit,          \* how many audit_events tell of each operation
    record,         \* the Markdown records: the row that a file shows
    proc,           \* the invocations
    calls,          \* how many were started
    faults          \* how many failed or died

vars == <<learning, evidence, curations, audit, record, proc, calls, faults>>

-----------------------------------------------------------------------------
(* Values *)

\* No code sets "superseded" and "archived".
Statuses == {"captured", "needs_evidence", "approved", "rejected", "merged", "published"}

ValidTransitions ==
    ({"captured"} \X {"needs_evidence", "approved", "rejected"}) \cup
    ({"needs_evidence"} \X {"captured", "approved", "rejected"}) \cup
    ({"approved"} \X {"published", "rejected", "merged"}) \cup
    ({"merged"} \X {"published"})

CanTransition(from, to) == <<from, to>> \in ValidTransitions

\* An approving decision stands for the destination type that it expects.
Decisions == {"reject", "needs_evidence", "merge"} \cup Destinations

IsApproval(decision) == decision \in Destinations

\* decisionToStatus and deriveDestination.
TargetStatus(decision) ==
    CASE decision = "reject" -> "rejected"
      [] decision = "needs_evidence" -> "needs_evidence"
      [] decision = "merge" -> "merged"
      [] OTHER -> "approved"

TargetDestination(decision) == IF IsApproval(decision) THEN decision ELSE "none"

Row == [status : Statuses, level : Levels, proposed : Destinations,
        destination : Destinations \cup {"unset", "none"},
        key : Keys \cup {None}, content : Contents]

Operations == {"capture", "add_evidence", "curate"}

Pc == {"idle", "hash", "insert", "attach", "threshold", "decide", "publish",
       "audit", "record"}

\* One invocation: its learning and the row it holds, how many evidence records
\* it brings, and whether it changes the declared level.
Invocation == [pc : Pc, op : Operations \cup {"publish", "rollback"},
               learning : Learnings \cup {None}, row : Row \cup {None},
               decision : Decisions, items : Nat, rewrites : BOOLEAN]

ASSUME NoneAssumption == None \notin Row /\ None \notin Learnings /\ None \notin Keys

Idle == [pc |-> "idle", op |-> "capture", learning |-> None, row |-> None,
         decision |-> "reject", items |-> 0, rewrites |-> FALSE]

Init ==
    /\ learning = [l \in Learnings |-> None]
    /\ evidence = [l \in Learnings |-> [op \in {"capture", "add_evidence"} |-> 0]]
    /\ curations = [l \in Learnings |-> <<>>]
    /\ audit = [l \in Learnings |-> [op \in Operations |-> 0]]
    /\ record = [l \in Learnings |-> None]
    /\ proc = [self \in Procs |-> Idle]
    /\ calls = 0
    /\ faults = 0

At(self, pc) == proc[self].pc = pc
Id(self) == proc[self].learning
Held(self) == proc[self].row
Exists(l) == learning[l] # None
Goto(self, pc) == proc' = [proc EXCEPT ![self] = [@ EXCEPT !.pc = pc]]
Return(self) == proc' = [proc EXCEPT ![self] = Idle]

Tables == <<learning, evidence, curations, audit, record>>
Counters == <<calls, faults>>

\* A caller starts an operation.
Start(self, invocation) ==
    /\ At(self, "idle")
    /\ calls < MaxCalls
    /\ calls' = calls + 1
    /\ proc' = [proc EXCEPT ![self] = invocation]
    /\ UNCHANGED <<Tables, faults>>

EvidenceOf(l) == evidence[l]["capture"] + evidence[l]["add_evidence"]
Attach(l, op, n) == evidence' = [evidence EXCEPT ![l][op] = @ + n]

-----------------------------------------------------------------------------
(* Capture *)

\* The learnings under a key, and those with a content.
WithKey(key) == {l \in Learnings : Exists(l) /\ learning[l].key = key}
WithContent(content) == {l \in Learnings : Exists(l) /\ learning[l].content = content}

\* A retry under a known key returns its learning; otherwise Capture goes on to
\* look for the content.
Capture(self, key, content, level, proposed, items) ==
    /\ key = None \/ WithKey(key) = {}
    /\ Start(self, [Idle EXCEPT
         !.pc = "hash", !.items = items,
         !.row = [status |-> "captured", level |-> level, proposed |-> proposed,
                  destination |-> "unset", key |-> key, content |-> content]])

\* findExisting, a read transaction of its own: known content returns its
\* learning, whatever the key.
FindExisting(self) ==
    /\ At(self, "hash")
    /\ IF WithContent(Held(self).content) # {} THEN Return(self) ELSE Goto(self, "insert")
    /\ UNCHANGED <<Tables, Counters>>

\* Mutant: without UNIQUE(project_id, idempotency_key).
UniqueId(row) == \E l \in Learnings : ~Exists(l)

\* UNIQUE(project_id, idempotency_key) lets this row in.
Unique(row) == row.key = None \/ WithKey(row.key) = {}

\* A UUID no other learning has; which one makes no difference.
Fresh == CHOOSE l \in Learnings : ~Exists(l)

\* The learning and its evidence in one transaction, or a conflict.
SaveLearning(self) ==
    /\ At(self, "insert")
    /\ IF ~Unique(Held(self))
       THEN Return(self) /\ UNCHANGED <<learning, evidence>>
       ELSE /\ \E l \in Learnings : ~Exists(l)
            /\ learning' = [learning EXCEPT ![Fresh] = Held(self)]
            /\ Attach(Fresh, "capture", proc[self].items)
            /\ proc' = [proc EXCEPT ![self] = [@ EXCEPT !.pc = "audit", !.learning = Fresh,
                                                        !.rewrites = TRUE]]
    /\ UNCHANGED <<curations, audit, record, Counters>>

-----------------------------------------------------------------------------
(* AddEvidence *)

\* It reads the row, whatever its status, and changes the level in its copy.
AddEvidence(self, l, level) ==
    /\ Exists(l)
    /\ Start(self, [Idle EXCEPT
         !.pc = "attach", !.op = "add_evidence", !.learning = l, !.items = 1,
         !.row = [learning[l] EXCEPT !.level = level],
         !.rewrites = level # learning[l].level])

\* The evidence and, when the level changed, the whole row, in one transaction.
AttachEvidence(self) ==
    LET l == Id(self) IN
    /\ At(self, "attach")
    /\ Attach(l, "add_evidence", proc[self].items)
    /\ learning' = IF proc[self].rewrites
                   THEN [learning EXCEPT ![l] = Held(self)] ELSE learning
    /\ Goto(self, "audit")
    /\ UNCHANGED <<curations, audit, record, Counters>>

-----------------------------------------------------------------------------
(* Curate *)

\* A level that the threshold of an approval accepts.
Sufficient(level) == level \notin {"weak", "insufficient"}

\* The decision is allowed of the row as it was read: its transition, and, for
\* an approval, its level and the destination it proposes.
MayDecide(row, decision) ==
    /\ CanTransition(row.status, TargetStatus(decision))
    /\ IsApproval(decision) => Sufficient(row.level) /\ row.proposed = decision

\* Curate reads the row.  The evidence of an approval is counted in another
\* read transaction.
Curate(self, l, decision) ==
    /\ Exists(l)
    /\ MayDecide(learning[l], decision)
    /\ Start(self, [Idle EXCEPT
         !.pc = IF IsApproval(decision) THEN "threshold" ELSE "decide",
         !.op = "curate", !.learning = l, !.row = learning[l], !.decision = decision,
         !.rewrites = TRUE])

\* checkEvidenceThreshold: at least one evidence record.
CheckEvidence(self) ==
    /\ At(self, "threshold")
    /\ IF EvidenceOf(Id(self)) = 0 THEN Return(self) ELSE Goto(self, "decide")
    /\ UNCHANGED <<Tables, Counters>>

\* Mutants: the destination of the last decision stays; the decision is taken
\* for its status.
DecidedStatusOnly(row, decision) == [row EXCEPT !.status = TargetStatus(decision)]
DecidedVerbatim(row, decision) ==
    [row EXCEPT !.status = IF IsApproval(decision) THEN "approved" ELSE decision,
                !.destination = TargetDestination(decision)]

\* The row that a decision makes of the row that was read.
Decided(row, decision) ==
    [row EXCEPT !.status = TargetStatus(decision),
                !.destination = TargetDestination(decision)]

\* The curation and the whole row in one transaction.
SaveCuration(self) ==
    LET l == Id(self)
        row == Decided(Held(self), proc[self].decision)
    IN
    /\ At(self, "decide")
    /\ curations' = [curations EXCEPT ![l] = Append(@, proc[self].decision)]
    /\ learning' = [learning EXCEPT ![l] = row]
    /\ proc' = [proc EXCEPT ![self] = [@ EXCEPT !.pc = "audit", !.row = row]]
    /\ UNCHANGED <<evidence, audit, record, Counters>>

-----------------------------------------------------------------------------
(* The publication engine, as far as the row goes *)

\* Publish reads an approved row before it takes the lock of the project and
\* writes it back, published, in the last transaction of a long operation.
Publish(self, l) ==
    /\ Exists(l) /\ learning[l].status = "approved"
    /\ Start(self, [Idle EXCEPT !.pc = "publish", !.op = "publish", !.learning = l,
                                !.row = learning[l]])

CommitPublication(self) ==
    LET row == [Held(self) EXCEPT !.status = "published"] IN
    /\ At(self, "publish")
    /\ learning' = [learning EXCEPT ![Id(self)] = row]
    /\ proc' = [proc EXCEPT ![self] = [@ EXCEPT !.pc = "record", !.row = row]]
    /\ UNCHANGED <<evidence, curations, audit, record, Counters>>

\* Rollback reads and writes the row in one transaction.
Rollback(self, l) ==
    LET row == [learning[l] EXCEPT !.status = "approved"] IN
    /\ At(self, "idle") /\ calls < MaxCalls
    /\ Exists(l) /\ learning[l].status = "published"
    /\ learning' = [learning EXCEPT ![l] = row]
    /\ proc' = [proc EXCEPT ![self] = [Idle EXCEPT !.pc = "record", !.op = "rollback",
                                                   !.learning = l, !.row = row]]
    /\ calls' = calls + 1
    /\ UNCHANGED <<evidence, curations, audit, record, faults>>

-----------------------------------------------------------------------------
(* What follows a commit *)

\* Mutant: only an operation that wrote the row is audited.
RecordRowEvent(self) ==
    /\ At(self, "audit")
    /\ audit' = IF proc[self].rewrites
                THEN [audit EXCEPT ![Id(self)][proc[self].op] = @ + 1]
                ELSE audit
    /\ IF proc[self].rewrites THEN Goto(self, "record") ELSE Return(self)
    /\ UNCHANGED <<learning, evidence, curations, record, Counters>>

\* storage.RecordEvent, outside of the transaction.
RecordEvent(self) ==
    /\ At(self, "audit")
    /\ audit' = [audit EXCEPT ![Id(self)][proc[self].op] = @ + 1]
    /\ IF proc[self].rewrites THEN Goto(self, "record") ELSE Return(self)
    /\ UNCHANGED <<learning, evidence, curations, record, Counters>>

\* record.WriteRecord: the file shows the row that this invocation holds.
WriteRecord(self) ==
    /\ At(self, "record")
    /\ record' = [record EXCEPT ![Id(self)] = Held(self)]
    /\ Return(self)
    /\ UNCHANGED <<learning, evidence, curations, audit, Counters>>

\* The next step of an invocation fails, or its process dies.
Interrupt(self) ==
    /\ ~At(self, "idle")
    /\ faults < MaxFaults
    /\ faults' = faults + 1
    /\ Return(self)
    /\ UNCHANGED <<Tables, calls>>

Call(self) ==
    \/ \E key \in Keys \cup {None}, content \in Contents, level \in Levels,
          proposed \in Destinations, items \in {0, 1} :
          Capture(self, key, content, level, proposed, items)
    \/ \E l \in Learnings :
          \/ \E level \in Levels : AddEvidence(self, l, level)
          \/ \E decision \in Decisions : Curate(self, l, decision)
          \/ Publish(self, l)
          \/ Rollback(self, l)

Step(self) ==
    \/ FindExisting(self) \/ SaveLearning(self)
    \/ AttachEvidence(self)
    \/ CheckEvidence(self) \/ SaveCuration(self)
    \/ CommitPublication(self)
    \/ RecordEvent(self) \/ WriteRecord(self)

Next == \E self \in Procs : Call(self) \/ Step(self) \/ Interrupt(self)

Spec == Init /\ [][Next]_vars

-----------------------------------------------------------------------------
(* Properties *)

\* Type invariant.
TypeOK ==
    /\ learning \in [Learnings -> Row \cup {None}]
    /\ evidence \in [Learnings -> [{"capture", "add_evidence"} -> Nat]]
    /\ curations \in [Learnings -> Seq(Decisions)]
    /\ audit \in [Learnings -> [Operations -> Nat]]
    /\ record \in [Learnings -> Row \cup {None}]
    /\ proc \in [Procs -> Invocation]
    /\ calls \in Nat
    /\ faults \in Nat

\* The statuses that an approval leads to.
Granted(row) == row.status \in {"approved", "published"}

Made(l, decision) == \E i \in 1..Len(curations[l]) : curations[l][i] = decision

\* The curations of a learning account for a row: its status and its approved
\* destination were set by one and the same decision.
Explained(l, row) ==
    \/ row.status = "captured" /\ row.destination = "unset"
    \/ /\ Granted(row)
       /\ row.destination = row.proposed
       /\ Made(l, row.destination)
    \/ /\ row.destination = "none"
       /\ \E decision \in Decisions \ Destinations :
             Made(l, decision) /\ row.status = TargetStatus(decision)

\* However overlapping operations write old rows over new ones, a row never
\* mixes the status of one decision with the destination of another, and no
\* status stands without a curation of the learning ("Un approved siempre tiene
\* curación", docs/03-DOMAIN-MODEL.md).
RowsExplained == \A l \in Learnings : Exists(l) => Explained(l, learning[l])

\* An approved or published learning has persisted evidence, although the
\* evidence is counted in one transaction and the approval saved in another.
ApprovedHasEvidence ==
    \A l \in Learnings : Exists(l) /\ Granted(learning[l]) => EvidenceOf(l) > 0

\* A Markdown record, written after the commit and possibly late or never,
\* shows a learning that is in the database, with a status that a decision in
\* the database gave it.
RecordsExplained == \A l \in Learnings : record[l] # None =>
    /\ Exists(l)
    /\ record[l].key = learning[l].key /\ record[l].content = learning[l].content
    /\ Explained(l, record[l])

\* Database and records tell the same story of decisions, late as a record may be,
\* and no approval stands without evidence.
StoresExplained == RowsExplained /\ RecordsExplained /\ ApprovedHasEvidence

\* Decision D5: one idempotency key names one learning, which has the evidence
\* of one capture only, however many captures overlap under the key.
RetryCreatesNothing ==
    /\ \A l, m \in Learnings :
          Exists(l) /\ Exists(m) /\ learning[l].key # None
            /\ learning[l].key = learning[m].key => l = m
    /\ \A l \in Learnings : evidence[l]["capture"] <= 1

\* How often an operation has changed a learning.
Changes(l, op) ==
    CASE op = "capture" -> IF Exists(l) THEN 1 ELSE 0
      [] op = "add_evidence" -> evidence[l]["add_evidence"]
      [] op = "curate" -> Len(curations[l])

Unaudited(l, op) ==
    {self \in Procs : At(self, "audit") /\ Id(self) = l /\ proc[self].op = op}

\* The audit trail tells of every committed change and of no other, but for
\* those whose invocation has yet to write its event, failed or died.
ChangesAudited == \A l \in Learnings, op \in Operations :
    LET told == audit[l][op] + Cardinality(Unaudited(l, op)) IN
    told <= Changes(l, op) /\ Changes(l, op) <= told + faults

=============================================================================
