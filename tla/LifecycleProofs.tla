--------------------------- MODULE LifecycleProofs ---------------------------
(***************************************************************************)
(* The curations of a learning account for its row, an approved learning   *)
(* has evidence, and an idempotency key has one learning, for any number of*)
(* overlapping operations.                                                 *)
(*                                                                         *)
(* Operations write old rows over new ones, so that nothing about the order*)
(* of the writes can be relied on.  What can is that the tables behind a   *)
(* row only grow (Grows): a row that was accounted for once stays so.  The *)
(* invariant hence speaks of every row that the system knows of, be it in  *)
(* the table, in a record or in the memory of an invocation (Known).       *)
(***************************************************************************)
EXTENDS Lifecycle, SequenceTheorems, FiniteSetTheorems, TLAPS

USE DEF Pc, Operations

-----------------------------------------------------------------------------
(* The inductive invariant *)

\* An invocation (as a record) that holds the row of a learning of the table.
Holding(i) == i.pc \notin {"idle", "hash", "insert"}

\* What an invocation holds has its type.
HeldOf(i) == /\ i.pc # "idle" => i.row \in Row
             /\ Holding(i) => i.learning \in Learnings

HeldType == \A self \in Procs : HeldOf(proc[self])

\* A row in the table, in a record or in memory.
Known(l, row) ==
    \/ learning[l] = row
    \/ record[l] = row
    \/ \E self \in Procs :
          Holding(proc[self]) /\ proc[self].learning = l /\ proc[self].row = row

\* A row that the tables account for.
Accounted(l, row) ==
    /\ Exists(l)
    /\ row.key = learning[l].key /\ row.content = learning[l].content
    /\ Explained(l, row)
    /\ Granted(row) => EvidenceOf(l) > 0

KnownAccounted == \A l \in Learnings, row \in Row : Known(l, row) => Accounted(l, row)

\* What an invocation found out on its way, which no later step takes back.
Ready(i) ==
    /\ i.pc \in {"hash", "insert"} =>
          /\ i.op = "capture" /\ i.items \in {0, 1}
          /\ i.row.status = "captured" /\ i.row.destination = "unset"
    /\ i.pc \in {"threshold", "decide"} => i.op = "curate" /\ MayDecide(i.row, i.decision)
    /\ i.pc = "decide" /\ IsApproval(i.decision) => EvidenceOf(i.learning) > 0
    /\ i.pc = "publish" => i.row.status = "approved"
    /\ i.pc = "attach" => i.op = "add_evidence" /\ i.items = 1
    /\ i.pc = "audit" => i.op \in Operations

AllReady == \A self \in Procs : Ready(proc[self])

\* A learning that does not exist has no evidence of its capture.
NothingAttached == \A l \in Learnings : ~Exists(l) => evidence[l]["capture"] = 0

LInv == /\ TypeOK /\ HeldType /\ KnownAccounted /\ AllReady
        /\ RetryCreatesNothing /\ NothingAttached

\* The tables only grow: a learning keeps its identity, its evidence and its
\* curations.
Grows == \A l \in Learnings :
    /\ Exists(l) => /\ learning'[l] # None
                    /\ learning'[l].key = learning[l].key
                    /\ learning'[l].content = learning[l].content
    /\ EvidenceOf(l)' >= EvidenceOf(l)
    /\ \A decision \in Decisions : Made(l, decision) => Made(l, decision)'

-----------------------------------------------------------------------------
(* Facts about the values *)

LEMMA IdleType == Idle \in Invocation
BY DEF Idle, Invocation, Decisions

\* Where decisions lead: an approval alone grants, and none is a destination
\* that stands for "not set".
LEMMA Targets ==
  ASSUME NEW decision \in Decisions
  PROVE  /\ TargetStatus(decision) \in Statuses
         /\ TargetDestination(decision) \in Destinations \cup {"none"}
         /\ IsApproval(decision) => TargetStatus(decision) = "approved"
         /\ ~IsApproval(decision) =>
               TargetStatus(decision) \in {"rejected", "needs_evidence", "merged"}
<1>1. CASE decision \in Destinations
  <2>1. decision \notin {"reject", "needs_evidence", "merge"}
    BY <1>1, DestinationsAssumption
  <2>2. QED  BY <1>1, <2>1 DEF TargetStatus, TargetDestination, IsApproval, Statuses
<1>2. CASE decision \notin Destinations
  BY <1>2 DEF Decisions, TargetStatus, TargetDestination, IsApproval, Statuses
<1>3. QED  BY <1>1, <1>2

\* A granted row is explained by an approval.
LEMMA GrantedExplained ==
  ASSUME NEW l \in Learnings, NEW row \in Row, Explained(l, row), Granted(row)
  PROVE  row.destination = row.proposed /\ Made(l, row.destination)
<1>1. row.status # "captured"
  BY DEF Granted
<1>2. ASSUME NEW decision \in Decisions \ Destinations, row.status = TargetStatus(decision)
      PROVE  FALSE
  BY <1>2, Targets DEF IsApproval, Granted
<1>3. QED  BY <1>1, <1>2 DEF Explained

\* A row that the tables account for stays so while they grow.
LEMMA AccountedStays ==
  ASSUME TypeOK, TypeOK', Grows, NEW l \in Learnings, NEW row \in Row, Accounted(l, row)
  PROVE  Accounted(l, row)'
<1>1. Exists(l)' /\ row.key = learning'[l].key /\ row.content = learning'[l].content
  BY DEF Accounted, Grows, Exists
<1>2. EvidenceOf(l) \in Nat /\ EvidenceOf(l)' \in Nat
  BY DEF TypeOK, EvidenceOf
<1>3. Granted(row) => EvidenceOf(l)' > 0
  BY <1>2 DEF Accounted, Grows
<1>4. Explained(l, row)'
  <2>1. ASSUME NEW decision \in Decisions, Made(l, decision)  PROVE Made(l, decision)'
    BY <2>1 DEF Grows
  <2>2. CASE row.status = "captured" /\ row.destination = "unset"
    BY <2>2 DEF Explained
  <2>3. CASE Granted(row) /\ row.destination = row.proposed /\ Made(l, row.destination)
    <3>1. row.destination \in Decisions
      BY <2>3 DEF Row, Decisions
    <3>2. QED  BY <2>1, <2>3, <3>1 DEF Explained
  <2>4. CASE /\ row.destination = "none"
             /\ \E decision \in Decisions \ Destinations :
                   Made(l, decision) /\ row.status = TargetStatus(decision)
    <3>1. PICK decision \in Decisions \ Destinations :
             Made(l, decision) /\ row.status = TargetStatus(decision)
      BY <2>4
    <3>2. Made(l, decision)'
      BY <2>1, <3>1
    <3>3. QED  BY <2>4, <3>1, <3>2 DEF Explained
  <2>5. QED  BY <2>2, <2>3, <2>4 DEF Accounted, Explained
<1>5. QED  BY <1>1, <1>3, <1>4 DEF Accounted

-----------------------------------------------------------------------------
(* What a step of one invocation leaves *)

\* A step that makes one invocation inv keeps the invariant of what is known,
\* provided that the rows it brings are accounted for.
LEMMA Move ==
  ASSUME LInv, TypeOK', Grows, NEW self \in Procs, NEW inv \in Invocation,
         proc' = [proc EXCEPT ![self] = inv],
         HeldOf(inv), Ready(inv)',
         Holding(inv) => Known(inv.learning, inv.row) \/ Accounted(inv.learning, inv.row)',
         \A l \in Learnings, row \in Row : learning'[l] = row \/ record'[l] = row
            => Known(l, row) \/ Accounted(l, row)'
  PROVE  HeldType' /\ KnownAccounted' /\ AllReady'
<1> USE DEF LInv
<1>1. ASSUME NEW other \in Procs  PROVE proc'[other] = IF other = self THEN inv ELSE proc[other]
  BY DEF TypeOK
<1>2. HeldType'
  BY <1>1 DEF HeldType, HeldOf, Holding
<1>3. ASSUME NEW l \in Learnings, NEW row \in Row, Known(l, row)'
      PROVE  Known(l, row) \/ Accounted(l, row)'
  <2>1. CASE learning'[l] = row \/ record'[l] = row
    BY <2>1
  <2>2. ASSUME NEW other \in Procs, Holding(proc[other])', proc'[other].learning = l,
               proc'[other].row = row
        PROVE  Known(l, row) \/ Accounted(l, row)'
    <3>1. CASE other = self
      BY <1>1, <2>2, <3>1 DEF Holding
    <3>2. CASE other # self
      BY <1>1, <2>2, <3>2 DEF Holding, Known
    <3>3. QED  BY <3>1, <3>2
  <2>3. QED  BY <1>3, <2>1, <2>2 DEF Known
<1>4. KnownAccounted'
  <2>1. ASSUME NEW l \in Learnings, NEW row \in Row, Known(l, row)'
        PROVE  Accounted(l, row)'
    BY <1>3, <2>1, AccountedStays DEF KnownAccounted
  <2>2. QED  BY <2>1 DEF KnownAccounted
<1>5. ASSUME NEW other \in Procs  PROVE Ready(proc[other])'
  <2>1. CASE other = self
    BY <1>1, <2>1 DEF Ready
  <2>2. CASE other # self
    <3>1. proc'[other] = proc[other] /\ Ready(proc[other])
      BY <1>1, <2>2 DEF AllReady
    <3>2. ASSUME proc[other].pc = "decide", IsApproval(proc[other].decision)
          PROVE  EvidenceOf(proc[other].learning)' > 0
      <4>1. proc[other].learning \in Learnings
        BY <3>2 DEF HeldType, HeldOf, Holding
      <4>2. PICK l \in Learnings : l = proc[other].learning
        BY <4>1
      <4>3. EvidenceOf(l) > 0
        BY <3>1, <3>2, <4>2 DEF Ready
      <4>4. EvidenceOf(l) \in Nat /\ EvidenceOf(l)' \in Nat
        BY DEF TypeOK, EvidenceOf
      <4>5. EvidenceOf(l)' > 0
        BY <4>3, <4>4 DEF Grows
      <4>6. QED  BY <3>1, <4>2, <4>5 DEF EvidenceOf
    <3>3. QED  BY <3>1, <3>2 DEF Ready, EvidenceOf
  <2>3. QED  BY <2>1, <2>2
<1>6. QED  BY <1>2, <1>4, <1>5 DEF AllReady

\* A step that leaves learnings, evidence and curations alone.
LEMMA NothingChanges ==
  ASSUME LInv, UNCHANGED <<learning, evidence, curations>>
  PROVE  Grows /\ RetryCreatesNothing' /\ NothingAttached'
<1>1. Grows
  <2>1. \A l \in Learnings : EvidenceOf(l) \in Nat
    BY DEF LInv, TypeOK, EvidenceOf
  <2>2. QED  BY <2>1 DEF Grows, Exists, EvidenceOf, Made
<1>2. QED  BY <1>1 DEF LInv, RetryCreatesNothing, NothingAttached, Exists

\* The rows of the tables are known.
LEMMA TablesKnown ==
  ASSUME NEW l \in Learnings, NEW row, learning[l] = row \/ record[l] = row
  PROVE  Known(l, row)
BY DEF Known

\* An invocation that ends, at any point, leaves the invariant.
LEMMA ReturnStep ==
  ASSUME LInv, NEW self \in Procs, Return(self),
         UNCHANGED Tables, calls' \in Nat, faults' \in Nat
  PROVE  LInv'
<1>1. TypeOK'
  BY IdleType DEF LInv, TypeOK, Return, Tables
<1>2. Grows /\ RetryCreatesNothing' /\ NothingAttached'
  BY NothingChanges DEF Tables
<1>3. PICK inv \in Invocation : inv = Idle
  BY IdleType
<1>4. HeldOf(inv) /\ Ready(inv)' /\ ~Holding(inv)
  BY <1>3 DEF Idle, HeldOf, Ready, Holding
<1>5. HeldType' /\ KnownAccounted' /\ AllReady'
  BY <1>1, <1>2, <1>3, <1>4, Move, TablesKnown DEF Return, Tables
<1>6. QED  BY <1>1, <1>2, <1>5 DEF LInv

\* So does one that goes on with an invocation that is ready.
LEMMA GoStep ==
  ASSUME LInv, NEW self \in Procs, NEW inv \in Invocation,
         proc' = [proc EXCEPT ![self] = inv],
         UNCHANGED Tables, calls' \in Nat, faults' \in Nat,
         HeldOf(inv), Ready(inv),
         Holding(inv) => Accounted(inv.learning, inv.row)
  PROVE  LInv'
<1>1. TypeOK'
  BY DEF LInv, TypeOK, Tables
<1>2. Grows /\ RetryCreatesNothing' /\ NothingAttached'
  BY NothingChanges DEF Tables
<1>3. Ready(inv)'
  BY DEF Ready, EvidenceOf, Tables
<1>4. Holding(inv) => Accounted(inv.learning, inv.row)'
  BY <1>1, <1>2, AccountedStays DEF HeldOf, LInv, Holding
<1>5. HeldType' /\ KnownAccounted' /\ AllReady'
  BY <1>1, <1>2, <1>3, <1>4, Move, TablesKnown DEF Tables
<1>6. QED  BY <1>1, <1>2, <1>5 DEF LInv

-----------------------------------------------------------------------------
(* Capture *)

\* An invocation that starts is ready when its caller's record is.
LEMMA StartStep ==
  ASSUME LInv, NEW self \in Procs, NEW inv \in Invocation, Start(self, inv),
         HeldOf(inv), Ready(inv), Holding(inv) => Accounted(inv.learning, inv.row)
  PROVE  LInv'
<1>1. UNCHANGED Tables /\ calls' \in Nat /\ faults' \in Nat
  BY DEF Start, Tables, LInv, TypeOK
<1>2. QED  BY <1>1, GoStep DEF Start

LEMMA CaptureStep ==
  ASSUME LInv, NEW self \in Procs, NEW key \in Keys \cup {None}, NEW content \in Contents,
         NEW level \in Levels, NEW proposed \in Destinations, NEW items \in {0, 1},
         Capture(self, key, content, level, proposed, items)
  PROVE  LInv'
<1> DEFINE row == [status |-> "captured", level |-> level, proposed |-> proposed,
                   destination |-> "unset", key |-> key, content |-> content]
           inv == [Idle EXCEPT !.pc = "hash", !.items = items, !.row = row]
<1>1. row \in Row /\ row.status = "captured" /\ row.destination = "unset"
  BY DEF Row, Statuses
<1>2. Start(self, inv)
  BY DEF Capture
<1> HIDE DEF row
<1>3. inv \in Invocation
  <2>1. items \in Nat
    OBVIOUS
  <2>2. QED  BY <1>1, <2>1 DEF Invocation, Idle, Decisions
<1>4. HeldOf(inv) /\ Ready(inv) /\ ~Holding(inv)
  BY <1>1 DEF HeldOf, Ready, Holding, Idle
<1>5. QED  BY <1>2, <1>3, <1>4, StartStep

\* An invocation goes on to a step whose findings it has.
LEMMA GotoStep ==
  ASSUME LInv, NEW self \in Procs, NEW pc \in Pc, pc # "idle", Goto(self, pc),
         ~At(self, "idle"), UNCHANGED Tables, UNCHANGED Counters,
         Ready([proc[self] EXCEPT !.pc = pc]),
         pc \in {"hash", "insert"} \/ Holding(proc[self])
  PROVE  LInv'
<1>1. PICK i \in Invocation : i = proc[self]
  BY DEF LInv, TypeOK
<1>2. PICK inv \in Invocation : inv = [i EXCEPT !.pc = pc]
  BY <1>1 DEF Invocation
<1>3. HeldOf(i) /\ i.pc # "idle"
  BY <1>1 DEF LInv, HeldType, At
<1>4. inv.row = i.row /\ inv.learning = i.learning /\ inv.pc = pc
  BY <1>1, <1>2 DEF Invocation
<1>5. HeldOf(inv)
  BY <1>1, <1>3, <1>4 DEF HeldOf, Holding
<1>6. Holding(inv) => Accounted(inv.learning, inv.row)
  <2>1. Holding(inv) => Holding(i)
    BY <1>1, <1>4 DEF Holding
  <2>2. Holding(i) => Known(i.learning, i.row)
    BY <1>1 DEF Known
  <2>3. QED  BY <1>3, <1>4, <2>1, <2>2 DEF LInv, KnownAccounted, HeldOf
<1>7. Ready(inv)
  BY <1>1, <1>2
<1>8. proc' = [proc EXCEPT ![self] = inv]
  BY <1>1, <1>2 DEF Goto
<1>9. calls' \in Nat /\ faults' \in Nat
  BY DEF Counters, LInv, TypeOK
<1>10. QED  BY <1>5, <1>6, <1>7, <1>8, <1>9, GoStep

\* What returns without a counter of its own.
LEMMA EndStep ==
  ASSUME LInv, NEW self \in Procs, Return(self), UNCHANGED Tables, UNCHANGED Counters
  PROVE  LInv'
<1>1. calls' \in Nat /\ faults' \in Nat
  BY DEF Counters, LInv, TypeOK
<1>2. QED  BY <1>1, ReturnStep

LEMMA FindExistingStep ==
  ASSUME LInv, NEW self \in Procs, FindExisting(self)
  PROVE  LInv'
<1>1. CASE Return(self)
  BY <1>1, EndStep DEF FindExisting
<1>2. CASE Goto(self, "insert")
  <2>1. proc[self] \in Invocation /\ Ready(proc[self]) /\ proc[self].pc = "hash"
    BY DEF FindExisting, At, LInv, TypeOK, AllReady
  <2>2. Ready([proc[self] EXCEPT !.pc = "insert"])
    BY <2>1 DEF Ready, Invocation
  <2>3. QED  BY <1>2, <2>1, <2>2, GotoStep DEF FindExisting, At
<1>3. QED  BY <1>1, <1>2 DEF FindExisting

\* Attached evidence adds up.
LEMMA AttachType ==
  ASSUME TypeOK, NEW l \in Learnings, NEW op \in {"capture", "add_evidence"},
         NEW n \in Nat, Attach(l, op, n)
  PROVE  /\ evidence' \in [Learnings -> [{"capture", "add_evidence"} -> Nat]]
         /\ \A k \in Learnings, other \in {"capture", "add_evidence"} :
               evidence'[k][other] =
                  evidence[k][other] + (IF k = l /\ other = op THEN n ELSE 0)
<1> DEFINE new == [evidence[l] EXCEPT ![op] = @ + n]
<1>1. evidence \in [Learnings -> [{"capture", "add_evidence"} -> Nat]]
  BY DEF TypeOK
<1>2. new \in [{"capture", "add_evidence"} -> Nat]
  BY <1>1
<1>3. evidence' = [evidence EXCEPT ![l] = new]
  BY DEF Attach
<1>4. \A other \in {"capture", "add_evidence"} :
         new[other] = evidence[l][other] + (IF other = op THEN n ELSE 0)
  BY <1>1
<1> HIDE DEF new
<1>5. evidence' \in [Learnings -> [{"capture", "add_evidence"} -> Nat]]
  BY <1>1, <1>2, <1>3
<1>6. \A k \in Learnings : evidence'[k] = IF k = l THEN new ELSE evidence[k]
  BY <1>1, <1>3
<1>7. ASSUME NEW k \in Learnings, NEW other \in {"capture", "add_evidence"}
      PROVE  evidence'[k][other] =
                evidence[k][other] + (IF k = l /\ other = op THEN n ELSE 0)
  <2>1. evidence[k][other] \in Nat
    BY <1>1
  <2>2. QED  BY <1>4, <1>6, <2>1
<1>8. QED  BY <1>5, <1>7

\* A fresh id has no row yet.
LEMMA FreshType ==
  ASSUME \E l \in Learnings : ~Exists(l)
  PROVE  Fresh \in Learnings /\ learning[Fresh] = None
BY DEF Fresh, Exists

\* The row inserted is captured, and no other row has its key.
LEMMA SaveLearningStep ==
  ASSUME LInv, NEW self \in Procs, SaveLearning(self)
  PROVE  LInv'
<1>1. CASE ~Unique(Held(self))
  BY <1>1, EndStep DEF SaveLearning, Tables
<1>2. CASE Unique(Held(self))
  <2>1. PICK l \in Learnings : l = Fresh /\ learning[l] = None
    BY <1>2, FreshType DEF SaveLearning
  <2>2. PICK i \in Invocation : i = proc[self] /\ i.pc = "insert" /\ HeldOf(i) /\ Ready(i)
    BY DEF SaveLearning, At, LInv, TypeOK, HeldType, AllReady
  <2>3. PICK row \in Row : row = i.row /\ row.status = "captured" /\ row.destination = "unset"
    BY <2>2 DEF HeldOf, Ready
  <2>4. PICK inv \in Invocation :
           inv = [i EXCEPT !.pc = "audit", !.learning = l, !.rewrites = TRUE]
    BY <2>2 DEF Invocation
  <2>5. /\ learning' = [learning EXCEPT ![l] = row]
        /\ Attach(l, "capture", i.items)
        /\ proc' = [proc EXCEPT ![self] = inv]
        /\ UNCHANGED <<curations, audit, record, calls, faults>>
    BY <1>2, <2>1, <2>2, <2>3, <2>4 DEF SaveLearning, Held, Counters
  <2>6. i.items \in {0, 1} /\ i.op = "capture"
    BY <2>2 DEF Ready
  <2>7. /\ evidence' \in [Learnings -> [{"capture", "add_evidence"} -> Nat]]
        /\ \A k \in Learnings :
           /\ evidence'[k]["add_evidence"] = evidence[k]["add_evidence"]
           /\ evidence'[k]["capture"] = evidence[k]["capture"] + (IF k = l THEN i.items ELSE 0)
    <3>1. i.items \in Nat /\ "capture" # "add_evidence"
      BY <2>6
    <3>2. \A k \in Learnings, other \in {"capture", "add_evidence"} :
             evidence'[k][other] =
                evidence[k][other] + (IF k = l /\ other = "capture" THEN i.items ELSE 0)
      BY <2>5, <3>1, AttachType DEF LInv
    <3>3. \A k \in Learnings : evidence[k]["add_evidence"] \in Nat
      BY DEF LInv, TypeOK
    <3>4. QED  BY <2>5, <3>1, <3>2, <3>3, AttachType DEF LInv
  <2>8. TypeOK'
    BY <2>5, <2>7 DEF LInv, TypeOK
  <2>9. \A k \in Learnings :
           evidence[k]["capture"] \in Nat /\ evidence[k]["add_evidence"] \in Nat
    BY DEF LInv, TypeOK
  <2>10. \A k \in Learnings : learning'[k] = IF k = l THEN row ELSE learning[k]
    BY <2>5 DEF LInv, TypeOK
  <2>11. row # None
    BY NoneAssumption
  <2>12. Grows
    <3>1. \A k \in Learnings : EvidenceOf(k)' >= EvidenceOf(k)
      BY <2>6, <2>7, <2>9 DEF EvidenceOf
    <3>2. \A k \in Learnings, decision \in Decisions : Made(k, decision) => Made(k, decision)'
      BY <2>5 DEF Made
    <3>3. QED  BY <2>1, <2>10, <3>1, <3>2 DEF Grows, Exists
  <2>13. Accounted(l, row)'
    BY <2>3, <2>10, <2>11 DEF Accounted, Exists, Explained, Granted
  <2>14. HeldOf(inv) /\ Ready(inv)'
    BY <2>3, <2>4, <2>6 DEF HeldOf, Ready, Invocation
  <2>15. Accounted(inv.learning, inv.row)'
    <3>1. inv.learning = l /\ inv.row = row
      BY <2>2, <2>3, <2>4 DEF Invocation
    <3>2. QED  BY <2>13, <3>1 DEF Accounted, Exists, Explained, EvidenceOf, Made
  <2>16. \A k \in Learnings, r \in Row : learning'[k] = r \/ record'[k] = r
            => Known(k, r) \/ Accounted(k, r)'
    BY <2>5, <2>10, <2>13, TablesKnown
  <2>17. HeldType' /\ KnownAccounted' /\ AllReady'
    BY <2>5, <2>8, <2>12, <2>14, <2>15, <2>16, Move
  <2>18. RetryCreatesNothing'
    <3>1. \A k \in Learnings : evidence'[k]["capture"] <= 1
      <4>1. \A k \in Learnings : evidence[k]["capture"] <= 1
        BY DEF LInv, RetryCreatesNothing
      <4>2. evidence[l]["capture"] = 0
        BY <2>1 DEF LInv, NothingAttached, Exists
      <4>3. QED  BY <2>6, <2>7, <2>9, <4>1, <4>2
    <3>2. ASSUME NEW k \in Learnings, Exists(k), learning[k].key = row.key
          PROVE  row.key = None
      BY <1>2, <2>2, <2>3, <3>2 DEF Unique, WithKey, Held
    <3>3. ASSUME NEW k \in Learnings, NEW m \in Learnings, Exists(k)', Exists(m)',
                 learning'[k].key # None, learning'[k].key = learning'[m].key
          PROVE  k = m
      <4>1. CASE k = l /\ m = l
        BY <4>1
      <4>2. CASE k = l /\ m # l
        BY <2>10, <3>2, <3>3, <4>2 DEF Exists
      <4>3. CASE k # l /\ m = l
        BY <2>10, <3>2, <3>3, <4>3 DEF Exists
      <4>4. CASE k # l /\ m # l
        BY <2>10, <3>3, <4>4 DEF Exists, LInv, RetryCreatesNothing
      <4>5. QED  BY <4>1, <4>2, <4>3, <4>4
    <3>4. QED  BY <3>1, <3>3 DEF RetryCreatesNothing
  <2>19. NothingAttached'
    BY <2>7, <2>9, <2>10, <2>11 DEF LInv, NothingAttached, Exists
  <2>20. QED  BY <2>8, <2>17, <2>18, <2>19 DEF LInv
<1>3. QED  BY <1>1, <1>2

-----------------------------------------------------------------------------
(* AddEvidence *)

\* The row in the table is accounted for, and its level plays no part in that.
LEMMA TableAccounted ==
  ASSUME LInv, NEW l \in Learnings, Exists(l)
  PROVE  learning[l] \in Row /\ Accounted(l, learning[l])
<1>1. learning[l] \in Row
  BY DEF Exists, LInv, TypeOK
<1>2. QED  BY <1>1, TablesKnown DEF LInv, KnownAccounted

LEMMA AddEvidenceStep ==
  ASSUME LInv, NEW self \in Procs, NEW l \in Learnings, NEW level \in Levels,
         AddEvidence(self, l, level)
  PROVE  LInv'
<1>1. PICK old \in Row : old = learning[l] /\ Accounted(l, old)
  BY TableAccounted DEF AddEvidence
<1>2. PICK row \in Row : row = [old EXCEPT !.level = level]
  BY DEF Row
<1>3. Accounted(l, row)
  <2>1. /\ row.status = old.status /\ row.proposed = old.proposed
        /\ row.destination = old.destination
        /\ row.key = old.key /\ row.content = old.content
    BY <1>2 DEF Row
  <2>2. QED  BY <1>1, <2>1 DEF Accounted, Explained, Granted
<1>4. PICK changed \in BOOLEAN : changed = (level # learning[l].level)
  BY Zenon
<1>5. PICK inv \in Invocation :
        inv = [Idle EXCEPT !.pc = "attach", !.op = "add_evidence", !.learning = l,
                           !.items = 1, !.row = row, !.rewrites = changed]
  BY DEF Invocation, Idle, Decisions
<1>6. Start(self, inv)
  BY <1>1, <1>2, <1>4, <1>5, Zenon DEF AddEvidence
<1>7. /\ inv.pc = "attach" /\ inv.op = "add_evidence" /\ inv.items = 1
      /\ inv.learning = l /\ inv.row = row
  BY <1>5 DEF Idle
<1>8. HeldOf(inv) /\ Ready(inv)
  BY <1>7 DEF HeldOf, Ready
<1>9. QED  BY <1>3, <1>6, <1>7, <1>8, StartStep

\* The row written is one that was known.
LEMMA AttachEvidenceStep ==
  ASSUME LInv, NEW self \in Procs, AttachEvidence(self)
  PROVE  LInv'
<1>1. PICK i \in Invocation : i = proc[self] /\ i.pc = "attach" /\ HeldOf(i) /\ Ready(i)
  BY DEF AttachEvidence, At, LInv, TypeOK, HeldType, AllReady
<1>2. PICK l \in Learnings, row \in Row : l = i.learning /\ row = i.row
  BY <1>1 DEF HeldOf, Holding
<1>3. Known(l, row) /\ Accounted(l, row)
  <2>1. Known(l, row)
    BY <1>1, <1>2 DEF Known, Holding
  <2>2. QED  BY <2>1 DEF LInv, KnownAccounted
<1>4. PICK inv \in Invocation : inv = [i EXCEPT !.pc = "audit"]
  BY DEF Invocation
<1>5. /\ Attach(l, "add_evidence", i.items)
      /\ learning' = IF i.rewrites THEN [learning EXCEPT ![l] = row] ELSE learning
      /\ proc' = [proc EXCEPT ![self] = inv]
      /\ UNCHANGED <<curations, audit, record, calls, faults>>
  BY <1>1, <1>2, <1>4 DEF AttachEvidence, Goto, Id, Held, Counters
<1>6. i.items \in Nat
  BY DEF Invocation
<1>7. /\ evidence' \in [Learnings -> [{"capture", "add_evidence"} -> Nat]]
      /\ \A k \in Learnings, op \in {"capture", "add_evidence"} : evidence'[k][op] =
            evidence[k][op] + (IF k = l /\ op = "add_evidence" THEN i.items ELSE 0)
  BY <1>5, <1>6, AttachType DEF LInv
<1>8. \A k \in Learnings :
         evidence[k]["capture"] \in Nat /\ evidence[k]["add_evidence"] \in Nat
  BY DEF LInv, TypeOK
<1>9. \A k \in Learnings : learning'[k] = IF k = l /\ i.rewrites THEN row ELSE learning[k]
  BY <1>5 DEF LInv, TypeOK
<1>10. TypeOK'
  <2>1. learning' \in [Learnings -> Row \cup {None}]
    BY <1>5 DEF LInv, TypeOK
  <2>2. QED  BY <1>5, <1>7, <2>1 DEF LInv, TypeOK
<1>11. row # None /\ learning[l] # None /\ row.key = learning[l].key
         /\ row.content = learning[l].content
  BY <1>3, NoneAssumption DEF Accounted, Exists
<1>12. \A k \in Learnings : evidence'[k]["capture"] = evidence[k]["capture"]
  BY <1>7, <1>8
<1>13. Grows
  <2>1. \A k \in Learnings : EvidenceOf(k)' >= EvidenceOf(k)
    BY <1>6, <1>7, <1>8 DEF EvidenceOf
  <2>2. \A k \in Learnings, decision \in Decisions : Made(k, decision) => Made(k, decision)'
    BY <1>5 DEF Made
  <2>3. QED  BY <1>9, <1>11, <2>1, <2>2 DEF Grows, Exists
<1>14. HeldOf(inv) /\ Ready(inv)' /\ inv.learning = l /\ inv.row = row
  BY <1>1, <1>2, <1>4 DEF HeldOf, Holding, Ready, Invocation
<1>15. \A k \in Learnings, r \in Row : learning'[k] = r \/ record'[k] = r
          => Known(k, r) \/ Accounted(k, r)'
  BY <1>3, <1>5, <1>9, TablesKnown
<1>16. HeldType' /\ KnownAccounted' /\ AllReady'
  BY <1>3, <1>5, <1>10, <1>13, <1>14, <1>15, Move
<1>17. RetryCreatesNothing' /\ NothingAttached'
  <2>1. \A k \in Learnings : Exists(k)' <=> Exists(k)
    BY <1>9, <1>11 DEF Exists
  <2>2. \A k \in Learnings : Exists(k) => learning'[k].key = learning[k].key
    BY <1>9, <1>11
  <2>3. QED  BY <1>12, <2>1, <2>2 DEF LInv, RetryCreatesNothing, NothingAttached
<1>18. QED  BY <1>10, <1>16, <1>17 DEF LInv

-----------------------------------------------------------------------------
(* Decisions, publications and rollbacks *)

\* A step that rewrites the row of a learning and whose next steps tell of it
\* keeps the invariant if the row has the identity of the learning and the
\* tables account for it afterwards.
LEMMA RewriteStep ==
  ASSUME LInv, NEW self \in Procs, NEW l \in Learnings, NEW row \in Row,
         NEW inv \in Invocation, Exists(l),
         row.key = learning[l].key, row.content = learning[l].content,
         learning' = [learning EXCEPT ![l] = row],
         proc' = [proc EXCEPT ![self] = inv],
         UNCHANGED <<evidence, audit, record, faults>>, calls' \in Nat,
         curations' \in [Learnings -> Seq(Decisions)],
         \A k \in Learnings, decision \in Decisions : Made(k, decision) => Made(k, decision)',
         Explained(l, row)', Granted(row) => EvidenceOf(l) > 0,
         inv.pc \in {"audit", "record"}, inv.op \in Operations \/ inv.pc = "record",
         inv.learning = l, inv.row = row
  PROVE  LInv'
<1>1. TypeOK'
  BY DEF LInv, TypeOK
<1>2. \A k \in Learnings : learning'[k] = IF k = l THEN row ELSE learning[k]
  BY DEF LInv, TypeOK
<1>3. row # None
  BY NoneAssumption
<1>4. Grows
  <2>1. \A k \in Learnings : EvidenceOf(k)' = EvidenceOf(k) /\ EvidenceOf(k) \in Nat
    BY DEF LInv, TypeOK, EvidenceOf
  <2>2. QED  BY <1>2, <1>3, <2>1 DEF Grows, Exists
<1>5. Accounted(l, row)'
  BY <1>2, <1>3 DEF Accounted, Exists, EvidenceOf
<1>6. HeldOf(inv) /\ Ready(inv)'
  BY DEF HeldOf, Holding, Ready
<1>7. \A k \in Learnings, r \in Row : learning'[k] = r \/ record'[k] = r
         => Known(k, r) \/ Accounted(k, r)'
  BY <1>2, <1>5, TablesKnown
<1>8. HeldType' /\ KnownAccounted' /\ AllReady'
  BY <1>1, <1>4, <1>5, <1>6, <1>7, Move
<1>9. RetryCreatesNothing' /\ NothingAttached'
  <2>1. \A k \in Learnings : Exists(k)' <=> Exists(k)
    BY <1>2, <1>3 DEF Exists
  <2>2. \A k \in Learnings : Exists(k) => learning'[k].key = learning[k].key
    BY <1>2
  <2>3. QED  BY <2>1, <2>2 DEF LInv, RetryCreatesNothing, NothingAttached
<1>10. QED  BY <1>1, <1>8, <1>9 DEF LInv

\* One more curation of a learning takes none away.
LEMMA CurationGrows ==
  ASSUME TypeOK, NEW l \in Learnings, NEW decision \in Decisions,
         curations' = [curations EXCEPT ![l] = Append(@, decision)]
  PROVE  /\ curations' \in [Learnings -> Seq(Decisions)]
         /\ \A k \in Learnings, d \in Decisions : Made(k, d) => Made(k, d)'
         /\ Made(l, decision)'
<1>1. curations \in [Learnings -> Seq(Decisions)]
  BY DEF TypeOK
<1>2. PICK old \in Seq(Decisions) : old = curations[l]
  BY <1>1
<1>3. PICK new \in Seq(Decisions) : new = Append(old, decision)
  <2>1. Append(old, decision) \in Seq(Decisions)
    BY AppendProperties
  <2>2. QED  BY <2>1
<1>4. /\ curations' \in [Learnings -> Seq(Decisions)]
      /\ \A k \in Learnings : curations'[k] = IF k = l THEN new ELSE curations[k]
  BY <1>1, <1>2, <1>3
<1>5. /\ Len(new) = Len(old) + 1 /\ new[Len(old) + 1] = decision
      /\ \A n \in 1..Len(old) : new[n] = old[n]
  BY <1>3
<1>6. Len(old) \in Nat
  OBVIOUS
<1>7. Made(l, decision)'
  BY <1>4, <1>5, <1>6 DEF Made
<1>8. ASSUME NEW k \in Learnings, NEW d \in Decisions, Made(k, d)  PROVE Made(k, d)'
  <2>1. CASE k = l
    BY <1>2, <1>4, <1>5, <1>6, <1>8, <2>1 DEF Made
  <2>2. CASE k # l
    BY <1>4, <1>8, <2>2 DEF Made
  <2>3. QED  BY <2>1, <2>2
<1>9. QED  BY <1>4, <1>7, <1>8

\* An allowed decision makes a row with the status and the destination that it
\* stands for.
LEMMA DecidedRow ==
  ASSUME NEW old \in Row, NEW decision \in Decisions, MayDecide(old, decision)
  PROVE  \E row \in Row :
         /\ row = Decided(old, decision)
         /\ row.key = old.key /\ row.content = old.content
         /\ \/ /\ IsApproval(decision) /\ Granted(row)
               /\ row.destination = decision /\ row.proposed = decision
            \/ /\ decision \in Decisions \ Destinations /\ ~Granted(row)
               /\ row.destination = "none" /\ row.status = TargetStatus(decision)
<1>1. TargetStatus(decision) \in Statuses
        /\ TargetDestination(decision) \in Destinations \cup {"none"}
  BY Targets
<1>2. PICK status \in Statuses : status = TargetStatus(decision)
  BY <1>1
<1>3. PICK destination \in Destinations \cup {"none"} :
         destination = TargetDestination(decision)
  BY <1>1
<1>4. PICK row \in Row : row = Decided(old, decision)
  BY <1>2, <1>3 DEF Decided, Row
<1>5. /\ row.status = status /\ row.destination = destination
      /\ row.proposed = old.proposed /\ row.key = old.key /\ row.content = old.content
  BY <1>2, <1>3, <1>4 DEF Decided, Row
<1>6. CASE IsApproval(decision)
  <2>1. row.status = "approved" /\ row.destination = decision /\ row.proposed = decision
    BY <1>2, <1>3, <1>5, <1>6, Targets DEF TargetDestination, MayDecide
  <2>2. QED  BY <1>4, <1>5, <1>6, <2>1 DEF Granted
<1>7. CASE ~IsApproval(decision)
  <2>1. row.status = TargetStatus(decision) /\ row.destination = "none"
          /\ row.status \in {"rejected", "needs_evidence", "merged"}
    BY <1>2, <1>3, <1>5, <1>7, Targets DEF TargetDestination
  <2>2. decision \in Decisions \ Destinations
    BY <1>7 DEF IsApproval
  <2>3. QED  BY <1>4, <1>5, <2>1, <2>2 DEF Granted
<1>8. QED  BY <1>6, <1>7

LEMMA CurateStep ==
  ASSUME LInv, NEW self \in Procs, NEW l \in Learnings, NEW decision \in Decisions,
         Curate(self, l, decision)
  PROVE  LInv'
<1>1. PICK row \in Row : row = learning[l] /\ Accounted(l, row)
  BY TableAccounted DEF Curate
<1>2. PICK pc \in {"threshold", "decide"} :
         pc = IF IsApproval(decision) THEN "threshold" ELSE "decide"
  OBVIOUS
<1>3. PICK inv \in Invocation :
         inv = [Idle EXCEPT !.pc = pc, !.op = "curate", !.learning = l, !.row = row,
                            !.decision = decision, !.rewrites = TRUE]
  BY DEF Invocation, Idle
<1>4. Start(self, inv)
  BY <1>1, <1>2, <1>3 DEF Curate
<1>5. /\ inv.pc = pc /\ inv.op = "curate" /\ inv.learning = l /\ inv.row = row
      /\ inv.decision = decision
  BY <1>3 DEF Idle
<1>6. HeldOf(inv)
  BY <1>5 DEF HeldOf
<1>7. Ready(inv)
  BY <1>1, <1>2, <1>5 DEF Ready, Curate
<1>8. QED  BY <1>1, <1>4, <1>5, <1>6, <1>7, StartStep

LEMMA CheckEvidenceStep ==
  ASSUME LInv, NEW self \in Procs, CheckEvidence(self)
  PROVE  LInv'
<1>1. CASE EvidenceOf(Id(self)) = 0
  BY <1>1, EndStep DEF CheckEvidence
<1>2. CASE EvidenceOf(Id(self)) # 0
  <2>1. PICK i \in Invocation : i = proc[self] /\ i.pc = "threshold" /\ HeldOf(i) /\ Ready(i)
    BY DEF CheckEvidence, At, LInv, TypeOK, HeldType, AllReady
  <2>2. EvidenceOf(i.learning) > 0
    <3>1. PICK l \in Learnings : l = i.learning
      BY <2>1 DEF HeldOf, Holding
    <3>2. EvidenceOf(l) \in Nat
      BY DEF LInv, TypeOK, EvidenceOf
    <3>3. EvidenceOf(l) # 0
      BY <1>2, <2>1, <3>1 DEF Id
    <3>4. QED  BY <3>1, <3>2, <3>3
  <2>3. Ready([i EXCEPT !.pc = "decide"])
    BY <2>1, <2>2 DEF Ready, Invocation
  <2>4. Holding(proc[self])
    BY <2>1 DEF Holding
  <2>5. QED  BY <1>2, <2>1, <2>3, <2>4, GotoStep DEF CheckEvidence, At
<1>3. QED  BY <1>1, <1>2

LEMMA SaveCurationStep ==
  ASSUME LInv, NEW self \in Procs, SaveCuration(self)
  PROVE  LInv'
<1>1. PICK i \in Invocation : i = proc[self] /\ i.pc = "decide" /\ HeldOf(i) /\ Ready(i)
  BY DEF SaveCuration, At, LInv, TypeOK, HeldType, AllReady
<1>2. PICK l \in Learnings, old \in Row, decision \in Decisions :
         l = i.learning /\ old = i.row /\ decision = i.decision
  BY <1>1 DEF HeldOf, Holding, Invocation
<1>3. Accounted(l, old)
  <2>1. Known(l, old)
    BY <1>1, <1>2 DEF Known, Holding
  <2>2. QED  BY <2>1 DEF LInv, KnownAccounted
<1>4. MayDecide(old, decision) /\ (IsApproval(decision) => EvidenceOf(l) > 0)
  BY <1>1, <1>2 DEF Ready
<1>5. /\ curations' = [curations EXCEPT ![l] = Append(@, decision)]
      /\ learning' = [learning EXCEPT ![l] = Decided(old, decision)]
      /\ proc' = [proc EXCEPT ![self] = [i EXCEPT !.pc = "audit",
                                                  !.row = Decided(old, decision)]]
      /\ UNCHANGED <<evidence, audit, record, calls, faults>>
  BY <1>1, <1>2 DEF SaveCuration, Id, Held, Counters
<1>6. /\ curations' \in [Learnings -> Seq(Decisions)]
      /\ \A k \in Learnings, d \in Decisions : Made(k, d) => Made(k, d)'
      /\ Made(l, decision)'
  BY <1>5, CurationGrows DEF LInv
<1>7. PICK row \in Row :
         /\ row = Decided(old, decision)
         /\ row.key = old.key /\ row.content = old.content
         /\ \/ /\ IsApproval(decision) /\ Granted(row)
               /\ row.destination = decision /\ row.proposed = decision
            \/ /\ decision \in Decisions \ Destinations /\ ~Granted(row)
               /\ row.destination = "none" /\ row.status = TargetStatus(decision)
  BY <1>4, DecidedRow
<1>8. PICK inv \in Invocation : inv = [i EXCEPT !.pc = "audit", !.row = row]
  BY DEF Invocation
<1>9. inv.pc = "audit" /\ inv.op \in Operations /\ inv.learning = l /\ inv.row = row
  BY <1>1, <1>2, <1>8 DEF Ready, Invocation
<1>10. calls' \in Nat
  BY <1>5 DEF LInv, TypeOK
<1>11. Exists(l) /\ row.key = learning[l].key /\ row.content = learning[l].content
  BY <1>3, <1>7 DEF Accounted
<1>12. Explained(l, row)' /\ (Granted(row) => EvidenceOf(l) > 0)
  <2>1. CASE IsApproval(decision) /\ Granted(row)
               /\ row.destination = decision /\ row.proposed = decision
    BY <1>4, <1>6, <2>1 DEF Explained
  <2>2. CASE decision \in Decisions \ Destinations /\ ~Granted(row)
               /\ row.destination = "none" /\ row.status = TargetStatus(decision)
    BY <1>6, <2>2 DEF Explained
  <2>3. QED  BY <1>7, <2>1, <2>2
<1>13. /\ learning' = [learning EXCEPT ![l] = row]
       /\ proc' = [proc EXCEPT ![self] = inv]
  BY <1>5, <1>7, <1>8
<1>14. QED
  BY <1>5, <1>6, <1>9, <1>10, <1>11, <1>12, <1>13, RewriteStep

LEMMA PublishStep ==
  ASSUME LInv, NEW self \in Procs, NEW l \in Learnings, Publish(self, l)
  PROVE  LInv'
<1>1. PICK row \in Row : row = learning[l] /\ Accounted(l, row)
  BY TableAccounted DEF Publish
<1>2. PICK inv \in Invocation :
         inv = [Idle EXCEPT !.pc = "publish", !.op = "publish", !.learning = l, !.row = row]
  BY DEF Invocation, Idle, Decisions
<1>3. Start(self, inv)
  BY <1>1, <1>2 DEF Publish
<1>4. inv.pc = "publish" /\ inv.learning = l /\ inv.row = row /\ row.status = "approved"
  BY <1>1, <1>2 DEF Idle, Publish
<1>5. HeldOf(inv) /\ Ready(inv)
  BY <1>4 DEF HeldOf, Ready
<1>6. QED  BY <1>1, <1>3, <1>4, <1>5, StartStep

\* An approved row becomes a published one, and the other way round, without
\* anything more to account for.
LEMMA Regranted ==
  ASSUME NEW l \in Learnings, NEW old \in Row, Accounted(l, old), Granted(old),
         NEW status \in {"approved", "published"}
  PROVE  \E row \in Row : /\ row = [old EXCEPT !.status = status]
                          /\ row.key = old.key /\ row.content = old.content
                          /\ Explained(l, row) /\ EvidenceOf(l) > 0
<1>1. PICK row \in Row : row = [old EXCEPT !.status = status]
  BY DEF Row, Statuses
<1>2. /\ row.status = status /\ row.destination = old.destination
      /\ row.proposed = old.proposed /\ row.key = old.key /\ row.content = old.content
  BY <1>1 DEF Row
<1>3. old.destination = old.proposed /\ Made(l, old.destination)
  BY GrantedExplained DEF Accounted
<1>4. Explained(l, row)
  BY <1>2, <1>3 DEF Explained, Granted
<1>5. QED  BY <1>1, <1>2, <1>4 DEF Accounted

LEMMA CommitPublicationStep ==
  ASSUME LInv, NEW self \in Procs, CommitPublication(self)
  PROVE  LInv'
<1>1. PICK i \in Invocation : i = proc[self] /\ i.pc = "publish" /\ HeldOf(i) /\ Ready(i)
  BY DEF CommitPublication, At, LInv, TypeOK, HeldType, AllReady
<1>2. PICK l \in Learnings, old \in Row : l = i.learning /\ old = i.row
  BY <1>1 DEF HeldOf, Holding
<1>3. Accounted(l, old) /\ Granted(old)
  <2>1. Known(l, old)
    BY <1>1, <1>2 DEF Known, Holding
  <2>2. QED  BY <1>1, <1>2, <2>1 DEF LInv, KnownAccounted, Ready, Granted
<1>4. PICK row \in Row :
         /\ row = [old EXCEPT !.status = "published"]
         /\ row.key = old.key /\ row.content = old.content
         /\ Explained(l, row) /\ EvidenceOf(l) > 0
  BY <1>3, Regranted
<1>5. PICK inv \in Invocation : inv = [i EXCEPT !.pc = "record", !.row = row]
  BY DEF Invocation
<1>6. /\ learning' = [learning EXCEPT ![l] = row]
      /\ proc' = [proc EXCEPT ![self] = inv]
      /\ UNCHANGED <<evidence, curations, audit, record, calls, faults>>
  BY <1>1, <1>2, <1>4, <1>5 DEF CommitPublication, Id, Held, Counters
<1>7. inv.pc = "record" /\ inv.learning = l /\ inv.row = row
  BY <1>2, <1>5 DEF Invocation
<1>8. Exists(l) /\ row.key = learning[l].key /\ row.content = learning[l].content
  BY <1>3, <1>4 DEF Accounted
<1>9. /\ curations' \in [Learnings -> Seq(Decisions)] /\ calls' \in Nat
      /\ \A k \in Learnings, d \in Decisions : Made(k, d) => Made(k, d)'
      /\ Explained(l, row)'
  BY <1>4, <1>6 DEF LInv, TypeOK, Made, Explained
<1>10. QED  BY <1>4, <1>6, <1>7, <1>8, <1>9, RewriteStep

LEMMA RollbackStep ==
  ASSUME LInv, NEW self \in Procs, NEW l \in Learnings, Rollback(self, l)
  PROVE  LInv'
<1>1. PICK old \in Row : old = learning[l] /\ Accounted(l, old) /\ Granted(old)
  BY TableAccounted DEF Rollback, Granted
<1>2. PICK row \in Row :
         /\ row = [old EXCEPT !.status = "approved"]
         /\ row.key = old.key /\ row.content = old.content
         /\ Explained(l, row) /\ EvidenceOf(l) > 0
  BY <1>1, Regranted
<1>3. PICK inv \in Invocation :
         inv = [Idle EXCEPT !.pc = "record", !.op = "rollback", !.learning = l, !.row = row]
  BY DEF Invocation, Idle, Decisions
<1>4. /\ learning' = [learning EXCEPT ![l] = row]
      /\ proc' = [proc EXCEPT ![self] = inv]
      /\ calls' = calls + 1
      /\ UNCHANGED <<evidence, curations, audit, record, faults>>
  BY <1>1, <1>2, <1>3 DEF Rollback
<1>5. inv.pc = "record" /\ inv.learning = l /\ inv.row = row
  BY <1>3 DEF Idle
<1>6. Exists(l) /\ row.key = learning[l].key /\ row.content = learning[l].content
  BY <1>1, <1>2 DEF Accounted
<1>7. /\ curations' \in [Learnings -> Seq(Decisions)] /\ calls' \in Nat
      /\ \A k \in Learnings, d \in Decisions : Made(k, d) => Made(k, d)'
      /\ Explained(l, row)'
  BY <1>2, <1>4 DEF LInv, TypeOK, Made, Explained
<1>8. QED  BY <1>2, <1>4, <1>5, <1>6, <1>7, RewriteStep

-----------------------------------------------------------------------------
(* What follows a commit *)

LEMMA RecordEventStep ==
  ASSUME LInv, NEW self \in Procs, RecordEvent(self)
  PROVE  LInv'
<1>1. PICK i \in Invocation : i = proc[self] /\ i.pc = "audit" /\ HeldOf(i) /\ Ready(i)
  BY DEF RecordEvent, At, LInv, TypeOK, HeldType, AllReady
<1>2. PICK inv \in Invocation :
         inv = IF i.rewrites THEN [i EXCEPT !.pc = "record"] ELSE Idle
  <2>1. CASE i.rewrites
    BY <2>1 DEF Invocation
  <2>2. CASE ~i.rewrites
    BY <2>2, IdleType
  <2>3. QED  BY <2>1, <2>2
<1>3. proc' = [proc EXCEPT ![self] = inv]
  BY <1>1, <1>2 DEF RecordEvent, Goto, Return
<1>4. PICK l \in Learnings, op \in Operations : l = i.learning /\ op = i.op
  BY <1>1 DEF HeldOf, Holding, Ready
<1>5. audit' \in [Learnings -> [Operations -> Nat]]
  <2>1. audit \in [Learnings -> [Operations -> Nat]]
    BY DEF LInv, TypeOK
  <2>2. audit' = [audit EXCEPT ![l][op] = audit[l][op] + 1]
    BY <1>1, <1>4 DEF RecordEvent, Id
  <2>3. QED  BY <2>1, <2>2
<1>6. UNCHANGED <<learning, evidence, curations, record, calls, faults>>
  BY DEF RecordEvent, Counters
<1>7. TypeOK'
  BY <1>3, <1>5, <1>6 DEF LInv, TypeOK
<1>8. Grows /\ RetryCreatesNothing' /\ NothingAttached'
  BY <1>6, NothingChanges
<1>9. HeldOf(inv) /\ Ready(inv)' /\ (Holding(inv) => Known(inv.learning, inv.row))
  <2>1. CASE i.rewrites
    <3>1. inv.pc = "record" /\ inv.learning = i.learning /\ inv.row = i.row
      BY <1>2, <2>1 DEF Invocation
    <3>2. QED  BY <1>1, <3>1 DEF HeldOf, Holding, Ready, Known
  <2>2. CASE ~i.rewrites
    <3>1. inv.pc = "idle"
      BY <1>2, <2>2 DEF Idle
    <3>2. QED  BY <3>1 DEF HeldOf, Holding, Ready
  <2>3. QED  BY <2>1, <2>2
<1>10. HeldType' /\ KnownAccounted' /\ AllReady'
  BY <1>3, <1>6, <1>7, <1>8, <1>9, Move, TablesKnown
<1>11. QED  BY <1>7, <1>8, <1>10 DEF LInv

LEMMA WriteRecordStep ==
  ASSUME LInv, NEW self \in Procs, WriteRecord(self)
  PROVE  LInv'
<1>1. PICK i \in Invocation : i = proc[self] /\ i.pc = "record" /\ HeldOf(i)
  BY DEF WriteRecord, At, LInv, TypeOK, HeldType
<1>2. PICK l \in Learnings, row \in Row : l = i.learning /\ row = i.row /\ Known(l, row)
  BY <1>1 DEF HeldOf, Holding, Known
<1>3. PICK inv \in Invocation : inv = Idle
  BY IdleType
<1>4. /\ record' = [record EXCEPT ![l] = row]
      /\ proc' = [proc EXCEPT ![self] = inv]
      /\ UNCHANGED <<learning, evidence, curations, audit, calls, faults>>
  BY <1>1, <1>2, <1>3 DEF WriteRecord, Return, Id, Held, Counters
<1>5. TypeOK'
  BY <1>4 DEF LInv, TypeOK
<1>6. Grows /\ RetryCreatesNothing' /\ NothingAttached'
  BY <1>4, NothingChanges
<1>7. HeldOf(inv) /\ Ready(inv)' /\ ~Holding(inv)
  BY <1>3 DEF Idle, HeldOf, Ready, Holding
<1>8. \A k \in Learnings, r \in Row : learning'[k] = r \/ record'[k] = r => Known(k, r)
  <2>1. \A k \in Learnings : record'[k] = IF k = l THEN row ELSE record[k]
    BY <1>4 DEF LInv, TypeOK
  <2>2. QED  BY <1>2, <1>4, <2>1, TablesKnown
<1>9. HeldType' /\ KnownAccounted' /\ AllReady'
  BY <1>4, <1>5, <1>6, <1>7, <1>8, Move
<1>10. QED  BY <1>5, <1>6, <1>9 DEF LInv

LEMMA InterruptStep ==
  ASSUME LInv, NEW self \in Procs, Interrupt(self)
  PROVE  LInv'
<1>1. calls' \in Nat /\ faults' \in Nat
  BY DEF Interrupt, LInv, TypeOK
<1>2. QED  BY <1>1, ReturnStep DEF Interrupt

-----------------------------------------------------------------------------
(* What a step tells the audit trail *)

\* The three things that can happen to the changes of one kind to one learning
\* and to what is told of them; a step that does none of them leaves all.
Commits(l, op, self) ==
    /\ Changes(l, op)' = Changes(l, op) + 1
    /\ audit'[l][op] = audit[l][op] /\ faults' = faults
    /\ Unaudited(l, op)' = Unaudited(l, op) \cup {self}
    /\ self \notin Unaudited(l, op)

Tells(l, op, self) ==
    /\ Changes(l, op)' = Changes(l, op)
    /\ audit'[l][op] = audit[l][op] + 1 /\ faults' = faults
    /\ Unaudited(l, op)' = Unaudited(l, op) \ {self}
    /\ self \in Unaudited(l, op)

Loses(l, op, self) ==
    /\ Changes(l, op)' = Changes(l, op)
    /\ audit'[l][op] = audit[l][op] /\ faults' = faults + 1
    /\ Unaudited(l, op)' = Unaudited(l, op) \ {self}

LeavesAlone(l, op) ==
    /\ Changes(l, op)' = Changes(l, op)
    /\ audit'[l][op] = audit[l][op] /\ faults' = faults
    /\ Unaudited(l, op)' = Unaudited(l, op)

\* One pair of a learning and an operation.
Audited(l, op) ==
    LET told == audit[l][op] + Cardinality(Unaudited(l, op)) IN
    told <= Changes(l, op) /\ Changes(l, op) <= told + faults

\* An invocation is yet to be told of what it did, or not.
Owes(i, l, op) == i.pc = "audit" /\ i.learning = l /\ i.op = op

\* The invocation that a step moves is the one that can join or leave those
\* that have yet to write their event.
LEMMA OwesStep ==
  ASSUME TypeOK, NEW self \in Procs, NEW inv, proc' = [proc EXCEPT ![self] = inv],
         NEW l, NEW op
  PROVE  /\ Owes(inv, l, op) => Unaudited(l, op)' = Unaudited(l, op) \cup {self}
         /\ ~Owes(inv, l, op) /\ ~Owes(proc[self], l, op) =>
               Unaudited(l, op)' = Unaudited(l, op)
         /\ self \in Unaudited(l, op) <=> Owes(proc[self], l, op)
<1>1. \A p \in Procs : proc'[p] = IF p = self THEN inv ELSE proc[p]
  BY DEF TypeOK
<1>2. \A p \in Procs : p \in Unaudited(l, op) <=> Owes(proc[p], l, op)
  BY DEF Unaudited, At, Id, Owes
<1>3. \A p \in Procs : p \in Unaudited(l, op)' <=> Owes(proc'[p], l, op)
  BY DEF Unaudited, At, Id, Owes
<1>4. Unaudited(l, op) \subseteq Procs /\ Unaudited(l, op)' \subseteq Procs
  BY DEF Unaudited
<1>5. QED  BY <1>1, <1>2, <1>3, <1>4

\* An invocation that owes nothing any more leaves those that do.
LEMMA SettledStep ==
  ASSUME TypeOK, NEW self \in Procs, NEW inv, proc' = [proc EXCEPT ![self] = inv],
         NEW l, NEW op, ~Owes(inv, l, op)
  PROVE  Unaudited(l, op)' = Unaudited(l, op) \ {self}
<1>1. \A p \in Procs : proc'[p] = IF p = self THEN inv ELSE proc[p]
  BY DEF TypeOK
<1>2. \A p \in Procs : p \in Unaudited(l, op) <=> Owes(proc[p], l, op)
  BY DEF Unaudited, At, Id, Owes
<1>3. \A p \in Procs : p \in Unaudited(l, op)' <=> Owes(proc'[p], l, op)
  BY DEF Unaudited, At, Id, Owes
<1>4. Unaudited(l, op) \subseteq Procs /\ Unaudited(l, op)' \subseteq Procs
  BY DEF Unaudited
<1>5. QED  BY <1>1, <1>2, <1>3, <1>4

\* What is told and what was changed are numbers.
LEMMA AuditTypes ==
  ASSUME TypeOK, NEW l \in Learnings, NEW op \in Operations
  PROVE  /\ audit[l][op] \in Nat /\ faults \in Nat /\ Changes(l, op) \in Nat
         /\ IsFiniteSet(Unaudited(l, op)) /\ Cardinality(Unaudited(l, op)) \in Nat
<1>1. audit[l][op] \in Nat /\ faults \in Nat
  BY DEF TypeOK
<1>2. Changes(l, op) \in Nat
  <2>1. evidence[l]["add_evidence"] \in Nat /\ curations[l] \in Seq(Decisions)
    BY DEF TypeOK
  <2>2. Len(curations[l]) \in Nat
    BY <2>1
  <2>3. QED  BY <2>1, <2>2 DEF Changes
<1>3. IsFiniteSet(Unaudited(l, op))
  <2>1. Unaudited(l, op) \in SUBSET Procs
    BY DEF Unaudited
  <2>2. QED  BY <2>1, ProcsAssumption, FS_Subset
<1>4. QED  BY <1>1, <1>2, <1>3, FS_CardinalityType

\* Whichever of the four a step does, the trail accounts for the changes.
LEMMA AuditedStep ==
  ASSUME TypeOK, NEW l \in Learnings, NEW op \in Operations, Audited(l, op),
         \/ \E self \in Procs :
               Commits(l, op, self) \/ Tells(l, op, self) \/ Loses(l, op, self)
         \/ LeavesAlone(l, op)
  PROVE  Audited(l, op)'
<1> DEFINE owing == Unaudited(l, op)
           owed == Cardinality(owing)
<1>1. /\ audit[l][op] \in Nat /\ faults \in Nat /\ Changes(l, op) \in Nat
      /\ IsFiniteSet(owing) /\ owed \in Nat
  BY AuditTypes
<1>2. /\ audit[l][op] + owed <= Changes(l, op)
      /\ Changes(l, op) <= audit[l][op] + owed + faults
  BY DEF Audited
<1>3. ASSUME NEW self \in Procs, Commits(l, op, self)  PROVE Audited(l, op)'
  <2>1. Cardinality(owing \cup {self}) = owed + 1
    BY <1>1, <1>3, FS_AddElement DEF Commits
  <2>2. Cardinality(Unaudited(l, op)') = owed + 1
    BY <1>3, <2>1 DEF Commits
  <2>3. QED  BY <1>1, <1>2, <1>3, <2>2 DEF Commits, Audited
<1>4. ASSUME NEW self \in Procs, Tells(l, op, self)  PROVE Audited(l, op)'
  <2>1. Cardinality(owing \ {self}) = owed - 1
    BY <1>1, <1>4, FS_RemoveElement DEF Tells
  <2>2. Cardinality(Unaudited(l, op)') = owed - 1
    BY <1>4, <2>1 DEF Tells
  <2>3. QED  BY <1>1, <1>2, <1>4, <2>2 DEF Tells, Audited
<1>5. ASSUME NEW self \in Procs, Loses(l, op, self)  PROVE Audited(l, op)'
  <2>1. Cardinality(owing \ {self}) \in {owed, owed - 1}
    BY <1>1, FS_RemoveElement
  <2>2. Cardinality(Unaudited(l, op)') \in {owed, owed - 1}
    BY <1>5, <2>1 DEF Loses
  <2>3. QED  BY <1>1, <1>2, <1>5, <2>2 DEF Loses, Audited
<1>6. CASE LeavesAlone(l, op)
  BY <1>2, <1>6 DEF LeavesAlone, Audited
<1>7. QED  BY <1>3, <1>4, <1>5, <1>6

\* A step that changes no table, and moves an invocation that owes nothing to a
\* place where it owes nothing, leaves the trail alone.
LEMMA SilentStep ==
  ASSUME TypeOK, NEW self \in Procs, NEW inv, proc' = [proc EXCEPT ![self] = inv],
         proc[self].pc # "audit", inv.pc # "audit",
         UNCHANGED <<evidence, curations, audit, faults>>,
         \A k \in Learnings : Exists(k)' <=> Exists(k),
         NEW l \in Learnings, NEW op \in Operations
  PROVE  LeavesAlone(l, op)
<1>1. Unaudited(l, op)' = Unaudited(l, op)
  <2>1. ~Owes(inv, l, op) /\ ~Owes(proc[self], l, op)
    BY DEF Owes
  <2>2. QED  BY <2>1, OwesStep
<1>2. Changes(l, op)' = Changes(l, op)
  BY DEF Changes
<1>3. QED  BY <1>1, <1>2 DEF LeavesAlone

\* A step that commits one change of one kind, which its invocation then owes.
LEMMA CommitStep ==
  ASSUME TypeOK, NEW self \in Procs, NEW inv, proc' = [proc EXCEPT ![self] = inv],
         proc[self].pc # "audit", UNCHANGED <<audit, faults>>,
         NEW k \in Learnings, NEW done \in Operations, Owes(inv, k, done),
         \A l \in Learnings, op \in Operations :
            Changes(l, op)' = IF l = k /\ op = done THEN Changes(l, op) + 1
                              ELSE Changes(l, op),
         NEW l \in Learnings, NEW op \in Operations
  PROVE  Commits(l, op, self) \/ LeavesAlone(l, op)
<1>1. self \notin Unaudited(l, op)
  BY OwesStep DEF Owes
<1>2. CASE l = k /\ op = done
  <2>1. Unaudited(l, op)' = Unaudited(l, op) \cup {self}
    BY <1>2, OwesStep
  <2>2. QED  BY <1>1, <1>2, <2>1 DEF Commits
<1>3. CASE ~(l = k /\ op = done)
  <2>1. ~Owes(inv, l, op) /\ ~Owes(proc[self], l, op)
    BY <1>3 DEF Owes
  <2>2. Unaudited(l, op)' = Unaudited(l, op)
    BY <2>1, OwesStep
  <2>3. QED  BY <1>3, <2>2 DEF LeavesAlone
<1>4. QED  BY <1>2, <1>3

\* An operation starts.
LEMMA StartTells ==
  ASSUME LInv, NEW self \in Procs, NEW inv, Start(self, inv),
         inv.pc # "audit", NEW l \in Learnings, NEW op \in Operations
  PROVE  LeavesAlone(l, op)
<1>1. proc' = [proc EXCEPT ![self] = inv] /\ proc[self].pc # "audit"
  BY DEF Start, At
<1>2. UNCHANGED <<learning, evidence, curations, audit, faults>>
  BY DEF Start, Tables
<1>3. QED  BY <1>1, <1>2, SilentStep DEF LInv, Exists


\* A capture commits a learning that did not exist, or nothing.
LEMMA SaveLearningTells ==
  ASSUME LInv, NEW self \in Procs, SaveLearning(self),
         NEW l \in Learnings, NEW op \in Operations
  PROVE  Commits(l, op, self) \/ LeavesAlone(l, op)
<1>1. PICK i \in Invocation : i = proc[self] /\ i.pc = "insert" /\ HeldOf(i) /\ Ready(i)
  BY DEF SaveLearning, At, LInv, TypeOK, HeldType, AllReady
<1>2. UNCHANGED <<curations, audit, faults>>
  BY DEF SaveLearning, Counters
<1>3. CASE ~Unique(Held(self))
  <2>1. proc' = [proc EXCEPT ![self] = Idle] /\ UNCHANGED <<learning, evidence>>
    BY <1>3 DEF SaveLearning, Return
  <2>2. Idle.pc # "audit"
    BY DEF Idle
  <2>3. QED  BY <1>1, <1>2, <2>1, <2>2, SilentStep DEF LInv, Exists
<1>4. CASE Unique(Held(self))
  <2>1. PICK k \in Learnings : k = Fresh /\ ~Exists(k)
    <3>1. \E m \in Learnings : ~Exists(m)
      BY <1>4 DEF SaveLearning
    <3>2. QED  BY <3>1, FreshType DEF Exists
  <2>2. PICK row \in Row : row = i.row /\ row # None
    BY <1>1, NoneAssumption DEF HeldOf
  <2>3. PICK inv \in Invocation :
           inv = [i EXCEPT !.pc = "audit", !.learning = k, !.rewrites = TRUE]
    BY DEF Invocation
  <2>4. /\ learning' = [learning EXCEPT ![k] = row]
        /\ Attach(k, "capture", i.items)
        /\ proc' = [proc EXCEPT ![self] = inv]
    BY <1>1, <1>4, <2>1, <2>2, <2>3 DEF SaveLearning, Held
  <2>5. Owes(inv, k, "capture")
    BY <1>1, <2>3 DEF Ready, Owes, Invocation
  <2>6. \A m \in Learnings : Exists(m)' <=> m = k \/ Exists(m)
    BY <2>2, <2>4 DEF LInv, TypeOK, Exists
  <2>7. \A m \in Learnings : evidence'[m]["add_evidence"] = evidence[m]["add_evidence"]
    BY <2>4 DEF LInv, TypeOK, Attach
  <2>8. \A m \in Learnings, done \in Operations :
           Changes(m, done)' = IF m = k /\ done = "capture" THEN Changes(m, done) + 1
                               ELSE Changes(m, done)
    BY <1>2, <2>1, <2>6, <2>7 DEF Changes
  <2>9. proc[self].pc # "audit" /\ "capture" \in Operations
    BY <1>1
  <2>10. QED  BY <1>2, <2>4, <2>5, <2>8, <2>9, CommitStep DEF LInv
<1>5. QED  BY <1>3, <1>4

\* Evidence that is added is one record; a rewritten row leaves the learning there.
LEMMA AttachEvidenceTells ==
  ASSUME LInv, NEW self \in Procs, AttachEvidence(self),
         NEW l \in Learnings, NEW op \in Operations
  PROVE  Commits(l, op, self) \/ LeavesAlone(l, op)
<1>1. PICK i \in Invocation : i = proc[self] /\ i.pc = "attach" /\ HeldOf(i) /\ Ready(i)
  BY DEF AttachEvidence, At, LInv, TypeOK, HeldType, AllReady
<1>2. PICK k \in Learnings, row \in Row : k = i.learning /\ row = i.row
  BY <1>1 DEF HeldOf, Holding
<1>3. Exists(k)
  <2>1. Known(k, row)
    BY <1>1, <1>2 DEF Known, Holding
  <2>2. QED  BY <2>1 DEF LInv, KnownAccounted, Accounted
<1>4. PICK inv \in Invocation : inv = [i EXCEPT !.pc = "audit"]
  BY DEF Invocation
<1>5. /\ proc' = [proc EXCEPT ![self] = inv]
      /\ learning' \in {learning, [learning EXCEPT ![k] = row]}
      /\ Attach(k, "add_evidence", 1)
      /\ UNCHANGED <<curations, audit, faults>>
  BY <1>1, <1>2, <1>4 DEF AttachEvidence, Id, Held, Goto, Counters, Ready
<1>6. Owes(inv, k, "add_evidence")
  BY <1>1, <1>2, <1>4 DEF Ready, Owes, Invocation
<1>7. \A m \in Learnings : Exists(m)' <=> Exists(m)
  BY <1>3, <1>5, NoneAssumption DEF LInv, TypeOK, Exists
<1>8. \A m \in Learnings : evidence'[m]["add_evidence"] =
         IF m = k THEN evidence[m]["add_evidence"] + 1 ELSE evidence[m]["add_evidence"]
  BY <1>5 DEF LInv, TypeOK, Attach
<1>9. \A m \in Learnings, done \in Operations :
         Changes(m, done)' = IF m = k /\ done = "add_evidence" THEN Changes(m, done) + 1
                             ELSE Changes(m, done)
  BY <1>5, <1>7, <1>8 DEF Changes
<1>10. proc[self].pc # "audit" /\ "add_evidence" \in Operations
  BY <1>1
<1>11. QED  BY <1>5, <1>6, <1>9, <1>10, CommitStep DEF LInv

\* A curation is one more in the table of its learning.
LEMMA SaveCurationTells ==
  ASSUME LInv, NEW self \in Procs, SaveCuration(self),
         NEW l \in Learnings, NEW op \in Operations
  PROVE  Commits(l, op, self) \/ LeavesAlone(l, op)
<1>1. PICK i \in Invocation : i = proc[self] /\ i.pc = "decide" /\ HeldOf(i) /\ Ready(i)
  BY DEF SaveCuration, At, LInv, TypeOK, HeldType, AllReady
<1>2. PICK k \in Learnings, old \in Row, decision \in Decisions :
         k = i.learning /\ old = i.row /\ decision = i.decision
  BY <1>1 DEF HeldOf, Holding, Invocation
<1>3. Exists(k)
  <2>1. Known(k, old)
    BY <1>1, <1>2 DEF Known, Holding
  <2>2. QED  BY <2>1 DEF LInv, KnownAccounted, Accounted
<1>4. PICK row \in Row : row = Decided(old, decision)
  BY <1>1, <1>2, DecidedRow DEF Ready
<1>5. PICK inv \in Invocation : inv = [i EXCEPT !.pc = "audit", !.row = row]
  BY DEF Invocation
<1>6. /\ proc' = [proc EXCEPT ![self] = inv]
      /\ learning' = [learning EXCEPT ![k] = row]
      /\ curations' = [curations EXCEPT ![k] = Append(@, decision)]
      /\ UNCHANGED <<evidence, audit, faults>>
  BY <1>1, <1>2, <1>4, <1>5 DEF SaveCuration, Id, Held, Counters
<1>7. Owes(inv, k, "curate")
  BY <1>1, <1>2, <1>5 DEF Ready, Owes, Invocation
<1>8. \A m \in Learnings : Exists(m)' <=> Exists(m)
  BY <1>3, <1>6, NoneAssumption DEF LInv, TypeOK, Exists
<1>9. \A m \in Learnings :
         Len(curations'[m]) = IF m = k THEN Len(curations[m]) + 1 ELSE Len(curations[m])
  <2>1. curations \in [Learnings -> Seq(Decisions)]
    BY DEF LInv, TypeOK
  <2>2. PICK said \in Seq(Decisions) : said = curations[k]
    BY <2>1
  <2>3. Len(Append(said, decision)) = Len(said) + 1
    OBVIOUS
  <2>4. \A m \in Learnings :
           curations'[m] = IF m = k THEN Append(said, decision) ELSE curations[m]
    BY <1>6, <2>1, <2>2
  <2>5. QED  BY <2>2, <2>3, <2>4
<1>10. \A m \in Learnings, done \in Operations :
         Changes(m, done)' = IF m = k /\ done = "curate" THEN Changes(m, done) + 1
                             ELSE Changes(m, done)
  BY <1>6, <1>8, <1>9 DEF Changes
<1>11. proc[self].pc # "audit" /\ "curate" \in Operations
  BY <1>1
<1>12. QED  BY <1>6, <1>7, <1>10, <1>11, CommitStep DEF LInv

\* The event of an invocation is the one that it owes.
LEMMA RecordEventTells ==
  ASSUME LInv, NEW self \in Procs, RecordEvent(self),
         NEW l \in Learnings, NEW op \in Operations
  PROVE  Tells(l, op, self) \/ LeavesAlone(l, op)
<1>1. PICK i \in Invocation : i = proc[self] /\ i.pc = "audit" /\ HeldOf(i) /\ Ready(i)
  BY DEF RecordEvent, At, LInv, TypeOK, HeldType, AllReady
<1>2. PICK inv : inv = IF i.rewrites THEN [i EXCEPT !.pc = "record"] ELSE Idle
  OBVIOUS
<1>3. proc' = [proc EXCEPT ![self] = inv] /\ inv.pc # "audit"
  BY <1>1, <1>2 DEF RecordEvent, Goto, Return, Idle, Invocation
<1>4. PICK k \in Learnings, done \in Operations : k = i.learning /\ done = i.op
  BY <1>1 DEF HeldOf, Holding, Ready
<1>5. /\ audit' = [audit EXCEPT ![k][done] = @ + 1]
      /\ UNCHANGED <<learning, evidence, curations, faults>>
  BY <1>1, <1>4 DEF RecordEvent, Id, Counters
<1>6. audit'[l][op] = IF l = k /\ op = done THEN audit[l][op] + 1 ELSE audit[l][op]
  BY <1>5 DEF LInv, TypeOK
<1>7. Changes(l, op)' = Changes(l, op)
  BY <1>5 DEF Changes, Exists
<1>8. ~Owes(inv, l, op)
  BY <1>3 DEF Owes
<1>9. CASE l = k /\ op = done
  <2>1. Owes(proc[self], l, op)
    BY <1>1, <1>4, <1>9 DEF Owes
  <2>2. TypeOK
    BY DEF LInv
  <2>3. self \in Unaudited(l, op)
    BY <2>1 DEF Unaudited, Owes, At, Id
  <2>4. Unaudited(l, op)' = Unaudited(l, op) \ {self}
    BY <1>3, <1>8, <2>2, SettledStep
  <2>5. QED  BY <1>5, <1>6, <1>7, <1>9, <2>3, <2>4 DEF Tells
<1>10. CASE ~(l = k /\ op = done)
  <2>1. ~Owes(proc[self], l, op)
    BY <1>1, <1>4, <1>10 DEF Owes
  <2>2. Unaudited(l, op)' = Unaudited(l, op)
    BY <1>3, <1>8, <2>1, OwesStep DEF LInv
  <2>3. QED  BY <1>5, <1>6, <1>7, <1>10, <2>2 DEF LeavesAlone
<1>11. QED  BY <1>9, <1>10

\* A call starts, and owes nothing yet; a rollback rewrites a row that is there.
LEMMA CallTells ==
  ASSUME LInv, NEW self \in Procs, Call(self),
         NEW l \in Learnings, NEW op \in Operations
  PROVE  LeavesAlone(l, op)
<1>1. ASSUME NEW key \in Keys \cup {None}, NEW content \in Contents, NEW level \in Levels,
             NEW proposed \in Destinations, NEW items \in {0, 1},
             Capture(self, key, content, level, proposed, items)
      PROVE  LeavesAlone(l, op)
  <2>1. PICK inv : inv = [Idle EXCEPT !.pc = "hash", !.items = items,
           !.row = [status |-> "captured", level |-> level, proposed |-> proposed,
                    destination |-> "unset", key |-> key, content |-> content]]
    OBVIOUS
  <2>2. Start(self, inv)
    BY <1>1, <2>1, Zenon DEF Capture
  <2>3. inv.pc # "audit"
    BY <2>1 DEF Idle
  <2>4. QED  BY <2>2, <2>3, StartTells
<1>2. ASSUME NEW k \in Learnings, NEW level \in Levels, AddEvidence(self, k, level)
      PROVE  LeavesAlone(l, op)
  <2>1. PICK inv : inv = [Idle EXCEPT
           !.pc = "attach", !.op = "add_evidence", !.learning = k, !.items = 1,
           !.row = [learning[k] EXCEPT !.level = level],
           !.rewrites = level # learning[k].level]
    BY Zenon
  <2>2. Start(self, inv)
    BY <1>2, <2>1, Zenon DEF AddEvidence
  <2>3. inv.pc # "audit"
    BY <2>1 DEF Idle
  <2>4. QED  BY <2>2, <2>3, StartTells
<1>3. ASSUME NEW k \in Learnings, NEW decision \in Decisions, Curate(self, k, decision)
      PROVE  LeavesAlone(l, op)
  <2>1. PICK inv : inv = [Idle EXCEPT
           !.pc = IF IsApproval(decision) THEN "threshold" ELSE "decide",
           !.op = "curate", !.learning = k, !.row = learning[k],
           !.decision = decision, !.rewrites = TRUE]
    OBVIOUS
  <2>2. Start(self, inv)
    BY <1>3, <2>1, Zenon DEF Curate
  <2>3. inv.pc # "audit"
    BY <2>1 DEF Idle
  <2>4. QED  BY <2>2, <2>3, StartTells
<1>4. ASSUME NEW k \in Learnings, Publish(self, k)  PROVE LeavesAlone(l, op)
  <2>1. PICK inv : inv = [Idle EXCEPT
           !.pc = "publish", !.op = "publish", !.learning = k, !.row = learning[k]]
    OBVIOUS
  <2>2. Start(self, inv)
    BY <1>4, <2>1, Zenon DEF Publish
  <2>3. inv.pc # "audit"
    BY <2>1 DEF Idle
  <2>4. QED  BY <2>2, <2>3, StartTells
<1>5. ASSUME NEW k \in Learnings, Rollback(self, k)  PROVE LeavesAlone(l, op)
  <2>1. PICK old \in Row : old = learning[k] /\ Exists(k)
    BY <1>5, TableAccounted DEF Rollback
  <2>2. PICK row \in Row : row = [old EXCEPT !.status = "approved"]
    BY DEF Row, Statuses
  <2>3. PICK inv : inv = [Idle EXCEPT !.pc = "record", !.op = "rollback",
                                      !.learning = k, !.row = row]
    OBVIOUS
  <2>4. /\ proc' = [proc EXCEPT ![self] = inv] /\ proc[self].pc # "audit"
        /\ learning' = [learning EXCEPT ![k] = row]
        /\ UNCHANGED <<evidence, curations, audit, faults>>
    BY <1>5, <2>1, <2>2, <2>3 DEF Rollback, At
  <2>5. inv.pc # "audit"
    BY <2>3 DEF Idle
  <2>6. \A m \in Learnings : Exists(m)' <=> Exists(m)
    BY <2>1, <2>4, NoneAssumption DEF LInv, TypeOK, Exists
  <2>7. QED  BY <2>4, <2>5, <2>6, SilentStep DEF LInv
<1>6. QED  BY <1>1, <1>2, <1>3, <1>4, <1>5 DEF Call

\* The steps that tell nobody anything.
LEMMA QuietTells ==
  ASSUME LInv, NEW self \in Procs,
         FindExisting(self) \/ CheckEvidence(self) \/ CommitPublication(self)
            \/ WriteRecord(self),
         NEW l \in Learnings, NEW op \in Operations
  PROVE  LeavesAlone(l, op)
<1>1. PICK i \in Invocation : i = proc[self] /\ HeldOf(i)
  BY DEF LInv, TypeOK, HeldType
<1>2. Idle.pc # "audit"
  BY DEF Idle
<1>3. CASE FindExisting(self)
  <2>1. PICK inv : proc' = [proc EXCEPT ![self] = inv] /\ inv.pc # "audit"
    BY <1>1, <1>2, <1>3 DEF FindExisting, Return, Goto, Invocation
  <2>2. QED  BY <1>3, <2>1, SilentStep DEF FindExisting, At, Tables, Counters, LInv, Exists
<1>4. CASE CheckEvidence(self)
  <2>1. PICK inv : proc' = [proc EXCEPT ![self] = inv] /\ inv.pc # "audit"
    BY <1>1, <1>2, <1>4 DEF CheckEvidence, Return, Goto, Invocation
  <2>2. QED  BY <1>4, <2>1, SilentStep DEF CheckEvidence, At, Tables, Counters, LInv, Exists
<1>5. CASE WriteRecord(self)
  <2>1. proc' = [proc EXCEPT ![self] = Idle]
    BY <1>5 DEF WriteRecord, Return
  <2>2. QED  BY <1>2, <1>5, <2>1, SilentStep DEF WriteRecord, At, Counters, LInv, Exists
<1>6. CASE CommitPublication(self)
  <2>1. PICK k \in Learnings, old \in Row : k = i.learning /\ old = i.row /\ i.pc = "publish"
    BY <1>1, <1>6 DEF CommitPublication, At, HeldOf, Holding
  <2>2. Exists(k)
    <3>1. Known(k, old)
      BY <1>1, <2>1 DEF Known, Holding
    <3>2. QED  BY <3>1 DEF LInv, KnownAccounted, Accounted
  <2>3. PICK row \in Row : row = [old EXCEPT !.status = "published"]
    BY DEF Row, Statuses
  <2>4. PICK inv \in Invocation : inv = [i EXCEPT !.pc = "record", !.row = row]
    BY DEF Invocation
  <2>5. /\ proc' = [proc EXCEPT ![self] = inv]
        /\ learning' = [learning EXCEPT ![k] = row]
        /\ UNCHANGED <<evidence, curations, audit, faults>>
    BY <1>1, <1>6, <2>1, <2>3, <2>4 DEF CommitPublication, Id, Held, Counters
  <2>6. inv.pc # "audit" /\ proc[self].pc # "audit"
    BY <1>1, <2>1, <2>4 DEF Invocation
  <2>7. \A m \in Learnings : Exists(m)' <=> Exists(m)
    BY <2>2, <2>5, NoneAssumption DEF LInv, TypeOK, Exists
  <2>8. QED  BY <2>5, <2>6, <2>7, SilentStep DEF LInv
<1>7. QED  BY <1>3, <1>4, <1>5, <1>6

\* An invocation that dies is a fault, whether or not it owed an event.
LEMMA InterruptTells ==
  ASSUME LInv, NEW self \in Procs, Interrupt(self),
         NEW l \in Learnings, NEW op \in Operations
  PROVE  Loses(l, op, self)
<1>1. /\ proc' = [proc EXCEPT ![self] = Idle] /\ faults' = faults + 1
      /\ UNCHANGED <<learning, evidence, curations, audit>>
  BY DEF Interrupt, Return, Tables
<1>2. ~Owes(Idle, l, op)
  BY DEF Owes, Idle
<1>3. Unaudited(l, op)' = Unaudited(l, op) \ {self}
  BY <1>1, <1>2, SettledStep DEF LInv
<1>4. QED  BY <1>1, <1>3 DEF Loses, Changes, Exists

\* Every step keeps the trail true.
LEMMA ChangesAuditedStep ==
  ASSUME LInv, ChangesAudited, [Next]_vars
  PROVE  ChangesAudited'
<1>1. SUFFICES ASSUME NEW l \in Learnings, NEW op \in Operations  PROVE Audited(l, op)'
  BY DEF ChangesAudited, Audited
<1>2. Audited(l, op)
  BY DEF ChangesAudited, Audited
<1>3. CASE UNCHANGED vars
  <2>1. UNCHANGED <<learning, evidence, curations, audit, proc, faults>>
    BY <1>3 DEF vars
  <2>2. Changes(l, op)' = Changes(l, op) /\ Unaudited(l, op)' = Unaudited(l, op)
    BY <2>1 DEF Changes, Exists, Unaudited, At, Id
  <2>3. QED  BY <1>2, <2>1, <2>2 DEF Audited
<1>4. ASSUME NEW self \in Procs, Call(self)  PROVE Audited(l, op)'
  BY <1>2, <1>4, CallTells, AuditedStep DEF LInv
<1>5. ASSUME NEW self \in Procs, Step(self)  PROVE Audited(l, op)'
  BY <1>2, <1>5, QuietTells, SaveLearningTells, AttachEvidenceTells, SaveCurationTells,
     RecordEventTells, AuditedStep DEF Step, LInv
<1>6. ASSUME NEW self \in Procs, Interrupt(self)  PROVE Audited(l, op)'
  BY <1>2, <1>6, InterruptTells, AuditedStep DEF LInv
<1>7. QED  BY <1>3, <1>4, <1>5, <1>6 DEF Next

-----------------------------------------------------------------------------
(* The theorems *)

\* The tables start empty and the invocations idle.
LEMMA LInvInit ==
  ASSUME Init
  PROVE  LInv
<1>1. TypeOK
  BY IdleType DEF Init, TypeOK
<1>2. \A self \in Procs : proc[self].pc = "idle"
  BY DEF Init, Idle
<1>3. HeldType /\ AllReady
  BY <1>2 DEF HeldType, HeldOf, Holding, AllReady, Ready
<1>4. KnownAccounted
  <2>1. ASSUME NEW l \in Learnings, NEW row \in Row, Known(l, row)  PROVE FALSE
    BY <1>2, <2>1, NoneAssumption DEF Known, Holding, Init
  <2>2. QED  BY <2>1 DEF KnownAccounted
<1>5. RetryCreatesNothing /\ NothingAttached
  BY DEF Init, RetryCreatesNothing, NothingAttached, Exists
<1>6. QED  BY <1>1, <1>3, <1>4, <1>5 DEF LInv

\* Every step keeps the invariant.
LEMMA LInvStep ==
  ASSUME LInv, [Next]_vars
  PROVE  LInv'
<1>1. CASE UNCHANGED vars
  <2>1. UNCHANGED <<learning, evidence, curations, audit, record, proc, calls, faults>>
    BY <1>1 DEF vars
  <2>2. TypeOK' /\ HeldType' /\ AllReady'
    BY <2>1 DEF LInv, TypeOK, HeldType, AllReady, Ready, EvidenceOf
  <2>3. Grows /\ RetryCreatesNothing' /\ NothingAttached'
    BY <2>1, NothingChanges
  <2>4. \A l \in Learnings, row \in Row : Known(l, row)' => Known(l, row)
    BY <2>1 DEF Known
  <2>5. KnownAccounted'
    BY <2>2, <2>3, <2>4, AccountedStays DEF LInv, KnownAccounted
  <2>6. QED  BY <2>2, <2>3, <2>5 DEF LInv
<1>2. ASSUME NEW self \in Procs, Call(self)  PROVE LInv'
  BY <1>2, CaptureStep, AddEvidenceStep, CurateStep, PublishStep, RollbackStep DEF Call
<1>3. ASSUME NEW self \in Procs, Step(self)  PROVE LInv'
  BY <1>3, FindExistingStep, SaveLearningStep, AttachEvidenceStep, CheckEvidenceStep,
     SaveCurationStep, CommitPublicationStep, RecordEventStep, WriteRecordStep DEF Step
<1>4. QED  BY <1>1, <1>2, <1>3, InterruptStep DEF Next

\* The invariant holds, for any number of overlapping operations.
THEOREM InvCorrect == Spec => []LInv
BY LInvInit, LInvStep, PTL DEF Spec

\* Rows, curations and invocations keep their shape.
THEOREM TypeCorrect == Spec => []TypeOK
<1>1. LInv => TypeOK
  BY DEF LInv
<1>2. QED  BY <1>1, InvCorrect, PTL

\* No order of overlapping whole-row writes leaves a row whose status and
\* destination are not of one decision that is on record.
THEOREM RowsExplainedCorrect == Spec => []RowsExplained
<1>1. LInv => RowsExplained
  BY TableAccounted DEF RowsExplained, Accounted
<1>2. QED  BY <1>1, InvCorrect, PTL

\* No approval, saved late or written back by another operation, stands without
\* evidence.
THEOREM ApprovedHasEvidenceCorrect == Spec => []ApprovedHasEvidence
<1>1. LInv => ApprovedHasEvidence
  BY TableAccounted DEF ApprovedHasEvidence, Accounted
<1>2. QED  BY <1>1, InvCorrect, PTL

\* A record, whenever it was written, shows a row that the tables account for.
THEOREM RecordsExplainedCorrect == Spec => []RecordsExplained
<1>1. ASSUME LInv, NEW l \in Learnings, record[l] # None  PROVE Accounted(l, record[l])
  <2>1. record[l] \in Row
    BY <1>1 DEF LInv, TypeOK
  <2>2. QED  BY <1>1, <2>1, TablesKnown DEF LInv, KnownAccounted
<1>2. LInv => RecordsExplained
  BY <1>1 DEF RecordsExplained, Accounted
<1>3. QED  BY <1>2, InvCorrect, PTL

\* However many captures overlap under a key, it has one learning, with the
\* evidence of one capture.
THEOREM RetryCreatesNothingCorrect == Spec => []RetryCreatesNothing
<1>1. LInv => RetryCreatesNothing
  BY DEF LInv
<1>2. QED  BY <1>1, InvCorrect, PTL

\* Rows and records are those that some decision gave, with its evidence.
THEOREM StoresExplainedCorrect == Spec => []StoresExplained
<1>1. RowsExplained /\ RecordsExplained /\ ApprovedHasEvidence => StoresExplained
  BY DEF StoresExplained
<1>2. QED
  BY <1>1, RowsExplainedCorrect, RecordsExplainedCorrect, ApprovedHasEvidenceCorrect, PTL

\* However operations overlap, fail or die, no event tells of a change that was
\* not committed, and only a fault or an event yet to come leaves one untold.
THEOREM ChangesAuditedCorrect == Spec => []ChangesAudited
<1>1. Init => ChangesAudited
  <2>1. SUFFICES ASSUME Init, NEW l \in Learnings, NEW op \in Operations
                 PROVE  Audited(l, op)
    BY DEF ChangesAudited, Audited
  <2>2. Unaudited(l, op) = {}
    <3>1. \A self \in Procs : proc[self].pc = "idle"
      BY <2>1 DEF Init, Idle
    <3>2. QED  BY <3>1 DEF Unaudited, At
  <2>3. audit[l][op] = 0 /\ Changes(l, op) = 0 /\ faults = 0
    BY <2>1 DEF Init, Changes, Exists
  <2>4. QED  BY <2>2, <2>3, FS_EmptySet DEF Audited
<1>2. LInv /\ ChangesAudited /\ [Next]_vars => ChangesAudited'
  BY ChangesAuditedStep
<1>3. QED  BY <1>1, <1>2, InvCorrect, PTL DEF Spec
=============================================================================
