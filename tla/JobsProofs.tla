---------------------------- MODULE JobsProofs ----------------------------
(***************************************************************************)
(* The leases and the run log of the job engine, for any number of jobs,   *)
(* processes, runs and owner names, shared or not.                         *)
(*                                                                         *)
(* A process holds a lease only in the part of a call between taking and   *)
(* giving back (HoldsInside), and there the table has its lease unless it  *)
(* is named in lost (HolderIsOwner). For the audit trail, RunKnown says    *)
(* what log row a run has at each step of RunOne, and OneProcess that a    *)
(* run has one process.                                                    *)
(***************************************************************************)
EXTENDS Jobs, WellFoundedInduction, TLAPS

USE DEF Kinds, Pc

(***************************************************************************)
(* The type invariant.                                                     *)
(***************************************************************************)

\* RunDue asks for the next job only while there is one.
DueHasJobs == \A p \in Procs : At(p, "due") => proc[p].todo # {}

TInv == TypeOK /\ DueHasJobs

\* The log row of a run that is under way is the one its step left.
Stub == [state |-> "pending", attempt |-> 0]
Begun == [state |-> "pending", attempt |-> 1]

RunKnown == \A p \in Procs :
    /\ proc[p].pc \in {"acquire", "held", "running"} =>
          proc[p].run \in 1..runs /\ log[proc[p].run] = Stub
    /\ proc[p].pc \in {"body", "release", "terminal"} =>
          proc[p].run \in 1..runs /\ log[proc[p].run] = Begun
    /\ proc[p].pc \notin {"acquire", "held", "running", "body", "release", "terminal"} =>
          proc[p].run = 0

\* The record of a process outside every call.
LEMMA IdleType == Idle \in Process
BY NamesAssumption DEF Idle, Process

\* The first job of a list is in it.
LEMMA FirstType ==
  ASSUME NEW S \in SUBSET Jobs, S # {}
  PROVE  FirstOf(S) \in S
<1>1. S \in SUBSET Nat
  BY NamesAssumption
<1>2. \E j \in S : \A k \in S : <<k, j>> \notin OpToRel(<, Nat)
  BY <1>1, NatLessThanWellFounded, WFMin
<1>3. \E j \in S : \A k \in S : j <= k
  <2>1. PICK j \in S : \A k \in S : <<k, j>> \notin OpToRel(<, Nat)
    BY <1>2
  <2>2. \A k \in S : ~(k < j)
    BY <1>1, <2>1 DEF OpToRel
  <2>3. \A k \in S : j <= k
    BY <1>1, <2>2
  <2>4. QED  BY <2>3
<1>4. QED  BY <1>3 DEF FirstOf

\* What may stand in a row of job_state.
GoodRow(x) ==
    /\ x \in Row \cup {NoRow}
    /\ x # NoRow =>
          /\ (x.status = "running") <=> (x.owner # NoOwner)
          /\ (x.status = "running") <=> (x.expiry # "none")

\* The rows the engine writes.
LEMMA WrittenRows ==
  /\ \A status \in {"idle", "ok", "degraded", "error"} : GoodRow(FreeRow(status))
  /\ \A p \in Procs : GoodRow(Lease(p)) /\ Lease(p) # NoRow
<1>1. \A status \in {"idle", "ok", "degraded", "error"} : GoodRow(FreeRow(status))
  BY DEF GoodRow, FreeRow, Row
<1>2. ASSUME NEW p \in Procs
      PROVE  GoodRow(Lease(p)) /\ Lease(p) # NoRow
  <2>1. OwnerOf[p] \in Owners /\ OwnerOf[p] # NoOwner
    BY NamesAssumption
  <2>2. Lease(p) \in Row
    BY <2>1 DEF Lease, Row
  <2>3. QED  BY <2>1, <2>2, RowsAssumption DEF GoodRow, Lease
<1>3. QED  BY <1>1, <1>2

\* Writing one good row keeps the table good.
LEMMA RowWritten ==
  ASSUME TypeOK, NEW j \in Jobs, NEW x, GoodRow(x), row' = [row EXCEPT ![j] = x]
  PROVE  /\ row' \in [Jobs -> Row \cup {NoRow}]
         /\ \A k \in Jobs : GoodRow(row'[k])
<1>1. \A k \in Jobs : GoodRow(row[k])
  BY DEF TypeOK, GoodRow
<1>2. row' \in [Jobs -> Row \cup {NoRow}]
  BY DEF TypeOK, GoodRow
<1>3. \A k \in Jobs : row'[k] = IF k = j THEN x ELSE row[k]
  BY DEF TypeOK
<1>4. QED  BY <1>1, <1>2, <1>3

\* A process record with other fields of the right kind is a process record.
LEMMA ProcessWritten ==
  ASSUME TInv, NEW p \in Procs, NEW x \in Process, x.pc = "due" => x.todo # {},
         proc' = [proc EXCEPT ![p] = x]
  PROVE  proc' \in [Procs -> Process] /\ DueHasJobs'
BY DEF TInv, TypeOK, DueHasJobs, At

\* Returning, and going on with the rest of a list, leave process records.
LEMMA ReturnType ==
  ASSUME TInv, NEW p \in Procs, Return(p)
  PROVE  proc' \in [Procs -> Process] /\ DueHasJobs'
<1>1. Idle.pc # "due"
  BY DEF Idle
<1>2. QED  BY <1>1, IdleType, ProcessWritten DEF Return

LEMMA NextJobType ==
  ASSUME TInv, NEW p \in Procs, NEW rest \in SUBSET Jobs, NextJob(p, rest)
  PROVE  proc' \in [Procs -> Process] /\ DueHasJobs'
<1>1. CASE rest = {}
  <2>1. Return(p)  BY <1>1 DEF NextJob, Return
  <2>2. QED  BY <2>1, ReturnType
<1>2. CASE rest # {}
  <2>1. [Idle EXCEPT !.pc = "due", !.todo = rest] \in Process
    BY IdleType DEF Process
  <2>2. proc' = [proc EXCEPT ![p] = [Idle EXCEPT !.pc = "due", !.todo = rest]]
    BY <1>2 DEF NextJob
  <2>3. [Idle EXCEPT !.pc = "due", !.todo = rest].todo # {}
    BY <1>2 DEF Idle
  <2>4. QED  BY <2>1, <2>2, <2>3, ProcessWritten
<1>3. QED  BY <1>1, <1>2

\* Going on to another step than "due" leaves process records.
LEMMA GotoType ==
  ASSUME TInv, NEW p \in Procs, NEW pc \in Pc, pc # "due", Goto(p, pc)
  PROVE  proc' \in [Procs -> Process] /\ DueHasJobs'
<1>1. proc[p] \in Process
  BY DEF TInv, TypeOK
<1>2. [proc[p] EXCEPT !.pc = pc] \in Process /\ [proc[p] EXCEPT !.pc = pc].pc # "due"
  BY <1>1 DEF Process
<1>3. proc' = [proc EXCEPT ![p] = [proc[p] EXCEPT !.pc = pc]]
  BY DEF Goto
<1>4. QED  BY <1>2, <1>3, ProcessWritten

\* Spending counts.
LEMMA SpendType ==
  ASSUME TypeOK, NEW k \in Kinds, Spend(k)
  PROVE  used' \in [Kinds -> Nat]
BY DEF TypeOK, Spend

\* Writing a log row and an event of the right kind.
LEMMA RecordType ==
  ASSUME TypeOK, NEW r \in Runs, NEW state, NEW attempt, NEW event \in Events,
         [state |-> state, attempt |-> attempt] \in LogRow,
         Record(r, state, attempt, event)
  PROVE  log' \in [Runs -> LogRow \cup {NoRow}] /\ trail' \in [Runs -> Seq(Events)]
<1>1. Append(trail[r], event) \in Seq(Events)
  BY DEF TypeOK
<1>2. QED  BY <1>1 DEF TypeOK, Record

\* Every action keeps the types.
LEMMA RegisterType ==
  ASSUME TInv, NEW self \in Procs, NEW k \in Jobs,
         RegisterEntry(self, k) \/ RegisterState(self)
  PROVE  TInv'
<1>1. CASE RegisterEntry(self, k)
  <2>1. [proc[self] EXCEPT !.pc = "register", !.job = k] \in Process
    BY DEF TInv, TypeOK, Process
  <2>2. [proc[self] EXCEPT !.pc = "register", !.job = k].pc # "due"
    BY DEF TInv, TypeOK, Process
  <2>3. proc' = [proc EXCEPT ![self] = [proc[self] EXCEPT !.pc = "register", !.job = k]]
    BY <1>1 DEF RegisterEntry
  <2>4. proc' \in [Procs -> Process] /\ DueHasJobs'
    BY <2>1, <2>2, <2>3, ProcessWritten
  <2>5. used' \in [Kinds -> Nat]
    BY <1>1, SpendType DEF RegisterEntry, TInv
  <2>6. QED  BY <1>1, <2>4, <2>5 DEF RegisterEntry, TInv, TypeOK
<1>2. CASE RegisterState(self)
  <2> DEFINE j == proc[self].job
  <2>1. j \in Jobs
    BY DEF TInv, TypeOK, Process
  <2>2. row' \in [Jobs -> Row \cup {NoRow}] /\ \A i \in Jobs : GoodRow(row'[i])
    BY <1>2, <2>1, WrittenRows, RowWritten DEF RegisterState, TInv
  <2>3. proc' \in [Procs -> Process] /\ DueHasJobs'
    BY <1>2, ReturnType DEF RegisterState
  <2>4. lost' \subseteq Procs
    BY <1>2 DEF RegisterState, Overwrite, TInv, TypeOK
  <2>5. QED  BY <1>2, <2>2, <2>3, <2>4 DEF RegisterState, TInv, TypeOK, GoodRow
<1>3. QED  BY <1>1, <1>2

LEMMA ClockType ==
  ASSUME TInv, NEW k \in Jobs, RecoverStaleLeases \/ Expire(k)
  PROVE  TInv'
<1>0. \A j \in Jobs : GoodRow(row[j])
  BY DEF TInv, TypeOK, GoodRow
<1>1. CASE RecoverStaleLeases
  <2>1. \A j \in Jobs : GoodRow(row'[j])
    BY <1>0, <1>1, WrittenRows DEF RecoverStaleLeases
  <2>2. row' \in [Jobs -> Row \cup {NoRow}]
    BY <1>0, <1>1, WrittenRows DEF RecoverStaleLeases, GoodRow
  <2>3. UNCHANGED <<registered, log, trail, proc, runs, lost, used>>
    BY <1>1 DEF RecoverStaleLeases
  <2>4. QED  BY <2>1, <2>2, <2>3 DEF TInv, TypeOK, GoodRow, DueHasJobs, At
<1>2. CASE Expire(k)
  <2>1. row[k] \in Row /\ row[k].status = "running" /\ row[k].expiry = "live"
    BY <1>2 DEF Expire, Running, TInv, TypeOK
  <2>2. GoodRow([row[k] EXCEPT !.expiry = "past"])
    BY <1>0, <2>1, RowsAssumption DEF GoodRow, Row
  <2>3. row' = [row EXCEPT ![k] = [row[k] EXCEPT !.expiry = "past"]]
    BY <1>2 DEF Expire
  <2>4. row' \in [Jobs -> Row \cup {NoRow}] /\ \A i \in Jobs : GoodRow(row'[i])
    BY <2>2, <2>3, RowWritten DEF TInv
  <2>5. \A p \in Procs : [proc[p] EXCEPT !.holds = FALSE] \in Process
    BY DEF TInv, TypeOK, Process
  <2>6. proc' \in [Procs -> Process]
    BY <1>2, <2>5 DEF Expire, TInv, TypeOK
  <2>7. DueHasJobs'
    BY <1>2 DEF Expire, TInv, TypeOK, Process, DueHasJobs, At
  <2>8. QED  BY <1>2, <2>4, <2>6, <2>7 DEF Expire, TInv, TypeOK, GoodRow
<1>3. QED  BY <1>1, <1>2

\* The part of RunOne before the body.
LEMMA StartType ==
  ASSUME TInv, NEW self \in Procs, NEW k \in Jobs, WritePending(self, k)
  PROVE  TInv'
<1>1. runs + 1 \in Runs /\ runs' \in 0..MaxRuns
  BY BoundAssumption DEF WritePending, TInv, TypeOK, Runs
<1>2. log' \in [Runs -> LogRow \cup {NoRow}] /\ trail' \in [Runs -> Seq(Events)]
  BY <1>1, RecordType DEF WritePending, TInv, LogRow, Events
<1>3. [proc[self] EXCEPT !.pc = "acquire", !.job = k, !.run = runs + 1] \in Process
  BY <1>1 DEF TInv, TypeOK, Process
<1>4. [proc[self] EXCEPT !.pc = "acquire", !.job = k, !.run = runs + 1].pc # "due"
  BY DEF TInv, TypeOK, Process
<1>5. proc' = [proc EXCEPT ![self] =
                 [proc[self] EXCEPT !.pc = "acquire", !.job = k, !.run = runs + 1]]
  BY DEF WritePending
<1>6. proc' \in [Procs -> Process] /\ DueHasJobs'
  BY <1>3, <1>4, <1>5, ProcessWritten
<1>7. QED  BY <1>1, <1>2, <1>6 DEF WritePending, TInv, TypeOK

LEMMA AcquireType ==
  ASSUME TInv, NEW self \in Procs, AcquireForRun(self)
  PROVE  TInv'
<1>1. proc[self].job \in Jobs
  BY DEF TInv, TypeOK, Process
<1>2. CASE Goto(self, "held") /\ UNCHANGED <<row, lost>>
  <2>1. proc' \in [Procs -> Process] /\ DueHasJobs'
    BY <1>2, GotoType
  <2>2. QED  BY <1>2, <2>1 DEF AcquireForRun, TInv, TypeOK
<1>3. CASE /\ row' = [row EXCEPT ![proc[self].job] = Lease(self)]
           /\ lost' = lost \ {self}
           /\ proc' = [proc EXCEPT ![self].pc = "running", ![self].holds = TRUE]
  <2>1. row' \in [Jobs -> Row \cup {NoRow}] /\ \A i \in Jobs : GoodRow(row'[i])
    BY <1>1, <1>3, WrittenRows, RowWritten DEF TInv
  <2>2. [proc[self] EXCEPT !.pc = "running", !.holds = TRUE] \in Process
    BY DEF TInv, TypeOK, Process
  <2>3. [proc[self] EXCEPT !.pc = "running", !.holds = TRUE].pc # "due"
    BY DEF TInv, TypeOK, Process
  <2>4. proc' = [proc EXCEPT ![self] = [proc[self] EXCEPT !.pc = "running", !.holds = TRUE]]
    BY <1>3
  <2>5. proc' \in [Procs -> Process] /\ DueHasJobs'
    BY <2>2, <2>3, <2>4, ProcessWritten
  <2>6. QED  BY <1>3, <2>1, <2>5 DEF AcquireForRun, TInv, TypeOK, GoodRow
<1>4. QED  BY <1>2, <1>3 DEF AcquireForRun

LEMMA RunStepType ==
  ASSUME TInv, RunKnown, NEW self \in Procs,
         CommitLeaseHeld(self) \/ WriteRunning(self) \/ CommitTerminal(self)
  PROVE  TInv'
<1> DEFINE r == proc[self].run
<1>0. r \in Runs
  BY BoundAssumption DEF RunKnown, TInv, TypeOK, Runs, CommitLeaseHeld, WriteRunning,
                         CommitTerminal, At
<1>1. CASE CommitLeaseHeld(self)
  <2>1. log' \in [Runs -> LogRow \cup {NoRow}] /\ trail' \in [Runs -> Seq(Events)]
    BY <1>0, <1>1, RecordType DEF CommitLeaseHeld, TInv, LogRow, Events
  <2>2. proc' \in [Procs -> Process] /\ DueHasJobs'
    BY <1>1, ReturnType DEF CommitLeaseHeld
  <2>3. QED  BY <1>1, <2>1, <2>2 DEF CommitLeaseHeld, TInv, TypeOK
<1>2. CASE WriteRunning(self)
  <2>1. log[r].state = "pending"
    BY <1>2 DEF WriteRunning, RunKnown, At, Stub
  <2>2. log' \in [Runs -> LogRow \cup {NoRow}] /\ trail' \in [Runs -> Seq(Events)]
    BY <1>0, <1>2, <2>1, RecordType DEF WriteRunning, TInv, LogRow, Events
  <2>3. proc' \in [Procs -> Process] /\ DueHasJobs'
    BY <1>2, GotoType DEF WriteRunning
  <2>4. QED  BY <1>2, <2>2, <2>3 DEF WriteRunning, TInv, TypeOK
<1>3. CASE CommitTerminal(self)
  <2>1. log' \in [Runs -> LogRow \cup {NoRow}] /\ trail' \in [Runs -> Seq(Events)]
    <3>1. CASE proc[self].result = "ok"
      BY <1>0, <1>3, <3>1, RecordType DEF CommitTerminal, TInv, LogRow, Events
    <3>2. CASE proc[self].result # "ok"
      BY <1>0, <1>3, <3>2, RecordType DEF CommitTerminal, TInv, LogRow, Events
    <3>3. QED  BY <3>1, <3>2
  <2>2. proc' \in [Procs -> Process] /\ DueHasJobs'
    BY <1>3, ReturnType DEF CommitTerminal
  <2>3. QED  BY <1>3, <2>1, <2>2 DEF CommitTerminal, TInv, TypeOK
<1>4. QED  BY <1>1, <1>2, <1>3

LEMMA ReleaseType ==
  ASSUME TInv, NEW self \in Procs, Body(self) \/ ReleaseRun(self)
  PROVE  TInv'
<1> DEFINE j == proc[self].job
<1>0. j \in Jobs /\ proc[self].result \in {"ok", "degraded", "error"}
  BY DEF TInv, TypeOK, Process
<1>1. CASE Body(self)
  <2>1. PICK result \in {"ok", "error"} :
           proc' = [proc EXCEPT ![self].pc = "release", ![self].result = result]
    BY <1>1 DEF Body
  <2> DEFINE x == [proc[self] EXCEPT !.pc = "release", !.result = result]
  <2>2. x \in Process /\ x.pc # "due"
    BY DEF TInv, TypeOK, Process
  <2>3. proc' = [proc EXCEPT ![self] = x]
    BY <2>1
  <2>4. proc' \in [Procs -> Process] /\ DueHasJobs'
    BY <2>2, <2>3, ProcessWritten
  <2>5. QED  BY <1>1, <2>4 DEF Body, TInv, TypeOK
<1>2. CASE ReleaseRun(self)
  <2>1. CASE Return(self) /\ UNCHANGED row
    <3>1. proc' \in [Procs -> Process] /\ DueHasJobs'
      BY <2>1, ReturnType
    <3>2. QED  BY <1>2, <2>1, <3>1 DEF ReleaseRun, TInv, TypeOK
  <2>2. CASE /\ row' = [row EXCEPT ![j] = FreeRow(proc[self].result)]
             /\ proc' = [proc EXCEPT ![self].pc = "terminal", ![self].holds = FALSE]
    <3> DEFINE x == [proc[self] EXCEPT !.pc = "terminal", !.holds = FALSE]
    <3>1. row' \in [Jobs -> Row \cup {NoRow}] /\ \A i \in Jobs : GoodRow(row'[i])
      BY <1>0, <2>2, WrittenRows, RowWritten DEF TInv
    <3>2. x \in Process /\ x.pc # "due"
      BY DEF TInv, TypeOK, Process
    <3>3. proc' = [proc EXCEPT ![self] = x]
      BY <2>2
    <3>4. proc' \in [Procs -> Process] /\ DueHasJobs'
      BY <3>2, <3>3, ProcessWritten
    <3>5. QED  BY <1>2, <3>1, <3>4 DEF ReleaseRun, TInv, TypeOK, GoodRow
  <2>3. QED  BY <1>2, <2>1, <2>2 DEF ReleaseRun
<1>3. QED  BY <1>1, <1>2

\* The steps of RunDue.
LEMMA TakeDueType ==
  ASSUME TInv, NEW self \in Procs, ListDue(self) \/ AcquireDue(self)
  PROVE  TInv'
<1> DEFINE todo == proc[self].todo
<1>0. todo \in SUBSET Jobs
  BY DEF TInv, TypeOK, Process
<1>1. CASE ListDue(self)
  <2> DEFINE due == {j \in Jobs : row[j] # NoRow /\ row[j].status \notin {"ok", "error"}}
             x == [proc[self] EXCEPT !.pc = "due", !.todo = due]
  <2>1. x \in Process /\ x.todo = due
    BY DEF TInv, TypeOK, Process
  <2>2. due # {}
    BY <1>1 DEF ListDue
  <2>3. proc' = [proc EXCEPT ![self] = x]
    BY <1>1 DEF ListDue
  <2>4. proc' \in [Procs -> Process] /\ DueHasJobs'
    <3> HIDE DEF x
    <3>1. QED  BY <2>1, <2>2, <2>3, ProcessWritten
  <2>5. used' \in [Kinds -> Nat]
    BY <1>1, SpendType DEF ListDue, TInv
  <2>6. QED  BY <1>1, <2>4, <2>5 DEF ListDue, TInv, TypeOK
<1>2. CASE AcquireDue(self)
  <2> DEFINE j == FirstOf(todo)
  <2>0. todo # {}
    BY <1>2 DEF AcquireDue, TInv, DueHasJobs
  <2>1. j \in Jobs
    BY <1>0, <2>0, FirstType
  <2>2. CASE NextJob(self, todo \ {j}) /\ UNCHANGED <<row, lost>>
    <3>1. proc' \in [Procs -> Process] /\ DueHasJobs'
      BY <1>0, <2>2, NextJobType
    <3>2. QED  BY <1>2, <2>2, <3>1 DEF AcquireDue, TInv, TypeOK
  <2>3. CASE /\ row' = [row EXCEPT ![j] = Lease(self)]
             /\ lost' = lost \ {self}
             /\ proc' = [proc EXCEPT ![self] =
                           [Idle EXCEPT !.pc = "execute", !.job = j, !.todo = todo \ {j},
                                        !.holds = TRUE]]
    <3> DEFINE x == [Idle EXCEPT !.pc = "execute", !.job = j, !.todo = todo \ {j},
                                 !.holds = TRUE]
    <3>1. row' \in [Jobs -> Row \cup {NoRow}] /\ \A i \in Jobs : GoodRow(row'[i])
      BY <2>1, <2>3, WrittenRows, RowWritten DEF TInv
    <3>2. x \in Process /\ x.pc # "due"
      BY <1>0, <2>1, IdleType DEF Process
    <3>3. proc' \in [Procs -> Process] /\ DueHasJobs'
      <4> HIDE DEF x
      <4>1. proc' = [proc EXCEPT ![self] = x]
        BY <2>3 DEF x
      <4>2. QED  BY <3>2, <4>1, ProcessWritten
    <3>4. QED  BY <1>2, <2>3, <3>1, <3>3 DEF AcquireDue, TInv, TypeOK, GoodRow
  <2>4. QED  BY <1>2, <2>2, <2>3 DEF AcquireDue
<1>3. QED  BY <1>1, <1>2

LEMMA WorkDueType ==
  ASSUME TInv, NEW self \in Procs,
         ExecuteDue(self) \/ ReadRow(self) \/ WriteRow(self)
  PROVE  TInv'
<1>0. /\ proc[self].job \in Jobs /\ proc[self].todo \in SUBSET Jobs
      /\ proc[self].result \in {"ok", "degraded", "error"}
  BY DEF TInv, TypeOK, Process
<1>1. CASE ExecuteDue(self)
  <2>1. PICK result \in {"ok", "degraded", "error"} :
          \/ proc' = [proc EXCEPT ![self].attempt = @ + 1]
          \/ proc' = [proc EXCEPT ![self].pc = "read", ![self].result = result]
    BY <1>1 DEF ExecuteDue
  <2> DEFINE x == [proc[self] EXCEPT !.attempt = proc[self].attempt + 1]
             y == [proc[self] EXCEPT !.pc = "read", !.result = result]
  <2>6. proc[self] \in Process /\ proc[self].pc = "execute" /\ proc[self].attempt + 1 \in Nat
    BY <1>1 DEF TInv, TypeOK, Process, ExecuteDue, At
  <2>7. x \in Process /\ x.pc # "due"
    BY <2>6 DEF Process
  <2>8. y \in Process /\ y.pc # "due"
    BY <2>6 DEF Process
  <2>2. x \in Process /\ y \in Process /\ x.pc # "due" /\ y.pc # "due"
    BY <2>7, <2>8
  <2>3. proc' = [proc EXCEPT ![self] = x] \/ proc' = [proc EXCEPT ![self] = y]
    BY <2>1
  <2>4. proc' \in [Procs -> Process] /\ DueHasJobs'
    <3> HIDE DEF x, y
    <3>1. QED  BY <2>2, <2>3, ProcessWritten
  <2>5. QED  BY <1>1, <2>4 DEF ExecuteDue, TInv, TypeOK
<1>2. CASE ReadRow(self)
  <2>1. proc' \in [Procs -> Process] /\ DueHasJobs'
    BY <1>0, <1>2, GotoType, NextJobType DEF ReadRow
  <2>2. QED  BY <1>2, <2>1 DEF ReadRow, TInv, TypeOK
<1>3. CASE WriteRow(self)
  <2>1. row' \in [Jobs -> Row \cup {NoRow}] /\ \A i \in Jobs : GoodRow(row'[i])
    BY <1>0, <1>3, WrittenRows, RowWritten DEF WriteRow, TInv
  <2>2. proc' \in [Procs -> Process] /\ DueHasJobs'
    BY <1>0, <1>3, NextJobType DEF WriteRow
  <2>3. lost' \subseteq Procs
    BY <1>3 DEF WriteRow, Overwrite, TInv, TypeOK
  <2>4. QED  BY <1>3, <2>1, <2>2, <2>3 DEF WriteRow, TInv, TypeOK, GoodRow
<1>4. QED  BY <1>1, <1>2, <1>3

LEMMA FailureType ==
  ASSUME TInv, NEW self \in Procs, Cancel(self) \/ Fault(self) \/ Interrupt(self)
  PROVE  TInv'
<1>1. used' \in [Kinds -> Nat]
  BY SpendType DEF Cancel, Fault, Interrupt, TInv
<1>2. proc[self].todo \in SUBSET Jobs
  BY DEF TInv, TypeOK, Process
<1>3. proc' \in [Procs -> Process] /\ DueHasJobs'
  <2>1. CASE Cancel(self)  BY <2>1, ReturnType DEF Cancel
  <2>2. CASE Interrupt(self)  BY <2>2, ReturnType DEF Interrupt
  <2>3. CASE Fault(self)
    <3>1. CASE Goto(self, "held")  BY <3>1, GotoType
    <3>2. CASE Return(self)  BY <3>2, ReturnType
    <3>3. CASE NextJob(self, proc[self].todo \ {FirstOf(proc[self].todo)})
      BY <1>2, <3>3, NextJobType
    <3>4. CASE NextJob(self, proc[self].todo)  BY <1>2, <3>4, NextJobType
    <3>5. QED  BY <2>3, <3>1, <3>2, <3>3, <3>4 DEF Fault
  <2>4. QED  BY <2>1, <2>2, <2>3
<1>4. QED  BY <1>1, <1>3 DEF Cancel, Fault, Interrupt, TInv, TypeOK

\* One step keeps the types, given what is known of the runs under way.
LEMMA TypeStep ==
  ASSUME TInv, RunKnown, [Next]_vars
  PROVE  TInv'
<1>1. CASE UNCHANGED vars
  BY <1>1 DEF vars, TInv, TypeOK, DueHasJobs, At
<1>2. ASSUME NEW self \in Procs,
             \/ Step(self)
             \/ \E j \in Jobs : RegisterEntry(self, j) \/ WritePending(self, j)
             \/ ListDue(self) \/ Cancel(self) \/ Fault(self) \/ Interrupt(self)
      PROVE  TInv'
  <2>1. PICK k : k \in Jobs
    BY NamesAssumption
  <2>2. CASE \E j \in Jobs : RegisterEntry(self, j) \/ WritePending(self, j)
    BY <2>2, RegisterType, StartType
  <2>3. CASE Step(self)
    BY <2>1, <2>3, RegisterType, AcquireType, RunStepType, ReleaseType, TakeDueType, WorkDueType
       DEF Step
  <2>4. CASE ListDue(self)  BY <2>4, TakeDueType
  <2>5. CASE Cancel(self) \/ Fault(self) \/ Interrupt(self)  BY <2>5, FailureType
  <2>6. QED  BY <1>2, <2>2, <2>3, <2>4, <2>5
<1>4. ASSUME NEW k \in Jobs, RecoverStaleLeases \/ Expire(k)
      PROVE  TInv'
  BY <1>4, ClockType
<1>5. CASE Next
  BY <1>2, <1>4, <1>5, NamesAssumption DEF Next
<1>6. QED  BY <1>1, <1>5

(***************************************************************************)
(* Runs, their log rows and their audit trail.                             *)
(***************************************************************************)

\* A run has one process, and the ids not minted yet have no row.
OneProcess == \A p, q \in Procs : p # q /\ proc[p].run # 0 => proc[p].run # proc[q].run
FreshRuns == \A r \in Runs : r > runs => log[r] = NoRow

RInv == RunKnown /\ OneProcess /\ FreshRuns /\ AuditFollowsLog

\* The part of RunOne a step belongs to, as far as its log row goes.
Part(pc) == IF pc \in {"acquire", "held", "running"} THEN "stub"
            ELSE IF pc \in {"body", "release", "terminal"} THEN "begun" ELSE "out"

\* A process goes on in its part of a run, or is in no run any more.
Stays(p) ==
    \/ proc'[p].run = proc[p].run /\ Part(proc'[p].pc) = Part(proc[p].pc)
    \/ proc'[p].run = 0 /\ Part(proc'[p].pc) = "out"

\* The trails the log rows stand for.
LEMMA Trails ==
  /\ TrailOf(NoRow) = <<>>
  /\ TrailOf(Stub) = <<"job_pending">>
  /\ TrailOf(Begun) = <<"job_pending", "job_running">>
  /\ TrailOf([state |-> "lease_held", attempt |-> 0]) = <<"job_pending", "job_failed">>
  /\ TrailOf([state |-> "succeeded", attempt |-> 1]) =
        <<"job_pending", "job_running", "job_succeeded">>
  /\ TrailOf([state |-> "failed", attempt |-> 1]) =
        <<"job_pending", "job_running", "job_failed">>
<1>1. \A l \in LogRow : l # NoRow
  BY RowsAssumption
<1>2. /\ Stub \in LogRow /\ Begun \in LogRow
      /\ [state |-> "lease_held", attempt |-> 0] \in LogRow
      /\ [state |-> "succeeded", attempt |-> 1] \in LogRow
      /\ [state |-> "failed", attempt |-> 1] \in LogRow
  BY DEF Stub, Begun, LogRow
<1>3. TrailOf(NoRow) = <<>>
  BY DEF TrailOf
<1>4. TrailOf(Stub) = <<"job_pending">>
  BY <1>1, <1>2 DEF TrailOf, Stub
<1>5. TrailOf(Begun) = <<"job_pending", "job_running">>
  BY <1>1, <1>2 DEF TrailOf, Begun
<1>6. TrailOf([state |-> "lease_held", attempt |-> 0]) = <<"job_pending", "job_failed">>
  BY <1>1, <1>2 DEF TrailOf
<1>7. TrailOf([state |-> "succeeded", attempt |-> 1]) =
        <<"job_pending", "job_running", "job_succeeded">>
  BY <1>1, <1>2 DEF TrailOf
<1>8. TrailOf([state |-> "failed", attempt |-> 1]) =
        <<"job_pending", "job_running", "job_failed">>
  BY <1>1, <1>2 DEF TrailOf
<1>9. QED  BY <1>3, <1>4, <1>5, <1>6, <1>7, <1>8

\* Steps that write neither log nor trail and move every process as Stays says.
LEMMA QuietStep ==
  ASSUME TInv, TInv', RInv, UNCHANGED <<log, trail, runs>>, \A p \in Procs : Stays(p)
  PROVE  RInv'
<1>1. RunKnown'
  BY DEF RInv, RunKnown, Stays, Part
<1>2. OneProcess'
  BY DEF RInv, OneProcess, Stays
<1>3. FreshRuns' /\ AuditFollowsLog'
  BY DEF RInv, FreshRuns, AuditFollowsLog
<1>4. QED  BY <1>1, <1>2, <1>3 DEF RInv

\* Such are all steps but the four audit writes.
LEMMA QuietSteps ==
  ASSUME TInv, RInv, NEW self \in Procs, NEW k \in Jobs,
         \/ RegisterEntry(self, k) \/ RegisterState(self) \/ AcquireForRun(self)
         \/ Body(self) \/ ReleaseRun(self)
         \/ ListDue(self) \/ AcquireDue(self) \/ ExecuteDue(self) \/ ReadRow(self)
         \/ WriteRow(self) \/ Cancel(self) \/ Fault(self) \/ Interrupt(self)
         \/ RecoverStaleLeases \/ Expire(k)
  PROVE  UNCHANGED <<log, trail, runs>> /\ \A p \in Procs : Stays(p)
<1>1. UNCHANGED <<log, trail, runs>>
  BY DEF RegisterEntry, RegisterState, AcquireForRun, Body, ReleaseRun, ListDue, AcquireDue,
         ExecuteDue, ReadRow, WriteRow, Cancel, Fault, Interrupt, RecoverStaleLeases, Expire
<1> SUFFICES \A p \in Procs : Stays(p)
  BY <1>1
<1>2. proc \in [Procs -> Process]
  BY DEF TInv, TypeOK
<1>3. ASSUME Return(self)
      PROVE  \A p \in Procs : Stays(p)
  BY <1>2, <1>3 DEF Return, Stays, Part, Idle
<1>4. ASSUME NEW rest, NextJob(self, rest)
      PROVE  \A p \in Procs : Stays(p)
  BY <1>2, <1>4 DEF NextJob, Stays, Part, Idle
<1>5. ASSUME NEW pc, Goto(self, pc), Part(pc) = Part(proc[self].pc)
      PROVE  \A p \in Procs : Stays(p)
  BY <1>2, <1>5 DEF Goto, Stays, Process
<1>6. CASE RegisterEntry(self, k)
  BY <1>2, <1>6 DEF RegisterEntry, At, Stays, Part, Process
<1>7. CASE RegisterState(self)
  BY <1>3, <1>7 DEF RegisterState
<1>8. CASE AcquireForRun(self)
  <2>1. CASE Goto(self, "held")
    BY <1>5, <1>8, <2>1 DEF AcquireForRun, At, Part
  <2>2. CASE proc' = [proc EXCEPT ![self].pc = "running", ![self].holds = TRUE]
    BY <1>2, <1>8, <2>2 DEF AcquireForRun, At, Stays, Part, Process
  <2>3. QED  BY <1>8, <2>1, <2>2 DEF AcquireForRun
<1>9. CASE Body(self)
  BY <1>2, <1>9 DEF Body, At, Stays, Part, Process
<1>10. CASE ReleaseRun(self)
  <2>1. CASE Return(self)  BY <1>3, <2>1
  <2>2. CASE proc' = [proc EXCEPT ![self].pc = "terminal", ![self].holds = FALSE]
    BY <1>2, <1>10, <2>2 DEF ReleaseRun, At, Stays, Part, Process
  <2>3. QED  BY <1>10, <2>1, <2>2 DEF ReleaseRun
<1>11. CASE ListDue(self)
  BY <1>2, <1>11 DEF ListDue, At, Stays, Part, Process
<1>12. CASE AcquireDue(self)
  <2>1. CASE NextJob(self, proc[self].todo \ {FirstOf(proc[self].todo)})
    BY <1>4, <2>1
  <2> DEFINE j == FirstOf(proc[self].todo)
             x == [Idle EXCEPT !.pc = "execute", !.job = j, !.todo = proc[self].todo \ {j},
                               !.holds = TRUE]
  <2>2. CASE proc' = [proc EXCEPT ![self] = x]
    <3>1. x.run = 0 /\ x.pc = "execute"
      BY DEF Idle
    <3> HIDE DEF x
    <3>2. QED  BY <1>2, <2>2, <3>1 DEF Stays, Part
  <2>3. QED  BY <1>12, <2>1, <2>2 DEF AcquireDue
<1>13. CASE ExecuteDue(self)
  <2>1. PICK result \in {"ok", "degraded", "error"} :
          \/ proc' = [proc EXCEPT ![self].attempt = @ + 1]
          \/ proc' = [proc EXCEPT ![self].pc = "read", ![self].result = result]
    BY <1>13 DEF ExecuteDue
  <2>2. \A p \in Procs : proc'[p].run = proc[p].run
    BY <1>2, <2>1 DEF Process
  <2>3. \A p \in Procs : proc'[p].pc = proc[p].pc \/ (p = self /\ proc'[p].pc = "read")
    BY <1>2, <2>1 DEF Process
  <2>4. proc[self].pc = "execute"
    BY <1>13 DEF ExecuteDue, At
  <2>5. QED  BY <2>2, <2>3, <2>4 DEF Stays, Part
<1>14. CASE ReadRow(self)
  BY <1>4, <1>5, <1>14 DEF ReadRow, At, Part
<1>15. CASE WriteRow(self)
  BY <1>4, <1>15 DEF WriteRow
<1>16. CASE Cancel(self) \/ Interrupt(self)
  BY <1>3, <1>16 DEF Cancel, Interrupt
<1>17. CASE Fault(self)
  BY <1>3, <1>4, <1>5, <1>17 DEF Fault, At, Part
<1>18. CASE RecoverStaleLeases
  BY <1>18 DEF RecoverStaleLeases, Stays
<1>19. CASE Expire(k)
  BY <1>2, <1>19 DEF Expire, Stays, Part, Process
<1>20. QED
  BY <1>6, <1>7, <1>8, <1>9, <1>10, <1>11, <1>12, <1>13, <1>14, <1>15, <1>16, <1>17,
     <1>18, <1>19

\* An audit write of a run with this trail.
LEMMA Recorded ==
  ASSUME TInv, RInv, NEW r \in Runs, NEW state, NEW attempt, NEW event,
         Record(r, state, attempt, event),
         TrailOf([state |-> state, attempt |-> attempt]) = Append(trail[r], event)
  PROVE  /\ AuditFollowsLog'
         /\ log'[r] = [state |-> state, attempt |-> attempt]
         /\ \A q \in Runs : q # r => log'[q] = log[q]
<1>1. /\ log'[r] = [state |-> state, attempt |-> attempt]
      /\ \A q \in Runs : q # r => log'[q] = log[q]
  BY DEF Record, TInv, TypeOK
<1>2. /\ trail'[r] = Append(trail[r], event)
      /\ \A q \in Runs : q # r => trail'[q] = trail[q]
  BY DEF Record, TInv, TypeOK
<1>3. AuditFollowsLog'
  BY <1>1, <1>2 DEF RInv, AuditFollowsLog
<1>4. QED  BY <1>1, <1>3

\* The new run has a fresh id.
LEMMA StartStep ==
  ASSUME TInv, RInv, NEW self \in Procs, NEW k \in Jobs, WritePending(self, k)
  PROVE  RInv'
<1> DEFINE r == runs + 1
<1>1. runs \in 0..MaxRuns /\ r \in Runs /\ runs' = r
  BY BoundAssumption DEF WritePending, TInv, TypeOK, Runs
<1>2. TrailOf(Stub) = Append(trail[r], "job_pending")
  BY <1>1, Trails, BoundAssumption DEF RInv, FreshRuns, AuditFollowsLog, Runs
<1>3. /\ AuditFollowsLog'
      /\ log'[r] = Stub
      /\ \A q \in Runs : q # r => log'[q] = log[q]
  BY <1>1, <1>2, Recorded DEF WritePending, Stub
<1>4. \A p \in Procs : proc[p].run \in 0..runs
  BY <1>1 DEF RInv, RunKnown
<1>5. /\ proc'[self].pc = "acquire" /\ proc'[self].run = r
      /\ \A p \in Procs : p # self => proc'[p] = proc[p]
  BY DEF WritePending, TInv, TypeOK, Process
<1>6. RunKnown'
  <2>1. ASSUME NEW p \in Procs, p # self, proc[p].run # 0
        PROVE  proc[p].run \in 1..runs' /\ log'[proc[p].run] = log[proc[p].run]
    <3>1. proc[p].run \in 0..runs /\ proc[p].run # 0
      BY <1>4, <2>1
    <3>2. MaxRuns \in Nat
      BY BoundAssumption
    <3>3. proc[p].run \in 1..runs' /\ proc[p].run \in Runs /\ proc[p].run # r
      BY <1>1, <3>1, <3>2 DEF Runs
    <3>4. QED  BY <1>3, <3>3
  <2>2. 1..runs \subseteq 1..runs'
    BY <1>1
  <2>3. r \in 1..runs'
    BY <1>1 DEF Runs
  <2>4. \A p \in Procs : p # self /\ proc[p].run \in 1..runs => proc[p].run # 0
    BY <1>1
  <2>5. QED  BY <1>3, <1>5, <2>1, <2>2, <2>3, <2>4 DEF RInv, RunKnown
<1>7. OneProcess'
  BY <1>1, <1>4, <1>5 DEF RInv, OneProcess
<1>8. FreshRuns'
  BY <1>1, <1>3 DEF RInv, FreshRuns, Runs
<1>9. QED  BY <1>3, <1>6, <1>7, <1>8 DEF RInv

\* Tx-B and the two ends of a run append the one event their step is for.
LEMMA AuditSteps ==
  ASSUME TInv, RInv, NEW self \in Procs,
         CommitLeaseHeld(self) \/ WriteRunning(self) \/ CommitTerminal(self)
  PROVE  RInv'
<1> DEFINE r == proc[self].run
<1>1. runs \in 0..MaxRuns /\ r \in 1..runs /\ r \in Runs /\ runs' = runs
  BY BoundAssumption DEF RInv, RunKnown, TInv, TypeOK, Runs, CommitLeaseHeld, WriteRunning,
                         CommitTerminal, At
<1>2. /\ AuditFollowsLog'
      /\ WriteRunning(self) => log'[r] = Begun
      /\ \A q \in Runs : q # r => log'[q] = log[q]
  <2>1. CASE CommitLeaseHeld(self)
    <3>1. trail[r] = <<"job_pending">>
      BY <1>1, <2>1, Trails DEF RInv, RunKnown, AuditFollowsLog, CommitLeaseHeld, At
    <3>2. TrailOf([state |-> "lease_held", attempt |-> 0]) = Append(trail[r], "job_failed")
      BY <3>1, Trails
    <3>3. ~WriteRunning(self)
      BY <2>1 DEF CommitLeaseHeld, WriteRunning, At
    <3>4. QED  BY <1>1, <2>1, <3>2, <3>3, Recorded DEF CommitLeaseHeld
  <2>2. CASE WriteRunning(self)
    <3>1. trail[r] = <<"job_pending">> /\ log[r].state = "pending"
      BY <1>1, <2>2, Trails DEF RInv, RunKnown, AuditFollowsLog, WriteRunning, At, Stub
    <3>2. TrailOf(Begun) = Append(trail[r], "job_running")
      BY <3>1, Trails
    <3>3. Record(r, "pending", 1, "job_running")
      BY <2>2, <3>1 DEF WriteRunning
    <3>4. Begun = [state |-> "pending", attempt |-> 1]
      BY DEF Begun
    <3>5. TrailOf([state |-> "pending", attempt |-> 1]) = Append(trail[r], "job_running")
      BY <3>2, <3>4
    <3>6. /\ AuditFollowsLog'
          /\ log'[r] = [state |-> "pending", attempt |-> 1]
          /\ \A q \in Runs : q # r => log'[q] = log[q]
      <4> HIDE DEF r
      <4>1. QED  BY <1>1, <3>3, <3>5, Recorded
    <3>7. QED  BY <3>4, <3>6
  <2>3. CASE CommitTerminal(self)
    <3>1. trail[r] = <<"job_pending", "job_running">>
      BY <1>1, <2>3, Trails DEF RInv, RunKnown, AuditFollowsLog, CommitTerminal, At
    <3>2. /\ TrailOf([state |-> "succeeded", attempt |-> 1]) = Append(trail[r], "job_succeeded")
          /\ TrailOf([state |-> "failed", attempt |-> 1]) = Append(trail[r], "job_failed")
      BY <3>1, Trails
    <3>3. ~WriteRunning(self)
      BY <2>3 DEF CommitTerminal, WriteRunning, At
    <3>4. CASE proc[self].result = "ok"
      BY <1>1, <2>3, <3>2, <3>3, <3>4, Recorded DEF CommitTerminal
    <3>5. CASE proc[self].result # "ok"
      BY <1>1, <2>3, <3>2, <3>3, <3>5, Recorded DEF CommitTerminal
    <3>6. QED  BY <3>4, <3>5
  <2>4. QED  BY <2>1, <2>2, <2>3
<1>3. /\ \A p \in Procs : p # self => proc'[p] = proc[p]
      /\ \/ WriteRunning(self) /\ proc'[self].pc = "body" /\ proc'[self].run = r
         \/ proc'[self].pc = "idle" /\ proc'[self].run = 0
  BY DEF CommitLeaseHeld, WriteRunning, CommitTerminal, Goto, Return, Idle, TInv, TypeOK,
         Process
<1>4. \A p \in Procs : p # self /\ proc[p].run # 0 => proc[p].run # r
  BY DEF RInv, OneProcess
<1>5. RunKnown'
  <2>1. ASSUME NEW p \in Procs, p # self, proc[p].run \in 1..runs
        PROVE  log'[proc[p].run] = log[proc[p].run]
    <3>1. proc[p].run \in Runs /\ proc[p].run # 0
      BY <1>1, <2>1, BoundAssumption DEF Runs
    <3>2. QED  BY <1>2, <1>4, <2>1, <3>1
  <2>2. QED  BY <1>1, <1>2, <1>3, <2>1 DEF RInv, RunKnown
<1>6. OneProcess'
  BY <1>3 DEF RInv, OneProcess
<1>7. FreshRuns'
  BY <1>1, <1>2 DEF RInv, FreshRuns, Runs
<1>8. QED  BY <1>2, <1>5, <1>6, <1>7 DEF RInv

LEMMA RunStep ==
  ASSUME TInv, RInv, [Next]_vars
  PROVE  TInv' /\ RInv'
<1>1. TInv'
  BY TypeStep DEF RInv
<1> SUFFICES RInv'
  BY <1>1
<1>2. CASE UNCHANGED vars
  BY <1>2 DEF vars, RInv, RunKnown, OneProcess, FreshRuns, AuditFollowsLog
<1>3. ASSUME NEW self \in Procs, NEW k \in Jobs,
             Step(self) \/ RegisterEntry(self, k) \/ ListDue(self) \/ Cancel(self)
             \/ Fault(self) \/ Interrupt(self) \/ RecoverStaleLeases \/ Expire(k)
      PROVE  RInv'
  <2>1. CASE CommitLeaseHeld(self) \/ WriteRunning(self) \/ CommitTerminal(self)
    BY <2>1, AuditSteps
  <2>2. CASE ~(CommitLeaseHeld(self) \/ WriteRunning(self) \/ CommitTerminal(self))
    <3>1. UNCHANGED <<log, trail, runs>> /\ \A p \in Procs : Stays(p)
      BY <1>3, <2>2, QuietSteps DEF Step
    <3>2. QED  BY <1>1, <3>1, QuietStep
  <2>3. QED  BY <2>1, <2>2
<1>4. PICK k : k \in Jobs
  BY NamesAssumption
<1>5. CASE RecoverStaleLeases \/ \E j \in Jobs : Expire(j)
  <2>1. CASE Procs = {}
    BY <1>5, <2>1, <1>1 DEF RecoverStaleLeases, Expire, RInv, RunKnown, OneProcess, FreshRuns,
                            AuditFollowsLog
  <2>2. CASE Procs # {}
    BY <1>3, <1>4, <1>5, <2>2
  <2>3. QED  BY <2>1, <2>2
<1>6. ASSUME NEW self \in Procs,
             \/ Step(self)
             \/ \E j \in Jobs : RegisterEntry(self, j) \/ WritePending(self, j)
             \/ ListDue(self) \/ Cancel(self) \/ Fault(self) \/ Interrupt(self)
      PROVE  RInv'
  <2>1. CASE \E j \in Jobs : WritePending(self, j)
    BY <2>1, StartStep
  <2>2. CASE \E j \in Jobs : RegisterEntry(self, j)
    BY <1>3, <2>2
  <2>3. CASE Step(self) \/ ListDue(self) \/ Cancel(self) \/ Fault(self) \/ Interrupt(self)
    BY <1>3, <1>4, <2>3
  <2>4. QED  BY <1>6, <2>1, <2>2, <2>3
<1>7. QED  BY <1>2, <1>5, <1>6 DEF Next

(***************************************************************************)
(* Leases.                                                                 *)
(***************************************************************************)

\* A process holds a lease only between taking it and giving it back.
HoldsInside == \A p \in Procs : proc[p].holds =>
    proc[p].pc \in {"running", "body", "release", "execute", "read", "write"}

HInv == HoldsInside /\ HolderIsOwner

\* Whoever still has a lease of its own after a step, not named in lost, has
\* it where it was before, unless it is the one that takes it.
Keeps(p) ==
    proc'[p].holds /\ Unshared(p) /\ p \notin lost' =>
       /\ proc[p].holds /\ p \notin lost /\ proc'[p].job = proc[p].job
       /\ row'[proc[p].job] = row[proc[p].job]

\* What the table says of a holder's job.
LEMMA HeldRow ==
  ASSUME HolderIsOwner, NEW p \in Procs, proc[p].holds, Unshared(p), p \notin lost
  PROVE  /\ row[proc[p].job] = Lease(p)
         /\ row[proc[p].job].owner = OwnerOf[p]
         /\ row[proc[p].job].status = "running"
         /\ row[proc[p].job].expiry = "live"
<1>1. row[proc[p].job] = Lease(p)
  BY DEF HolderIsOwner
<1>2. /\ Lease(p).owner = OwnerOf[p]
      /\ Lease(p).status = "running"
      /\ Lease(p).expiry = "live"
  BY DEF Lease
<1>3. QED  BY <1>1, <1>2

\* Leases stay where they are in a step that leaves every holder its row.
LEMMA KeepsAll ==
  ASSUME HolderIsOwner, \A p \in Procs : Keeps(p)
  PROVE  HolderIsOwner'
BY DEF HolderIsOwner, Keeps, Unshared, Lease

\* A step that takes a lease takes it from nobody who holds it.
LEMMA TakeStep ==
  ASSUME TInv, HInv, NEW self \in Procs, NEW j \in Jobs, CanTake(self, j),
         row' = [row EXCEPT ![j] = Lease(self)], lost' = lost \ {self},
         \A p \in Procs : p # self => proc'[p] = proc[p],
         proc'[self].job = j
  PROVE  HolderIsOwner'
<1>1. ASSUME NEW p \in Procs, p # self, proc'[p].holds, Unshared(p), p \notin lost'
      PROVE  row'[proc'[p].job] = Lease(p)
  <2>1. proc'[p] = proc[p] /\ p \notin lost /\ proc[p].job \in Jobs
    BY <1>1 DEF TInv, TypeOK, Process
  <2>2. row[proc[p].job] = Lease(p)
    BY <1>1, <2>1 DEF HInv, HolderIsOwner
  <2>3. proc[p].job # j
    <3>1. SUFFICES ASSUME proc[p].job = j  PROVE FALSE
      OBVIOUS
    <3>2. HeldByOther(self, j) /\ row[j].expiry = "live"
      BY <1>1, <2>2, <3>1, WrittenRows DEF HeldByOther, Running, Lease, Unshared
    <3>3. QED  BY <3>2 DEF CanTake
  <2>4. QED  BY <2>1, <2>2, <2>3 DEF TInv, TypeOK
<1>2. row'[proc'[self].job] = Lease(self)
  BY DEF TInv, TypeOK
<1>3. ASSUME NEW p \in Procs, proc'[p].holds, Unshared(p), p \notin lost'
      PROVE  row'[proc'[p].job] = Lease(p)
  BY <1>1, <1>2, <1>3
<1>4. QED  BY <1>3 DEF HolderIsOwner, Unshared, Lease

\* A step that writes the row of a job, and after which no process but those
\* named in lost holds that job.
LEMMA FreeStep ==
  ASSUME TInv, HInv, NEW self \in Procs, NEW j \in Jobs, NEW x,
         row' = [row EXCEPT ![j] = x],
         \A p \in Procs : p # self => proc'[p] = proc[p],
         ~proc'[self].holds, lost \subseteq lost',
         \A p \in Procs : p # self /\ proc[p].holds /\ Unshared(p) /\ proc[p].job = j
                           => p \in lost'
  PROVE  HolderIsOwner'
<1>1. \A p \in Procs : proc[p].job \in Jobs
  BY DEF TInv, TypeOK, Process
<1>2. \A k \in Jobs : k # j => row'[k] = row[k]
  BY DEF TInv, TypeOK
<1>3. \A p \in Procs : Keeps(p)
  BY <1>1, <1>2 DEF Keeps
<1>4. QED  BY <1>3, KeepsAll DEF HInv

\* The lease of a holder is not stale, and only the holder releases it.
LEMMA ReleaseStep ==
  ASSUME TInv, HInv, NEW self \in Procs, ReleaseRun(self)
  PROVE  HolderIsOwner'
<1> DEFINE j == proc[self].job
<1>0. j \in Jobs /\ \A p \in Procs : p # self => proc'[p] = proc[p]
  BY DEF ReleaseRun, Return, TInv, TypeOK, Process
<1>1. CASE Return(self) /\ UNCHANGED row
  <2>1. ~proc'[self].holds
    BY <1>1 DEF Return, Idle, TInv, TypeOK
  <2>2. \A p \in Procs : Keeps(p)
    BY <1>0, <1>1, <2>1 DEF Keeps, ReleaseRun
  <2>3. QED  BY <2>2, KeepsAll DEF HInv
<1>2. CASE /\ row[j].owner = OwnerOf[self]
           /\ row' = [row EXCEPT ![j] = FreeRow(proc[self].result)]
           /\ proc' = [proc EXCEPT ![self].pc = "terminal", ![self].holds = FALSE]
  <2>1. ~proc'[self].holds
    BY <1>2 DEF TInv, TypeOK, Process
  <2>2. \A p \in Procs : p # self /\ proc[p].holds /\ Unshared(p) /\ proc[p].job = j
                           => p \in lost'
    <3>1. SUFFICES ASSUME NEW p \in Procs, p # self, proc[p].holds, Unshared(p),
                          proc[p].job = j, p \notin lost'
                   PROVE  FALSE
      OBVIOUS
    <3>2. p \notin lost
      BY <3>1 DEF ReleaseRun
    <3>3. row[j].owner = OwnerOf[p]
      BY <3>1, <3>2, HeldRow DEF HInv
    <3>4. QED  BY <1>2, <3>1, <3>3 DEF Unshared
  <2>3. QED  BY <1>0, <1>2, <2>1, <2>2, FreeStep DEF ReleaseRun
<1>3. QED  BY <1>1, <1>2 DEF ReleaseRun

\* Register and the second statement of ReleaseLease name those they overwrite.
LEMMA OverwriteStep ==
  ASSUME TInv, HInv, NEW self \in Procs, RegisterState(self) \/ WriteRow(self)
  PROVE  HolderIsOwner'
<1> DEFINE j == proc[self].job
<1>1. j \in Jobs /\ Overwrite(self, j)
  BY DEF RegisterState, WriteRow, TInv, TypeOK, Process
<1>2. \A p \in Procs : p # self => proc'[p] = proc[p]
  BY DEF RegisterState, WriteRow, Return, NextJob, TInv, TypeOK
<1>3. ~proc'[self].holds
  <2>1. \E x : proc' = [proc EXCEPT ![self] = x] /\ ~x.holds
    <3>1. ~Idle.holds /\ \A S : ~[Idle EXCEPT !.pc = "due", !.todo = S].holds
      BY DEF Idle
    <3>2. CASE Return(self)  BY <3>1, <3>2 DEF Return
    <3>3. CASE NextJob(self, proc[self].todo)
      <4>1. CASE proc[self].todo = {}  BY <3>1, <3>3, <4>1 DEF NextJob
      <4>2. CASE proc[self].todo # {}  BY <3>1, <3>3, <4>2 DEF NextJob
      <4>3. QED  BY <4>1, <4>2
    <3>4. QED  BY <3>2, <3>3 DEF RegisterState, WriteRow
  <2>2. QED  BY <2>1 DEF TInv, TypeOK
<1>4. PICK x : row' = [row EXCEPT ![j] = x]
  BY DEF RegisterState, WriteRow
<1>5. lost \subseteq lost'
  BY <1>1 DEF Overwrite
<1>6. \A p \in Procs : p # self /\ proc[p].holds /\ Unshared(p) /\ proc[p].job = j
                         => p \in lost'
  BY <1>1 DEF Overwrite
<1>7. QED
  <2> HIDE DEF j
  <2>1. QED  BY <1>1, <1>2, <1>3, <1>4, <1>5, <1>6, FreeStep

\* The passing of a deadline ends the holding, and the recovery clears only
\* rows whose deadline has passed.
LEMMA ClockStep ==
  ASSUME TInv, HInv, NEW k \in Jobs, RecoverStaleLeases \/ Expire(k)
  PROVE  HolderIsOwner'
<1>0. \A p \in Procs : proc[p].job \in Jobs
  BY DEF TInv, TypeOK, Process
<1>1. CASE RecoverStaleLeases
  <2>1. \A p \in Procs : proc[p].holds /\ Unshared(p) /\ p \notin lost
                           => ~Stale(proc[p].job)
    BY HeldRow DEF HInv, Stale
  <2>2. \A p \in Procs : Keeps(p)
    BY <1>0, <1>1, <2>1 DEF Keeps, RecoverStaleLeases
  <2>3. QED  BY <2>2, KeepsAll DEF HInv
<1>2. CASE Expire(k)
  <2>1. \A j \in Jobs : j # k => row'[j] = row[j]
    BY <1>2 DEF Expire, TInv, TypeOK
  <2>2. ASSUME NEW p \in Procs, proc'[p].holds, Unshared(p), p \notin lost'
        PROVE  /\ proc[p].holds /\ p \notin lost /\ proc'[p].job = proc[p].job
               /\ proc[p].job # k
    <3>1. proc[p].holds /\ p \notin lost /\ proc'[p].job = proc[p].job
      BY <1>2, <2>2 DEF Expire, TInv, TypeOK, Process
    <3>2. row[proc[p].job].owner = OwnerOf[p]
      BY <2>2, <3>1, HeldRow DEF HInv
    <3>3. proc[p].job # k
      BY <1>2, <2>2, <3>2 DEF Expire, TInv, TypeOK, Process
    <3>4. QED  BY <3>1, <3>3
  <2>3. \A p \in Procs : Keeps(p)
    BY <1>0, <2>1, <2>2 DEF Keeps
  <2>4. QED  BY <2>3, KeepsAll DEF HInv
<1>3. QED  BY <1>1, <1>2

\* Steps of one process that write no row and neither take nor give a lease.
Calm(self) ==
    /\ UNCHANGED <<row, lost>>
    /\ \A p \in Procs : p # self => proc'[p] = proc[p]
    /\ \/ ~proc'[self].holds
       \/ /\ proc'[self].holds = proc[self].holds /\ proc'[self].job = proc[self].job
          /\ proc'[self].pc \in {"running", "body", "release", "execute", "read", "write"}

LEMMA CalmStep ==
  ASSUME HInv, NEW self \in Procs, Calm(self)
  PROVE  HInv'
<1>1. HoldsInside'
  BY DEF HInv, HoldsInside, Calm
<1>2. \A p \in Procs : Keeps(p)
  BY DEF Calm, Keeps
<1>3. QED  BY <1>1, <1>2, KeepsAll DEF HInv

\* Returning, or going on with the list, holds nothing.
LEMMA ReturnCalm ==
  ASSUME TInv, NEW self \in Procs, UNCHANGED <<row, lost>>,
         Return(self) \/ \E S : NextJob(self, S)
  PROVE  Calm(self)
<1>1. ~Idle.holds /\ \A S : ~[Idle EXCEPT !.pc = "due", !.todo = S].holds
  BY DEF Idle
<1>2. \E x : proc' = [proc EXCEPT ![self] = x] /\ ~x.holds
  <2>1. CASE Return(self)  BY <1>1, <2>1 DEF Return
  <2>2. ASSUME NEW S, NextJob(self, S)
        PROVE  \E x : proc' = [proc EXCEPT ![self] = x] /\ ~x.holds
    <3>1. CASE S = {}  BY <1>1, <2>2, <3>1 DEF NextJob
    <3>2. CASE S # {}  BY <1>1, <2>2, <3>2 DEF NextJob
    <3>3. QED  BY <3>1, <3>2
  <2>3. QED  BY <2>1, <2>2
<1>3. QED  BY <1>2 DEF Calm, TInv, TypeOK

\* Such are all steps of a process but the taking, giving and overwriting.
LEMMA CalmSteps ==
  ASSUME TInv, HInv, NEW self \in Procs, NEW k \in Jobs,
         \/ RegisterEntry(self, k) \/ WritePending(self, k) \/ CommitLeaseHeld(self)
         \/ WriteRunning(self) \/ Body(self) \/ CommitTerminal(self)
         \/ ListDue(self) \/ ExecuteDue(self) \/ ReadRow(self)
         \/ Cancel(self) \/ Fault(self) \/ Interrupt(self)
  PROVE  HInv'
<1>1. proc \in [Procs -> Process]
  BY DEF TInv, TypeOK
<1>2. proc[self].pc \in {"idle", "acquire"} => ~proc[self].holds
  BY DEF HInv, HoldsInside
<1>3. CASE RegisterEntry(self, k)
  BY <1>1, <1>2, <1>3, CalmStep DEF RegisterEntry, At, Calm, Process
<1>4. CASE WritePending(self, k)
  BY <1>1, <1>2, <1>4, CalmStep DEF WritePending, At, Calm, Process
<1>5. CASE ListDue(self)
  BY <1>1, <1>2, <1>5, CalmStep DEF ListDue, At, Calm, Process
<1>6. CASE CommitLeaseHeld(self) \/ CommitTerminal(self) \/ Cancel(self) \/ Interrupt(self)
  BY <1>6, ReturnCalm, CalmStep DEF CommitLeaseHeld, CommitTerminal, Cancel, Interrupt
<1>7. CASE WriteRunning(self)
  BY <1>1, <1>7, CalmStep DEF WriteRunning, Goto, Calm, Process
<1>8. CASE Body(self)
  BY <1>1, <1>8, CalmStep DEF Body, Calm, Process
<1>9. CASE ExecuteDue(self)
  <2>1. PICK result \in {"ok", "degraded", "error"} :
          \/ proc' = [proc EXCEPT ![self].attempt = @ + 1]
          \/ proc' = [proc EXCEPT ![self].pc = "read", ![self].result = result]
    BY <1>9 DEF ExecuteDue
  <2>2. /\ proc'[self].holds = proc[self].holds /\ proc'[self].job = proc[self].job
        /\ \A p \in Procs : p # self => proc'[p] = proc[p]
    BY <1>1, <2>1 DEF Process
  <2>3. proc'[self].pc \in {"execute", "read"}
    BY <1>1, <1>9, <2>1 DEF ExecuteDue, At, Process
  <2>4. QED  BY <1>9, <2>2, <2>3, CalmStep DEF ExecuteDue, Calm
<1>10. CASE ReadRow(self)
  <2>1. CASE Goto(self, "write")
    BY <1>1, <1>10, <2>1, CalmStep DEF ReadRow, Goto, Calm, Process
  <2>2. CASE NextJob(self, proc[self].todo)
    BY <1>10, <2>2, ReturnCalm, CalmStep DEF ReadRow
  <2>3. QED  BY <1>10, <2>1, <2>2 DEF ReadRow
<1>11. CASE Fault(self)
  <2>1. CASE At(self, "acquire") /\ Goto(self, "held")
    BY <1>1, <1>2, <1>11, <2>1, CalmStep DEF Fault, At, Goto, Calm, Process
  <2>2. CASE Return(self) \/ \E S : NextJob(self, S)
    BY <1>11, <2>2, ReturnCalm, CalmStep DEF Fault
  <2>3. QED  BY <1>11, <2>1, <2>2 DEF Fault
<1>12. QED  BY <1>3, <1>4, <1>5, <1>6, <1>7, <1>8, <1>9, <1>10, <1>11

LEMMA LeaseSteps ==
  ASSUME TInv, HInv, NEW self \in Procs,
         AcquireForRun(self) \/ AcquireDue(self) \/ ReleaseRun(self)
         \/ RegisterState(self) \/ WriteRow(self)
  PROVE  HInv'
<1>0. proc \in [Procs -> Process] /\ \A p \in Procs : proc[p].job \in Jobs
  BY DEF TInv, TypeOK, Process
<1>1. CASE AcquireForRun(self)
  <2> DEFINE j == proc[self].job
  <2>1. CASE Goto(self, "held") /\ UNCHANGED <<row, lost>>
    <3>1. ~proc[self].holds
      BY <1>1 DEF AcquireForRun, At, HInv, HoldsInside
    <3>2. QED  BY <1>0, <2>1, <3>1, CalmStep DEF Goto, Calm, Process
  <2>2. CASE /\ CanTake(self, j)
             /\ row' = [row EXCEPT ![j] = Lease(self)]
             /\ lost' = lost \ {self}
             /\ proc' = [proc EXCEPT ![self].pc = "running", ![self].holds = TRUE]
    <3>1. /\ \A p \in Procs : p # self => proc'[p] = proc[p]
          /\ proc'[self].job = j /\ proc'[self].pc = "running"
      BY <1>0, <2>2 DEF Process
    <3>2. HolderIsOwner'
      BY <1>0, <2>2, <3>1, TakeStep
    <3>3. HoldsInside'
      BY <3>1 DEF HInv, HoldsInside
    <3>4. QED  BY <3>2, <3>3 DEF HInv
  <2>3. QED  BY <1>1, <2>1, <2>2 DEF AcquireForRun
<1>2. CASE AcquireDue(self)
  <2> DEFINE todo == proc[self].todo
             j == FirstOf(todo)
             x == [Idle EXCEPT !.pc = "execute", !.job = j, !.todo = todo \ {j},
                               !.holds = TRUE]
  <2>1. j \in Jobs
    BY <1>0, <1>2, FirstType DEF AcquireDue, TInv, DueHasJobs, Process
  <2>2. CASE NextJob(self, todo \ {j}) /\ UNCHANGED <<row, lost>>
    BY <2>2, ReturnCalm, CalmStep
  <2>3. CASE /\ CanTake(self, j)
             /\ row' = [row EXCEPT ![j] = Lease(self)]
             /\ lost' = lost \ {self}
             /\ proc' = [proc EXCEPT ![self] = x]
    <3>1. x.job = j /\ x.pc = "execute"
      BY DEF Idle
    <3>2. /\ \A p \in Procs : p # self => proc'[p] = proc[p]
          /\ proc'[self].job = j /\ proc'[self].pc = "execute"
      <4> HIDE DEF x
      <4>1. QED  BY <1>0, <2>3, <3>1
    <3>3. HolderIsOwner'
      <4> HIDE DEF j
      <4>1. QED  BY <2>1, <2>3, <3>2, TakeStep
    <3>4. HoldsInside'
      BY <3>2 DEF HInv, HoldsInside
    <3>5. QED  BY <3>3, <3>4 DEF HInv
  <2>4. QED  BY <1>2, <2>2, <2>3 DEF AcquireDue
<1>3. CASE ReleaseRun(self)
  <2>1. HolderIsOwner'  BY <1>3, ReleaseStep
  <2>2. /\ \A p \in Procs : p # self => proc'[p] = proc[p]
        /\ ~proc'[self].holds
    BY <1>0, <1>3 DEF ReleaseRun, Return, Idle, Process
  <2>3. QED  BY <2>1, <2>2 DEF HInv, HoldsInside
<1>4. CASE RegisterState(self) \/ WriteRow(self)
  <2>1. HolderIsOwner'  BY <1>4, OverwriteStep
  <2>2. Return(self) \/ NextJob(self, proc[self].todo)
    BY <1>4 DEF RegisterState, WriteRow
  <2>3. \A p \in Procs : proc'[p] = proc[p] \/ ~proc'[p].holds
    <3>1. ~Idle.holds /\ \A S : ~[Idle EXCEPT !.pc = "due", !.todo = S].holds
      BY DEF Idle
    <3>2. CASE Return(self)  BY <1>0, <3>1, <3>2 DEF Return
    <3>3. CASE NextJob(self, proc[self].todo)
      <4>1. CASE proc[self].todo = {}  BY <1>0, <3>1, <3>3, <4>1 DEF NextJob
      <4>2. CASE proc[self].todo # {}  BY <1>0, <3>1, <3>3, <4>2 DEF NextJob
      <4>3. QED  BY <4>1, <4>2
    <3>4. QED  BY <2>2, <3>2, <3>3
  <2>4. QED  BY <2>1, <2>3 DEF HInv, HoldsInside
<1>5. QED  BY <1>1, <1>2, <1>3, <1>4

LEMMA HoldStep ==
  ASSUME TInv, HInv, [Next]_vars
  PROVE  HInv'
<1>1. CASE UNCHANGED vars
  BY <1>1 DEF vars, HInv, HoldsInside, HolderIsOwner, Unshared, Lease
<1>2. ASSUME NEW k \in Jobs, RecoverStaleLeases \/ Expire(k)
      PROVE  HInv'
  <2>1. HolderIsOwner'  BY <1>2, ClockStep
  <2>2. HoldsInside'
    <3>1. CASE RecoverStaleLeases
      BY <3>1 DEF RecoverStaleLeases, HInv, HoldsInside
    <3>2. CASE Expire(k)
      <4>1. \A p \in Procs : proc'[p].pc = proc[p].pc /\ (proc'[p].holds => proc[p].holds)
        BY <3>2 DEF Expire, TInv, TypeOK, Process
      <4>2. QED  BY <4>1 DEF HInv, HoldsInside
    <3>3. QED  BY <1>2, <3>1, <3>2
  <2>3. QED  BY <2>1, <2>2 DEF HInv
<1>3. ASSUME NEW self \in Procs,
             \/ Step(self)
             \/ \E j \in Jobs : RegisterEntry(self, j) \/ WritePending(self, j)
             \/ ListDue(self) \/ Cancel(self) \/ Fault(self) \/ Interrupt(self)
      PROVE  HInv'
  <2>1. PICK k : k \in Jobs
    BY NamesAssumption
  <2>2. CASE \E j \in Jobs : RegisterEntry(self, j) \/ WritePending(self, j)
    BY <2>2, CalmSteps
  <2>3. CASE Step(self)
    BY <2>1, <2>3, CalmSteps, LeaseSteps DEF Step
  <2>4. CASE ListDue(self) \/ Cancel(self) \/ Fault(self) \/ Interrupt(self)
    BY <2>1, <2>4, CalmSteps
  <2>5. QED  BY <1>3, <2>2, <2>3, <2>4
<1>4. CASE Next
  BY <1>2, <1>3, <1>4, NamesAssumption DEF Next
<1>5. QED  BY <1>1, <1>4

(***************************************************************************)
(* The theorems.                                                           *)
(***************************************************************************)

\* The inductive invariant: types, runs and their trails, leases.
IInv == TInv /\ RInv /\ HInv

LEMMA InitIInv == Init => IInv
<1> SUFFICES ASSUME Init  PROVE IInv
  OBVIOUS
<1>1. Idle.pc = "idle" /\ Idle.run = 0 /\ ~Idle.holds
  BY DEF Idle
<1>2. \A p \in Procs : proc[p] = Idle
  BY DEF Init
<1>3. TInv
  BY <1>1, <1>2, IdleType, BoundAssumption DEF Init, TInv, TypeOK, DueHasJobs, At
<1>4. RInv
  BY <1>1, <1>2, Trails DEF Init, RInv, RunKnown, OneProcess, FreshRuns, AuditFollowsLog
<1>5. HInv
  BY <1>1, <1>2 DEF HInv, HoldsInside, HolderIsOwner
<1>6. QED  BY <1>3, <1>4, <1>5 DEF IInv

LEMMA NextIInv == IInv /\ [Next]_vars => IInv'
BY RunStep, HoldStep DEF IInv

LEMMA Invariant == Spec => []IInv
<1>1. QED  BY InitIInv, NextIInv, PTL DEF Spec

\* Every row and record of the engine keeps its shape, and a deadline belongs
\* to a lease and only to a lease.
THEOREM TypeCorrect == Spec => []TypeOK
<1>1. IInv => TypeOK
  BY DEF IInv, TInv
<1>2. QED  BY Invariant, <1>1, PTL

\* The audit trail of a run is the one its row in job_run_log tells of,
\* wherever the run is cut.
THEOREM AuditCorrect == Spec => []AuditFollowsLog
<1>1. IInv => AuditFollowsLog
  BY DEF IInv, RInv
<1>2. QED  BY Invariant, <1>1, PTL

\* A lease taken under a name of one's own is in the table until its deadline
\* unless a write that did not look at it overwrote it.
THEOREM HolderCorrect == Spec => []HolderIsOwner
<1>1. IInv => HolderIsOwner
  BY DEF IInv, HInv
<1>2. QED  BY Invariant, <1>1, PTL

\* Two processes with names of their own run one job within their leases only
\* after such an overwriting.
THEOREM ExclusiveCorrect == Spec => []Exclusive
<1>1. ASSUME HolderIsOwner  PROVE Exclusive
  <2>1. SUFFICES ASSUME NEW p \in Procs, NEW q \in Procs, p # q, Unshared(p), Unshared(q),
                        proc[p].holds, proc[q].holds, proc[p].job = proc[q].job,
                        p \notin lost, q \notin lost
                 PROVE  FALSE
    BY DEF Exclusive
  <2>2. row[proc[p].job].owner = OwnerOf[p] /\ row[proc[q].job].owner = OwnerOf[q]
    BY <1>1, <2>1, HeldRow
  <2>3. QED  BY <2>1, <2>2 DEF Unshared
<1>2. QED  BY HolderCorrect, <1>1, PTL

\* A run that returns uninterrupted and within a lease that nothing overwrote
\* has its end in the log.
LEMMA EndsStep ==
  ASSUME IInv, [Next]_vars, NEW p \in Procs,
         proc[p].run # 0, proc'[p].run = 0, used' = used,
         proc[p].holds \/ proc[p].pc \in {"held", "terminal"}, Unshared(p), p \notin lost
  PROVE  log'[proc[p].run].state # "pending"
<1> DEFINE r == proc[p].run
<1>0. proc \in [Procs -> Process] /\ r \in Runs /\ log \in [Runs -> LogRow \cup {NoRow}]
  BY DEF IInv, TInv, TypeOK, Process
<1>1. r # 0 => proc[p].pc \in {"acquire", "held", "running", "body", "release", "terminal"}
  BY DEF IInv, RInv, RunKnown
<1>2. \/ CommitLeaseHeld(p) \/ ReleaseRun(p) \/ CommitTerminal(p)
  <2>1. ~UNCHANGED vars
    BY DEF vars
  <2>2. ~RecoverStaleLeases /\ \A j \in Jobs : ~Expire(j)
    BY <1>0 DEF RecoverStaleLeases, Expire, Process
  <2>3. ASSUME NEW q \in Procs, Cancel(q) \/ Fault(q) \/ Interrupt(q)
        PROVE  FALSE
    BY <2>3 DEF Cancel, Fault, Interrupt, Spend, IInv, TInv, TypeOK
  <2>4. ASSUME NEW q \in Procs,
               \/ Step(q)
               \/ \E j \in Jobs : RegisterEntry(q, j) \/ WritePending(q, j)
               \/ ListDue(q)
        PROVE  q = p
    BY <1>0, <2>4 DEF Step, RegisterEntry, RegisterState, WritePending, ListDue, AcquireForRun,
         CommitLeaseHeld, WriteRunning, Body, ReleaseRun, CommitTerminal, AcquireDue,
         ExecuteDue, ReadRow, WriteRow, Goto, Return, NextJob
  <2>5. \/ Step(p)
        \/ \E j \in Jobs : RegisterEntry(p, j) \/ WritePending(p, j)
        \/ ListDue(p)
    BY <2>1, <2>2, <2>3, <2>4 DEF Next
  <2>6. AcquireForRun(p) \/ WriteRunning(p) \/ Body(p) => proc'[p].run = r
    BY <1>0 DEF AcquireForRun, WriteRunning, Body, Goto, Process
  <2>7. QED
    BY <1>1, <2>5, <2>6 DEF Step, At, RegisterEntry, RegisterState, WritePending, ListDue,
         AcquireDue, ExecuteDue, ReadRow, WriteRow
<1>3. CASE CommitLeaseHeld(p)
  <2>1. log'[r] = [state |-> "lease_held", attempt |-> 0]
    BY <1>0, <1>3 DEF CommitLeaseHeld, Record
  <2>2. QED  BY <2>1
<1>4. CASE CommitTerminal(p)
  <2>1. \/ log'[r] = [state |-> "succeeded", attempt |-> 1]
        \/ log'[r] = [state |-> "failed", attempt |-> 1]
    BY <1>0, <1>4 DEF CommitTerminal, Record
  <2>2. QED  BY <2>1
<1>5. CASE ReleaseRun(p)
  <2>1. proc[p].holds
    BY <1>5 DEF ReleaseRun, At
  <2>2. row[proc[p].job].owner = OwnerOf[p]
    BY <2>1, HeldRow DEF IInv, HInv
  <2>3. proc' = [proc EXCEPT ![p].pc = "terminal", ![p].holds = FALSE]
    BY <1>5, <2>2 DEF ReleaseRun
  <2>4. proc'[p].run = r
    BY <1>0, <2>3 DEF Process
  <2>5. QED  BY <2>4
<1>6. QED  BY <1>2, <1>3, <1>4, <1>5

\* RunOne ends its run in the log whenever it returns uninterrupted, within a
\* lease under a name of its own that nothing overwrote.
THEOREM EndsCorrect == Spec => EndsWithAudit
<1>1. IInv /\ [Next]_vars =>
        [\A p \in Procs : LET r == proc[p].run
            IN  /\ r # 0 /\ proc'[p].run = 0 /\ used' = used
                /\ proc[p].holds \/ proc[p].pc \in {"held", "terminal"}
                /\ Unshared(p) /\ p \notin lost
                => log'[r].state # "pending"]_vars
  BY EndsStep
<1>2. QED  BY Invariant, <1>1, PTL DEF Spec, EndsWithAudit

\* A lease under a name of its own excludes every other run of the job, unless a
\* write that did not look at it overwrote it.
THEOREM LeaseSoundCorrect == Spec => []LeaseSound
<1>1. HolderIsOwner /\ Exclusive => LeaseSound
  BY DEF LeaseSound
<1>2. QED  BY <1>1, HolderCorrect, ExclusiveCorrect, PTL
=============================================================================
