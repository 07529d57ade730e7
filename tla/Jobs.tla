------------------------------- MODULE Jobs -------------------------------
(***************************************************************************)
(* The job engine (internal/experience/jobs): the registry, the leases, a  *)
(* run with its audit trail (RunOne), the retry loop (RunDue) and the      *)
(* recovery of stale leases, for one project.                              *)
(*                                                                         *)
(* A lease is the row of job_state; it is taken in one transaction and     *)
(* never renewed. RunOne gives it back in a transaction that looks at the  *)
(* owner; RunDue reads the row, and writes all of it back in a second      *)
(* statement. Register writes the whole row whatever it holds. The clock   *)
(* is reduced to whether the deadline of a row has passed.                 *)
(***************************************************************************)
EXTENDS Naturals, Sequences

CONSTANTS
    Procs,          \* processes that call the engine
    Owners,         \* lease owner names
    OwnerOf,        \* the name a process gives: two may give the same
    Jobs,           \* job names in the order of ListJobStates
    MaxRetries,     \* max_retries of every job
    NoOwner,        \* lease_owner = ''
    NoRow,          \* a row that does not exist
    MaxRuns,        \* bound: runs of RunOne
    Budget          \* bound: registrations, calls of RunDue, failures

Kinds == {"register", "due", "failure"}

ASSUME NamesAssumption ==
    /\ OwnerOf \in [Procs -> Owners] /\ NoOwner \notin Owners
    /\ Jobs \subseteq Nat /\ Jobs # {}
ASSUME BoundAssumption ==
    MaxRetries \in Nat /\ MaxRuns \in Nat /\ Budget \in [Kinds -> Nat]

VARIABLES
    registered,     \* job_registry
    row,            \* job_state
    log,            \* job_run_log
    trail,          \* audit_events of a run, oldest first
    proc,           \* the processes
    runs,           \* run ids minted
    lost,           \* history: processes whose lease was overwritten
    used            \* what has been spent of Budget

vars == <<registered, row, log, trail, proc, runs, lost, used>>

-----------------------------------------------------------------------------
(* Values *)

Runs == 1..MaxRuns

Row == [status : {"idle", "running", "ok", "degraded", "error"},
        owner : Owners \cup {NoOwner}, expiry : {"none", "live", "past"}]

\* The state of a run stays "pending" while it is running: only the attempt moves.
LogRow == [state : {"pending", "succeeded", "failed", "lease_held"}, attempt : {0, 1}]

ASSUME RowsAssumption == NoRow \notin Row \cup LogRow

Events == {"job_pending", "job_running", "job_succeeded", "job_failed"}

Pc == {"idle", "register", "acquire", "held", "running", "body", "release", "terminal",
       "due", "execute", "read", "write"}

\* "holds" is history: the process took a lease whose deadline has not passed
\* and has not given it back.
Process == [pc : Pc, job : Jobs, run : Runs \cup {0}, attempt : Nat, todo : SUBSET Jobs,
            result : {"ok", "degraded", "error"}, holds : BOOLEAN]

Idle == [pc |-> "idle", job |-> CHOOSE j \in Jobs : TRUE, run |-> 0, attempt |-> 0,
         todo |-> {}, result |-> "ok", holds |-> FALSE]

\* Mutant: a lease is given back with its deadline.
FreeWithDeadline(status) == [status |-> status, owner |-> NoOwner, expiry |-> "live"]

FreeRow(status) == [status |-> status, owner |-> NoOwner, expiry |-> "none"]

\* executeWithRetry: at least one retry.
RetryLimit == IF MaxRetries = 0 THEN 1 ELSE MaxRetries

Init ==
    /\ registered = {}
    /\ row = [j \in Jobs |-> NoRow]
    /\ log = [r \in Runs |-> NoRow]
    /\ trail = [r \in Runs |-> <<>>]
    /\ proc = [self \in Procs |-> Idle]
    /\ runs = 0
    /\ lost = {}
    /\ used = [k \in Kinds |-> 0]

At(self, pc) == proc[self].pc = pc
Goto(self, pc) == proc' = [proc EXCEPT ![self].pc = pc]
Return(self) == proc' = [proc EXCEPT ![self] = Idle]

Spend(kind) ==
    /\ used[kind] < Budget[kind]
    /\ used' = [used EXCEPT ![kind] = @ + 1]

Running(j) == row[j] # NoRow /\ row[j].status = "running"
HeldByOther(self, j) == Running(j) /\ row[j].owner # OwnerOf[self]

\* A write of the whole row by one that did not look at it in the same
\* statement: whoever else held the lease has lost it.
Overwrite(self, j) ==
    lost' = lost \cup {p \in Procs \ {self} : proc[p].holds /\ proc[p].job = j}

-----------------------------------------------------------------------------
(* Registration *)

\* Register: the registry entry first, in a statement of its own.
RegisterEntry(self, j) ==
    /\ At(self, "idle") /\ Spend("register")
    /\ registered' = registered \cup {j}
    /\ proc' = [proc EXCEPT ![self].pc = "register", ![self].job = j]
    /\ UNCHANGED <<row, log, trail, runs, lost>>

\* The state row is written whole, also over one that exists.
RegisterState(self) ==
    LET j == proc[self].job
    IN  /\ At(self, "register")
        /\ row' = [row EXCEPT ![j] = FreeRow("idle")]
        /\ Overwrite(self, j)
        /\ Return(self)
        /\ UNCHANGED <<registered, log, trail, runs, used>>

-----------------------------------------------------------------------------
(* Leases *)

\* Mutant: an expired lease of another is not told from a live one.
TakeAny(self, j) == row[j] # NoRow

\* AcquireLeaseTx: free, one's own, or past its deadline.
CanTake(self, j) ==
    row[j] # NoRow /\ ~(HeldByOther(self, j) /\ row[j].expiry = "live")

\* Mutant: a lease without deadline.
LeaseForEver(self) == [status |-> "running", owner |-> OwnerOf[self], expiry |-> "none"]

Lease(self) == [status |-> "running", owner |-> OwnerOf[self], expiry |-> "live"]

\* Mutant: the deadline is not compared.
StaleAny(j) == Running(j)

\* RecoverStaleLeases: one UPDATE over all rows.
Stale(j) == Running(j) /\ row[j].expiry = "past"

RecoverStaleLeases ==
    /\ \E j \in Jobs : Stale(j)
    /\ row' = [j \in Jobs |-> IF Stale(j) THEN FreeRow("idle") ELSE row[j]]
    /\ UNCHANGED <<registered, log, trail, proc, runs, lost, used>>

\* The deadline of a lease passes, for the row and for those who took it.
Expire(j) ==
    /\ Running(j) /\ row[j].expiry = "live"
    /\ row' = [row EXCEPT ![j].expiry = "past"]
    /\ proc' = [p \in Procs |->
                  IF proc[p].job = j /\ OwnerOf[p] = row[j].owner
                  THEN [proc[p] EXCEPT !.holds = FALSE] ELSE proc[p]]
    /\ UNCHANGED <<registered, log, trail, runs, lost, used>>

-----------------------------------------------------------------------------
(* RunOne *)

Record(r, state, attempt, event) ==
    /\ log' = [log EXCEPT ![r] = [state |-> state, attempt |-> attempt]]
    /\ trail' = [trail EXCEPT ![r] = Append(@, event)]

\* Tx-A, of a registered job: the stub of the run and job_pending.
WritePending(self, j) ==
    /\ At(self, "idle") /\ j \in registered /\ runs < MaxRuns
    /\ runs' = runs + 1
    /\ Record(runs + 1, "pending", 0, "job_pending")
    /\ proc' = [proc EXCEPT ![self].pc = "acquire", ![self].job = j, ![self].run = runs + 1]
    /\ UNCHANGED <<registered, row, lost, used>>

AcquireForRun(self) ==
    LET j == proc[self].job
    IN  /\ At(self, "acquire")
        /\ \/ /\ CanTake(self, j)
              /\ row' = [row EXCEPT ![j] = Lease(self)]
              /\ lost' = lost \ {self}
              /\ proc' = [proc EXCEPT ![self].pc = "running", ![self].holds = TRUE]
           \/ /\ ~CanTake(self, j)
              /\ Goto(self, "held")
              /\ UNCHANGED <<row, lost>>
        /\ UNCHANGED <<registered, log, trail, runs, used>>

\* Every refusal of the lease ends the run as lease_held, without job_running.
CommitLeaseHeld(self) ==
    /\ At(self, "held")
    /\ Record(proc[self].run, "lease_held", 0, "job_failed")
    /\ Return(self)
    /\ UNCHANGED <<registered, row, runs, lost, used>>

\* Mutant: the event is written, the attempt of the log is not.
WriteRunningEvent(self) ==
    LET r == proc[self].run
    IN  /\ At(self, "running")
        /\ Record(r, log[r].state, 0, "job_running")
        /\ Goto(self, "body")
        /\ UNCHANGED <<registered, row, runs, lost, used>>

\* Tx-B.
WriteRunning(self) ==
    LET r == proc[self].run
    IN  /\ At(self, "running")
        /\ Record(r, log[r].state, 1, "job_running")
        /\ Goto(self, "body")
        /\ UNCHANGED <<registered, row, runs, lost, used>>

\* The body runs outside every transaction; a cancelled one returns an error.
Body(self) ==
    /\ At(self, "body")
    /\ \E result \in {"ok", "error"} :
          proc' = [proc EXCEPT ![self].pc = "release", ![self].result = result]
    /\ UNCHANGED <<registered, row, log, trail, runs, lost, used>>

\* ReleaseLeaseTx: only the owner gives a lease back. A refusal returns from
\* RunOne before the terminal event.
ReleaseRun(self) ==
    LET j == proc[self].job
    IN  /\ At(self, "release")
        /\ \/ /\ row[j].owner = OwnerOf[self]
              /\ row' = [row EXCEPT ![j] = FreeRow(proc[self].result)]
              /\ proc' = [proc EXCEPT ![self].pc = "terminal", ![self].holds = FALSE]
           \/ /\ row[j].owner # OwnerOf[self]
              /\ Return(self)
              /\ UNCHANGED row
        /\ UNCHANGED <<registered, log, trail, runs, lost, used>>

\* Tx-C, after the lease was given back.
CommitTerminal(self) ==
    /\ At(self, "terminal")
    /\ IF proc[self].result = "ok"
       THEN Record(proc[self].run, "succeeded", 1, "job_succeeded")
       ELSE Record(proc[self].run, "failed", 1, "job_failed")
    /\ Return(self)
    /\ UNCHANGED <<registered, row, runs, lost, used>>

-----------------------------------------------------------------------------
(* RunDue *)

\* The list is read once; ok and error are terminal. Neither the interval nor
\* the input digest is looked at.
ListDue(self) ==
    LET due == {j \in Jobs : row[j] # NoRow /\ row[j].status \notin {"ok", "error"}}
    IN  /\ At(self, "idle") /\ due # {} /\ Spend("due")
        /\ proc' = [proc EXCEPT ![self].pc = "due", ![self].todo = due]
        /\ UNCHANGED <<registered, row, log, trail, runs, lost>>

FirstOf(S) == CHOOSE j \in S : \A k \in S : j <= k

\* The loop goes on with the next job of the list.
NextJob(self, rest) ==
    proc' = [proc EXCEPT ![self] =
               IF rest = {} THEN Idle ELSE [Idle EXCEPT !.pc = "due", !.todo = rest]]

\* A job whose lease is refused is skipped.
AcquireDue(self) ==
    LET todo == proc[self].todo
        j == FirstOf(todo)
    IN  /\ At(self, "due")
        /\ \/ /\ CanTake(self, j)
              /\ row' = [row EXCEPT ![j] = Lease(self)]
              /\ lost' = lost \ {self}
              /\ proc' = [proc EXCEPT ![self] =
                            [Idle EXCEPT !.pc = "execute", !.job = j, !.todo = todo \ {j},
                                         !.holds = TRUE]]
           \/ /\ ~CanTake(self, j)
              /\ NextJob(self, todo \ {j})
              /\ UNCHANGED <<row, lost>>
        /\ UNCHANGED <<registered, log, trail, runs, used>>

\* executeWithRetry: an error is retried up to the limit.
ExecuteDue(self) ==
    /\ At(self, "execute")
    /\ \E result \in {"ok", "degraded", "error"} :
          IF result = "error" /\ proc[self].attempt < RetryLimit
          THEN proc' = [proc EXCEPT ![self].attempt = @ + 1]
          ELSE proc' = [proc EXCEPT ![self].pc = "read", ![self].result = result]
    /\ UNCHANGED <<registered, row, log, trail, runs, lost, used>>

\* ReleaseLease reads the row and looks at its owner ...
ReadRow(self) ==
    LET j == proc[self].job
    IN  /\ At(self, "read")
        /\ IF row[j].owner = OwnerOf[self] THEN Goto(self, "write")
           ELSE NextJob(self, proc[self].todo)
        /\ UNCHANGED <<registered, row, log, trail, runs, lost, used>>

\* ... and writes all of it, whatever it holds by now.
WriteRow(self) ==
    LET j == proc[self].job
    IN  /\ At(self, "write")
        /\ row' = [row EXCEPT ![j] = FreeRow(proc[self].result)]
        /\ Overwrite(self, j)
        /\ NextJob(self, proc[self].todo)
        /\ UNCHANGED <<registered, log, trail, runs, used>>

\* The context is cancelled while a body runs or between two attempts: the
\* release is asked of the cancelled context, fails, and the lease stays; the
\* rest of the list is refused with it.
Cancel(self) ==
    /\ At(self, "execute") /\ Spend("failure")
    /\ Return(self)
    /\ UNCHANGED <<registered, row, log, trail, runs, lost>>

-----------------------------------------------------------------------------
(* Failures *)

\* A statement or transaction fails and leaves nothing; each caller goes on in
\* its own way. A failed acquisition of RunOne is taken for a held lease.
Fault(self) ==
    /\ Spend("failure")
    /\ \/ At(self, "acquire") /\ Goto(self, "held")
       \/ proc[self].pc \in {"register", "held", "running", "release", "terminal"}
          /\ Return(self)
       \/ At(self, "due") /\ NextJob(self, proc[self].todo \ {FirstOf(proc[self].todo)})
       \/ proc[self].pc \in {"read", "write"} /\ NextJob(self, proc[self].todo)
    /\ UNCHANGED <<registered, row, log, trail, runs, lost>>

\* The process dies.
Interrupt(self) ==
    /\ ~At(self, "idle") /\ Spend("failure")
    /\ Return(self)
    /\ UNCHANGED <<registered, row, log, trail, runs, lost>>

-----------------------------------------------------------------------------
(* The specification *)

Step(self) ==
    \/ RegisterState(self)
    \/ AcquireForRun(self) \/ CommitLeaseHeld(self) \/ WriteRunning(self)
    \/ Body(self) \/ ReleaseRun(self) \/ CommitTerminal(self)
    \/ AcquireDue(self) \/ ExecuteDue(self) \/ ReadRow(self) \/ WriteRow(self)

Next ==
    \/ \E self \in Procs :
          \/ Step(self)
          \/ \E j \in Jobs : RegisterEntry(self, j) \/ WritePending(self, j)
          \/ ListDue(self) \/ Cancel(self) \/ Fault(self) \/ Interrupt(self)
    \/ RecoverStaleLeases
    \/ \E j \in Jobs : Expire(j)

Spec == Init /\ [][Next]_vars

\* The code of a call is sequential and every body returns, time passes, and
\* an operator recovers stale leases again and again.
FairSpec ==
    /\ Spec
    /\ \A self \in Procs : WF_vars(Step(self))
    /\ \A j \in Jobs : WF_vars(Expire(j))
    /\ WF_vars(RecoverStaleLeases)

-----------------------------------------------------------------------------
(* Properties *)

\* Every row of the engine has its shape, and a deadline belongs to a lease
\* and only to a lease.
TypeOK ==
    /\ registered \subseteq Jobs
    /\ row \in [Jobs -> Row \cup {NoRow}]
    /\ \A j \in Jobs : row[j] # NoRow =>
          /\ (row[j].status = "running") <=> (row[j].owner # NoOwner)
          /\ (row[j].status = "running") <=> (row[j].expiry # "none")
    /\ log \in [Runs -> LogRow \cup {NoRow}]
    /\ trail \in [Runs -> Seq(Events)]
    /\ proc \in [Procs -> Process]
    /\ runs \in 0..MaxRuns
    /\ lost \subseteq Procs
    /\ used \in [Kinds -> Nat]

\* The trail of a run is the one its log row tells of, wherever the run was
\* cut: no event without its row, none twice, none out of order.
TrailOf(l) ==
    CASE l = NoRow -> <<>>
      [] l # NoRow /\ l.state = "pending" ->
            IF l.attempt = 0 THEN <<"job_pending">> ELSE <<"job_pending", "job_running">>
      [] l # NoRow /\ l.state = "lease_held" -> <<"job_pending", "job_failed">>
      [] l # NoRow /\ l.state = "succeeded" ->
            <<"job_pending", "job_running", "job_succeeded">>
      [] l # NoRow /\ l.state = "failed" -> <<"job_pending", "job_running", "job_failed">>

AuditFollowsLog == \A r \in Runs : trail[r] = TrailOf(log[r])

\* No other process gives the same owner name.
Unshared(self) == \A p \in Procs : OwnerOf[p] = OwnerOf[self] => p = self

\* The lease of a process that gives a name of its own is in the table until
\* its deadline, unless Register or the second statement of ReleaseLease
\* overwrote it.
HolderIsOwner ==
    \A p \in Procs : proc[p].holds /\ Unshared(p) /\ p \notin lost
                       => row[proc[p].job] = Lease(p)

\* Two processes with names of their own run one job at the same time, both
\* within their leases, only after one of them was overwritten so.
Exclusive ==
    \A p, q \in Procs :
        /\ p # q /\ Unshared(p) /\ Unshared(q)
        /\ proc[p].holds /\ proc[q].holds /\ proc[p].job = proc[q].job
        => p \in lost \/ q \in lost

\* A lease is its holder's, and a holder runs alone.
LeaseSound == HolderIsOwner /\ Exclusive

\* RunOne returns with the end of its run in the log, unless it was
\* interrupted, or its lease ran out or was overwritten under it.
EndsWithAudit == [][
    \A p \in Procs : LET r == proc[p].run
        IN  /\ r # 0 /\ proc'[p].run = 0 /\ used' = used
            /\ proc[p].holds \/ proc[p].pc \in {"held", "terminal"}
            /\ Unshared(p) /\ p \notin lost
            => log'[r].state # "pending"]_vars

\* A lease ends, whoever died with it.
LeaseEnds == \A j \in Jobs : Running(j) ~> ~Running(j)
=============================================================================
