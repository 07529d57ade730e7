----------------------------- MODULE Recurrence -----------------------------
(***************************************************************************)
(* Occurrence reports: that the pattern of a learning happened again, and  *)
(* what is computed from them (internal/recurrence, repo_recurrence.go).   *)
(*                                                                         *)
(* A report may carry an idempotency key, with which a caller that lost    *)
(* the answer asks again. The MCP server and the command line report and   *)
(* compute at the same time, each in transactions of its own; any of them  *)
(* may die between a commit and its answer. A learning's text never        *)
(* changes once it is captured, so that its fingerprint is a constant.     *)
(***************************************************************************)
EXTENDS Integers, Sequences, FiniteSets

CONSTANTS
    Reporters,      \* callers: handlers of the server and processes
    Recurring,      \* learnings
    Fingerprint,    \* RecurrenceFingerprint: two learnings may say the same thing
    RetryKeys,           \* idempotency keys
    Pasts,          \* sequences of records that were there before
    PageLimit,      \* how many records ComputeMetrics reads (1000)
    StaleAfter,     \* DefaultStaleThresholdDays
    MaxRecords, MaxDay, MaxAsks

NoKey == "none"
OccurrenceRecords == [learning : Recurring, fp : {Fingerprint[l] : l \in Recurring} \cup {"given"},
            key : RetryKeys \cup {NoKey}, at : Int]

\* A record that was there before is one that was reported; the table keeps its keys unique.
ASSUME RecurrenceAssumption ==
    /\ {PageLimit, StaleAfter, MaxRecords, MaxDay, MaxAsks} \subseteq Nat
    /\ PageLimit > 0
    /\ \A past \in Pasts :
          /\ past \in Seq(OccurrenceRecords)
          /\ \A i, j \in DOMAIN past : past[i].key = past[j].key => i = j \/ past[i].key = NoKey

VARIABLES
    records,    \* recurrence_records, in the order of their commits
    today,        \* the clock of the machine
    reporter,   \* what each caller is in the middle of
    answers,    \* what callers were told of their reports
    shown,      \* what callers were told of metrics
    asks        \* calls begun, bounded by MaxAsks

recVars == <<records, today, reporter, answers, shown, asks>>

NotReporting == [step |-> "idle"]

RecurrenceInit ==
    /\ records \in Pasts /\ today = 0 /\ asks = 0
    /\ reporter = [r \in Reporters |-> NotReporting]
    /\ answers = {} /\ shown = {}

Became(r, state) == reporter' = [reporter EXCEPT ![r] = state]

-----------------------------------------------------------------------------
(* Reports. *)

\* The record of a key, 0 when no report with the key was committed.
FindByKey(key) ==
    LET kept == {i \in DOMAIN records : records[i].key = key}
    IN IF kept = {} THEN 0 ELSE CHOOSE i \in kept : TRUE

\* A handler looks the learning up and begins to report it; an explicit
\* fingerprint replaces the derived one.
Report(r, l, fp, key) ==
    /\ reporter[r].step = "idle"
    /\ asks < MaxAsks
    /\ asks' = asks + 1
    /\ Became(r, [step |-> "lookup", learning |-> l, fp |-> fp, key |-> key])
    /\ UNCHANGED <<records, today, answers, shown>>

\* The transaction of a report reads first when it has a key: a record of the
\* key is the answer. What it read fixes its snapshot; without a key it has
\* read nothing and will see whatever is there when it writes.
Lookup(r) ==
    /\ reporter[r].step = "lookup"
    /\ LET ask == reporter[r]
           old == IF ask.key = NoKey THEN 0 ELSE FindByKey(ask.key)
       IN IF old # 0
          THEN /\ Became(r, NotReporting)
               /\ answers' = answers \cup {[id |-> old, new |-> FALSE, ask |-> ask]}
          ELSE /\ Became(r, [step |-> "insert", ask |-> ask, at |-> today,
                             basis |-> IF ask.key = NoKey THEN -1 ELSE Len(records)])
               /\ UNCHANGED answers
    /\ UNCHANGED <<records, today, shown, asks>>

\* A transaction whose snapshot is no longer the newest cannot write: SQLite
\* refuses it, and the report fails without a trace.
Overtaken(r) == reporter[r].basis \notin {-1, Len(records)}

Insert(r) ==
    /\ reporter[r].step = "insert"
    /\ IF Overtaken(r)
       THEN Became(r, NotReporting) /\ UNCHANGED records
       ELSE /\ Len(records) < MaxRecords
            /\ LET ask == reporter[r].ask
               IN /\ records' = Append(records, [learning |-> ask.learning, fp |-> ask.fp,
                                                 key |-> ask.key, at |-> reporter[r].at])
                  /\ Became(r, [step |-> "answer", ask |-> ask, id |-> Len(records) + 1])
    /\ UNCHANGED <<today, answers, shown, asks>>

Acknowledge(r) ==
    /\ reporter[r].step = "answer"
    /\ answers' = answers \cup {[id |-> reporter[r].id, new |-> TRUE, ask |-> reporter[r].ask]}
    /\ Became(r, NotReporting)
    /\ UNCHANGED <<records, today, shown, asks>>

-----------------------------------------------------------------------------
(* Metrics. *)

\* Newest first, by the time of the occurrence and not of the commit.
NewestFirst(chosen) ==
    LET before(i, j) == records[i].at > records[j].at \/ (records[i].at = records[j].at /\ i < j)
    IN [n \in 1..Cardinality(chosen) |->
          CHOOSE i \in chosen : Cardinality({j \in chosen : before(j, i)}) = n - 1]

Page(chosen, limit) ==
    LET all == NewestFirst(chosen)
    IN [n \in 1..(IF Len(all) < limit THEN Len(all) ELSE limit) |-> records[all[n]].at]

OfFingerprint(fp) == Page({i \in DOMAIN records : records[i].fp = fp}, PageLimit)

\* The newest interval against the oldest. The oldest is taken the other way
\* round (the last record's time less that of the one before it), so it is never
\* positive: "increasing" is never the answer and "stable" only for intervals
\* of no length.
Trend(times) ==
    LET n == Len(times)
        recent == times[1] - times[2]
        old == times[n] - times[n - 1]
    IN IF n <= 1 THEN "first"
       ELSE IF n < 4 THEN "sporadic"
       ELSE IF 2 * recent < old THEN "increasing"
       ELSE IF recent > 2 * old THEN "decreasing" ELSE "stable"

ComputeMetrics(times) ==
    LET n == Len(times)
    IN IF n = 0 THEN [count |-> 0, trend |-> "first"]
       ELSE [count |-> n, trend |-> Trend(times), first |-> times[n], last |-> times[1],
             interval |-> IF n = 1 THEN 0 ELSE (times[1] - times[n]) \div (n - 1)]

NeedsReview(times) == Len(times) > 0 /\ times[1] < today - StaleAfter

\* The metrics are read in one transaction ...
Measure(r, l) ==
    /\ reporter[r].step = "idle"
    /\ asks < MaxAsks
    /\ asks' = asks + 1
    /\ Became(r, [step |-> "review", learning |-> l,
                  metrics |-> ComputeMetrics(OfFingerprint(Fingerprint[l]))])
    /\ UNCHANGED <<records, today, answers, shown>>

\* ... and whether the learning needs a review in another, which reads them again.
Review(r) ==
    /\ reporter[r].step = "review"
    /\ LET l == reporter[r].learning
       IN shown' = {[learning |-> l, metrics |-> reporter[r].metrics, on |-> today,
                     review |-> NeedsReview(OfFingerprint(Fingerprint[l]))]}
    /\ Became(r, NotReporting)
    /\ UNCHANGED <<records, today, answers, asks>>

-----------------------------------------------------------------------------
\* A caller dies, or gives up: what it has not committed is gone, and so is the
\* answer of what it has.
ReporterDies(r) ==
    /\ reporter[r].step # "idle"
    /\ Became(r, NotReporting)
    /\ UNCHANGED <<records, today, answers, shown, asks>>

DayPasses ==
    /\ today < MaxDay
    /\ today' = today + 1
    /\ UNCHANGED <<records, reporter, answers, shown, asks>>

RecurrenceNext ==
    \/ \E r \in Reporters, l \in Recurring :
          \/ Measure(r, l)
          \/ \E key \in RetryKeys \cup {NoKey}, fp \in {Fingerprint[l], "given"} : Report(r, l, fp, key)
    \/ \E r \in Reporters : Lookup(r) \/ Insert(r) \/ Acknowledge(r) \/ Review(r) \/ ReporterDies(r)
    \/ DayPasses

-----------------------------------------------------------------------------
(* Properties. *)

\* A technical retry is not a new occurrence: whatever callers race or die
\* with their answer under way, a key has one record, every report with the
\* key is answered with it, and no record is announced as new to two callers.
RetriesCountOnce ==
    /\ \A i \in DOMAIN records : records[i].key # NoKey =>
          \A j \in DOMAIN records : records[i].key = records[j].key => i = j
    /\ \A x \in answers :
          /\ x.id \in DOMAIN records
          /\ x.ask.key = records[x.id].key
          /\ x.new => /\ records[x.id].learning = x.ask.learning
                      /\ records[x.id].fp = x.ask.fp
          /\ \A y \in answers : x.new /\ y.new /\ x.id = y.id => x = y

\* What is shown together was read in two transactions: it never counts an
\* occurrence that is not there, and a learning it says needs a review is shown
\* with a last occurrence as old as that says.
ShownTogetherAgrees ==
    \A s \in shown :
        LET still == OfFingerprint(Fingerprint[s.learning])
        IN /\ s.metrics.count <= Len(still)
           /\ s.review => s.metrics.count = 0 \/ s.metrics.last < s.on - StaleAfter
           /\ s.metrics.count > 0 => s.metrics.first <= s.metrics.last /\ s.metrics.last <= still[1]
=============================================================================
