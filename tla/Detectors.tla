----------------------------- MODULE Detectors ------------------------------
(***************************************************************************)
(* "experience detect": the retry detector over the observations a caller  *)
(* hands it, and the turn it leaves in the experience store                *)
(* (internal/experience/detectors, cmd/royo-learn/experience_detect.go).   *)
(* The clock is that of the command, not of the observations.              *)
(***************************************************************************)
EXTENDS Integers, Sequences, FiniteSets

CONSTANTS
    Problems,       \* fingerprints of observations
    Threshold,      \* failures that make a retry
    WindowDuration,
    MaxObservations, MaxNow     \* bounds: observations, and the clock
ASSUME DetectorsAssumption ==
    Threshold \in Nat /\ Threshold >= 2 /\ WindowDuration \in Nat \ {0}

VARIABLES
    observed,       \* what happened, oldest first
    now,            \* the clock
    registry,       \* detectors registered in the process, by kind
    recorded        \* turns of the session "detector:retry", by their fingerprint
detVars == <<observed, now, registry, recorded>>

Results == {"fail", "success"}

Observe(p, result) ==
    /\ Len(observed) < MaxObservations
    /\ observed' = Append(observed, [problem |-> p, result |-> result, at |-> now])
    /\ UNCHANGED <<now, registry, recorded>>

Tick ==
    /\ now < MaxNow
    /\ now' = now + 1
    /\ UNCHANGED <<observed, registry, recorded>>

\* Registry.Register: the second of a kind is refused, the first stays.
Register(kind) ==
    /\ kind \notin registry
    /\ registry' = registry \cup {kind}
    /\ UNCHANGED <<observed, now, recorded>>

\* Detect: only a failure can be a retry; it counts itself and every failure of the
\* same fingerprint, among those it is told of, that is not older than the window.
Counted(p, told) ==
    {i \in told : /\ observed[i].problem = p /\ observed[i].result = "fail"
                  /\ now - observed[i].at <= WindowDuration}
Occurrences(current, told) ==
    IF observed[current].result # "fail" THEN 0
    ELSE 1 + Cardinality(Counted(observed[current].problem, told))

\* EventFingerprint: the problem and the count, and nothing of the clock.
RetryEvent(p, n) == [problem |-> p, occurrences |-> n]

\* The command. The same event again is the same turn, which the ingestion finds to
\* be a duplicate.
Detect(told) ==
    LET current == Len(observed)
        n == Occurrences(current, told)
    IN
    /\ "retry" \in registry
    /\ recorded' = IF n < Threshold THEN recorded
                   ELSE recorded \cup {RetryEvent(observed[current].problem, n)}
    /\ UNCHANGED <<observed, now, registry>>

DetInit == observed = <<>> /\ now = 0 /\ registry = {} /\ recorded = {}

DetNext ==
    \/ \E p \in Problems, result \in Results : Observe(p, result)
    \/ Tick
    \/ Register("retry")
    \/ \E told \in SUBSET (1..(Len(observed) - 1)) : observed # <<>> /\ Detect(told)

\* A recorded retry happened: as many failures as it says, and all of them within
\* one window, whenever the command ran and whatever part of the past it was told.
RetryTrue ==
    \A r \in recorded : \E S \in SUBSET (1..Len(observed)) :
        /\ Cardinality(S) = r.occurrences /\ r.occurrences >= Threshold
        /\ \A i \in S : observed[i].problem = r.problem /\ observed[i].result = "fail"
        /\ \A i, j \in S : observed[i].at - observed[j].at <= WindowDuration
=============================================================================
