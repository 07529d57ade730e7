------------------------------- MODULE Mining -------------------------------
(***************************************************************************)
(* From experience events to saved patterns (internal/experience/patterns): *)
(* Group puts events into clusters, Qualify judges a cluster, IngestCluster *)
(* saves it with its members.  The three are a library: no command of the   *)
(* repository calls them in a row yet, and the order is that of its         *)
(* documentation and tests.  What becomes of a saved pattern is Patterns;   *)
(* here a row only changes by mining and by a dismissal.                    *)
(*                                                                         *)
(* A text is an opaque value.  The fingerprint of an event is its canonical *)
(* content, and Rank stands for the order of the hashes.                    *)
(***************************************************************************)
EXTENDS Integers, FiniteSets

CONSTANTS
    Events,         \* what may happen: id, kind, text, terms, result, session, day
    Rank(_),        \* the place of a fingerprint among all, arbitrary but fixed
    Volatile,       \* terms that normalisation strips (identifiers, paths, ports)
    Generic,        \* genericSingleWord
    MaxClusterMembers,
    MinDistinctSessions, MinDistinctDays, MinSuccessfulOccurrences,
    JaccardOver, JaccardUnder,  \* MinRetrievalJaccard as a fraction
    MaxRounds       \* bound: minings begun

\* Config.Validate. Group gives no cluster at all for a configuration without it.
ValidConfig ==
    /\ {MaxClusterMembers, MinDistinctSessions, MinSuccessfulOccurrences} \subseteq Nat \ {0}
    /\ MinDistinctDays \in Nat
    /\ 0 < JaccardOver /\ JaccardOver <= JaccardUnder
ASSUME MiningAssumption ==
    ValidConfig /\ MaxRounds \in Nat /\ \A x, y \in Events : x.id \in Nat /\ (x.id = y.id => x = y)

VARIABLES
    events,         \* experience_events
    queue,          \* the clusters that the mining under way has still to save
    mined,          \* the events it was given
    saved,           \* experience_patterns by fingerprint, with their members
    rounds          \* minings begun
minVars == <<events, queue, mined, saved, rounds>>

-----------------------------------------------------------------------------
(* Fingerprints                                                             *)

NormalizeRetrievalTerms(T) == T \ Volatile

\* PatternFingerprint: what an event says, without its volatile values; neither its
\* identity nor its session or time.
PatternFingerprint(e) == <<e.kind, e.text, e.result, NormalizeRetrievalTerms(e.terms)>>
Fingerprints == {PatternFingerprint(e) : e \in Events}

ASSUME RankAssumption ==
    \A f, g \in Fingerprints : Rank(f) \in Nat /\ (Rank(f) = Rank(g) => f = g)

-----------------------------------------------------------------------------
(* Group                                                                    *)

Succeeded(S) == {e \in S : e.result \in {"success", "corrected"}}

\* buildClusterRecord, of the n-th chunk of a partition. An event without a session
\* counts for no session.
ClusterRecord(fp, n, S) ==
    [fp |-> fp, kind |-> fp[1], chunk |-> n, members |-> S,
     terms |-> UNION {NormalizeRetrievalTerms(e.terms) : e \in S},
     sessions |-> {e.session : e \in S} \ {0}, days |-> {e.day : e \in S},
     distinctSessions |-> Cardinality({e.session : e \in S} \ {0}),
     distinctDays |-> Cardinality({e.day : e \in S}),
     successes |-> Cardinality(Succeeded(S)), count |-> Cardinality(S)]

\* A partition has the events of one fingerprint, in the order of their ids, and is
\* cut into chunks of at most MaxClusterMembers.
PlaceOf(e, S) ==
    Cardinality({x \in S : x.id < e.id /\ PatternFingerprint(x) = PatternFingerprint(e)})
ChunkOf(e, S) == PlaceOf(e, S) \div MaxClusterMembers
ChunkLike(e, S) ==
    {x \in S : PatternFingerprint(x) = PatternFingerprint(e) /\ ChunkOf(x, S) = ChunkOf(e, S)}
Chunks(S) == {ClusterRecord(PatternFingerprint(e), ChunkOf(e, S), ChunkLike(e, S)) : e \in S}

\* The clusters lie in the order of their kinds, then of their hashes (Rank), and
\* those of one partition as they were cut.
Before(x, y) == Rank(x.fp) < Rank(y.fp) \/ (x.fp = y.fp /\ x.chunk < y.chunk)

\* shouldMergeClusters. Without any term there is no overlap.
Overlap(x, y) ==
    /\ x.terms # {} /\ y.terms # {}
    /\ Cardinality(x.terms \cap y.terms) * JaccardUnder >= Cardinality(x.terms \cup y.terms) * JaccardOver
ShouldMerge(x, y) ==
    /\ x.fp # y.fp /\ x.kind = y.kind
    /\ Overlap(x, y)
    /\ x.count + y.count <= MaxClusterMembers

\* mergeClusterRecords: the left one keeps its fingerprint and its place.
Merge(x, y) ==
    LET sessions == x.sessions \cup y.sessions
        days == x.days \cup y.days
    IN [fp |-> x.fp, kind |-> x.kind, chunk |-> x.chunk,
        members |-> x.members \cup y.members, terms |-> x.terms \cup y.terms,
        sessions |-> sessions, days |-> days,
        distinctSessions |-> Cardinality(sessions), distinctDays |-> Cardinality(days),
        successes |-> x.successes + y.successes, count |-> x.count + y.count]

\* The first pair that should merge does; every merge may make new pairs possible.
MergeFirst(C) ==
    LET Pairs == {p \in C \X C : Before(p[1], p[2]) /\ ShouldMerge(p[1], p[2])}
        first == CHOOSE p \in Pairs : \A q \in Pairs :
                     p = q \/ Before(p[1], q[1]) \/ (p[1] = q[1] /\ Before(p[2], q[2]))
    IN IF Pairs = {} THEN C ELSE (C \ {first[1], first[2]}) \cup {Merge(first[1], first[2])}

\* Until no pair should, which takes less rounds than there are clusters.
Group(S) ==
    LET chunks == Chunks(S)
        merged[n \in 0..Cardinality(chunks)] ==
            IF n = 0 THEN chunks ELSE MergeFirst(merged[n - 1])
    IN merged[Cardinality(chunks)]

-----------------------------------------------------------------------------
(* Qualify                                                                  *)

\* What the caller knows of a cluster beyond its events: that the user repeated a
\* correction, and that it is contradicted, or covered by a learning.
Verdicts == [corrected : BOOLEAN, barred : BOOLEAN]

Qualify(c, v) ==
    IF /\ c.count >= 2 /\ Cardinality(c.members) >= 2
       /\ c.distinctSessions >= 2 /\ Cardinality(c.sessions) >= 2
       /\ c.distinctSessions >= MinDistinctSessions \/ c.distinctDays >= MinDistinctDays
       /\ c.successes >= MinSuccessfulOccurrences \/ v.corrected
       /\ ~v.barred
       /\ c.kind \notin {"preference", "unknown"}
       /\ ~(Cardinality(c.terms) = 1 /\ c.terms \subseteq Generic)
    THEN "qualified" ELSE "observed"

-----------------------------------------------------------------------------
(* The steps                                                                *)

NoPattern == [status |-> "none", members |-> {}, corrected |-> FALSE]

Arrive(e) ==
    /\ e \notin events
    /\ events' = events \cup {e}
    /\ UNCHANGED <<queue, mined, saved, rounds>>

Mine ==
    /\ queue = {} /\ rounds < MaxRounds /\ events # {}
    /\ queue' = Group(events) /\ mined' = events
    /\ rounds' = rounds + 1
    /\ UNCHANGED <<events, saved>>

\* SavePatternWithMembers: a new row; a dismissed one that stays so, unless the
\* decision is to qualify and the members are not those it has; or a row that
\* takes over the decision and gains the members. The clusters come in the order of
\* their fingerprints, those of one fingerprint in any (sort.Slice is not stable).
Suppressed(row, c, status) ==
    row.status = "dismissed" /\ (row.members = c.members \/ status # "qualified")
IngestCluster(c, v) ==
    LET status == Qualify(c, v)
        row == saved[c.fp]
    IN
    /\ \A d \in queue : Rank(c.fp) <= Rank(d.fp)
    /\ queue' = queue \ {c}
    /\ saved' = IF Suppressed(row, c, status) THEN saved
               ELSE [saved EXCEPT ![c.fp] = [status |-> status, members |-> row.members \cup c.members,
                                            corrected |-> status = "qualified" /\ v.corrected]]
    /\ UNCHANGED <<events, mined, rounds>>

\* A reviewer dismisses a pattern.
Dismiss(fp) ==
    /\ saved[fp].status \in {"observed", "qualified"}
    /\ saved' = [saved EXCEPT ![fp].status = "dismissed"]
    /\ UNCHANGED <<events, queue, mined, rounds>>

\* The mining dies, or fails, between two clusters: those saved stay.
MiningDies ==
    /\ queue # {}
    /\ queue' = {} /\ mined' = {}
    /\ UNCHANGED <<events, saved, rounds>>

MinInit ==
    /\ events = {} /\ queue = {} /\ mined = {}
    /\ saved = [fp \in Fingerprints |-> NoPattern]
    /\ rounds = 0

MinNext ==
    \/ \E e \in Events : Arrive(e)
    \/ Mine
    \/ \E c \in queue, v \in Verdicts : IngestCluster(c, v)
    \/ \E fp \in Fingerprints : Dismiss(fp)
    \/ MiningDies

MinSpec == MinInit /\ [][MinNext]_minVars

-----------------------------------------------------------------------------
(* Properties *)

\* The shape of the state.
MinTypeOK ==
    /\ events \subseteq Events /\ mined \subseteq events
    /\ saved \in [Fingerprints -> [status : {"none", "observed", "qualified", "dismissed"},
                                  members : SUBSET Events, corrected : BOOLEAN]]
    /\ rounds \in 0..MaxRounds

\* Whatever is merged with whatever: the clusters are a partition of the events by
\* kind, none above the cap; their numbers are those of their members, counted
\* anew; and no two are left that the rule would merge (cluster.go: "We iterate
\* until stable").
GroupSound ==
    LET C == Group(events) IN
    /\ UNION {c.members : c \in C} = events
    /\ \A c \in C :
        /\ c = ClusterRecord(c.fp, c.chunk, c.members)
        /\ c.count <= MaxClusterMembers
        /\ \A e \in c.members : e.kind = c.kind
        /\ \A d \in C \ {c} : c.members \cap d.members = {} /\ ~ShouldMerge(c, d)

\* A pattern that asks for review has the evidence among the members that can be
\* listed for it, after any number of minings, merges and dismissals: events of two
\* sessions, of enough sessions or days, and enough of them successful.
QualifiedJustified ==
    \A fp \in DOMAIN saved : saved[fp].status = "qualified" =>
        LET S == saved[fp].members
            sessions == {e.session : e \in S} \ {0}
        IN
        /\ Cardinality(S) >= 2 /\ Cardinality(sessions) >= 2
        /\ \/ Cardinality(sessions) >= MinDistinctSessions
           \/ Cardinality({e.day : e \in S}) >= MinDistinctDays
        /\ Cardinality(Succeeded(S)) >= MinSuccessfulOccurrences \/ saved[fp].corrected

\* A mining that came to its end leaves no event behind: each is a member of the
\* pattern of its cluster, unless that one is dismissed.  (Clusters of one
\* fingerprint, the chunks above the cap, share one row: a dismissed row may pass
\* over the first and be reopened by the second.  Of them this is not so.)
NoneLost ==
    LET C == Group(mined)
        Alone(c) == \A d \in C : d.fp = c.fp => d = c
    IN queue = {} => \A c \in C : Alone(c) =>
        \/ c.members \subseteq saved[c.fp].members
        \/ saved[c.fp].status = "dismissed"

EvidenceSound == GroupSound /\ QualifiedJustified /\ NoneLost
=============================================================================
