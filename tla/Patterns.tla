------------------------------ MODULE Patterns ------------------------------
(***************************************************************************)
(* Mined patterns and their promotion to learnings: the row of a pattern   *)
(* (internal/experience/patterns), its decisions by Dismiss and Promote    *)
(* (internal/experience/promotion) and the learning that Capture leaves    *)
(* under the idempotency key of the pattern (internal/capture).            *)
(*                                                                         *)
(* A pattern stands for its fingerprint, which names its row, and its key  *)
(* "promotion:" + fingerprint among the learnings.  Dismiss and Promote    *)
(* read the pattern in one transaction and write it in a later one, and    *)
(* Promote captures the learning in between; the revision that both        *)
(* compare is read in the writing transaction itself, so that it never     *)
(* fails and is left out.  Mining saves a pattern in one transaction.      *)
(***************************************************************************)
EXTENDS Naturals, Sequences, FiniteSets

CONSTANTS
    Procs,          \* invocations of Dismiss and Promote that may overlap
    Patterns,       \* fingerprints of patterns
    Events,         \* experience events, the members of patterns
    Reasons,        \* dismissal reasons
    Learnings,      \* learning ids
    None,           \* no row, no learning, no reason
    MaxMines,       \* bound: how often mining saves a pattern
    MaxFaults       \* bound: how many invocations fail or die half-way

ASSUME NoneAssumption == None \notin Patterns \cup Learnings \cup Reasons
ASSUME PatternsAssumption == Patterns # {}
ASSUME BoundAssumption == MaxMines \in Nat /\ MaxFaults \in Nat

VARIABLES
    pattern,        \* experience_patterns with their members
    learning,       \* learnings: the pattern whose key the row carries
    decisions,      \* audit_events of a pattern, oldest first
    proc,           \* the invocations
    mines,          \* how often a pattern was saved
    faults          \* how many invocations failed or died

vars == <<pattern, learning, decisions, proc, mines, faults>>

-----------------------------------------------------------------------------
(* Values *)

\* The status "stale" needs a newer detector version; every caller saves "v1".
Statuses == {"observed", "qualified", "dismissed", "promoted"}

Row == [status : Statuses, reason : Reasons \cup {None}, members : SUBSET Events \ {{}},
        proposed : Learnings \cup {None}]

ASSUME RowAssumption == None \notin Row

\* experience_pattern_promoted names the learning, experience_pattern_dismissed
\* none.
Decision == [what : {"promoted", "dismissed"}, learning : Learnings \cup {None}]

Pc == {"idle", "dismiss", "find", "insert", "promote"}

Invocation == [pc : Pc, pattern : Patterns, reason : Reasons \cup {None},
               learning : Learnings \cup {None}]

Idle == [pc |-> "idle", pattern |-> CHOOSE p \in Patterns : TRUE, reason |-> None,
         learning |-> None]

Init ==
    /\ pattern = [p \in Patterns |-> None]
    /\ learning = [l \in Learnings |-> None]
    /\ decisions = [p \in Patterns |-> <<>>]
    /\ proc = [self \in Procs |-> Idle]
    /\ mines = 0
    /\ faults = 0

At(self, pc) == proc[self].pc = pc
Pattern(self) == proc[self].pattern
Return(self) == proc' = [proc EXCEPT ![self] = Idle]
Goto(self, pc) == proc' = [proc EXCEPT ![self] = [@ EXCEPT !.pc = pc]]
Unbounded == UNCHANGED <<mines, faults>>

Saved(p) == pattern[p] # None
Decide(p, what, l) ==
    decisions' = [decisions EXCEPT ![p] = Append(@, [what |-> what, learning |-> l])]

-----------------------------------------------------------------------------
(* Mining *)

\* Qualify never qualifies fewer than two members; its other criteria are about
\* what the members say, so either decision may come of two.
Decisions(members) ==
    IF Cardinality(members) < 2 THEN {"observed"} ELSE {"observed", "qualified"}

\* A dismissed pattern stays dismissed unless the decision is qualified and
\* its members are not those it was dismissed with.
Suppressed(p, members, status) ==
    /\ pattern[p].status = "dismissed"
    /\ pattern[p].members = members \/ status # "qualified"

\* Mutant: a row keeps only the members that the last decision added.
MineNewMembers(p, members, status) ==
    /\ mines < MaxMines
    /\ mines' = mines + 1
    /\ pattern' =
         IF ~Saved(p)
         THEN [pattern EXCEPT ![p] = [status |-> status, reason |-> None,
                                      members |-> members, proposed |-> None]]
         ELSE IF Suppressed(p, members, status) THEN pattern
         ELSE [pattern EXCEPT ![p] = [status |-> status, reason |-> None,
                                      members |-> members \ @.members,
                                      proposed |-> @.proposed]]
    /\ UNCHANGED <<learning, decisions, proc, faults>>

\* SavePatternWithMembers: a row that exists takes over the status of the new
\* decision, whatever its own, keeps its learning and its members, and gains
\* members.
Mine(p, members, status) ==
    /\ mines < MaxMines
    /\ mines' = mines + 1
    /\ pattern' =
         IF ~Saved(p)
         THEN [pattern EXCEPT ![p] = [status |-> status, reason |-> None,
                                      members |-> members, proposed |-> None]]
         ELSE IF Suppressed(p, members, status) THEN pattern
         ELSE [pattern EXCEPT ![p] = [status |-> status, reason |-> None,
                                      members |-> @.members \cup members,
                                      proposed |-> @.proposed]]
    /\ UNCHANGED <<learning, decisions, proc, faults>>

-----------------------------------------------------------------------------
(* Dismiss *)

\* Dismiss reads the row: only one that is neither promoted nor dismissed goes
\* on (an unknown, promoted or dismissed pattern returns at once).
Dismiss(self, p, reason) ==
    /\ At(self, "idle")
    /\ Saved(p) /\ pattern[p].status \notin {"promoted", "dismissed"}
    /\ proc' = [proc EXCEPT ![self] = [Idle EXCEPT !.pc = "dismiss", !.pattern = p,
                                                  !.reason = reason]]
    /\ UNCHANGED <<pattern, learning, decisions>> /\ Unbounded

\* DismissAtomic: the row and its audit event in one transaction.
DismissAtomic(self) ==
    LET p == Pattern(self) IN
    /\ At(self, "dismiss")
    /\ pattern' = [pattern EXCEPT ![p] = [@ EXCEPT !.status = "dismissed",
                                                   !.reason = proc[self].reason]]
    /\ Decide(p, "dismissed", None)
    /\ Return(self)
    /\ UNCHANGED learning /\ Unbounded

-----------------------------------------------------------------------------
(* Promote *)

\* LookupPromotionState: only a qualified pattern goes on.  A promoted one
\* returns its learning, any other is refused, and neither changes anything.
\* (Get, which follows, only reads texts.)
Promote(self, p) ==
    /\ At(self, "idle")
    /\ Saved(p) /\ pattern[p].status = "qualified"
    /\ proc' = [proc EXCEPT ![self] = [Idle EXCEPT !.pc = "find", !.pattern = p]]
    /\ UNCHANGED <<pattern, learning, decisions>> /\ Unbounded

\* UNIQUE(project_id, idempotency_key) has a row for the key.
Captured(p) == \E l \in Learnings : learning[l] = p

\* Mutants: the key is not looked up; the key is not compared.
NoExisting(p) == {l \in Learnings : FALSE}
AnyExisting(p) == {l \in Learnings : learning[l] # None}

\* The learnings that findByIdempotencyKey finds.
Existing(p) == {l \in Learnings : learning[l] = p}

\* Capture looks the key up, outside of the transaction that inserts.  (Its
\* second lookup, by content, cannot find the learning of another pattern:
\* the title of a pattern holds its fingerprint.)
FindLearning(self) ==
    /\ At(self, "find")
    /\ LET found == Existing(Pattern(self)) IN
       IF found = {} THEN Goto(self, "insert")
       ELSE proc' = [proc EXCEPT ![self] = [@ EXCEPT !.pc = "promote",
                                                     !.learning = CHOOSE l \in found : TRUE]]
    /\ UNCHANGED <<pattern, learning, decisions>> /\ Unbounded

\* A UUID no other learning has; which one makes no difference.
Fresh == CHOOSE l \in Learnings : learning[l] = None

\* Mutant: without UNIQUE(project_id, idempotency_key).
InsertTwice(self) ==
    /\ At(self, "insert")
    /\ \E l \in Learnings : learning[l] = None
    /\ learning' = [learning EXCEPT ![Fresh] = Pattern(self)]
    /\ proc' = [proc EXCEPT ![self] = [@ EXCEPT !.pc = "promote", !.learning = Fresh]]
    /\ UNCHANGED <<pattern, decisions>> /\ Unbounded

\* SaveLearning; UNIQUE(project_id, idempotency_key) makes it fail when another
\* promotion inserted first.  The audit event and the record of the learning
\* follow, and Interrupt stands for their failures.
InsertLearning(self) ==
    LET p == Pattern(self) IN
    /\ At(self, "insert")
    /\ IF Captured(p)
       THEN Return(self) /\ UNCHANGED learning
       ELSE /\ \E l \in Learnings : learning[l] = None
            /\ learning' = [learning EXCEPT ![Fresh] = p]
            /\ proc' = [proc EXCEPT ![self] = [@ EXCEPT !.pc = "promote", !.learning = Fresh]]
    /\ UNCHANGED <<pattern, decisions>> /\ Unbounded

\* Mutant: only the first promotion of a pattern is audited.
PromoteAuditedOnce(self) ==
    LET p == Pattern(self) IN
    /\ At(self, "promote")
    /\ pattern' = [pattern EXCEPT ![p] = [@ EXCEPT !.status = "promoted",
                                                   !.proposed = proc[self].learning]]
    /\ IF pattern[p].proposed = None THEN Decide(p, "promoted", proc[self].learning)
       ELSE UNCHANGED decisions
    /\ Return(self)
    /\ UNCHANGED learning /\ Unbounded

\* PromoteAtomic: the row, whatever its status has become, and its audit event
\* in one transaction; a dismissal reason stays.
PromoteAtomic(self) ==
    LET p == Pattern(self) IN
    /\ At(self, "promote")
    /\ pattern' = [pattern EXCEPT ![p] = [@ EXCEPT !.status = "promoted",
                                                   !.proposed = proc[self].learning]]
    /\ Decide(p, "promoted", proc[self].learning)
    /\ Return(self)
    /\ UNCHANGED learning /\ Unbounded

\* A step fails, and its transaction is rolled back, or the process dies.
Interrupt(self) ==
    /\ ~At(self, "idle")
    /\ faults < MaxFaults
    /\ faults' = faults + 1
    /\ Return(self)
    /\ UNCHANGED <<pattern, learning, decisions, mines>>

\* What an invocation does once it was started.
Step(self) ==
    DismissAtomic(self) \/ FindLearning(self) \/ InsertLearning(self) \/ PromoteAtomic(self)

Next ==
    \/ \E p \in Patterns, members \in SUBSET Events \ {{}} :
          \E status \in Decisions(members) : Mine(p, members, status)
    \/ \E self \in Procs :
          \/ \E p \in Patterns, reason \in Reasons : Dismiss(self, p, reason)
          \/ \E p \in Patterns : Promote(self, p)
          \/ Step(self)
          \/ Interrupt(self)

Spec == Init /\ [][Next]_vars

\* A running invocation goes on, and whoever promotes a pattern asks again
\* while it is still qualified (promotion/service.go: "recoverable via the
\* idempotent retry").
RetrySpec ==
    /\ Spec
    /\ \A self \in Procs : WF_vars(Step(self))
    /\ \A p \in Patterns : WF_vars(\E self \in Procs : Promote(self, p))

-----------------------------------------------------------------------------
(* Properties *)

\* Type invariant: rows, decisions and invocations have their shape, and a
\* pattern always has members to trace it to.
TypeOK ==
    /\ pattern \in [Patterns -> Row \cup {None}]
    /\ learning \in [Learnings -> Patterns \cup {None}]
    /\ decisions \in [Patterns -> Seq(Decision)]
    /\ proc \in [Procs -> Invocation]
    /\ mines \in Nat
    /\ faults \in Nat

\* A promoted pattern has a learning, and every learning that a pattern
\* proposes was captured under the key of this very pattern, also after it
\* was mined again or dismissed.
PromotedHasLearning == \A p \in Patterns : Saved(p) =>
    /\ pattern[p].status = "promoted" => pattern[p].proposed # None
    /\ pattern[p].proposed # None => learning[pattern[p].proposed] = p

\* A pattern proposes one learning for ever: however often it is demoted by
\* mining and promoted again, by whatever overlapping invocations, no second
\* learning takes the place of the first.
LearningStays ==
    [][\A p \in Patterns : Saved(p) /\ pattern[p].proposed # None =>
         Saved(p)' /\ pattern'[p].proposed = pattern[p].proposed]_vars

\* One pattern, one learning, captured for it.
PromotedOnce == []PromotedHasLearning /\ LearningStays

\* The audit trail explains the row: the last decision about a promoted or
\* dismissed pattern is the one its status shows, and every promotion on the
\* trail names the learning that the row proposes.
StatusAudited == \A p \in Patterns : Saved(p) =>
    LET trail == decisions[p] IN
    /\ pattern[p].status \in {"promoted", "dismissed"} =>
          trail # <<>> /\ trail[Len(trail)].what = pattern[p].status
    /\ \A i \in 1..Len(trail) :
          trail[i].what = "promoted" => trail[i].learning = pattern[p].proposed

\* A learning left by a promotion that failed or died half-way is taken up by
\* a retry: its pattern ends up with it, unless it stopped being qualified.
Qualified(p) == Saved(p) /\ pattern[p].status = "qualified"

PromotionCompletes == \A p \in Patterns :
    (Qualified(p) /\ Captured(p)) ~> (~Qualified(p) \/ pattern[p].proposed # None)

=============================================================================
