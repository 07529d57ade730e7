--------------------------- MODULE PatternsProofs ---------------------------
(***************************************************************************)
(* A pattern proposes one learning for ever, and the audit trail explains  *)
(* its row, for any number of overlapping dismissals and promotions.       *)
(*                                                                         *)
(* What carries the proof is the idempotency key: a learning that a        *)
(* promotion carries from Capture to PromoteAtomic has the key of its      *)
(* pattern (CarriesOwn), and a key has one learning (OneLearning).  Two    *)
(* promotions of a pattern hence write the same learning, in any order.    *)
(***************************************************************************)
EXTENDS Patterns, TLAPS

USE DEF Pc, Statuses

(***************************************************************************)
(* The type invariant.                                                     *)
(***************************************************************************)

\* An invocation that returns is idle again.
LEMMA IdleType == Idle \in Invocation
<1>1. (CHOOSE p \in Patterns : TRUE) \in Patterns
  BY PatternsAssumption
<1>2. QED  BY <1>1 DEF Idle, Invocation

\* A mined row has the shape of its table.
LEMMA MineType ==
  ASSUME TypeOK, NEW p \in Patterns, NEW members \in SUBSET Events \ {{}},
         NEW status \in Decisions(members), Mine(p, members, status)
  PROVE  pattern' \in [Patterns -> Row \cup {None}]
<1>1. status \in {"observed", "qualified"}
  BY DEF Decisions
<1>2. CASE ~Saved(p)
  <2>1. [status |-> status, reason |-> None, members |-> members, proposed |-> None] \in Row
    BY <1>1 DEF Row
  <2>2. QED  BY <1>2, <2>1 DEF Mine, TypeOK
<1>3. CASE Saved(p) /\ Suppressed(p, members, status)
  BY <1>3 DEF Mine, TypeOK
<1>4. CASE Saved(p) /\ ~Suppressed(p, members, status)
  <2> DEFINE row == [status |-> status, reason |-> None,
                     members |-> pattern[p].members \cup members,
                     proposed |-> pattern[p].proposed]
  <2>1. pattern[p] \in Row
    BY <1>4 DEF TypeOK, Saved
  <2>2. row \in Row
    BY <1>1, <2>1 DEF Row
  <2>3. pattern' = [pattern EXCEPT ![p] = row]
    BY <1>4 DEF Mine
  <2>4. QED  BY <2>2, <2>3 DEF TypeOK
<1>5. QED  BY <1>2, <1>3, <1>4

\* A decision is one more entry on the trail of its pattern.
LEMMA DecideType ==
  ASSUME TypeOK, NEW p \in Patterns, NEW what \in {"promoted", "dismissed"},
         NEW l \in Learnings \cup {None}, Decide(p, what, l)
  PROVE  decisions' \in [Patterns -> Seq(Decision)]
<1>1. [what |-> what, learning |-> l] \in Decision
  BY DEF Decision
<1>2. Append(decisions[p], [what |-> what, learning |-> l]) \in Seq(Decision)
  BY <1>1 DEF TypeOK
<1>3. QED  BY <1>2 DEF Decide, TypeOK

\* An invocation past its first read works on a row that exists.
OnSaved == \A self \in Procs : ~At(self, "idle") => Saved(Pattern(self))

\* The learning that Promote carries is a row with the key of its pattern.
CarriesOwn == \A self \in Procs : At(self, "promote") =>
    /\ proc[self].learning \in Learnings
    /\ learning[proc[self].learning] = Pattern(self)

\* The learnings that Capture finds are learnings.
LEMMA FoundType ==
  ASSUME TypeOK, NEW p \in Patterns, Existing(p) # {}
  PROVE  LET l == CHOOSE l \in Existing(p) : TRUE
         IN  l \in Learnings /\ learning[l] = p
<1>1. (CHOOSE l \in Existing(p) : TRUE) \in Existing(p)
  OBVIOUS
<1>2. QED  BY <1>1 DEF Existing

\* A fresh id has no row yet.
LEMMA FreshType ==
  ASSUME \E l \in Learnings : learning[l] = None
  PROVE  Fresh \in Learnings /\ learning[Fresh] = None
BY DEF Fresh

\* Every step keeps the shape of the rows and of the invocations.
LEMMA TypeStep ==
  ASSUME TypeOK, OnSaved, [Next]_vars
  PROVE  TypeOK'
<1>1. CASE UNCHANGED vars
  BY <1>1 DEF vars, TypeOK
<1>2. ASSUME NEW p \in Patterns, NEW members \in SUBSET Events \ {{}},
             NEW status \in Decisions(members), Mine(p, members, status)
      PROVE  TypeOK'
  <2>1. pattern' \in [Patterns -> Row \cup {None}]
    BY <1>2, MineType
  <2>2. QED  BY <1>2, <2>1 DEF TypeOK, Mine
<1>3. ASSUME NEW self \in Procs, NEW p \in Patterns, NEW reason \in Reasons,
             Dismiss(self, p, reason)
      PROVE  TypeOK'
  <2>1. [Idle EXCEPT !.pc = "dismiss", !.pattern = p, !.reason = reason] \in Invocation
    BY IdleType DEF Invocation
  <2>2. QED  BY <1>3, <2>1 DEF Dismiss, TypeOK, Unbounded
<1>4. ASSUME NEW self \in Procs, DismissAtomic(self)  PROVE TypeOK'
  <2>1. Pattern(self) \in Patterns /\ proc[self].reason \in Reasons \cup {None}
    BY DEF TypeOK, Invocation, Pattern
  <2>2. pattern[Pattern(self)] \in Row
    BY <1>4, <2>1 DEF DismissAtomic, OnSaved, Saved, At, TypeOK
  <2>3. [pattern[Pattern(self)] EXCEPT !.status = "dismissed",
                                       !.reason = proc[self].reason] \in Row
    BY <2>1, <2>2 DEF Row
  <2>4. pattern' \in [Patterns -> Row \cup {None}]
    BY <1>4, <2>3 DEF DismissAtomic, TypeOK
  <2>5. decisions' \in [Patterns -> Seq(Decision)]
    BY <1>4, <2>1, DecideType DEF DismissAtomic
  <2>6. QED  BY <1>4, <2>4, <2>5, IdleType DEF DismissAtomic, TypeOK, Return, Unbounded
<1>5. ASSUME NEW self \in Procs, NEW p \in Patterns, Promote(self, p)  PROVE TypeOK'
  <2>1. [Idle EXCEPT !.pc = "find", !.pattern = p] \in Invocation
    BY IdleType DEF Invocation
  <2>2. QED  BY <1>5, <2>1 DEF Promote, TypeOK, Unbounded
<1>6. ASSUME NEW self \in Procs, FindLearning(self)  PROVE TypeOK'
  <2>1. proc[self] \in Invocation /\ Pattern(self) \in Patterns
    BY DEF TypeOK, Invocation, Pattern
  <2>2. CASE Existing(Pattern(self)) = {}
    <3>1. [proc[self] EXCEPT !.pc = "insert"] \in Invocation
      BY <2>1 DEF Invocation
    <3>2. QED  BY <1>6, <2>2, <3>1 DEF FindLearning, Goto, TypeOK, Unbounded
  <2>3. CASE Existing(Pattern(self)) # {}
    <3> DEFINE l == CHOOSE l \in Existing(Pattern(self)) : TRUE
    <3>1. l \in Learnings
      BY <2>1, <2>3, FoundType
    <3>2. [proc[self] EXCEPT !.pc = "promote", !.learning = l] \in Invocation
      BY <2>1, <3>1 DEF Invocation
    <3>3. QED  BY <1>6, <2>3, <3>2 DEF FindLearning, TypeOK, Unbounded
  <2>4. QED  BY <2>2, <2>3
<1>7. ASSUME NEW self \in Procs, InsertLearning(self)  PROVE TypeOK'
  <2>1. proc[self] \in Invocation /\ Pattern(self) \in Patterns
    BY DEF TypeOK, Invocation, Pattern
  <2>2. CASE Captured(Pattern(self))
    BY <1>7, <2>2, IdleType DEF InsertLearning, Return, TypeOK, Unbounded
  <2>3. CASE ~Captured(Pattern(self))
    <3>1. Fresh \in Learnings
      BY <1>7, <2>3, FreshType DEF InsertLearning
    <3>2. [proc[self] EXCEPT !.pc = "promote", !.learning = Fresh] \in Invocation
      BY <2>1, <3>1 DEF Invocation
    <3>3. QED  BY <1>7, <2>1, <2>3, <3>2 DEF InsertLearning, TypeOK, Unbounded
  <2>4. QED  BY <2>2, <2>3
<1>8. ASSUME NEW self \in Procs, PromoteAtomic(self)  PROVE TypeOK'
  <2>1. Pattern(self) \in Patterns /\ proc[self].learning \in Learnings \cup {None}
    BY DEF TypeOK, Invocation, Pattern
  <2>2. pattern[Pattern(self)] \in Row
    BY <1>8, <2>1 DEF PromoteAtomic, OnSaved, Saved, At, TypeOK
  <2>3. [pattern[Pattern(self)] EXCEPT !.status = "promoted",
                                       !.proposed = proc[self].learning] \in Row
    BY <2>1, <2>2 DEF Row
  <2>4. pattern' \in [Patterns -> Row \cup {None}]
    BY <1>8, <2>3 DEF PromoteAtomic, TypeOK
  <2>5. decisions' \in [Patterns -> Seq(Decision)]
    BY <1>8, <2>1, DecideType DEF PromoteAtomic
  <2>6. QED  BY <1>8, <2>4, <2>5, IdleType DEF PromoteAtomic, TypeOK, Return, Unbounded
<1>9. ASSUME NEW self \in Procs, Interrupt(self)  PROVE TypeOK'
  BY <1>9, IdleType DEF Interrupt, Return, TypeOK
<1>10. QED
  BY <1>1, <1>2, <1>3, <1>4, <1>5, <1>6, <1>7, <1>8, <1>9 DEF Next, Step

(***************************************************************************)
(* The invariant: one learning of a pattern, whoever carries it.           *)
(***************************************************************************)

\* A key has one learning (UNIQUE(project_id, idempotency_key)).
OneLearning == \A l, k \in Learnings :
    learning[l] = learning[k] /\ learning[l] # None => l = k

\* A promotion on the trail names a learning with the key of its pattern, and
\* a pattern without a row has no trail.
TrailOwn == \A p \in Patterns :
    /\ ~Saved(p) => decisions[p] = <<>>
    /\ \A i \in 1..Len(decisions[p]) : decisions[p][i].what = "promoted" =>
          /\ decisions[p][i].learning \in Learnings
          /\ learning[decisions[p][i].learning] = p

LInv == /\ TypeOK /\ OnSaved /\ CarriesOwn /\ OneLearning /\ TrailOwn
        /\ PromotedHasLearning /\ StatusAudited

\* The tables start empty and the invocations idle.
LEMMA InvInit ==
  ASSUME Init
  PROVE  LInv
<1>1. TypeOK
  BY IdleType DEF Init, TypeOK
<1>2. OnSaved /\ CarriesOwn
  BY DEF Init, OnSaved, CarriesOwn, At, Idle
<1>3. OneLearning
  BY DEF Init, OneLearning
<1>4. TrailOwn /\ PromotedHasLearning /\ StatusAudited
  BY DEF Init, TrailOwn, PromotedHasLearning, StatusAudited, Saved
<1>5. QED  BY <1>1, <1>2, <1>3, <1>4 DEF LInv

\* Mining leaves a row.
LEMMA MineSaves ==
  ASSUME TypeOK, NEW p \in Patterns, NEW members \in SUBSET Events \ {{}},
         NEW status \in Decisions(members), Mine(p, members, status)
  PROVE  Saved(p)'
<1>0. status \in {"observed", "qualified"}
  BY DEF Decisions
<1>1. CASE ~Saved(p)
  <2>1. pattern'[p] = [status |-> status, reason |-> None, members |-> members,
                       proposed |-> None]
    BY <1>1 DEF Mine, TypeOK
  <2>2. pattern'[p] \in Row
    BY <1>0, <2>1 DEF Row
  <2>3. QED  BY <2>2, RowAssumption DEF Saved
<1>2. CASE Saved(p) /\ Suppressed(p, members, status)
  BY <1>2 DEF Mine, Saved
<1>3. CASE Saved(p) /\ ~Suppressed(p, members, status)
  <2>1. pattern[p] \in Row
    BY <1>3 DEF TypeOK, Saved
  <2>2. pattern'[p] = [status |-> status, reason |-> None,
                       members |-> pattern[p].members \cup members,
                       proposed |-> pattern[p].proposed]
    BY <1>3 DEF Mine, TypeOK
  <2>3. pattern'[p] \in Row
    BY <1>0, <2>1, <2>2 DEF Row
  <2>4. QED  BY <2>3, RowAssumption DEF Saved
<1>4. QED  BY <1>1, <1>2, <1>3

\* Mining keeps the learning of a row, its trail and every other table.
LEMMA MineInv ==
  ASSUME LInv, TypeOK', NEW p \in Patterns, NEW members \in SUBSET Events \ {{}},
         NEW status \in Decisions(members), Mine(p, members, status)
  PROVE  LInv'
<1>0. /\ status \in {"observed", "qualified"}
      /\ TypeOK
  BY DEF Decisions, LInv
<1>1. UNCHANGED <<learning, decisions, proc>>
  BY DEF Mine
<1>2. \A q \in Patterns : q # p => pattern'[q] = pattern[q]
  BY <1>0 DEF Mine, TypeOK
<1>3. Saved(p)'
  BY <1>0, MineSaves
<1>4. /\ Saved(p) => pattern'[p].proposed = pattern[p].proposed
      /\ ~Saved(p) => pattern'[p].proposed = None
      /\ \/ pattern'[p].status \in {"observed", "qualified"}
         \/ Saved(p) /\ pattern'[p] = pattern[p]
  BY <1>0 DEF Mine, TypeOK
<1>5. \A q \in Patterns : Saved(q) => Saved(q)'
  BY <1>2, <1>3 DEF Saved
<1>6. OnSaved' /\ CarriesOwn' /\ OneLearning'
  <2>1. OnSaved'
    BY <1>0, <1>1, <1>5 DEF LInv, OnSaved, At, Pattern, TypeOK, Invocation
  <2>2. CarriesOwn' /\ OneLearning'
    BY <1>1 DEF LInv, CarriesOwn, OneLearning, At, Pattern
  <2>3. QED  BY <2>1, <2>2
<1>7. TrailOwn'
  BY <1>1, <1>5 DEF LInv, TrailOwn
<1>8. PromotedHasLearning'
  <2> SUFFICES ASSUME NEW q \in Patterns, Saved(q)'
               PROVE  /\ pattern'[q].status = "promoted" => pattern'[q].proposed # None
                      /\ pattern'[q].proposed # None => learning'[pattern'[q].proposed] = q
    BY DEF PromotedHasLearning
  <2>1. CASE q # p
    BY <1>1, <1>2, <2>1 DEF LInv, PromotedHasLearning, Saved
  <2>2. CASE q = p /\ Saved(p)
    BY <1>1, <1>4, <2>2 DEF LInv, PromotedHasLearning
  <2>3. CASE q = p /\ ~Saved(p)
    BY <1>4, <2>3
  <2>4. QED  BY <2>1, <2>2, <2>3
<1>9. StatusAudited'
  <2> SUFFICES ASSUME NEW q \in Patterns, Saved(q)'
               PROVE  /\ pattern'[q].status \in {"promoted", "dismissed"} =>
                            /\ decisions'[q] # <<>>
                            /\ decisions'[q][Len(decisions'[q])].what = pattern'[q].status
                      /\ \A i \in 1..Len(decisions'[q]) :
                            decisions'[q][i].what = "promoted" =>
                               decisions'[q][i].learning = pattern'[q].proposed
    BY DEF StatusAudited
  <2>1. CASE q # p
    BY <1>1, <1>2, <2>1 DEF LInv, StatusAudited, Saved
  <2>2. CASE q = p /\ Saved(p)
    BY <1>1, <1>4, <2>2 DEF LInv, StatusAudited
  <2>3. CASE q = p /\ ~Saved(p)
    <3>1. decisions'[q] = <<>>
      BY <1>1, <2>3 DEF LInv, TrailOwn
    <3>2. pattern'[q].status \in {"observed", "qualified"}
      BY <1>4, <2>3
    <3>3. QED  BY <3>1, <3>2
  <2>4. QED  BY <2>1, <2>2, <2>3
<1>10. QED  BY <1>6, <1>7, <1>8, <1>9 DEF LInv

\* A step that only moves an invocation keeps everything about the tables.
LEMMA MoveInv ==
  ASSUME LInv, TypeOK', UNCHANGED <<pattern, learning, decisions>>, OnSaved', CarriesOwn'
  PROVE  LInv'
<1>1. OneLearning'
  BY DEF LInv, OneLearning
<1>2. TrailOwn'
  BY DEF LInv, TrailOwn, Saved
<1>3. PromotedHasLearning'
  BY DEF LInv, PromotedHasLearning, Saved
<1>4. StatusAudited'
  BY DEF LInv, StatusAudited, Saved
<1>5. QED  BY <1>1, <1>2, <1>3, <1>4 DEF LInv

\* An invocation that returns carries nothing.
LEMMA ReturnInv ==
  ASSUME LInv, TypeOK', NEW self \in Procs, Return(self),
         UNCHANGED <<pattern, learning, decisions>>
  PROVE  LInv'
<1>1. proc'[self].pc = "idle" /\ \A other \in Procs : other # self => proc'[other] = proc[other]
  BY DEF LInv, TypeOK, Return, Idle
<1>2. OnSaved'
  BY <1>1 DEF LInv, OnSaved, At, Pattern, Saved
<1>3. CarriesOwn'
  BY <1>1 DEF LInv, CarriesOwn, At, Pattern
<1>4. QED  BY <1>2, <1>3, MoveInv

\* Dismiss and Promote start on a row that they just read.
LEMMA StartInv ==
  ASSUME LInv, TypeOK', NEW self \in Procs, NEW p \in Patterns, Saved(p),
         proc'[self].pc \in {"dismiss", "find"}, proc'[self].pattern = p,
         \A other \in Procs : other # self => proc'[other] = proc[other],
         UNCHANGED <<pattern, learning, decisions>>
  PROVE  LInv'
<1>1. OnSaved'
  BY DEF LInv, OnSaved, At, Pattern, Saved
<1>2. CarriesOwn'
  BY DEF LInv, CarriesOwn, At, Pattern
<1>3. QED  BY <1>1, <1>2, MoveInv

\* The learning that Capture finds under the key has the key of the pattern.
LEMMA FindInv ==
  ASSUME LInv, TypeOK', NEW self \in Procs, FindLearning(self)
  PROVE  LInv'
<1>0. TypeOK /\ Pattern(self) \in Patterns
  BY DEF LInv, TypeOK, Invocation, Pattern
<1>1. UNCHANGED <<pattern, learning, decisions>>
  BY DEF FindLearning
<1>2. \A other \in Procs : other # self => proc'[other] = proc[other]
  BY <1>0 DEF FindLearning, TypeOK, Goto
<1>3. proc'[self].pattern = Pattern(self)
  BY <1>0 DEF FindLearning, TypeOK, Goto, Pattern, Invocation
<1>4. Saved(Pattern(self))
  BY DEF LInv, OnSaved, FindLearning, At
<1>5. OnSaved'
  BY <1>1, <1>2, <1>3, <1>4 DEF LInv, OnSaved, At, Pattern, Saved
<1>6. CarriesOwn'
  <2>1. CASE Existing(Pattern(self)) = {}
    <3>1. proc'[self].pc = "insert"
      BY <1>0, <2>1 DEF FindLearning, TypeOK, Goto, Invocation
    <3>2. QED  BY <1>1, <1>2, <3>1 DEF LInv, CarriesOwn, At, Pattern
  <2>2. CASE Existing(Pattern(self)) # {}
    <3> DEFINE l == CHOOSE l \in Existing(Pattern(self)) : TRUE
    <3>1. l \in Learnings /\ learning[l] = Pattern(self)
      BY <1>0, <2>2, FoundType
    <3>2. proc'[self].learning = l
      <4>1. proc' = [proc EXCEPT ![self] = [@ EXCEPT !.pc = "promote", !.learning = l]]
        BY <2>2 DEF FindLearning
      <4>2. proc[self] \in Invocation
        BY <1>0 DEF TypeOK
      <4> HIDE DEF l
      <4>3. QED  BY <1>0, <4>1, <4>2 DEF TypeOK, Invocation
    <3>3. learning'[proc'[self].learning] = proc'[self].pattern
      BY <1>1, <1>3, <3>1, <3>2
    <3>4. QED  BY <1>1, <1>2, <3>1, <3>2, <3>3 DEF LInv, CarriesOwn, At, Pattern
  <2>3. QED  BY <2>1, <2>2
<1>7. QED  BY <1>1, <1>5, <1>6, MoveInv

\* A new learning is the first of its key, and takes no other's place.
LEMMA InsertInv ==
  ASSUME LInv, TypeOK', NEW self \in Procs, InsertLearning(self)
  PROVE  LInv'
<1>0. TypeOK /\ Pattern(self) \in Patterns /\ Saved(Pattern(self))
  BY DEF LInv, TypeOK, Invocation, Pattern, OnSaved, InsertLearning, At
<1>1. CASE Captured(Pattern(self))
  BY <1>1, ReturnInv DEF InsertLearning
<1>2. CASE ~Captured(Pattern(self))
  <2> DEFINE p == Pattern(self)
  <2>1. Fresh \in Learnings /\ learning[Fresh] = None
    BY <1>2, FreshType DEF InsertLearning
  <2>2. learning' = [learning EXCEPT ![Fresh] = p]
    BY <1>2 DEF InsertLearning
  <2>3. /\ learning'[Fresh] = p
        /\ \A l \in Learnings : l # Fresh => learning'[l] = learning[l]
        /\ \A l \in Learnings : learning[l] # None => learning'[l] = learning[l]
    BY <1>0, <2>1, <2>2 DEF TypeOK
  <2>4. UNCHANGED <<pattern, decisions>>
    BY DEF InsertLearning
  <2>5. /\ \A other \in Procs : other # self => proc'[other] = proc[other]
        /\ proc'[self].pattern = p /\ proc'[self].learning = Fresh
    <3>1. proc' = [proc EXCEPT ![self] = [@ EXCEPT !.pc = "promote", !.learning = Fresh]]
      BY <1>2 DEF InsertLearning
    <3>2. proc[self] \in Invocation
      BY <1>0 DEF TypeOK
    <3>3. QED  BY <1>0, <3>1, <3>2 DEF TypeOK, Invocation, Pattern
  <2>6. \A q \in Patterns : q # None
    BY NoneAssumption
  <2>7. OnSaved'
    BY <1>0, <2>4, <2>5 DEF LInv, OnSaved, At, Pattern, Saved
  <2>8. CarriesOwn'
    <3> SUFFICES ASSUME NEW other \in Procs, At(other, "promote")'
                 PROVE  /\ proc'[other].learning \in Learnings
                        /\ learning'[proc'[other].learning] = proc'[other].pattern
      BY DEF CarriesOwn, Pattern
    <3>1. CASE other = self
      BY <2>1, <2>3, <2>5, <3>1
    <3>2. CASE other # self
      <4>1. At(other, "promote") /\ proc'[other] = proc[other]
        BY <2>5, <3>2 DEF At
      <4>2. /\ proc[other].learning \in Learnings
            /\ learning[proc[other].learning] = proc[other].pattern
        BY <4>1 DEF LInv, CarriesOwn, Pattern
      <4>3. proc[other].pattern \in Patterns
        BY <1>0 DEF TypeOK, Invocation
      <4>4. QED  BY <2>3, <2>6, <4>1, <4>2, <4>3
    <3>3. QED  BY <3>1, <3>2
  <2>9. OneLearning'
    <3> SUFFICES ASSUME NEW l \in Learnings, NEW k \in Learnings,
                        learning'[l] = learning'[k], learning'[l] # None
                 PROVE  l = k
      BY DEF OneLearning
    <3>1. \A m \in Learnings : learning[m] # p
      BY <1>2 DEF Captured
    <3>2. QED  BY <2>1, <2>3, <3>1 DEF LInv, OneLearning
  <2>10. TrailOwn'
    BY <2>3, <2>4, <2>6 DEF LInv, TrailOwn, Saved
  <2>11. PromotedHasLearning'
    <3> SUFFICES ASSUME NEW q \in Patterns, Saved(q)
                 PROVE  /\ pattern[q].status = "promoted" => pattern[q].proposed # None
                        /\ pattern[q].proposed # None => learning'[pattern[q].proposed] = q
      BY <2>4 DEF PromotedHasLearning, Saved
    <3>1. pattern[q].proposed \in Learnings \cup {None}
      BY <1>0 DEF TypeOK, Saved, Row
    <3>2. QED  BY <2>3, <2>6, <3>1 DEF LInv, PromotedHasLearning
  <2>12. StatusAudited'
    BY <2>4 DEF LInv, StatusAudited, Saved
  <2>13. QED  BY <2>7, <2>8, <2>9, <2>10, <2>11, <2>12 DEF LInv
<1>3. QED  BY <1>1, <1>2

\* What a decision does to the row and the trail of its pattern: the others
\* keep theirs, and the new entry comes last.
LEMMA DecideTrail ==
  ASSUME TypeOK, NEW p \in Patterns, NEW what \in {"promoted", "dismissed"},
         NEW l \in Learnings \cup {None}, Decide(p, what, l)
  PROVE  /\ \A q \in Patterns : q # p => decisions'[q] = decisions[q]
         /\ Len(decisions'[p]) = Len(decisions[p]) + 1
         /\ \A i \in 1..Len(decisions[p]) : decisions'[p][i] = decisions[p][i]
         /\ decisions'[p][Len(decisions'[p])] = [what |-> what, learning |-> l]
<1>1. decisions[p] \in Seq(Decision) /\ [what |-> what, learning |-> l] \in Decision
  BY DEF TypeOK, Decision
<1>2. decisions'[p] = Append(decisions[p], [what |-> what, learning |-> l])
  BY DEF TypeOK, Decide
<1>3. \A q \in Patterns : q # p => decisions'[q] = decisions[q]
  BY DEF TypeOK, Decide
<1>4. QED  BY <1>1, <1>2, <1>3

\* A decision writes the row and the trail together: the new entry names the
\* learning of the row, and so do the older ones if the row keeps the learning
\* that they name.
LEMMA DecideInv ==
  ASSUME LInv, TypeOK', NEW self \in Procs, NEW p \in Patterns, p = Pattern(self), Saved(p),
         NEW what \in {"promoted", "dismissed"}, NEW l \in Learnings \cup {None},
         Decide(p, what, l), Return(self), UNCHANGED learning,
         \A q \in Patterns : q # p => pattern'[q] = pattern[q],
         pattern'[p] \in Row, pattern'[p].status = what,
         what = "promoted" =>
            l \in Learnings /\ learning[l] = p /\ pattern'[p].proposed = l,
         what = "dismissed" => pattern'[p].proposed = pattern[p].proposed
  PROVE  LInv'
<1>0. TypeOK
  BY DEF LInv
<1>1. proc'[self].pc = "idle" /\ \A other \in Procs : other # self => proc'[other] = proc[other]
  BY <1>0 DEF TypeOK, Return, Idle
<1>2. /\ \A q \in Patterns : q # p => decisions'[q] = decisions[q]
      /\ Len(decisions'[p]) = Len(decisions[p]) + 1
      /\ \A i \in 1..Len(decisions[p]) : decisions'[p][i] = decisions[p][i]
      /\ decisions'[p][Len(decisions'[p])] = [what |-> what, learning |-> l]
  BY <1>0, DecideTrail
<1>3. Len(decisions[p]) \in Nat
  BY <1>0 DEF TypeOK
<1>4. Saved(p)' /\ \A q \in Patterns : Saved(q)' = Saved(q)
  BY RowAssumption DEF Saved
<1>5. OnSaved'
  BY <1>1, <1>4 DEF LInv, OnSaved, At, Pattern, TypeOK, Invocation
<1>6. CarriesOwn'
  BY <1>1 DEF LInv, CarriesOwn, At, Pattern
<1>7. OneLearning'
  BY DEF LInv, OneLearning
<1>8. TrailOwn'
  <2> SUFFICES ASSUME NEW q \in Patterns
               PROVE  /\ ~Saved(q)' => decisions'[q] = <<>>
                      /\ \A i \in 1..Len(decisions'[q]) :
                            decisions'[q][i].what = "promoted" =>
                               /\ decisions'[q][i].learning \in Learnings
                               /\ learning'[decisions'[q][i].learning] = q
    BY DEF TrailOwn
  <2>1. CASE q # p
    BY <1>2, <1>4, <2>1 DEF LInv, TrailOwn
  <2>2. CASE q = p
    <3> SUFFICES ASSUME NEW i \in 1..Len(decisions'[p]), decisions'[p][i].what = "promoted"
                 PROVE  /\ decisions'[p][i].learning \in Learnings
                        /\ learning'[decisions'[p][i].learning] = p
      BY <1>4, <2>2
    <3>1. CASE i \in 1..Len(decisions[p])
      BY <1>2, <3>1 DEF LInv, TrailOwn
    <3>2. CASE i = Len(decisions'[p])
      BY <1>2, <3>2
    <3>3. QED  BY <1>2, <1>3, <3>1, <3>2
  <2>3. QED  BY <2>1, <2>2
<1>9. PromotedHasLearning'
  <2> SUFFICES ASSUME NEW q \in Patterns, Saved(q)
               PROVE  /\ pattern'[q].status = "promoted" => pattern'[q].proposed # None
                      /\ pattern'[q].proposed # None => learning[pattern'[q].proposed] = q
    BY <1>4 DEF PromotedHasLearning
  <2>1. CASE q # p
    BY <2>1 DEF LInv, PromotedHasLearning
  <2>2. CASE q = p /\ what = "promoted"
    BY <2>2, NoneAssumption
  <2>3. CASE q = p /\ what = "dismissed"
    BY <2>3 DEF LInv, PromotedHasLearning
  <2>4. QED  BY <2>1, <2>2, <2>3
<1>10. StatusAudited'
  <2> SUFFICES ASSUME NEW q \in Patterns, Saved(q)
               PROVE  /\ pattern'[q].status \in {"promoted", "dismissed"} =>
                            /\ decisions'[q] # <<>>
                            /\ decisions'[q][Len(decisions'[q])].what = pattern'[q].status
                      /\ \A i \in 1..Len(decisions'[q]) :
                            decisions'[q][i].what = "promoted" =>
                               decisions'[q][i].learning = pattern'[q].proposed
    BY <1>4 DEF StatusAudited
  <2>1. CASE q # p
    BY <1>2, <2>1 DEF LInv, StatusAudited
  <2>2. CASE q = p
    <3>1. decisions'[p] # <<>> /\ decisions'[p][Len(decisions'[p])].what = pattern'[p].status
      BY <1>2, <1>3
    <3>2. ASSUME NEW i \in 1..Len(decisions'[p]), decisions'[p][i].what = "promoted"
          PROVE  decisions'[p][i].learning = pattern'[p].proposed
      <4>1. CASE i = Len(decisions'[p])
        BY <1>2, <3>2, <4>1
      <4>2. CASE i \in 1..Len(decisions[p]) /\ what = "dismissed"
        BY <1>2, <3>2, <4>2 DEF LInv, StatusAudited
      <4>3. CASE i \in 1..Len(decisions[p]) /\ what = "promoted"
        <5>1. /\ decisions[p][i].learning \in Learnings
              /\ learning[decisions[p][i].learning] = p
          BY <1>2, <3>2, <4>3 DEF LInv, TrailOwn
        <5>2. decisions[p][i].learning = l
          BY <4>3, <5>1, NoneAssumption DEF LInv, OneLearning
        <5>3. QED  BY <1>2, <4>3, <5>2
      <4>4. QED  BY <1>2, <1>3, <4>1, <4>2, <4>3
    <3>3. QED  BY <2>2, <3>1, <3>2
  <2>3. QED  BY <2>1, <2>2
<1>11. QED  BY <1>5, <1>6, <1>7, <1>8, <1>9, <1>10 DEF LInv

\* A dismissal keeps the learning of the row.
LEMMA DismissInv ==
  ASSUME LInv, TypeOK', NEW self \in Procs, DismissAtomic(self)
  PROVE  LInv'
<1> DEFINE p == Pattern(self)
<1>1. TypeOK /\ p \in Patterns /\ Saved(p)
  BY DEF LInv, TypeOK, Invocation, Pattern, OnSaved, DismissAtomic, At
<1>2. pattern[p] \in Row /\ proc[self].reason \in Reasons \cup {None}
  BY <1>1 DEF TypeOK, Saved, Invocation
<1>3. pattern' = [pattern EXCEPT ![p] = [@ EXCEPT !.status = "dismissed",
                                                  !.reason = proc[self].reason]]
  BY DEF DismissAtomic
<1>4. /\ \A q \in Patterns : q # p => pattern'[q] = pattern[q]
      /\ pattern'[p] = [pattern[p] EXCEPT !.status = "dismissed", !.reason = proc[self].reason]
  BY <1>1, <1>3 DEF TypeOK
<1>5. /\ pattern'[p] \in Row /\ pattern'[p].status = "dismissed"
      /\ pattern'[p].proposed = pattern[p].proposed
  BY <1>2, <1>4 DEF Row
<1>6. Decide(p, "dismissed", None) /\ Return(self) /\ UNCHANGED learning
  BY DEF DismissAtomic
<1> HIDE DEF p
<1>7. p = Pattern(self)
  BY DEF p
<1>8. QED  BY <1>1, <1>4, <1>5, <1>6, <1>7, DecideInv

\* A promotion writes the learning that it carries, which has the key of its
\* pattern.
LEMMA PromoteRow ==
  ASSUME LInv, NEW self \in Procs, PromoteAtomic(self)
  PROVE  LET p == Pattern(self)
             l == proc[self].learning
         IN  /\ p \in Patterns /\ Saved(p)
             /\ l \in Learnings /\ learning[l] = p
             /\ \A q \in Patterns : q # p => pattern'[q] = pattern[q]
             /\ pattern'[p] \in Row /\ pattern'[p].status = "promoted"
             /\ pattern'[p].proposed = l
<1> DEFINE p == Pattern(self)
           l == proc[self].learning
<1>1. TypeOK /\ p \in Patterns /\ Saved(p)
  BY DEF LInv, TypeOK, Invocation, Pattern, OnSaved, PromoteAtomic, At
<1>2. l \in Learnings /\ learning[l] = p
  BY DEF LInv, CarriesOwn, PromoteAtomic
<1>3. pattern[p] \in Row
  BY <1>1 DEF TypeOK, Saved
<1>4. pattern' = [pattern EXCEPT ![p] = [@ EXCEPT !.status = "promoted", !.proposed = l]]
  BY DEF PromoteAtomic
<1> HIDE DEF p, l
<1>5. /\ \A q \in Patterns : q # p => pattern'[q] = pattern[q]
      /\ pattern'[p] = [pattern[p] EXCEPT !.status = "promoted", !.proposed = l]
  BY <1>1, <1>4 DEF TypeOK
<1>6. pattern'[p] \in Row /\ pattern'[p].status = "promoted" /\ pattern'[p].proposed = l
  BY <1>2, <1>3, <1>5 DEF Row
<1>7. QED  BY <1>1, <1>2, <1>5, <1>6 DEF p, l

LEMMA PromoteInv ==
  ASSUME LInv, TypeOK', NEW self \in Procs, PromoteAtomic(self)
  PROVE  LInv'
<1> DEFINE p == Pattern(self)
           l == proc[self].learning
<1>1. /\ p \in Patterns /\ Saved(p)
      /\ l \in Learnings /\ learning[l] = p
      /\ \A q \in Patterns : q # p => pattern'[q] = pattern[q]
      /\ pattern'[p] \in Row /\ pattern'[p].status = "promoted"
      /\ pattern'[p].proposed = l
  BY PromoteRow
<1>2. Decide(p, "promoted", l) /\ Return(self) /\ UNCHANGED learning
  BY DEF PromoteAtomic
<1>3. p = Pattern(self)
  OBVIOUS
<1> HIDE DEF p, l
<1>4. QED  BY <1>1, <1>2, <1>3, DecideInv

\* Every step keeps the invariant.
LEMMA InvStep ==
  ASSUME LInv, [Next]_vars
  PROVE  LInv'
<1>0. TypeOK'
  BY TypeStep DEF LInv
<1>1. CASE UNCHANGED vars
  <2>1. OnSaved' /\ CarriesOwn'
    BY <1>1 DEF LInv, vars, OnSaved, CarriesOwn, At, Pattern, Saved
  <2>2. QED  BY <1>0, <1>1, <2>1, MoveInv DEF vars
<1>2. ASSUME NEW p \in Patterns, NEW members \in SUBSET Events \ {{}},
             NEW status \in Decisions(members), Mine(p, members, status)
      PROVE  LInv'
  BY <1>0, <1>2, MineInv
<1>3. ASSUME NEW self \in Procs, NEW p \in Patterns, NEW reason \in Reasons,
             Dismiss(self, p, reason)
      PROVE  LInv'
  <2>1. /\ proc' = [proc EXCEPT ![self] = [Idle EXCEPT !.pc = "dismiss", !.pattern = p,
                                                       !.reason = reason]]
        /\ Saved(p) /\ UNCHANGED <<pattern, learning, decisions>>
    BY <1>3 DEF Dismiss
  <2>2. /\ proc'[self].pc = "dismiss" /\ proc'[self].pattern = p
        /\ \A other \in Procs : other # self => proc'[other] = proc[other]
    BY <2>1 DEF LInv, TypeOK, Idle
  <2>3. QED  BY <1>0, <2>1, <2>2, StartInv
<1>4. ASSUME NEW self \in Procs, NEW p \in Patterns, Promote(self, p)
      PROVE  LInv'
  <2>1. /\ proc' = [proc EXCEPT ![self] = [Idle EXCEPT !.pc = "find", !.pattern = p]]
        /\ Saved(p) /\ UNCHANGED <<pattern, learning, decisions>>
    BY <1>4 DEF Promote
  <2>2. /\ proc'[self].pc = "find" /\ proc'[self].pattern = p
        /\ \A other \in Procs : other # self => proc'[other] = proc[other]
    BY <2>1 DEF LInv, TypeOK, Idle
  <2>3. QED  BY <1>0, <2>1, <2>2, StartInv
<1>5. ASSUME NEW self \in Procs, Interrupt(self)
      PROVE  LInv'
  BY <1>0, <1>5, ReturnInv DEF Interrupt
<1>6. QED
  BY <1>0, <1>1, <1>2, <1>3, <1>4, <1>5, FindInv, InsertInv, DismissInv, PromoteInv
     DEF Next, Step

\* A row is never deleted.
LEMMA RowStays ==
  ASSUME LInv, [Next]_vars, NEW p \in Patterns, Saved(p)
  PROVE  Saved(p)'
<1>0. TypeOK /\ pattern[p] \in Row
  BY DEF LInv, TypeOK, Saved
<1>1. CASE UNCHANGED pattern
  BY <1>1 DEF Saved
<1>2. ASSUME NEW q \in Patterns, NEW members \in SUBSET Events \ {{}},
             NEW status \in Decisions(members), Mine(q, members, status)
      PROVE  Saved(p)'
  <2>1. CASE p # q
    BY <1>0, <1>2, <2>1 DEF Mine, TypeOK, Saved
  <2>2. CASE p = q
    BY <1>0, <1>2, <2>2, MineSaves
  <2>3. QED  BY <2>1, <2>2
<1>3. ASSUME NEW self \in Procs, DismissAtomic(self)
      PROVE  Saved(p)'
  <2>1. pattern' = [pattern EXCEPT ![Pattern(self)] =
                      [@ EXCEPT !.status = "dismissed", !.reason = proc[self].reason]]
    BY <1>3 DEF DismissAtomic
  <2>2. proc[self].reason \in Reasons \cup {None}
    BY <1>0 DEF TypeOK, Invocation
  <2>3. [pattern[p] EXCEPT !.status = "dismissed", !.reason = proc[self].reason] \in Row
    BY <1>0, <2>2 DEF Row
  <2>4. pattern'[p] \in Row
    BY <1>0, <2>1, <2>3 DEF TypeOK
  <2>5. QED  BY <2>4, RowAssumption DEF Saved
<1>4. ASSUME NEW self \in Procs, PromoteAtomic(self)
      PROVE  Saved(p)'
  <2>1. CASE p # Pattern(self)
    BY <1>4, <2>1, PromoteRow DEF Saved
  <2>2. CASE p = Pattern(self)
    BY <1>4, <2>2, PromoteRow, RowAssumption DEF Saved
  <2>3. QED  BY <2>1, <2>2
<1>5. QED
  BY <1>1, <1>2, <1>3, <1>4
     DEF Next, Step, vars, Dismiss, Promote, FindLearning, InsertLearning, Interrupt

\* Only a promotion writes the learning of a row, and if the row had one, it
\* is the same.
LEMMA ProposedStays ==
  ASSUME LInv, [Next]_vars, NEW p \in Patterns, Saved(p), pattern[p].proposed # None
  PROVE  Saved(p)' /\ pattern'[p].proposed = pattern[p].proposed
<1>0. TypeOK /\ pattern[p] \in Row
  BY DEF LInv, TypeOK, Saved
<1>1. CASE UNCHANGED pattern
  BY <1>1 DEF Saved
<1>2. ASSUME NEW q \in Patterns, NEW members \in SUBSET Events \ {{}},
             NEW status \in Decisions(members), Mine(q, members, status)
      PROVE  pattern'[p].proposed = pattern[p].proposed
  <2>1. CASE p # q
    BY <1>0, <1>2, <2>1 DEF Mine, TypeOK
  <2>2. CASE p = q /\ Suppressed(q, members, status)
    BY <1>2, <2>2 DEF Mine
  <2>3. CASE p = q /\ ~Suppressed(q, members, status)
    BY <1>0, <1>2, <2>3 DEF Mine, TypeOK
  <2>4. QED  BY <2>1, <2>2, <2>3
<1>3. ASSUME NEW self \in Procs, DismissAtomic(self)
      PROVE  pattern'[p].proposed = pattern[p].proposed
  <2>1. pattern' = [pattern EXCEPT ![Pattern(self)] =
                      [@ EXCEPT !.status = "dismissed", !.reason = proc[self].reason]]
    BY <1>3 DEF DismissAtomic
  <2>2. QED  BY <1>0, <2>1 DEF TypeOK, Row
<1>4. ASSUME NEW self \in Procs, PromoteAtomic(self)
      PROVE  pattern'[p].proposed = pattern[p].proposed
  <2>1. CASE p # Pattern(self)
    BY <1>4, <2>1, PromoteRow
  <2>2. CASE p = Pattern(self)
    <3>1. /\ proc[self].learning \in Learnings /\ learning[proc[self].learning] = p
          /\ pattern'[p].proposed = proc[self].learning
      BY <1>4, <2>2, PromoteRow
    <3>2. pattern[p].proposed \in Learnings /\ learning[pattern[p].proposed] = p
      BY <1>0 DEF LInv, PromotedHasLearning, Row
    <3>3. QED  BY <3>1, <3>2, NoneAssumption DEF LInv, OneLearning
  <2>3. QED  BY <2>1, <2>2
<1>5. Saved(p)'
  BY RowStays
<1>6. QED
  BY <1>1, <1>2, <1>3, <1>4, <1>5
     DEF Next, Step, vars, Dismiss, Promote, FindLearning, InsertLearning, Interrupt

(***************************************************************************)
(* The theorems.                                                           *)
(***************************************************************************)

\* Every reachable state satisfies the invariant.
THEOREM InvCorrect == Spec => []LInv
<1>1. Init => LInv
  BY InvInit
<1>2. LInv /\ [Next]_vars => LInv'
  BY InvStep
<1>3. QED  BY <1>1, <1>2, PTL DEF Spec

\* Rows, decisions and invocations keep their shape.
THEOREM TypeCorrect == Spec => []TypeOK
<1>1. LInv => TypeOK
  BY DEF LInv
<1>2. QED  BY <1>1, InvCorrect, PTL

\* What a pattern proposes was captured under its key, and a promoted pattern
\* proposes something.
THEOREM PromotedHasLearningCorrect == Spec => []PromotedHasLearning
<1>1. LInv => PromotedHasLearning
  BY DEF LInv
<1>2. QED  BY <1>1, InvCorrect, PTL

\* The trail of a pattern explains its row.
THEOREM StatusAuditedCorrect == Spec => []StatusAudited
<1>1. LInv => StatusAudited
  BY DEF LInv
<1>2. QED  BY <1>1, InvCorrect, PTL

\* A pattern proposes one learning for ever.
THEOREM LearningStaysCorrect == Spec => LearningStays
<1>1. LInv /\ [Next]_vars =>
        [\A p \in Patterns : Saved(p) /\ pattern[p].proposed # None =>
           Saved(p)' /\ pattern'[p].proposed = pattern[p].proposed]_vars
  BY ProposedStays
<1>2. QED  BY <1>1, InvCorrect, PTL DEF Spec, LearningStays

\* Every promoted pattern has a learning of its own, always the same.
THEOREM PromotedOnceCorrect == Spec => PromotedOnce
<1>1. QED  BY PromotedHasLearningCorrect, LearningStaysCorrect DEF PromotedOnce
=============================================================================
