------------------------------ MODULE GateProofs ------------------------------
(***************************************************************************)
(* What a publication wrote is what was approved, and what the drift job   *)
(* reports is what it saw, for any publishers, lessons and releases.       *)
(*                                                                         *)
(* The gate of Approvals looks at the approvals once; from there to the    *)
(* row of the publication only the plan, the approval named and two counts *)
(* travel.  What is invariant is that they keep saying of the approvals on *)
(* record, which only grow, what the gate saw (Cleared).                   *)
(***************************************************************************)
EXTENDS MCGate, FiniteSetTheorems, SequenceTheorems, TLAPS

-----------------------------------------------------------------------------
(* Sequences that only grow *)

IsSeq(s) == \E S : s \in Seq(S)
IsFun(f, S) == f = [x \in S |-> f[x]]

\* A row at the end of a table moves none of those before it.
LEMMA AppendLast ==
  ASSUME NEW s, IsSeq(s), NEW row
  PROVE  /\ IsSeq(Append(s, row))
         /\ Len(s) \in Nat /\ Len(Append(s, row)) = Len(s) + 1
         /\ DOMAIN s = 1..Len(s) /\ DOMAIN Append(s, row) = 1..(Len(s) + 1)
         /\ \A i \in 1..Len(s) : Append(s, row)[i] = s[i]
         /\ Append(s, row)[Len(s) + 1] = row
<1>1. PICK S : s \in Seq(S)
  BY DEF IsSeq
<1>2. PICK T : T = S \cup {row}
  OBVIOUS
<1>3. s \in Seq(T) /\ row \in T
  BY <1>1, <1>2
<1>4. Append(s, row) \in Seq(T)
  BY <1>3, AppendProperties
<1>5. QED  BY <1>3, <1>4, AppendProperties DEF IsSeq

\* An empty table is a sequence.
LEMMA EmptyIsSeq == IsSeq(<<>>) /\ DOMAIN <<>> = {} /\ Len(<<>>) = 0
<1>1. <<>> \in Seq({})
  OBVIOUS
<1>2. QED  BY <1>1 DEF IsSeq

-----------------------------------------------------------------------------
(* Approvals: the invariant *)

\* Tables and trees have their shape.
ApprShape ==
    /\ IsSeq(approvals) /\ IsSeq(releases)
    /\ IsFun(content, TargetFiles) /\ IsFun(gate, Publishers)
    /\ \A plan \in plans : IsFun(plan.prior, Covers(plan))

\* What the gate found out for a plan: the approval it let through is of that
\* plan, was in force, and is the newest of those that it could see.
Cleared(plan, id, at, seen) ==
    /\ id \in 0..Len(approvals) /\ seen \in 0..Len(approvals)
    /\ Sensitive(plan) => id # NoApproval
    /\ id # NoApproval =>
          /\ approvals[id].plan = plan
          /\ ~Expired(approvals[id], at)
          /\ \A j \in 1..seen :
                approvals[j].plan = plan => approvals[j].created <= approvals[id].created

GatesCleared == \A p \in Publishers :
    gate[p].step = "passed" => Cleared(gate[p].plan, gate[p].id, gate[p].at, gate[p].seen)

ReleasesCleared == \A i \in DOMAIN releases :
    /\ Cleared(releases[i].plan, releases[i].id, releases[i].at, releases[i].seen)
    /\ releases[i].before = releases[i].plan.prior

ApprInv == ApprTypeOK /\ ApprShape /\ GatesCleared /\ ReleasesCleared

-----------------------------------------------------------------------------
(* Files and plans *)

\* What a curator may choose is a target file.
LEMMA DestinationsAreFiles ==
  ASSUME NEW l \in Lessons
  PROVE  DestinationsOf(l) \subseteq TargetFiles
BY DEF TargetFiles

\* A preview is of target files and says of each what it would do to it.
LEMMA PlanOfOK ==
  ASSUME ApprTypeOK, NEW l \in Lessons
  PROVE  PlanOK(PlanOf(l)) /\ IsFun(PlanOf(l).prior, Covers(PlanOf(l)))
<1>1. PICK files : files = FilesOf(choice[l])
  OBVIOUS
<1>2. files \subseteq TargetFiles
  <2>1. PICK c \in TargetFiles : c = choice[l]
    BY DEF ApprTypeOK
  <2>2. Agents \in TargetFiles /\ Index \in TargetFiles
    BY DEF TargetFiles
  <2>3. files = FilesOf(c)
    BY <1>1, <2>1
  <2>4. CASE c[1] = "skill"
    BY <2>2, <2>3, <2>4 DEF FilesOf
  <2>5. CASE c[1] # "skill"
    BY <2>3, <2>5 DEF FilesOf
  <2>6. QED  BY <2>4, <2>5
<1>3. PlanOf(l) = [lesson |-> l, policy |-> Policies(l),
                   ops |-> [f \in files |-> Operation(f)],
                   prior |-> [f \in files |-> content[f]]]
  BY <1>1 DEF PlanOf
<1>4. /\ PlanOf(l).lesson = l /\ PlanOf(l).policy = Policies(l)
      /\ PlanOf(l).ops = [f \in files |-> Operation(f)]
      /\ PlanOf(l).prior = [f \in files |-> content[f]]
  BY <1>3
<1>5. Covers(PlanOf(l)) = files
  BY <1>4 DEF Covers
<1>6. QED  BY <1>2, <1>4, <1>5 DEF PlanOK, IsFun

\* What was cleared stays so while approvals are added.
LEMMA ClearedStays ==
  ASSUME NEW plan, NEW id, NEW at, NEW seen, Cleared(plan, id, at, seen),
         IsSeq(approvals), NEW row, approvals' \in {approvals, Append(approvals, row)}
  PROVE  Cleared(plan, id, at, seen)'
<1>1. CASE approvals' = approvals
  BY <1>1 DEF Cleared, Expired
<1>2. CASE approvals' = Append(approvals, row)
  <2>1. /\ Len(approvals) \in Nat /\ Len(approvals') = Len(approvals) + 1
        /\ \A i \in 1..Len(approvals) : approvals'[i] = approvals[i]
    BY <1>2, AppendLast
  <2>2. id \in 0..Len(approvals) /\ seen \in 0..Len(approvals)
    BY DEF Cleared
  <2>3. \A j \in 1..seen : j \in 1..Len(approvals)
    BY <2>1, <2>2
  <2>4. id # NoApproval => id \in 1..Len(approvals)
    BY <2>1, <2>2 DEF NoApproval
  <2>5. QED  BY <2>1, <2>2, <2>3, <2>4 DEF Cleared, Expired
<1>3. QED  BY <1>1, <1>2

-----------------------------------------------------------------------------
(* Approvals: the steps *)

\* A step that leaves plans, approvals and releases alone, moves at most one
\* publisher, and keeps the tree a tree.
LEMMA ApprMove ==
  ASSUME ApprInv, UNCHANGED <<plans, approvals, releases>>,
         tick' \in 0..MaxTick, choice' \in [Lessons -> TargetFiles],
         published' \subseteq Lessons, IsFun(content', TargetFiles),
         DOMAIN head' = TargetFiles,
         NEW p, NEW g,
         \/ gate' = gate
         \/ /\ p \in Publishers /\ gate' = [gate EXCEPT ![p] = g]
            /\ g.step # "idle" => g.plan \in plans
            /\ g.step = "passed" => Cleared(g.plan, g.id, g.at, g.seen)
  PROVE  ApprInv'
<1>1. DOMAIN content' = TargetFiles
  BY DEF IsFun
<1>2. /\ IsFun(gate', Publishers) /\ DOMAIN gate' = Publishers
      /\ \A q \in Publishers : \/ gate'[q] = gate[q]
                               \/ /\ gate'[q] = g
                                  /\ g.step # "idle" => g.plan \in plans
                                  /\ g.step = "passed" => Cleared(g.plan, g.id, g.at, g.seen)
  <2>1. IsFun(gate, Publishers) /\ DOMAIN gate = Publishers
    BY DEF ApprInv, ApprShape, ApprTypeOK
  <2>2. CASE gate' = gate
    BY <2>1, <2>2
  <2>3. CASE gate' # gate
    BY <2>1, <2>3 DEF IsFun
  <2>4. QED  BY <2>2, <2>3
<1>3. ApprTypeOK'
  BY <1>1, <1>2 DEF ApprInv, ApprTypeOK, PlanOK, Covers, Policies
<1>4. ApprShape'
  BY <1>2 DEF ApprInv, ApprShape, Covers
<1>5. \A plan, id, at, seen : Cleared(plan, id, at, seen)' <=> Cleared(plan, id, at, seen)
  BY DEF Cleared, Expired
<1>6. GatesCleared'
  BY <1>2, <1>5 DEF ApprInv, GatesCleared
<1>7. ReleasesCleared'
  BY <1>5 DEF ApprInv, ReleasesCleared
<1>8. QED  BY <1>3, <1>4, <1>6, <1>7 DEF ApprInv

LEMMA SavePreviewStep ==
  ASSUME ApprInv, NEW l \in Lessons, SavePreview(l)
  PROVE  ApprInv'
<1>1. PICK plan : plan = PlanOf(l)
  OBVIOUS
<1>2. PlanOK(plan) /\ IsFun(plan.prior, Covers(plan))
  BY <1>1, PlanOfOK DEF ApprInv
<1>3. /\ plans' = plans \cup {plan}
      /\ UNCHANGED <<tick, choice, published, content, head, approvals, releases,
                     gate, upsets>>
  BY <1>1 DEF SavePreview
<1>4. ApprTypeOK'
  BY <1>2, <1>3 DEF ApprInv, ApprTypeOK, PlanOK, Covers, Policies
<1>5. ApprShape'
  BY <1>2, <1>3 DEF ApprInv, ApprShape, Covers
<1>6. GatesCleared' /\ ReleasesCleared'
  BY <1>3 DEF ApprInv, GatesCleared, ReleasesCleared, Cleared, Expired
<1>7. QED  BY <1>4, <1>5, <1>6 DEF ApprInv

\* An approval has its second and its term.
LEMMA ApproveStep ==
  ASSUME ApprInv, NEW plan \in plans, NEW term \in Terms, Approve(plan, term)
  PROVE  ApprInv'
<1>1. PICK row : row = [plan |-> plan, created |-> Stored(tick), expires |-> ExpiryOf(term)]
  OBVIOUS
<1>2. /\ approvals' = Append(approvals, row)
      /\ UNCHANGED <<tick, choice, published, content, head, plans, releases, gate, upsets>>
  BY <1>1 DEF Approve
<1>3. IsSeq(approvals)
  BY DEF ApprInv, ApprShape
<1>4. /\ IsSeq(approvals') /\ Len(approvals) \in Nat /\ Len(approvals') = Len(approvals) + 1
      /\ DOMAIN approvals = 1..Len(approvals) /\ DOMAIN approvals' = 1..(Len(approvals) + 1)
      /\ \A i \in 1..Len(approvals) : approvals'[i] = approvals[i]
      /\ approvals'[Len(approvals) + 1] = row
  BY <1>2, <1>3, AppendLast
<1>5. row.plan \in plans /\ row.created \in Nat /\ row.expires \in Nat
  <2>1. tick \in Nat /\ term \in Nat
    BY ApprAssumption DEF ApprInv, ApprTypeOK
  <2>2. \A t \in Nat : Stored(t) \in Nat
    BY DEF Stored
  <2>3. tick + term \in Nat
    BY <2>1
  <2>4. ExpiryOf(term) \in Nat
    BY <2>2, <2>3 DEF ExpiryOf, NoExpiry
  <2>5. QED  BY <1>1, <2>1, <2>2, <2>4
<1>6. \A i \in DOMAIN approvals' :
         approvals'[i].plan \in plans' /\ approvals'[i].created \in Nat
                                       /\ approvals'[i].expires \in Nat
  <2>1. ASSUME NEW i \in 1..(Len(approvals) + 1)
        PROVE  i \in 1..Len(approvals) \/ i = Len(approvals) + 1
    BY <1>4
  <2>2. QED  BY <1>2, <1>4, <1>5, <2>1 DEF ApprInv, ApprTypeOK
<1>7. \A i \in DOMAIN releases' :
         releases'[i].plan \in plans' /\ releases'[i].id \in 0..Len(approvals')
  BY <1>2, <1>4 DEF ApprInv, ApprTypeOK
<1>8. ApprTypeOK'
  BY <1>2, <1>6, <1>7 DEF ApprInv, ApprTypeOK, PlanOK, Covers, Policies
<1>9. ApprShape'
  BY <1>2, <1>4 DEF ApprInv, ApprShape, Covers
<1>10. ASSUME NEW other, NEW id, NEW at, NEW seen, Cleared(other, id, at, seen)
       PROVE  Cleared(other, id, at, seen)'
  BY <1>2, <1>3, <1>10, ClearedStays
<1>11. GatesCleared'
  BY <1>2, <1>10 DEF ApprInv, GatesCleared
<1>12. ReleasesCleared'
  BY <1>2, <1>10 DEF ApprInv, ReleasesCleared
<1>13. QED  BY <1>8, <1>9, <1>11, <1>12 DEF ApprInv

LEMMA BeginPublishStep ==
  ASSUME ApprInv, NEW p \in Publishers, NEW plan \in plans, BeginPublish(p, plan)
  PROVE  ApprInv'
<1>1. PICK g : g = [step |-> "loaded", plan |-> plan]
  OBVIOUS
<1>2. /\ gate' = [gate EXCEPT ![p] = g]
      /\ UNCHANGED <<tick, choice, published, content, head, plans, approvals,
                     releases, upsets>>
  BY <1>1 DEF BeginPublish
<1>3. g.step = "loaded" /\ g.plan \in plans
  BY <1>1
<1>4. /\ tick' \in 0..MaxTick /\ choice' \in [Lessons -> TargetFiles]
      /\ published' \subseteq Lessons /\ IsFun(content', TargetFiles)
      /\ DOMAIN head' = TargetFiles
  BY <1>2 DEF ApprInv, ApprTypeOK, ApprShape
<1>5. QED  BY <1>2, <1>3, <1>4, ApprMove

\* A plan that needs an approval when it is published is told so at the gate.
LEMMA SensitiveNeeds ==
  ASSUME NEW plan, PlanStillResolves(plan), Sensitive(plan)
  PROVE  NeedsApproval(plan)
BY DEF PlanStillResolves, Sensitive, NeedsApproval, RequiresHumanApproval,
       RequiresSensitiveApproval

LEMMA PassGateStep ==
  ASSUME ApprInv, NEW p \in Publishers, NEW id \in 0..Len(approvals), PassGate(p, id)
  PROVE  ApprInv'
<1>1. PICK plan : plan = gate[p].plan /\ plan \in plans
  BY DEF PassGate, ApprInv, ApprTypeOK
<1>2. PICK g : g = [step |-> "passed", plan |-> plan, id |-> id, at |-> tick,
                    seen |-> Len(approvals)]
  OBVIOUS
<1>3. /\ gate' = [gate EXCEPT ![p] = g]
      /\ UNCHANGED <<tick, choice, published, content, head, plans, approvals,
                     releases, upsets>>
  BY <1>1, <1>2 DEF PassGate
<1>4. /\ g.step = "passed" /\ g.plan = plan /\ g.id = id /\ g.at = tick
      /\ g.seen = Len(approvals)
  BY <1>2
<1>5. Cleared(plan, id, tick, Len(approvals))
  <2>1. Len(approvals) \in Nat /\ DOMAIN approvals = 1..Len(approvals)
    BY AppendLast DEF ApprInv, ApprShape
  <2>2. Sensitive(plan) => NeedsApproval(plan)
    BY <1>1, SensitiveNeeds DEF PassGate
  <2>3. CASE NeedsApproval(plan)
    <3>1. id \in Latest(plan) /\ ~Expired(approvals[id], tick)
      BY <1>1, <2>3 DEF PassGate, CheckApproval
    <3>2. /\ id \in DOMAIN approvals /\ approvals[id].plan = plan
          /\ \A j \in DOMAIN approvals :
                approvals[j].plan = plan => approvals[j].created <= approvals[id].created
      BY <3>1 DEF Latest, Approved
    <3>3. id # NoApproval
      BY <2>1, <3>2 DEF NoApproval
    <3>4. QED  BY <2>1, <3>1, <3>2, <3>3 DEF Cleared
  <2>4. CASE ~NeedsApproval(plan)
    <3>1. id = NoApproval
      BY <1>1, <2>4 DEF PassGate
    <3>2. QED  BY <2>1, <2>2, <2>4, <3>1 DEF Cleared
  <2>5. QED  BY <2>3, <2>4
<1>6. /\ tick' \in 0..MaxTick /\ choice' \in [Lessons -> TargetFiles]
      /\ published' \subseteq Lessons /\ IsFun(content', TargetFiles)
      /\ DOMAIN head' = TargetFiles
  BY <1>3 DEF ApprInv, ApprTypeOK, ApprShape
<1>7. QED  BY <1>1, <1>3, <1>4, <1>5, <1>6, ApprMove

LEMMA RefuseStep ==
  ASSUME ApprInv, NEW p \in Publishers, Refuse(p)
  PROVE  ApprInv'
<1>1. /\ gate' = [gate EXCEPT ![p] = Waiting]
      /\ UNCHANGED <<tick, choice, published, content, head, plans, approvals,
                     releases, upsets>>
  BY DEF Refuse
<1>2. Waiting.step = "idle"
  BY DEF Waiting
<1>3. /\ tick' \in 0..MaxTick /\ choice' \in [Lessons -> TargetFiles]
      /\ published' \subseteq Lessons /\ IsFun(content', TargetFiles)
      /\ DOMAIN head' = TargetFiles
  BY <1>1 DEF ApprInv, ApprTypeOK, ApprShape
<1>4. QED  BY <1>1, <1>2, <1>3, ApprMove

\* The bytes under the lock are still those of the preview, and the row carries
\* what the gate found out.
LEMMA WriteStep ==
  ASSUME ApprInv, NEW p \in Publishers, NEW force \in BOOLEAN, Write(p, force)
  PROVE  ApprInv'
<1>1. PICK g : g = gate[p] /\ g.step = "passed"
  BY DEF Write
<1>2. PICK plan \in plans : plan = g.plan
  BY <1>1 DEF ApprInv, ApprTypeOK
<1>3. PICK row : row = [plan |-> plan, id |-> g.id, at |-> g.at, seen |-> g.seen,
                        before |-> [f \in Covers(plan) |-> content[f]]]
  OBVIOUS
<1>4. /\ releases' = Append(releases, row)
      /\ content' = [f \in TargetFiles |->
             IF f \in Covers(plan) THEN Posterior(plan, f) ELSE content[f]]
      /\ published' = published \cup {plan.lesson}
      /\ gate' = [gate EXCEPT ![p] = Waiting]
      /\ UNCHANGED <<tick, choice, head, plans, approvals, upsets>>
      /\ TargetsUnchanged(plan)
  BY <1>1, <1>2, <1>3 DEF Write
<1>5. Cleared(plan, g.id, g.at, g.seen)
  BY <1>1, <1>2 DEF ApprInv, GatesCleared
<1>6. row.plan = plan /\ row.id = g.id /\ row.at = g.at /\ row.seen = g.seen
        /\ row.before = plan.prior
  <2>1. row.before = [f \in Covers(plan) |-> content[f]]
    BY <1>3
  <2>2. \A f \in Covers(plan) : content[f] = plan.prior[f]
    BY <1>4 DEF TargetsUnchanged
  <2>3. plan.prior = [f \in Covers(plan) |-> plan.prior[f]]
    BY DEF ApprInv, ApprShape, IsFun
  <2>4. QED  BY <1>3, <2>1, <2>2, <2>3
<1>7. /\ IsSeq(releases') /\ Len(releases) \in Nat
      /\ DOMAIN releases = 1..Len(releases) /\ DOMAIN releases' = 1..(Len(releases) + 1)
      /\ \A i \in 1..Len(releases) : releases'[i] = releases[i]
      /\ releases'[Len(releases) + 1] = row
  BY <1>4, AppendLast DEF ApprInv, ApprShape
<1>8. \A i \in DOMAIN releases' :
        releases'[i] = row \/ (i \in DOMAIN releases /\ releases'[i] = releases[i])
  BY <1>7
<1>9. IsFun(content', TargetFiles) /\ DOMAIN content' = TargetFiles
  BY <1>4 DEF IsFun
<1>10. /\ IsFun(gate', Publishers) /\ DOMAIN gate' = Publishers
       /\ \A q \in Publishers : gate'[q] = gate[q] \/ gate'[q].step = "idle"
  BY <1>4 DEF ApprInv, ApprShape, ApprTypeOK, IsFun, Waiting
<1>11. ApprTypeOK'
  <2>1. plan.lesson \in Lessons /\ g.id \in 0..Len(approvals)
    BY <1>5 DEF ApprInv, ApprTypeOK, PlanOK, Cleared
  <2>2. \A i \in DOMAIN releases' :
           releases'[i].plan \in plans' /\ releases'[i].id \in 0..Len(approvals')
    BY <1>4, <1>6, <1>8, <2>1 DEF ApprInv, ApprTypeOK
  <2>3. \A q \in Publishers : gate'[q].step # "idle" => gate'[q].plan \in plans'
    BY <1>4, <1>10 DEF ApprInv, ApprTypeOK
  <2>4. QED
    BY <1>4, <1>9, <1>10, <2>1, <2>2, <2>3 DEF ApprInv, ApprTypeOK, PlanOK, Covers, Policies
<1>12. ApprShape'
  BY <1>4, <1>7, <1>9, <1>10 DEF ApprInv, ApprShape, Covers
<1>13. \A other, id, at, seen : Cleared(other, id, at, seen)' <=> Cleared(other, id, at, seen)
  BY <1>4 DEF Cleared, Expired
<1>14. GatesCleared'
  BY <1>10, <1>13 DEF ApprInv, GatesCleared
<1>15. ReleasesCleared'
  <2>1. Cleared(row.plan, row.id, row.at, row.seen) /\ row.before = row.plan.prior
    BY <1>5, <1>6
  <2>2. QED  BY <1>8, <1>13, <2>1 DEF ApprInv, ReleasesCleared
<1>16. QED  BY <1>11, <1>12, <1>14, <1>15 DEF ApprInv

LEMMA TakeBackStep ==
  ASSUME ApprInv, TakeBack
  PROVE  ApprInv'
<1>1. /\ published' \subseteq published /\ IsFun(content', TargetFiles)
      /\ UNCHANGED <<tick, choice, head, plans, approvals, releases, gate, upsets>>
  BY DEF TakeBack, IsFun
<1>2. /\ tick' \in 0..MaxTick /\ choice' \in [Lessons -> TargetFiles]
      /\ published' \subseteq Lessons /\ DOMAIN head' = TargetFiles
  BY <1>1 DEF ApprInv, ApprTypeOK
<1>3. QED  BY <1>1, <1>2, ApprMove

\* The clock, a curation that comes late, an edit and a commit touch no plan.
LEMMA AroundStep ==
  ASSUME ApprInv,
         \/ Pass \/ CommitTree
         \/ \E l \in Lessons : \E c \in DestinationsOf(l) : Recurate(l, c)
         \/ \E f \in TargetFiles, marks \in {Absent, Foreign} : EditTarget(f, marks)
  PROVE  ApprInv'
<1>1. /\ tick \in 0..MaxTick /\ MaxTick \in Nat /\ choice \in [Lessons -> TargetFiles]
      /\ published \subseteq Lessons /\ IsFun(content, TargetFiles)
      /\ DOMAIN content = TargetFiles /\ DOMAIN head = TargetFiles
  BY ApprAssumption DEF ApprInv, ApprTypeOK, ApprShape
<1>2. CASE Pass
  <2>1. tick' \in 0..MaxTick
    BY <1>1, <1>2 DEF Pass
  <2>2. QED  BY <1>1, <1>2, <2>1, ApprMove DEF Pass
<1>3. CASE CommitTree
  BY <1>1, <1>3, ApprMove DEF CommitTree
<1>4. ASSUME NEW l \in Lessons, NEW c \in DestinationsOf(l), Recurate(l, c)
      PROVE  ApprInv'
  <2>1. choice' \in [Lessons -> TargetFiles] /\ published' \subseteq Lessons
    BY <1>1, <1>4, DestinationsAreFiles DEF Recurate
  <2>2. QED  BY <1>1, <1>4, <2>1, ApprMove DEF Recurate
<1>5. ASSUME NEW f \in TargetFiles, NEW marks, EditTarget(f, marks)
      PROVE  ApprInv'
  <2>1. IsFun(content', TargetFiles)
    BY <1>1, <1>5 DEF EditTarget, IsFun
  <2>2. QED  BY <1>1, <1>5, <2>1, ApprMove DEF EditTarget
<1>6. QED  BY <1>2, <1>3, <1>4, <1>5

\* Nothing is on record at the beginning.
LEMMA ApprInvInit ==
  ASSUME ApprInit
  PROVE  ApprInv
<1>1. IsSeq(approvals) /\ IsSeq(releases) /\ DOMAIN approvals = {} /\ DOMAIN releases = {}
  BY EmptyIsSeq DEF ApprInit
<1>2. \A p \in Publishers : gate[p].step = "idle"
  BY DEF ApprInit, Waiting
<1>3. /\ IsFun(content, TargetFiles) /\ IsFun(gate, Publishers)
      /\ DOMAIN content = TargetFiles /\ DOMAIN head = TargetFiles
      /\ DOMAIN gate = Publishers
  BY DEF ApprInit, IsFun
<1>4. ApprTypeOK
  BY <1>1, <1>2, <1>3, ApprAssumption DEF ApprInit, ApprTypeOK
<1>5. QED
  BY <1>1, <1>2, <1>3, <1>4 DEF ApprInit, ApprInv, ApprShape, GatesCleared, ReleasesCleared

\* Every step keeps the invariant.
LEMMA ApprInvStep ==
  ASSUME ApprInv, [ApprNext]_apprVars
  PROVE  ApprInv'
<1>1. CASE UNCHANGED apprVars
  <2>1. UNCHANGED <<tick, choice, published, content, head, plans, approvals, releases, gate>>
    BY <1>1 DEF apprVars
  <2>2. QED  BY <2>1, ApprMove DEF ApprInv, ApprTypeOK, ApprShape
<1>2. CASE ApprNext
  BY <1>2, SavePreviewStep, ApproveStep, BeginPublishStep, PassGateStep, WriteStep,
     RefuseStep, TakeBackStep, AroundStep DEF ApprNext
<1>3. QED  BY <1>1, <1>2

-----------------------------------------------------------------------------
(* Approvals: the theorems *)

\* What was cleared is what the two properties ask of a release.
LEMMA ClearedDecides ==
  ASSUME ApprInv
  PROVE  ApprovalDecides
<1>1. Len(approvals) \in Nat /\ DOMAIN approvals = 1..Len(approvals)
  BY AppendLast DEF ApprInv, ApprShape
<1>2. SUFFICES ASSUME NEW i \in DOMAIN releases, NEW r, r = releases[i]
               PROVE  /\ r.before = r.plan.prior
                      /\ Sensitive(r.plan) =>
                            r.id \in DOMAIN approvals /\ approvals[r.id].plan = r.plan
                      /\ r.id # NoApproval =>
                            /\ ~Expired(approvals[r.id], r.at)
                            /\ \A j \in Approved(r.plan) \cap 1..r.seen :
                                  approvals[j].created <= approvals[r.id].created
  BY DEF ApprovalDecides, ApprovalBindsBytes, NewestApprovalDecides
<1>3. Cleared(r.plan, r.id, r.at, r.seen) /\ r.before = r.plan.prior
  BY <1>2 DEF ApprInv, ReleasesCleared
<1>4. r.id # NoApproval => r.id \in DOMAIN approvals
  BY <1>1, <1>3 DEF Cleared, NoApproval
<1>5. QED  BY <1>3, <1>4 DEF Cleared, Approved

\* Whatever is decided, edited or published between the preview, the approval,
\* the gate and the write, what is written was approved.
THEOREM ApprovalsCorrect == ApprSpec => [](ApprTypeOK /\ ApprovalDecides)
<1>1. ApprInv => ApprTypeOK /\ ApprovalDecides
  BY ClearedDecides DEF ApprInv
<1>2. ApprSpec => []ApprInv
  BY ApprInvInit, ApprInvStep, PTL DEF ApprSpec
<1>3. QED  BY <1>1, <1>2, PTL

-----------------------------------------------------------------------------
(* Drift: the counts of the report *)

\* What a sum over a part s of the domain of f gets from x.
Share(f, s, x) == IF x \in s THEN f[x] ELSE 0

\* The sum of a function of at most four points.
LEMMA SumOfFour ==
  ASSUME NEW f, \A x \in DOMAIN f : f[x] \in Nat,
         NEW x1, NEW x2, NEW x3, NEW x4,
         x1 # x2, x1 # x3, x1 # x4, x2 # x3, x2 # x4, x3 # x4,
         DOMAIN f \subseteq {x1, x2, x3, x4}
  PROVE  SumFunction(f) = Share(f, DOMAIN f, x1) + Share(f, DOMAIN f, x2)
                        + Share(f, DOMAIN f, x3) + Share(f, DOMAIN f, x4)
<1> DEFINE D == DOMAIN f
           first(s) == CHOOSE x \in s : TRUE
           total(s) == Share(f, s, x1) + Share(f, s, x2) + Share(f, s, x3) + Share(f, s, x4)
           one(s, x) == IF x \in s THEN 1 ELSE 0
           size(s) == one(s, x1) + one(s, x2) + one(s, x3) + one(s, x4)
           folds(it) == it = [s \in SUBSET D |->
                           IF s = {} THEN 0 ELSE f[first(s)] + it[s \ {first(s)}]]
<1>1. SumFunction(f) = (CHOOSE it : folds(it))[D]
  BY DEF SumFunction, SumFunctionOnSet, FoldFunctionOnSet, MapThenFoldSet
<1>2. ASSUME NEW s \in SUBSET D, s # {}
      PROVE  /\ first(s) \in D /\ s \ {first(s)} \in SUBSET D
             /\ total(s) = f[first(s)] + total(s \ {first(s)})
             /\ size(s) = 1 + size(s \ {first(s)})
             /\ total(s \ {first(s)}) \in Nat
  <2>1. first(s) \in s
    BY <1>2
  <2>2. PICK x \in {x1, x2, x3, x4} : x = first(s) /\ x \in s /\ x \in D
    BY <2>1
  <2>3. \A y \in {x1, x2, x3, x4} : Share(f, s, y) \in Nat /\ Share(f, s \ {x}, y) \in Nat
    BY DEF Share
  <2>4. /\ Share(f, s, x) = f[x] /\ Share(f, s \ {x}, x) = 0
        /\ \A y \in {x1, x2, x3, x4} : y # x => Share(f, s \ {x}, y) = Share(f, s, y)
    BY <2>2 DEF Share
  <2>5. /\ one(s, x) = 1 /\ one(s \ {x}, x) = 0
        /\ \A y \in {x1, x2, x3, x4} : y # x => one(s \ {x}, y) = one(s, y)
        /\ \A y : one(s, y) \in Nat
    BY <2>2
  <2>6. total(s) = f[x] + total(s \ {x}) /\ total(s \ {x}) \in Nat
    <3> HIDE DEF one
    <3>1. CASE x = x1
      BY <2>3, <2>4, <3>1
    <3>2. CASE x = x2
      BY <2>3, <2>4, <3>2
    <3>3. CASE x = x3
      BY <2>3, <2>4, <3>3
    <3>4. CASE x = x4
      BY <2>3, <2>4, <3>4
    <3>5. QED  BY <2>2, <3>1, <3>2, <3>3, <3>4
  <2>7. size(s) = 1 + size(s \ {x})
    <3> HIDE DEF one
    <3>1. CASE x = x1
      BY <2>5, <3>1
    <3>2. CASE x = x2
      BY <2>5, <3>2
    <3>3. CASE x = x3
      BY <2>5, <3>3
    <3>4. CASE x = x4
      BY <2>5, <3>4
    <3>5. QED  BY <2>2, <3>1, <3>2, <3>3, <3>4
  <2>8. QED  BY <2>2, <2>6, <2>7
<1>3. total({}) = 0 /\ (\A s \in SUBSET D : size(s) \in 0..4)
  BY DEF Share
<1> HIDE DEF first, total, size
<1>4. \E it : folds(it)
  <2>1. PICK it : it = [s \in SUBSET D |-> total(s)]
    OBVIOUS
  <2>2. \A s \in SUBSET D :
           it[s] = IF s = {} THEN 0 ELSE f[first(s)] + it[s \ {first(s)}]
    BY <1>2, <1>3, <2>1
  <2>3. folds(it)
    BY <2>1, <2>2
  <2>4. QED  BY <2>3
<1>5. PICK it : it = (CHOOSE i : folds(i)) /\ folds(it)
  BY <1>4
<1>6. \A s \in SUBSET D :
         it[s] = IF s = {} THEN 0 ELSE f[first(s)] + it[s \ {first(s)}]
  BY <1>5
<1> DEFINE upto(n) == \A s \in SUBSET D : size(s) <= n => it[s] = total(s)
<1>7. upto(0)
  <2>1. ASSUME NEW s \in SUBSET D, size(s) <= 0  PROVE s = {}
    BY <2>1 DEF size
  <2>2. QED  BY <1>3, <1>6, <2>1
<1>8. ASSUME NEW n \in Nat, upto(n)  PROVE upto(n + 1)
  <2>1. SUFFICES ASSUME NEW s \in SUBSET D, size(s) <= n + 1, s # {}
                 PROVE  it[s] = total(s)
    BY <1>3, <1>6
  <2>2. PICK r \in SUBSET D : r = s \ {first(s)}
    BY <1>2, <2>1
  <2>3. size(r) \in 0..4 /\ size(s) = 1 + size(r)
    <3>1. size(s) = 1 + size(s \ {first(s)})
      BY <1>2, <2>1
    <3>2. QED  BY <1>3, <2>2, <3>1
  <2>4. size(r) <= n
    BY <2>1, <2>3
  <2>5. it[r] = total(r)
    BY <1>8, <2>4
  <2>6. QED  BY <1>2, <1>6, <2>1, <2>2, <2>5
<1>9. upto(4)
  <2> HIDE DEF upto
  <2>1. upto(0 + 1)
    BY <1>7, <1>8
  <2>2. upto(1 + 1)
    BY <1>8, <2>1
  <2>3. upto(2 + 1)
    BY <1>8, <2>2
  <2>4. upto(3 + 1)
    BY <1>8, <2>3
  <2>5. QED  BY <2>4
<1>10. it[D] = total(D)
  BY <1>3, <1>9
<1>11. QED  BY <1>1, <1>5, <1>10 DEF total

\* Sets that share nothing add up.
LEMMA DisjointUnion ==
  ASSUME NEW S, IsFiniteSet(S), NEW T, IsFiniteSet(T), S \cap T = {}
  PROVE  /\ IsFiniteSet(S \cup T)
         /\ Cardinality(S \cup T) = Cardinality(S) + Cardinality(T)
<1>1. Cardinality(S) \in Nat /\ Cardinality(T) \in Nat
  BY FS_CardinalityType
<1>2. Cardinality(S \cap T) = 0
  BY FS_EmptySet
<1>3. IsFiniteSet(S \cup T)
        /\ Cardinality(S \cup T) = Cardinality(S) + Cardinality(T) - Cardinality(S \cap T)
  BY FS_Union
<1>4. QED  BY <1>1, <1>2, <1>3

\* Rows that are told apart by their status are counted status by status.
LEMMA CountsAddUp ==
  ASSUME NEW listed, IsFiniteSet(listed), NEW source,
         \A row \in listed : row.status \in Statuses
  PROVE  /\ SumFunction([st \in Statuses |-> CountOf(listed, source, st)])
              = Cardinality({row \in listed : row.source = source})
         /\ Cardinality({row \in listed : row.source = source}) \in Nat
<1> DEFINE of(st) == {row \in listed : row.source = source /\ row.status = st}
           f == [st \in Statuses |-> CountOf(listed, source, st)]
           mine == {row \in listed : row.source = source}
<1>1. \A st : IsFiniteSet(of(st)) /\ Cardinality(of(st)) \in Nat
  <2>1. \A st : of(st) \in SUBSET listed
    OBVIOUS
  <2> HIDE DEF of
  <2>2. QED  BY <2>1, FS_Subset, FS_CardinalityType
<1>2. \A st \in Statuses : f[st] = Cardinality(of(st))
  BY DEF CountOf
<1>3. DOMAIN f = {"ok", "drifted", "target_missing", "target_unreadable"}
  BY DEF Statuses
<1>4. SumFunction(f) = Cardinality(of("ok")) + Cardinality(of("drifted"))
                     + Cardinality(of("target_missing"))
                     + Cardinality(of("target_unreadable"))
  <2> HIDE DEF of
  <2>1. \A st \in DOMAIN f : f[st] \in Nat
    BY <1>1, <1>2, <1>3 DEF Statuses
  <2>2. \A st \in DOMAIN f : Share(f, DOMAIN f, st) = Cardinality(of(st))
    BY <1>2, <1>3 DEF Share, Statuses
  <2> HIDE DEF f
  <2>3. SumFunction(f) = Share(f, DOMAIN f, "ok") + Share(f, DOMAIN f, "drifted")
                       + Share(f, DOMAIN f, "target_missing")
                       + Share(f, DOMAIN f, "target_unreadable")
    BY <1>3, <2>1, SumOfFour
  <2>4. QED  BY <1>3, <2>2, <2>3
<1>5. Cardinality(mine) = Cardinality(of("ok")) + Cardinality(of("drifted"))
                        + Cardinality(of("target_missing"))
                        + Cardinality(of("target_unreadable"))
  <2> DEFINE two == of("ok") \cup of("drifted")
             three == two \cup of("target_missing")
  <2>1. /\ of("ok") \cap of("drifted") = {} /\ two \cap of("target_missing") = {}
        /\ three \cap of("target_unreadable") = {}
        /\ mine = three \cup of("target_unreadable")
    BY DEF Statuses
  <2> HIDE DEF of
  <2>2. IsFiniteSet(two) /\ Cardinality(two) = Cardinality(of("ok")) + Cardinality(of("drifted"))
    BY <1>1, <2>1, DisjointUnion
  <2> HIDE DEF two
  <2>3. IsFiniteSet(three)
          /\ Cardinality(three) = Cardinality(two) + Cardinality(of("target_missing"))
    BY <1>1, <2>1, <2>2, DisjointUnion
  <2> HIDE DEF three
  <2>4. Cardinality(mine) = Cardinality(three) + Cardinality(of("target_unreadable"))
    BY <1>1, <2>1, <2>3, DisjointUnion
  <2>5. QED  BY <1>1, <2>2, <2>3, <2>4
<1> HIDE DEF of, f, mine
<1>6. Cardinality(mine) \in Nat
  BY <1>1, <1>5
<1>7. QED  BY <1>4, <1>5, <1>6 DEF f, mine

\* The total of a report of publications is the number of the rows it lists.
LEMMA TotalIsListed ==
  ASSUME NEW listed, IsFiniteSet(listed),
         \A row \in listed : row.status \in Statuses /\ row.source = "publish"
  PROVE  Total(Summary(listed)) = Cardinality(listed)
<1> DEFINE f == [source \in Buckets(listed) |-> SumFunction(Summary(listed)[source])]
<1>1. \A source \in Buckets(listed) :
         /\ f[source] = Cardinality({row \in listed : row.source = source})
         /\ f[source] \in Nat
  BY CountsAddUp DEF Summary
<1>2. DOMAIN Summary(listed) = Buckets(listed)
  BY DEF Summary
<1>3. Total(Summary(listed)) = SumFunction(f)
  BY <1>2 DEF Total
<1>4. DOMAIN f \subseteq {"opencode", "claudecode", "codex", "publish"}
  BY DEF Buckets, Sources
<1>5. /\ Share(f, DOMAIN f, "opencode") = 0 /\ Share(f, DOMAIN f, "claudecode") = 0
      /\ Share(f, DOMAIN f, "codex") = 0
  <2>1. ASSUME NEW source \in DOMAIN f, source # "publish"  PROVE f[source] = 0
    <3>1. {row \in listed : row.source = source} = {}
      BY <2>1
    <3>2. QED  BY <1>1, <2>1, <3>1, FS_EmptySet
  <2>2. QED  BY <2>1 DEF Share
<1>6. Share(f, DOMAIN f, "publish") = Cardinality(listed)
  <2>1. CASE "publish" \in DOMAIN f
    <3>1. {row \in listed : row.source = "publish"} = listed
      OBVIOUS
    <3>2. QED  BY <1>1, <2>1, <3>1 DEF Share
  <2>2. CASE "publish" \notin DOMAIN f
    <3>1. listed = {}
      BY <2>2 DEF Buckets
    <3>2. QED  BY <2>2, <3>1, FS_EmptySet DEF Share
  <2>3. QED  BY <2>1, <2>2
<1>7. \A x \in DOMAIN f : f[x] \in Nat
  BY <1>1
<1>8. Cardinality(listed) \in Nat
  BY FS_CardinalityType
<1> HIDE DEF f
<1>9. SumFunction(f) = Share(f, DOMAIN f, "opencode") + Share(f, DOMAIN f, "claudecode")
                     + Share(f, DOMAIN f, "codex") + Share(f, DOMAIN f, "publish")
  BY <1>4, <1>7, SumOfFour
<1>10. QED  BY <1>3, <1>5, <1>6, <1>8, <1>9

-----------------------------------------------------------------------------
(* Drift: the invariant *)

\* What a row says of the texts that its file has held.
TrueOf(row, held) ==
    /\ row.expected # NoHash => row.expected \in held
    /\ row.actual # NoHash => row.actual \in held
    /\ row.status = "drifted" =>
          row.expected # NoHash /\ row.actual \in held \ {row.expected}
    /\ row.status = "ok" =>
          row.actual \in held /\ row.expected \in {NoHash, row.actual}
    /\ row.status = "target_missing" => Missing \in held
    /\ row.status = "target_unreadable" => Unreadable \in held

\* A row that compared two texts that differ says so.
Reports(row) ==
    row.actual # NoHash /\ row.expected # NoHash /\ row.actual # row.expected
      => row.status = "drifted"

TrueRow(row) == TrueOf(row, past[row.pair[2]]) /\ Reports(row)

\* What is expected of a pair is what its row, if it has one, saw.
Expectation(pair, expected) ==
    \/ RowOf(pair) = {} /\ expected = NoHash
    \/ \E row \in rows : row.pair = pair /\ expected = row.actual

\* The run works on pairs of finished publications, expects of each what the
\* table says, and is about to record what is true.
RunOK(j) ==
    /\ j.step # "idle" => \A pair \in j.todo : pair[1] \in finished
    /\ j.step = "check" => j.pair[1] \in finished /\ Expectation(j.pair, j.expected)
    /\ j.step = "record" =>
          /\ j.row.pair[1] \in finished /\ TrueRow(j.row)
          /\ Expectation(j.row.pair, j.row.expected)

OneRowEach == \A x, y \in rows : x.pair = y.pair => x = y

DriftInv ==
    /\ DriftTypeOK /\ IsFiniteSet(rows) /\ OneRowEach
    /\ \A row \in rows : TrueRow(row) /\ row.pair[1] \in finished
    /\ \A r \in Releases : status[r] = "completed" => r \in finished
    /\ \A path \in Paths : Seen(path) \in past[path]
    /\ RunOK(job)

-----------------------------------------------------------------------------
(* Drift: the steps *)

\* A job at a step has the fields of that step.
LEMMA JobFields ==
  ASSUME DriftTypeOK
  PROVE  /\ job.step \in {"idle", "next", "check", "record"}
         /\ job.step # "idle" => job.todo \in SUBSET Pairs
         /\ job.step = "check" => job.pair \in Pairs /\ job.expected \in Texts \cup {NoHash}
         /\ job.step = "record" => job.row \in Row
BY DEF DriftTypeOK, Idle

\* What holds of the past of a file holds of a longer past.
LEMMA PastGrows ==
  ASSUME NEW row, NEW held, NEW longer, held \subseteq longer, TrueOf(row, held)
  PROVE  TrueOf(row, longer)
BY DEF TrueOf

\* A step of publications and editors, which leaves the table and the run alone.
LEMMA TreeStep ==
  ASSUME DriftInv, DriftTypeOK', UNCHANGED <<rows, job>>, finished \subseteq finished',
         \A path \in Paths : past[path] \subseteq past'[path] /\ Seen(path)' \in past'[path],
         \A r \in Releases : status'[r] = "completed" => r \in finished'
  PROVE  DriftInv'
<1>1. ASSUME NEW row \in Row, TrueRow(row)  PROVE TrueRow(row)'
  <2>1. PICK path \in Paths : path = row.pair[2]
    BY DEF Row, Pairs
  <2>2. TrueOf(row, past'[path])
    BY <1>1, <2>1, PastGrows DEF TrueRow
  <2>3. QED  BY <1>1, <2>1, <2>2 DEF TrueRow
<1>2. rows \subseteq Row
  BY DEF DriftInv, DriftTypeOK
<1>3. \A row \in rows' : TrueRow(row)' /\ row.pair[1] \in finished'
  BY <1>1, <1>2 DEF DriftInv
<1>4. RunOK(job)'
  <2>1. PICK j : j = job
    OBVIOUS
  <2>2. j.step = "record" => j.row \in Row
    BY <2>1, JobFields DEF DriftInv
  <2>3. \A pair, expected : Expectation(pair, expected) => Expectation(pair, expected)'
    BY DEF Expectation, RowOf
  <2>4. RunOK(j)'
    BY <1>1, <2>1, <2>2, <2>3 DEF DriftInv, RunOK
  <2>5. QED  BY <2>1, <2>4
<1>5. QED  BY <1>3, <1>4 DEF DriftInv, OneRowEach

\* A step of the run, which leaves the tree and the publications alone.
LEMMA JobStep ==
  ASSUME DriftInv, UNCHANGED <<status, text, backup, past, finished, rows, changes>>,
         DriftTypeOK', RunOK(job')
  PROVE  DriftInv'
<1>1. \A row : TrueRow(row)' <=> TrueRow(row)
  BY DEF TrueRow
<1>2. \A pair, expected : Expectation(pair, expected)' <=> Expectation(pair, expected)
  BY DEF Expectation, RowOf
<1>3. RunOK(job)'
  BY <1>1, <1>2 DEF RunOK
<1>4. \A path \in Paths : Seen(path)' = Seen(path)
  BY DEF Seen
<1>5. QED  BY <1>1, <1>3, <1>4 DEF DriftInv, OneRowEach

LEMMA StartRunStep ==
  ASSUME DriftInv, StartRun
  PROVE  DriftInv'
<1>1. PICK todo : todo = {pair \in Pairs : status[pair[1]] = "completed"}
  OBVIOUS
<1>2. /\ job' = [step |-> "next", todo |-> todo]
      /\ UNCHANGED <<status, text, backup, past, finished, rows, changes>>
  BY <1>1 DEF StartRun
<1>3. todo \in SUBSET Pairs /\ \A pair \in todo : pair[1] \in finished
  BY <1>1 DEF DriftInv, Pairs
<1>4. DriftTypeOK'
  BY <1>2, <1>3 DEF DriftInv, DriftTypeOK
<1>5. RunOK(job')
  BY <1>2, <1>3 DEF RunOK
<1>6. QED  BY <1>2, <1>4, <1>5, JobStep

LEMMA LookupExpectedStep ==
  ASSUME DriftInv, NEW pair \in Pairs, LookupExpected(pair)
  PROVE  DriftInv'
<1>1. PICK todo \in SUBSET Pairs : todo = job.todo \ {pair}
  BY JobFields DEF LookupExpected, DriftInv
<1>2. PICK expected : expected = IF RowOf(pair) = {} THEN NoHash
                                 ELSE (CHOOSE row \in RowOf(pair) : TRUE).actual
  OBVIOUS
<1>3. /\ job' = [step |-> "check", todo |-> todo, pair |-> pair, expected |-> expected]
      /\ UNCHANGED <<status, text, backup, past, finished, rows, changes>>
  BY <1>1, <1>2 DEF LookupExpected
<1>4. Expectation(pair, expected) /\ expected \in Texts \cup {NoHash}
  <2>1. CASE RowOf(pair) = {}
    BY <1>2, <2>1 DEF Expectation
  <2>2. CASE RowOf(pair) # {}
    <3>1. PICK row : row = (CHOOSE x \in RowOf(pair) : TRUE) /\ row \in RowOf(pair)
      BY <2>2
    <3>2. row \in rows /\ row.pair = pair /\ row \in Row
      BY <3>1 DEF RowOf, DriftInv, DriftTypeOK
    <3>3. expected = row.actual
      BY <1>2, <2>2, <3>1
    <3>4. QED  BY <3>2, <3>3 DEF Expectation, Row
  <2>3. QED  BY <2>1, <2>2
<1>5. pair[1] \in finished /\ \A other \in todo : other[1] \in finished
  BY <1>1 DEF LookupExpected, DriftInv, RunOK
<1>6. DriftTypeOK'
  BY <1>3, <1>4 DEF DriftInv, DriftTypeOK
<1>7. RunOK(job')
  BY <1>3, <1>4, <1>5 DEF RunOK
<1>8. QED  BY <1>3, <1>6, <1>7, JobStep

\* What a check makes of what it sees and of what was seen before it.
LEMMA CheckedRow ==
  ASSUME NEW pair \in Pairs, NEW c \in Contents, NEW expected \in Texts \cup {NoHash},
         NEW held, c \in held, expected # NoHash => expected \in held
  PROVE  \E row \in Row :
            /\ row = [pair |-> pair, source |-> "publish", expected |-> expected,
                      actual |-> HashOf(c), status |-> Recorded(c, expected)]
            /\ TrueOf(row, held) /\ Reports(row)
            /\ row.pair = pair /\ row.expected = expected
<1>1. PICK actual \in Texts \cup {NoHash} : actual = HashOf(c)
  BY DEF HashOf, Contents
<1>2. PICK st \in Statuses : st = Recorded(c, expected)
  BY DEF Recorded, Outcome, Statuses
<1>3. PICK row \in Row : row = [pair |-> pair, source |-> "publish", expected |-> expected,
                                actual |-> actual, status |-> st]
  BY DEF Row
<1>4. /\ row.pair = pair /\ row.expected = expected /\ row.actual = actual
      /\ row.status = st
  BY <1>3
<1>5. TrueOf(row, held) /\ Reports(row)
  <2>1. CASE c = Missing
    BY <1>1, <1>2, <1>4, <2>1 DEF HashOf, Recorded, Outcome, TrueOf, Reports
  <2>2. CASE c = Unreadable
    BY <1>1, <1>2, <1>4, <2>2 DEF HashOf, Recorded, Outcome, TrueOf, Reports, Missing,
       Unreadable
  <2>3. CASE c \notin {Missing, Unreadable}
    BY <1>1, <1>2, <1>4, <2>3 DEF HashOf, Recorded, Outcome, TrueOf, Reports
  <2>4. QED  BY <2>1, <2>2, <2>3
<1>6. QED  BY <1>1, <1>2, <1>3, <1>4, <1>5

LEMMA CheckStep ==
  ASSUME DriftInv, Check
  PROVE  DriftInv'
<1>1. PICK pair \in Pairs, expected \in Texts \cup {NoHash}, todo \in SUBSET Pairs :
         pair = job.pair /\ expected = job.expected /\ todo = job.todo
  BY JobFields DEF Check, DriftInv
<1>2. PICK path \in Paths : path = pair[2]
  BY DEF Pairs
<1>3. PICK c \in Contents : c = Seen(path) /\ c \in past[path]
  BY DEF DriftInv, DriftTypeOK
<1>4. /\ pair[1] \in finished /\ Expectation(pair, expected)
      /\ \A other \in todo : other[1] \in finished
  BY <1>1 DEF Check, DriftInv, RunOK
<1>5. expected # NoHash => expected \in past[path]
  BY <1>2, <1>4 DEF Expectation, DriftInv, TrueRow, TrueOf
<1>6. PICK row \in Row :
         /\ row = [pair |-> pair, source |-> "publish", expected |-> expected,
                   actual |-> HashOf(c), status |-> Recorded(c, expected)]
         /\ TrueOf(row, past[path]) /\ Reports(row)
         /\ row.pair = pair /\ row.expected = expected
  BY <1>3, <1>5, CheckedRow
<1>7. /\ job' = [step |-> "record", todo |-> todo, row |-> row]
      /\ UNCHANGED <<status, text, backup, past, finished, rows, changes>>
  BY <1>1, <1>2, <1>3, <1>6 DEF Check
<1>8. DriftTypeOK'
  BY <1>7 DEF DriftInv, DriftTypeOK
<1>9. TrueRow(row)
  BY <1>2, <1>6 DEF TrueRow
<1>10. RunOK(job')
  BY <1>4, <1>6, <1>7, <1>9 DEF RunOK
<1>11. QED  BY <1>7, <1>8, <1>10, JobStep

LEMMA RecordDriftStep ==
  ASSUME DriftInv, RecordDrift
  PROVE  DriftInv'
<1>1. PICK row \in Row, todo \in SUBSET Pairs : row = job.row /\ todo = job.todo
  BY JobFields DEF RecordDrift, DriftInv
<1>2. /\ rows' = (rows \ RowOf(row.pair)) \cup {row}
      /\ job' = [step |-> "next", todo |-> todo]
      /\ UNCHANGED <<status, text, backup, past, finished, changes>>
  BY <1>1 DEF RecordDrift
<1>3. row.pair[1] \in finished /\ TrueRow(row) /\ \A pair \in todo : pair[1] \in finished
  BY <1>1 DEF RecordDrift, DriftInv, RunOK
<1>4. DriftTypeOK'
  BY <1>2 DEF DriftInv, DriftTypeOK
<1>5. IsFiniteSet(rows')
  <2>1. IsFiniteSet(rows \ RowOf(row.pair))
    BY FS_Subset DEF DriftInv
  <2>2. QED  BY <1>2, <2>1, FS_AddElement
<1>6. OneRowEach'
  BY <1>2 DEF DriftInv, OneRowEach, RowOf
<1>7. \A x : TrueRow(x)' <=> TrueRow(x)
  BY <1>2 DEF TrueRow
<1>8. \A x \in rows' : TrueRow(x)' /\ x.pair[1] \in finished'
  BY <1>2, <1>3, <1>7 DEF DriftInv
<1>9. RunOK(job)'
  BY <1>2, <1>3 DEF RunOK
<1>10. \A path \in Paths : Seen(path)' = Seen(path)
  BY <1>2 DEF Seen
<1>11. QED  BY <1>2, <1>4, <1>5, <1>6, <1>8, <1>9, <1>10 DEF DriftInv

\* A run that ends, well or not.
LEMMA EndRunStep ==
  ASSUME DriftInv, EndRun \/ AbortRun
  PROVE  DriftInv'
<1>1. job' = Idle /\ UNCHANGED <<status, text, backup, past, finished, rows, changes>>
  BY DEF EndRun, AbortRun
<1>2. DriftTypeOK'
  BY <1>1 DEF DriftInv, DriftTypeOK
<1>3. RunOK(job')
  BY <1>1 DEF RunOK, Idle
<1>4. QED  BY <1>1, <1>2, <1>3, JobStep

\* A rewritten tree is part of the past.
LEMMA RewriteFacts ==
  ASSUME DriftInv, NEW new \in [Paths -> Contents], Rewrite(new)
  PROVE  /\ text' \in [Paths -> Contents] /\ past' \in [Paths -> SUBSET Contents]
         /\ \A path \in Paths :
               past[path] \subseteq past'[path] /\ Seen(path)' \in past'[path]
<1>1. text' = new /\ past \in [Paths -> SUBSET Contents]
  BY DEF Rewrite, DriftInv, DriftTypeOK
<1>2. past' \in [Paths -> SUBSET Contents]
  BY <1>1 DEF Rewrite
<1>3. ASSUME NEW path \in Paths
      PROVE  past[path] \subseteq past'[path] /\ Seen(path)' \in past'[path]
  <2>1. CASE path \in InRoot
    BY <1>1, <2>1 DEF Rewrite, Seen
  <2>2. CASE path \notin InRoot
    BY <1>1, <2>2 DEF Rewrite, Seen, DriftInv
  <2>3. QED  BY <2>1, <2>2
<1>4. QED  BY <1>1, <1>2, <1>3

LEMMA StartReleaseStep ==
  ASSUME DriftInv, NEW r \in Releases, StartRelease(r)
  PROVE  DriftInv'
<1>1. PICK new \in [Paths -> Contents] :
         new = [path \in Paths |-> IF path \in PathsOf[r] THEN r ELSE text[path]]
  BY DEF DriftInv, DriftTypeOK, Contents, Texts
<1>2. /\ Rewrite(new) /\ status' = [status EXCEPT ![r] = "in_progress"]
      /\ backup' = [backup EXCEPT ![r] = text]
      /\ UNCHANGED <<finished, rows, job, changes>>
  BY <1>1 DEF StartRelease
<1>3. /\ text' \in [Paths -> Contents] /\ past' \in [Paths -> SUBSET Contents]
      /\ \A path \in Paths :
            past[path] \subseteq past'[path] /\ Seen(path)' \in past'[path]
  BY <1>2, RewriteFacts
<1>4. DriftTypeOK'
  BY <1>2, <1>3 DEF DriftInv, DriftTypeOK
<1>5. \A q \in Releases : status'[q] = "completed" => q \in finished'
  BY <1>2 DEF DriftInv, DriftTypeOK
<1>6. QED  BY <1>2, <1>3, <1>4, <1>5, TreeStep

LEMMA FinishReleaseStep ==
  ASSUME DriftInv, NEW r \in Releases, FinishRelease(r)
  PROVE  DriftInv'
<1>1. /\ status' = [status EXCEPT ![r] = "completed"] /\ finished' = finished \cup {r}
      /\ UNCHANGED <<text, backup, past, rows, job, changes>>
  BY DEF FinishRelease
<1>2. DriftTypeOK'
  BY <1>1 DEF DriftInv, DriftTypeOK
<1>3. \A path \in Paths :
         past[path] \subseteq past'[path] /\ Seen(path)' \in past'[path]
  BY <1>1 DEF DriftInv, Seen
<1>4. \A q \in Releases : status'[q] = "completed" => q \in finished'
  BY <1>1 DEF DriftInv, DriftTypeOK
<1>5. QED  BY <1>1, <1>2, <1>3, <1>4, TreeStep

LEMMA UndoReleaseStep ==
  ASSUME DriftInv, NEW r \in Releases, UndoRelease(r)
  PROVE  DriftInv'
<1>1. PICK new \in [Paths -> Contents] :
         new = [path \in Paths |->
            IF path \in PathsOf[r] /\ text[path] = r THEN backup[r][path] ELSE text[path]]
  BY DEF DriftInv, DriftTypeOK
<1>2. /\ Rewrite(new) /\ status' = [status EXCEPT ![r] = "rolled_back"]
      /\ UNCHANGED <<backup, finished, rows, job, changes>>
  BY <1>1 DEF UndoRelease
<1>3. /\ text' \in [Paths -> Contents] /\ past' \in [Paths -> SUBSET Contents]
      /\ \A path \in Paths :
            past[path] \subseteq past'[path] /\ Seen(path)' \in past'[path]
  BY <1>2, RewriteFacts
<1>4. DriftTypeOK'
  BY <1>2, <1>3 DEF DriftInv, DriftTypeOK
<1>5. \A q \in Releases : status'[q] = "completed" => q \in finished'
  BY <1>2 DEF DriftInv, DriftTypeOK
<1>6. QED  BY <1>2, <1>3, <1>4, <1>5, TreeStep

LEMMA ChangeStep ==
  ASSUME DriftInv, NEW path \in Paths, NEW c \in EditorTexts \cup {Missing, Unreadable},
         Change(path, c)
  PROVE  DriftInv'
<1>1. PICK new \in [Paths -> Contents] : new = [text EXCEPT ![path] = c]
  BY DEF DriftInv, DriftTypeOK, Contents, Texts
<1>2. /\ Rewrite(new) /\ changes' = changes + 1 /\ changes < MaxChanges
      /\ UNCHANGED <<status, backup, finished, rows, job>>
  BY <1>1 DEF Change
<1>3. /\ text' \in [Paths -> Contents] /\ past' \in [Paths -> SUBSET Contents]
      /\ \A p \in Paths :
            past[p] \subseteq past'[p] /\ Seen(p)' \in past'[p]
  BY <1>2, RewriteFacts
<1>4. changes' \in 0..MaxChanges
  BY <1>2, DriftAssumption DEF DriftInv, DriftTypeOK
<1>5. DriftTypeOK'
  BY <1>2, <1>3, <1>4 DEF DriftInv, DriftTypeOK
<1>6. \A q \in Releases : status'[q] = "completed" => q \in finished'
  BY <1>2 DEF DriftInv
<1>7. QED  BY <1>2, <1>3, <1>5, <1>6, TreeStep

\* The table is empty and every file has its original.
LEMMA DriftInvInit ==
  ASSUME DriftInit
  PROVE  DriftInv
<1>1. /\ status \in [Releases -> {"none", "in_progress", "completed", "rolled_back"}]
      /\ text \in [Paths -> Contents]
      /\ \A r \in Releases : status[r] = "none"
  BY DEF DriftInit, Contents, Texts
<1>2. backup \in [Releases -> [Paths -> Contents]]
  BY <1>1 DEF DriftInit
<1>3. \A path \in Paths : Seen(path) \in Contents
  BY <1>1 DEF Seen, Contents
<1>4. past \in [Paths -> SUBSET Contents] /\ \A path \in Paths : Seen(path) \in past[path]
  BY <1>3 DEF DriftInit
<1>5. DriftTypeOK
  BY <1>1, <1>2, <1>4, DriftAssumption DEF DriftInit, DriftTypeOK
<1>6. RunOK(job) /\ rows = {} /\ IsFiniteSet(rows)
  BY FS_EmptySet DEF DriftInit, RunOK, Idle
<1>7. QED  BY <1>1, <1>4, <1>5, <1>6 DEF DriftInv, OneRowEach

\* Every step keeps the invariant.
LEMMA DriftInvStep ==
  ASSUME DriftInv, [DriftNext]_driftVars
  PROVE  DriftInv'
<1>1. CASE UNCHANGED driftVars
  <2>1. UNCHANGED <<status, text, backup, past, finished, rows, job, changes>>
    BY <1>1 DEF driftVars
  <2>2. DriftTypeOK' /\ RunOK(job')
    BY <2>1 DEF DriftInv, DriftTypeOK
  <2>3. QED  BY <2>1, <2>2, JobStep
<1>2. CASE DriftNext
  BY <1>2, StartRunStep, LookupExpectedStep, CheckStep, RecordDriftStep, EndRunStep,
     StartReleaseStep, FinishReleaseStep, UndoReleaseStep, ChangeStep DEF DriftNext
<1>3. QED  BY <1>1, <1>2

-----------------------------------------------------------------------------
(* Drift: the theorems *)

\* A row that takes the place of another one compared with what that one saw.
LEMMA ReportedStep ==
  ASSUME DriftInv, [DriftNext]_driftVars, NEW old \in rows, NEW new \in rows',
         old.pair = new.pair, old # new,
         old.actual # NoHash, new.actual # NoHash, old.actual # new.actual
  PROVE  new.status = "drifted"
<1>1. CASE rows' = rows
  BY <1>1 DEF DriftInv, OneRowEach
<1>2. CASE RecordDrift
  <2>1. PICK row \in Row : row = job.row
    BY <1>2, JobFields DEF RecordDrift, DriftInv
  <2>2. rows' = (rows \ RowOf(row.pair)) \cup {row}
    BY <1>2, <2>1 DEF RecordDrift
  <2>3. new = row
    BY <2>2 DEF DriftInv, OneRowEach
  <2>4. Reports(row) /\ Expectation(row.pair, row.expected)
    BY <1>2, <2>1 DEF RecordDrift, DriftInv, RunOK, TrueRow
  <2>5. row.expected = old.actual
    BY <2>3, <2>4 DEF Expectation, RowOf, DriftInv, OneRowEach
  <2>6. QED  BY <2>3, <2>4, <2>5 DEF Reports
<1>3. rows' = rows \/ RecordDrift
  BY DEF DriftNext, driftVars, StartRun, LookupExpected, Check, EndRun, AbortRun,
     StartRelease, FinishRelease, UndoRelease, Change
<1>4. QED  BY <1>1, <1>2, <1>3

\* The invariant says what a reader of the table relies on.
LEMMA DriftInvTells ==
  ASSUME DriftInv
  PROVE  RowsTellThePast /\ OnlyFinishedHaveRows /\ ReportAddsUp
<1>1. RowsTellThePast
  BY DEF DriftInv, RowsTellThePast, TrueRow, TrueOf
<1>2. OnlyFinishedHaveRows
  BY DEF DriftInv, OnlyFinishedHaveRows
<1>3. ASSUME NEW filter
      PROVE  Total(Summary(ListDrift(filter))) = Cardinality(ListDrift(filter))
  <2>1. ListDrift(filter) \in SUBSET rows
    BY DEF ListDrift
  <2>2. IsFiniteSet(ListDrift(filter))
    BY <2>1, FS_Subset DEF DriftInv
  <2>3. \A row \in ListDrift(filter) : row.status \in Statuses /\ row.source = "publish"
    BY <2>1 DEF DriftInv, DriftTypeOK, Row
  <2>4. QED  BY <2>2, <2>3, TotalIsListed
<1>4. QED  BY <1>1, <1>2, <1>3 DEF ReportAddsUp

\* Tables, tree and run keep their shape.
THEOREM DriftTypeCorrect == DriftSpec => []DriftTypeOK
<1>1. DriftInv => DriftTypeOK
  BY DEF DriftInv
<1>2. QED  BY <1>1, DriftInvInit, DriftInvStep, PTL DEF DriftSpec

\* However publications, edits, runs and their ends fall, a row is true of the
\* past of its file, a change between two checks is reported by the second, and
\* the counts of the report are those of its rows.
THEOREM DriftHonestCorrect == DriftSpec => DriftHonest /\ []ReportAddsUp
<1>1. DriftInv => RowsTellThePast /\ OnlyFinishedHaveRows /\ ReportAddsUp
  BY DriftInvTells
<1>2. DriftSpec => []DriftInv
  BY DriftInvInit, DriftInvStep, PTL DEF DriftSpec
<1>3. DriftInv /\ [DriftNext]_driftVars =>
         [\A old \in rows, new \in rows' :
             /\ old.pair = new.pair /\ old # new
             /\ old.actual # NoHash /\ new.actual # NoHash /\ old.actual # new.actual
             => new.status = "drifted"]_driftVars
  BY ReportedStep
<1>4. DriftSpec => ChangesAreReported
  BY <1>2, <1>3, PTL DEF DriftSpec, ChangesAreReported
<1>5. QED  BY <1>1, <1>2, <1>4, PTL DEF DriftHonest
=============================================================================
