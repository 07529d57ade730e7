------------------------------ MODULE Approvals ------------------------------
(***************************************************************************)
(* Who may publish what: previews, the approvals bound to them, the        *)
(* policies and the dirty-tree check of internal/publish/approval.go,      *)
(* policy.go, dirty.go and the first half of Publish. Publication models   *)
(* how an authorised plan is written; here a write is one step, and what   *)
(* matters is which facts the gate saw, and how old they are by then.      *)
(***************************************************************************)
EXTENDS Naturals, Sequences, FiniteSets

CONSTANTS
    Publishers,     \* invocations of Publish
    Lessons,        \* approved learnings
    Preferences,    \* those of type "preference"
    Proposed,       \* lesson -> the destination type it was captured with
    Areas,          \* areas of skills
    Terms,          \* validity, in ticks, of an approval; 0: none
    MaxTick,        \* bound on the clock, two ticks to a second
    MaxPlans,       \* bound on previews
    MaxApprovals,   \* bound on approvals
    MaxReleases,    \* bound on publications
    MaxUpsets       \* bound on racing decisions and edits of targets

ASSUME ApprAssumption ==
    /\ Preferences \subseteq Lessons
    /\ Proposed \in [Lessons -> {"skill", "project", "shared", "agents_rule"}]
    /\ Terms \subseteq Nat /\ MaxTick \in Nat
    /\ MaxPlans \in Nat /\ MaxApprovals \in Nat /\ MaxReleases \in Nat
    /\ MaxUpsets \in Nat

VARIABLES
    tick,         \* the clock
    choice,       \* lesson -> what its latest curation decided
    published,    \* the lessons whose status is published
    content,      \* target file -> the marks in its text
    head,         \* target file -> what the last commit of git holds
    plans,        \* table publication_previews
    approvals,    \* table approvals, in order of insertion
    releases,     \* table publications, in order of completion
    gate,         \* publisher -> the step it is at
    upsets        \* racing decisions and edits so far

apprVars == <<tick, choice, published, content, head, plans, approvals,
              releases, gate, upsets>>

------------------------------------------------------------------------------
(* Destinations, targets, policies *)

\* What deriveDestination lets a curator choose for a lesson.
DestinationsOf(l) ==
    CASE Proposed[l] = "project" -> {<<"knowledge", l>>, <<"test", l>>}
      [] Proposed[l] = "shared" -> {<<"shared", l>>}
      [] Proposed[l] = "agents_rule" -> {<<"agents", "AGENTS.md">>}
      [] Proposed[l] = "skill" -> {<<"skill", area>> : area \in Areas}

Agents == <<"agents", "AGENTS.md">>
Index == <<"index", "SKILL.md">>
TargetFiles == (UNION {DestinationsOf(l) : l \in Lessons}) \cup {Agents, Index}

Absent == {"absent"}
Foreign == {"foreign"}
Hook == "hook"
Present(f) == content[f] # Absent

\* A skill comes with its index and, once, with the reference in AGENTS.md.
NeedAgentsHook == Hook \notin content[Agents]
FilesOf(c) ==
    CASE c[1] = "skill" -> {c, Index} \cup IF NeedAgentsHook THEN {Agents} ELSE {}
      [] OTHER -> {c}

\* Project and shared files are replaced whether or not they are there.
Operation(f) ==
    CASE f[1] \in {"knowledge", "test", "shared"} -> "replace"
      [] OTHER -> IF Present(f) THEN "replace" ELSE "create"

\* PolicySignature: which of the three policies a lesson fails.
Policies(l) ==
    {n \in {"preference", "shared", "agents"} :
        \/ n = "preference" /\ l \in Preferences
                            /\ Proposed[l] \in {"shared", "agents_rule"}
        \/ n = "shared" /\ Proposed[l] = "shared"
        \/ n = "agents" /\ Proposed[l] = "agents_rule"}

RequiresHumanApproval(failed) == failed # {}

\* Several targets, AGENTS.md, a shared root or a skill that exists.
RequiresSensitiveApproval(files) ==
    \/ Cardinality(files) > 1
    \/ \E f \in files : f[1] \in {"agents", "shared"} \/ (f[1] = "skill" /\ Present(f))

\* The hash of a preview stands for what it hashes. Composing is deterministic:
\* the posterior bytes follow from the lesson and the prior ones.
PlanOf(l) ==
    LET files == FilesOf(choice[l]) IN
    [lesson |-> l, policy |-> Policies(l),
     ops |-> [f \in files |-> Operation(f)],
     prior |-> [f \in files |-> content[f]]]

Covers(plan) == DOMAIN plan.ops

Posterior(plan, f) ==
    CASE f[1] \in {"knowledge", "test"} -> {plan.lesson}
      [] f = Agents /\ Proposed[plan.lesson] = "skill" ->
            (plan.prior[f] \ Absent) \cup {Hook}
      [] OTHER -> (plan.prior[f] \ Absent) \cup {plan.lesson}

------------------------------------------------------------------------------
(* Approvals *)

NoApproval == 0
NoExpiry == 0

\* RFC3339 keeps whole seconds.
Stored(t) == t - (t % 2)

\* expires is one more than the instant, so that 0 can stand for none.
ExpiryOf(term) == IF term = 0 THEN NoExpiry ELSE Stored(tick + term) + 1
Expired(a, now) == a.expires # NoExpiry /\ a.expires - 1 < now

Approved(plan) == {i \in DOMAIN approvals : approvals[i].plan = plan}

\* Mutant: ORDER BY created_at ASC.
Earliest(plan) ==
    {i \in Approved(plan) :
        \A j \in Approved(plan) : approvals[i].created <= approvals[j].created}

\* GetApprovalByHash: ORDER BY created_at DESC LIMIT 1. Nothing breaks a tie.
Latest(plan) ==
    {i \in Approved(plan) :
        \A j \in Approved(plan) : approvals[j].created <= approvals[i].created}

------------------------------------------------------------------------------
Waiting == [step |-> "idle"]

ApprInit ==
    /\ tick = 0
    /\ choice \in [Lessons -> TargetFiles]
    /\ \A l \in Lessons : choice[l] \in DestinationsOf(l)
    /\ published = {}
    /\ content = [f \in TargetFiles |-> IF f = Agents THEN Foreign ELSE Absent]
    /\ head = content
    /\ plans = {}
    /\ approvals = <<>>
    /\ releases = <<>>
    /\ gate = [p \in Publishers |-> Waiting]
    /\ upsets = 0

\* Preview, as one reading of the tree (Publication takes it apart). Saving a
\* hash again finds the row that is there.
SavePreview(l) ==
    /\ l \notin published
    /\ plans' = plans \cup {PlanOf(l)}
    /\ Cardinality(plans') <= MaxPlans
    /\ UNCHANGED <<tick, choice, published, content, head, approvals, releases,
                   gate, upsets>>

\* Approve reads the preview and inserts; no code deletes or invalidates one.
Approve(plan, term) ==
    /\ Len(approvals) < MaxApprovals
    /\ approvals' = Append(approvals,
           [plan |-> plan, created |-> Stored(tick), expires |-> ExpiryOf(term)])
    /\ UNCHANGED <<tick, choice, published, content, head, plans, releases, gate,
                   upsets>>

\* Publish up to the preview: the lesson is approved and the preview is its own.
BeginPublish(p, plan) ==
    /\ gate[p].step = "idle"
    /\ plan.lesson \notin published
    /\ gate' = [gate EXCEPT ![p] = [step |-> "loaded", plan |-> plan]]
    /\ UNCHANGED <<tick, choice, published, content, head, plans, approvals,
                   releases, upsets>>

\* validatePlannedTargets and the comparison of signatures.
PlanStillResolves(plan) ==
    LET files == FilesOf(choice[plan.lesson]) IN
    /\ Policies(plan.lesson) = plan.policy
    /\ files = Covers(plan)
    /\ \A f \in files : Operation(f) = plan.ops[f]

NeedsApproval(plan) ==
    \/ RequiresHumanApproval(Policies(plan.lesson))
    \/ RequiresSensitiveApproval(FilesOf(choice[plan.lesson]))

\* The lookup answers with one approval: it must be the one that was named.
CheckApproval(plan, id) == id \in Latest(plan) /\ ~Expired(approvals[id], tick)

\* id is the approval that the caller names.
PassGate(p, id) ==
    LET g == gate[p] IN
    /\ g.step = "loaded"
    /\ PlanStillResolves(g.plan)
    /\ IF NeedsApproval(g.plan) THEN CheckApproval(g.plan, id) ELSE id = NoApproval
    /\ gate' = [gate EXCEPT ![p] =
           [step |-> "passed", plan |-> g.plan, id |-> id, at |-> tick,
            seen |-> Len(approvals)]]
    /\ UNCHANGED <<tick, choice, published, content, head, plans, approvals,
                   releases, upsets>>

\* A refusal, before or under the lock, or a dry run: nothing is written.
Refuse(p) ==
    /\ gate[p].step # "idle"
    /\ gate' = [gate EXCEPT ![p] = Waiting]
    /\ UNCHANGED <<tick, choice, published, content, head, plans, approvals,
                   releases, upsets>>

\* git status --porcelain names a changed file, but of a directory in which
\* nothing is tracked it names the directory alone.
SameFolder(f, g) == f = g \/ (f[1] = g[1] /\ f[1] # "skill")
Tracked(f) == head[f] # Absent
Uncommitted(f) == content[f] # head[f]
ReportedDirty(f) ==
    /\ Uncommitted(f)
    /\ f = Agents \/ \E other \in TargetFiles : SameFolder(f, other) /\ Tracked(other)

TargetsUnchanged(plan) == \A f \in Covers(plan) : content[f] = plan.prior[f]
DirtyTargets(plan) == {f \in Covers(plan) : ReportedDirty(f)}

\* Under the lock: the hashes, the dirty check, the bytes, the two rows.
Write(p, force) ==
    LET g == gate[p]
        plan == g.plan IN
    /\ g.step = "passed"
    /\ TargetsUnchanged(plan)
    /\ Len(releases) < MaxReleases
    /\ force \/ DirtyTargets(plan) = {}
    /\ releases' = Append(releases,
           [plan |-> plan, id |-> g.id, at |-> g.at, seen |-> g.seen,
            before |-> [f \in Covers(plan) |-> content[f]]])
    /\ content' = [f \in TargetFiles |->
           IF f \in Covers(plan) THEN Posterior(plan, f) ELSE content[f]]
    /\ published' = published \cup {plan.lesson}
    /\ gate' = [gate EXCEPT ![p] = Waiting]
    /\ UNCHANGED <<tick, choice, head, plans, approvals, upsets>>

\* A rollback of the last publication takes its bytes and its status back.
TakeBack ==
    /\ releases # <<>>
    /\ LET plan == releases[Len(releases)].plan IN
       /\ plan.lesson \in published
       /\ \A f \in Covers(plan) : content[f] = Posterior(plan, f)
       /\ published' = published \ {plan.lesson}
       /\ content' = [f \in TargetFiles |->
              IF f \in Covers(plan) THEN plan.prior[f] ELSE content[f]]
    /\ UNCHANGED <<tick, choice, head, plans, approvals, releases, gate, upsets>>

------------------------------------------------------------------------------
(* Environment *)

Pass ==
    /\ tick < MaxTick
    /\ tick' = tick + 1
    /\ UNCHANGED <<choice, published, content, head, plans, approvals, releases,
                   gate, upsets>>

\* A Curate that read the lesson before it was approved: the transition it
\* checks is the one from what it read, and the row it writes back says approved.
Recurate(l, c) ==
    /\ upsets < MaxUpsets
    /\ c # choice[l]
    /\ choice' = [choice EXCEPT ![l] = c]
    /\ published' = published \ {l}
    /\ upsets' = upsets + 1
    /\ UNCHANGED <<tick, content, head, plans, approvals, releases, gate>>

EditTarget(f, marks) ==
    /\ upsets < MaxUpsets
    /\ content[f] # marks
    /\ content' = [content EXCEPT ![f] = marks]
    /\ upsets' = upsets + 1
    /\ UNCHANGED <<tick, choice, published, head, plans, approvals, releases, gate>>

CommitTree ==
    /\ head # content
    /\ head' = content
    /\ UNCHANGED <<tick, choice, published, content, plans, approvals, releases,
                   gate, upsets>>

ApprNext ==
    \/ \E l \in Lessons : SavePreview(l)
    \/ \E plan \in plans, term \in Terms : Approve(plan, term)
    \/ \E p \in Publishers, plan \in plans : BeginPublish(p, plan)
    \/ \E p \in Publishers, id \in 0..Len(approvals) : PassGate(p, id)
    \/ \E p \in Publishers, force \in BOOLEAN : Write(p, force)
    \/ \E p \in Publishers : Refuse(p)
    \/ TakeBack
    \/ Pass
    \/ \E l \in Lessons : \E c \in DestinationsOf(l) : Recurate(l, c)
    \/ \E f \in TargetFiles, marks \in {Absent, Foreign} : EditTarget(f, marks)
    \/ CommitTree

ApprSpec == ApprInit /\ [][ApprNext]_apprVars

------------------------------------------------------------------------------
(* Properties *)

PlanOK(plan) ==
    /\ plan.lesson \in Lessons
    /\ plan.policy = Policies(plan.lesson)
    /\ Covers(plan) \subseteq TargetFiles /\ DOMAIN plan.prior = Covers(plan)

\* Every row speaks of a plan on record, and every step of a publisher too.
ApprTypeOK ==
    /\ tick \in 0..MaxTick
    /\ choice \in [Lessons -> TargetFiles]
    /\ published \subseteq Lessons
    /\ DOMAIN content = TargetFiles /\ DOMAIN head = TargetFiles
    /\ \A plan \in plans : PlanOK(plan)
    /\ \A i \in DOMAIN approvals :
          approvals[i].plan \in plans /\ approvals[i].created \in Nat
                                      /\ approvals[i].expires \in Nat
    /\ \A i \in DOMAIN releases :
          releases[i].plan \in plans /\ releases[i].id \in 0..Len(approvals)
    /\ DOMAIN gate = Publishers
    /\ \A p \in Publishers :
          gate[p].step # "idle" => gate[p].plan \in plans

Sensitive(plan) ==
    \/ RequiresHumanApproval(plan.policy)
    \/ Cardinality(Covers(plan)) > 1
    \/ \E f \in Covers(plan) : f[1] \in {"agents", "shared"}

\* docs/03-DOMAIN-MODEL.md: an approval is good for one preview. Whatever was
\* decided, edited or published between the preview, the approval, the gate and
\* the write, a publication with a sensitive target replaced exactly the bytes
\* that a person approved replacing.
ApprovalBindsBytes ==
    \A i \in DOMAIN releases :
        LET r == releases[i] IN
        /\ r.before = r.plan.prior
        /\ Sensitive(r.plan) =>
              r.id \in DOMAIN approvals /\ approvals[r.id].plan = r.plan

\* CheckApproval: the approval that let a publication through was in force at
\* the gate, and no approval of that plan on record by then was of a later
\* second: a later one with a shorter term takes the place of the longer one.
NewestApprovalDecides ==
    \A i \in DOMAIN releases :
        LET r == releases[i] IN
        r.id # NoApproval =>
            /\ ~Expired(approvals[r.id], r.at)
            /\ \A j \in Approved(r.plan) \cap 1..r.seen :
                  approvals[j].created <= approvals[r.id].created

\* A publication writes the bytes that its approver saw, under the newest decision.
ApprovalDecides == ApprovalBindsBytes /\ NewestApprovalDecides
=============================================================================
