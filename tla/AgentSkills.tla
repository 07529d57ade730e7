----------------------------- MODULE AgentSkills -----------------------------
(***************************************************************************)
(* The skills that royo-learn installs into an agent and upgrades there    *)
(* (internal/setup: skill.go, skillmanifest.go, skillupgrade.go), for one  *)
(* skill. The user owns the directory as much as royo-learn does: he       *)
(* changes files, adds some, and removes the whole of it.                  *)
(***************************************************************************)
EXTENDS Integers, FiniteSets

CONSTANTS
    SkillFiles,  \* names that isSkillFile accepts, in the order of copying
    OtherFiles,  \* names that it does not
    Notes,       \* what a user may write: contents beyond the versions
    LastVersion, \* bound on versions of the source
    Ships,       \* Ships[v]: the files of version v, SKILL.md among them
    MaxEditions, \* bound on what the user does
    MaxRuns      \* bound on commands

ASSUME SkillAssumption ==
    /\ 1 \in SkillFiles /\ SkillFiles \cap OtherFiles = {}
    /\ \A f \in SkillFiles \cup OtherFiles : f \in Nat
    /\ \A n \in Notes : n \in Nat /\ n > LastVersion
    /\ \A v \in 1..LastVersion : Ships[v] \subseteq SkillFiles /\ 1 \in Ships[v]
    /\ LastVersion \in Nat \ {0} /\ MaxEditions \in Nat /\ MaxRuns \in Nat

VARIABLES
    source,    \* the version of the source, of which each file holds the number
    installed, \* file -> what the installed copy holds
    manifest,  \* the hash that the manifest records; NoManifest if there is none
    saved,     \* the backups, kept for ever
    candidate, \* the candidate that was left beside a modified copy
    run,       \* the command under way
    work,      \* file -> what the user last wrote in it, and counts on (history)
    used       \* what the bounded user and the commands have used

skillVars == <<source, installed, manifest, saved, candidate, run, work, used>>

Marker == 1  \* SKILL.md
FileNames == SkillFiles \cup OtherFiles
Gone == 0
Half == -1
Versions == 1..LastVersion
FileTexts == Versions \cup Notes \cup {Gone, Half}
NoManifest == <<>>

EmptyDir == [f \in FileNames |-> Gone]
Sources(v) == [f \in FileNames |-> IF f \in Ships[v] THEN v ELSE Gone]

\* HashSkillDir and copyDir see the files of a skill and no others.
HashSkillDir(dir) == [f \in SkillFiles |-> dir[f]]
CopyOf(dir) == [f \in FileNames |-> IF f \in SkillFiles THEN dir[f] ELSE Gone]
HasMarker(dir) == dir[Marker] # Gone

Quiet == [step |-> "quiet"]

SkillInit ==
    /\ source = 1
    /\ installed = EmptyDir
    /\ manifest = NoManifest
    /\ saved = {}
    /\ candidate = EmptyDir
    /\ run = Quiet
    /\ work = EmptyDir
    /\ used = [edits |-> 0, runs |-> 0]

Spend(what) == used' = [used EXCEPT ![what] = @ + 1]

------------------------------------------------------------------------------
(* copyDir, one file after the other: os.Create empties a file before the bytes *)
(* are there.                                                                   *)

\* The state of a copy: the files still to be copied, from where, and what the
\* command found there before, which an upgrade has a backup of.
CopyFrom(dir, next, before) ==
    [step |-> "copy", todo |-> {f \in SkillFiles : dir[f] # Gone},
     from |-> dir, next |-> next, before |-> before]

FirstOf(files) == CHOOSE f \in files : \A g \in files : f <= g

CreateFile ==
    /\ run.step = "copy" /\ run.todo # {}
    /\ installed' = [installed EXCEPT ![FirstOf(run.todo)] = Half]
    /\ run' = [run EXCEPT !.step = "fill"]
    /\ UNCHANGED <<source, manifest, saved, candidate, work, used>>

FillFile ==
    LET f == FirstOf(run.todo) IN
    /\ run.step = "fill"
    /\ installed' = [installed EXCEPT ![f] = run.from[f]]
    /\ run' = [run EXCEPT !.step = "copy", !.todo = @ \ {f}]
    /\ UNCHANGED <<source, manifest, saved, candidate, work, used>>

\* A copy that fails: the file it could not fill is removed, if it can be, or it was
\* filled and its mode could not be set.
Failed ==
    IF run.step = "copy" THEN {installed}
    ELSE {[installed EXCEPT ![FirstOf(run.todo)] = left] : left \in {Gone, Half, run.from[FirstOf(run.todo)]}}

\* Install reports it and goes on. So does a rollback.
FailCopy ==
    /\ run.step \in {"copy", "fill"} /\ run.todo # {} /\ run.next # "replaced"
    /\ installed' \in Failed
    /\ run' = Quiet
    /\ UNCHANGED <<source, manifest, saved, candidate, work, used>>

\* An upgrade removes the directory and copies its backup back. What cannot be
\* removed stays, and nothing is said of it.
RollBack ==
    /\ run.step \in {"copy", "fill"} /\ run.todo # {} /\ run.next = "replaced"
    /\ \E dir \in Failed : \E left \in SUBSET {f \in FileNames : dir[f] # Gone} :
          installed' = [f \in FileNames |-> IF f \in left THEN dir[f] ELSE Gone]
    /\ run' = CopyFrom(run.before, "restored", run.before)
    /\ UNCHANGED <<source, manifest, saved, candidate, work, used>>

------------------------------------------------------------------------------
(* InstallSkills *)

\* A destination that has the marker is skipped.
StartInstall ==
    /\ run = Quiet /\ used.runs < MaxRuns
    /\ ~HasMarker(installed)
    /\ Spend("runs")
    /\ run' = CopyFrom(Sources(source), "record", CopyOf(installed))
    /\ UNCHANGED <<source, installed, manifest, saved, candidate, work>>

\* WriteSkillManifest renames a whole file into place, or fails.
RecordInstalled ==
    /\ run.step = "copy" /\ run.todo = {} /\ run.next = "record"
    /\ manifest' \in {manifest, HashSkillDir(installed)}
    /\ run' = Quiet
    /\ UNCHANGED <<source, installed, saved, candidate, work, used>>

------------------------------------------------------------------------------
(* UpgradeSkills *)

\* What upgradeOne makes of what it finds.
Verdict ==
    IF ~HasMarker(installed) THEN "absent"
    ELSE IF manifest = NoManifest THEN "unmanaged"
    ELSE IF HashSkillDir(installed) = HashSkillDir(Sources(source)) THEN "up_to_date"
    ELSE IF HashSkillDir(installed) = manifest THEN "upgrade"
    ELSE "conflict"

\* The three hashes, and the copy to the staging directory.
StartUpgrade ==
    /\ run = Quiet /\ used.runs < MaxRuns
    /\ Verdict \in {"upgrade", "conflict"}
    /\ Spend("runs")
    /\ run' = [step |-> IF Verdict = "upgrade" THEN "backup" ELSE "candidate",
               staged |-> Sources(source)]
    /\ UNCHANGED <<source, installed, manifest, saved, candidate, work>>

\* Mutant: the swap does not wait for a backup that failed.
BackUpQuietly ==
    /\ run.step = "backup"
    /\ saved' \in {saved, saved \cup {CopyOf(installed)}}
    /\ run' = [step |-> "remove", staged |-> run.staged, before |-> CopyOf(installed)]
    /\ UNCHANGED <<source, installed, manifest, candidate, work, used>>

\* copyDir to the backups, before anything is overwritten.
BackUpSkill ==
    /\ run.step = "backup"
    /\ saved' = saved \cup {CopyOf(installed)}
    /\ run' = [step |-> "remove", staged |-> run.staged, before |-> CopyOf(installed)]
    /\ UNCHANGED <<source, installed, manifest, candidate, work, used>>

\* os.RemoveAll takes the files in any order, and all of them.
RemoveOne(f) ==
    /\ run.step = "remove" /\ installed[f] # Gone
    /\ installed' = [installed EXCEPT ![f] = Gone]
    /\ UNCHANGED <<source, manifest, saved, candidate, run, work, used>>

RemovedAll ==
    /\ run.step = "remove" /\ installed = EmptyDir
    /\ run' = CopyFrom(run.staged, "replaced", run.before)
    /\ UNCHANGED <<source, installed, manifest, saved, candidate, work, used>>

\* The manifest last. When it cannot be written the new files stay.
RecordUpgraded ==
    /\ run.step = "copy" /\ run.todo = {} /\ run.next = "replaced"
    /\ manifest' \in {manifest, HashSkillDir(run.from)}
    /\ run' = Quiet
    /\ UNCHANGED <<source, installed, saved, candidate, work, used>>

\* The rollback is complete: the manifest still speaks of what is there.
EndRestore ==
    /\ run.step = "copy" /\ run.todo = {} /\ run.next = "restored"
    /\ run' = Quiet
    /\ UNCHANGED <<source, installed, manifest, saved, candidate, work, used>>

\* writeCandidate: beside the copy of the user, never over it.
WriteCandidate ==
    /\ run.step = "candidate"
    /\ candidate' = run.staged
    /\ run' = Quiet
    /\ UNCHANGED <<source, installed, manifest, saved, work, used>>

\* A step before the swap fails, a file cannot be removed, or the process dies.
GiveUp ==
    /\ run # Quiet
    /\ run' = Quiet
    /\ UNCHANGED <<source, installed, manifest, saved, candidate, work, used>>

------------------------------------------------------------------------------
(* The user, and new versions of royo-learn *)

NewVersion ==
    /\ source < LastVersion
    /\ source' = source + 1
    /\ UNCHANGED <<installed, manifest, saved, candidate, run, work, used>>

\* Past the backup, what the user writes is swept away with the rest: a window
\* that the code leaves open, and in which the user counts on nothing.
Unguarded == run.step \in {"remove", "copy", "fill"}

\* He writes in a file, whatever there is in the directory, a SKILL.md or not.
WriteNote(f, note) ==
    /\ used.edits < MaxEditions
    /\ installed' = [installed EXCEPT ![f] = note]
    /\ work' = [work EXCEPT ![f] = IF Unguarded THEN Gone ELSE note]
    /\ Spend("edits")
    /\ UNCHANGED <<source, manifest, saved, candidate, run>>

\* He deletes a file, be it SKILL.md, while no command replaces it.
DeleteFile(f) ==
    /\ used.edits < MaxEditions
    /\ installed[f] # Gone /\ ~Unguarded
    /\ installed' = [installed EXCEPT ![f] = Gone]
    /\ work' = [work EXCEPT ![f] = Gone]
    /\ Spend("edits")
    /\ UNCHANGED <<source, manifest, saved, candidate, run>>

\* The user removes the skill: what he wrote in it goes with his consent.
RemoveSkill ==
    /\ used.edits < MaxEditions
    /\ run = Quiet
    /\ installed' = EmptyDir
    /\ work' = EmptyDir
    /\ Spend("edits")
    /\ UNCHANGED <<source, manifest, saved, candidate, run>>

SkillNext ==
    \/ CreateFile \/ FillFile \/ FailCopy \/ RollBack
    \/ StartInstall \/ RecordInstalled
    \/ StartUpgrade \/ BackUpSkill \/ (\E f \in FileNames : RemoveOne(f)) \/ RemovedAll
    \/ RecordUpgraded \/ EndRestore \/ WriteCandidate \/ GiveUp
    \/ NewVersion \/ RemoveSkill
    \/ \E f \in FileNames : DeleteFile(f) \/ \E note \in Notes : WriteNote(f, note)

SkillSpec == SkillInit /\ [][SkillNext]_skillVars

------------------------------------------------------------------------------
(* Properties *)

Dirs == [FileNames -> FileTexts]
SkillHashes == [SkillFiles -> FileTexts]

SkillTypeOK ==
    /\ source \in Versions
    /\ installed \in Dirs /\ candidate \in Dirs /\ work \in Dirs
    /\ manifest \in SkillHashes \cup {NoManifest}
    /\ saved \subseteq Dirs
    /\ \/ run = Quiet
       \/ run.step \in {"backup", "candidate"} /\ run.staged \in Dirs
       \/ run.step = "remove" /\ run.staged \in Dirs /\ run.before \in Dirs
       \/ /\ run \in [step : {"copy", "fill"}, todo : SUBSET SkillFiles, from : Dirs,
                      next : {"record", "replaced", "restored"}, before : Dirs]
          /\ run.step = "fill" => run.todo # {}

Kept(f) ==
    \/ work[f] = Gone \/ installed[f] = work[f]
    \/ \E copy \in saved : copy[f] = work[f]

\* UpgradeSkills: "safely upgrades those that are untouched while preserving
\* user-modified copies". What a user wrote in a file of a skill stays there, or in
\* a backup, whatever is upgraded, fails or dies. InstallSkills: "Existing skills are
\* skipped (never overwritten)", but to it a directory without SKILL.md is no skill:
\* an install that found such a one takes what the user has in it, and nothing else does.
TakenByInstall(f) ==
    CreateFile /\ f \in run.todo /\ run.next = "record" /\ ~HasMarker(run.before)
OnlyInstallTakes ==
    [][\A f \in SkillFiles : Kept(f) /\ ~Kept(f)' => TakenByInstall(f)]_skillVars

\* A copy that was cut short is never taken for an untouched one, but reported as a
\* conflict or as not managed: no manifest has a half file ("Untouched since we last
\* wrote it", upgradeOne), except that an install hashes whatever is in the directory,
\* a file too that it found there half and has none of its own for.
CutShortIsNoUpgrade ==
    [][\A f \in SkillFiles :
          manifest' # manifest /\ manifest' # NoManifest /\ manifest'[f] = Half =>
              run.next = "record" /\ run.before[f] = Half /\ run.from[f] = Gone]_skillVars

\* performUpgrade: "If the swap fails after the original was removed, it restores
\* the backup so no half-written skill remains", but for what the user writes in
\* the meantime, and for a new file of the failed copy that could not be removed.
FailedSwapIsUndone ==
    [][EndRestore =>
          \A f \in SkillFiles :
              run.before[f] # Gone => installed[f] \in {run.before[f]} \cup Notes]_skillVars

\* The promise of UpgradeSkills for the files of the user that are of no kind it
\* knows: they are in the skill's directory as well.
EveryUserFileKept == \A f \in OtherFiles : Kept(f)

\* An upgrade that fails or dies at any step costs no work of the user.
SkillsSafe == OnlyInstallTakes /\ CutShortIsNoUpgrade /\ FailedSwapIsUndone
=============================================================================
