----------------------------- MODULE SelfUpdate -----------------------------
(***************************************************************************)
(* `royo-learn self-update` (internal/selfupdate): a process replaces the  *)
(* binary it was started from by a release that it downloads and verifies. *)
(* Several of them run at a time, any of them may fail or die at any step, *)
(* and releases go on being published.                                     *)
(***************************************************************************)
EXTENDS Integers, FiniteSets

CONSTANTS
    Updaters,      \* invocations of self-update
    LastRelease    \* bound on releases

ASSUME UpdateAssumption == LastRelease \in Nat \ {0} /\ "part" \notin Updaters

VARIABLES
    windows,  \* whether the platform is Windows
    latest,   \* the newest release
    target,   \* the file at the path of the executable
    old,      \* the file beside it with the suffix .old
    staged,   \* the file beside it with the suffix .new
    lock,     \* whether the file with the suffix .update-lock is there
    updater,  \* invocation -> its step
    harmed    \* whether a binary could not be put back, or its updater died (history)

updVars == <<windows, latest, target, old, staged, lock, updater, harmed>>

\* A version is its rank: CompareVersions orders them. Dev stands for a local
\* build, which compares with nothing. A file is the release it holds and the
\* invocation that made it, for the system knows the image of a process by file.
Dev == 0
NoFile == <<>>
File(version, by) == <<version, by>>
Shipped == {"shipped"}
Partly == "part"
VersionOf(file) == file[1]
Whole(file) == file # NoFile /\ file[2] # {Partly}
Released == 1..latest

Resting == {"idle", "ended", "dead"}
Alive(u) == updater[u].step \notin Resting
InReplace(u) == updater[u].step \in {"fill", "copy", "stale", "park", "swap", "restore", "unlock"}

\* Windows deletes no file that a process runs from.
InUse(file) == windows /\ \E u \in Updaters : Alive(u) /\ updater[u].image = file

UpdateInit ==
    /\ windows \in BOOLEAN
    /\ latest = 1
    /\ target \in {File(Dev, Shipped), File(1, Shipped)}
    /\ old = NoFile /\ staged = NoFile
    /\ lock = FALSE
    /\ updater = [u \in Updaters |-> [step |-> "idle"]]
    /\ harmed = FALSE

AtStep(u, step) == updater[u].step = step
Step(u, step) == updater' = [updater EXCEPT ![u].step = step]
Fails(u) == Step(u, "ended")

\* explicit is the release asked for, or Dev when none is.
Launch(u, explicit) ==
    /\ AtStep(u, "idle") /\ target # NoFile
    /\ explicit \in Released \cup {Dev}
    /\ updater' = [updater EXCEPT ![u] =
           [step |-> "resolve", image |-> target, explicit |-> explicit,
            tag |-> explicit, archive |-> "none", sums |-> "none"]]
    /\ UNCHANGED <<windows, latest, target, old, staged, lock, harmed>>

\* fetchLatestTag: releases/latest of GitHub.
LatestTag == latest
Current(u) == VersionOf(updater[u].image)
CompareVersions(a, b) == IF a > b THEN 1 ELSE IF a = b THEN 0 ELSE -1

\* CleanupOldBinary: an error is of no interest.
CleanupOld == old' \in {old} \cup IF InUse(old) THEN {} ELSE {NoFile}

\* The guard on local builds, the newest tag and the comparison with the version
\* that is RUNNING. An explicit release is not compared with anything.
Resolve(u) ==
    LET tag == IF updater[u].explicit = Dev THEN LatestTag ELSE updater[u].explicit
        implicit == updater[u].explicit = Dev IN
    /\ AtStep(u, "resolve")
    /\ IF implicit /\ (Current(u) = Dev \/ CompareVersions(tag, Current(u)) < 0)
       THEN Fails(u) /\ old' = old
       ELSE IF implicit /\ CompareVersions(tag, Current(u)) = 0
       THEN Fails(u) /\ CleanupOld
       ELSE /\ updater' = [updater EXCEPT ![u].step = "download", ![u].tag = tag]
            /\ old' = old
    /\ UNCHANGED <<windows, latest, target, staged, lock, harmed>>

\* The archive and checksums.txt of the release, into a directory of their own.
Download(u) ==
    /\ AtStep(u, "download")
    /\ \E archive \in {"good", "damaged"}, sums \in {"good", "damaged", "missing"} :
          updater' = [updater EXCEPT ![u] =
              [@ EXCEPT !.step = "verify", !.archive = archive, !.sums = sums]]
    /\ UNCHANGED <<windows, latest, target, old, staged, lock, harmed>>

ChecksumMatches(u) == updater[u].archive = "good" /\ updater[u].sums = "good"

\* VerifyFileChecksum, the extraction of the binary, and CleanupOldBinary, before
\* the lock is asked for.
Verify(u) ==
    /\ AtStep(u, "verify")
    /\ IF ChecksumMatches(u) THEN Step(u, "lock") /\ CleanupOld
       ELSE Fails(u) /\ old' = old
    /\ UNCHANGED <<windows, latest, target, staged, lock, harmed>>

\* Mutant: os.O_CREATE without os.O_EXCL.
OpenUpdateLock(u) ==
    /\ AtStep(u, "lock")
    /\ Step(u, "copy")
    /\ lock' = TRUE
    /\ UNCHANGED <<windows, latest, target, old, staged, harmed>>

\* O_CREATE with O_EXCL.
AcquireUpdateLock(u) ==
    /\ AtStep(u, "lock")
    /\ IF lock THEN Fails(u) ELSE Step(u, "copy")
    /\ lock' = TRUE
    /\ UNCHANGED <<windows, latest, target, old, staged, harmed>>

NewFile(u) == File(IF updater[u].archive = "good" THEN updater[u].tag ELSE Dev, {u})

\* replaceUnix: a temporary file with a name of its own, renamed over the target.
ReplaceUnix(u) ==
    /\ ~windows /\ AtStep(u, "copy")
    /\ target' \in {target, NewFile(u)}
    /\ Step(u, "unlock")
    /\ UNCHANGED <<windows, latest, old, staged, lock, harmed>>

\* replaceWindows. stageFile truncates what an earlier run has left.
StageFile(u) ==
    /\ windows /\ AtStep(u, "copy")
    /\ staged' = File(updater[u].tag, {Partly})
    /\ Step(u, "fill")
    /\ UNCHANGED <<windows, latest, target, old, lock, harmed>>

FillStaged(u) ==
    /\ AtStep(u, "fill")
    /\ \/ staged' = NewFile(u) /\ Step(u, "stale")
       \/ staged' = NoFile /\ Step(u, "unlock")
    /\ UNCHANGED <<windows, latest, target, old, lock, harmed>>

RemoveStale(u) ==
    /\ AtStep(u, "stale")
    /\ \/ /\ ~InUse(old)
          /\ old' = NoFile /\ staged' = staged /\ Step(u, "park")
       \/ /\ old # NoFile
          /\ old' = old /\ staged' = NoFile /\ Step(u, "unlock")
    /\ UNCHANGED <<windows, latest, target, lock, harmed>>

Park(u) ==
    /\ AtStep(u, "park")
    /\ \/ /\ target # NoFile
          /\ old' = target /\ target' = NoFile
          /\ staged' = staged /\ Step(u, "swap")
       \/ /\ UNCHANGED <<old, target>>
          /\ staged' = NoFile /\ Step(u, "unlock")
    /\ UNCHANGED <<windows, latest, lock, harmed>>

Swap(u) ==
    /\ AtStep(u, "swap")
    /\ \/ /\ staged # NoFile
          /\ target' = staged /\ staged' = NoFile /\ Step(u, "unlock")
       \/ UNCHANGED <<target, staged>> /\ Step(u, "restore")
    /\ UNCHANGED <<windows, latest, old, lock, harmed>>

\* The swap has failed: the old binary comes back, if it can.
Restore(u) ==
    /\ AtStep(u, "restore")
    /\ \/ /\ old # NoFile
          /\ target' = old /\ old' = NoFile /\ harmed' = harmed
       \/ UNCHANGED <<target, old>> /\ harmed' = TRUE
    /\ staged' = NoFile
    /\ Step(u, "unlock")
    /\ UNCHANGED <<windows, latest, lock>>

Unlock(u) ==
    /\ AtStep(u, "unlock")
    /\ lock' = FALSE
    /\ Fails(u)
    /\ UNCHANGED <<windows, latest, target, old, staged, harmed>>

\* A request, a download or the extraction fails.
GiveUpUpdate(u) ==
    /\ updater[u].step \in {"resolve", "download", "verify", "lock"}
    /\ Fails(u)
    /\ UNCHANGED <<windows, latest, target, old, staged, lock, harmed>>

DieUpdating(u) ==
    /\ Alive(u)
    /\ Step(u, "dead")
    /\ harmed' = TRUE
    /\ UNCHANGED <<windows, latest, target, old, staged, lock>>

\* "remove it if no other update is running", as the message says.
RemoveLockFile ==
    /\ lock
    /\ \A u \in Updaters : ~InReplace(u)
    /\ lock' = FALSE
    /\ UNCHANGED <<windows, latest, target, old, staged, updater, harmed>>

NewRelease ==
    /\ latest < LastRelease
    /\ latest' = latest + 1
    /\ UNCHANGED <<windows, target, old, staged, lock, updater, harmed>>

UpdateNext ==
    \/ \E u \in Updaters, explicit \in 0..LastRelease : Launch(u, explicit)
    \/ \E u \in Updaters :
          \/ Resolve(u) \/ Download(u) \/ Verify(u) \/ AcquireUpdateLock(u)
          \/ ReplaceUnix(u) \/ StageFile(u) \/ FillStaged(u) \/ RemoveStale(u)
          \/ Park(u) \/ Swap(u) \/ Restore(u) \/ Unlock(u)
          \/ GiveUpUpdate(u) \/ DieUpdating(u)
    \/ RemoveLockFile
    \/ NewRelease

UpdateSpec == UpdateInit /\ [][UpdateNext]_updVars

------------------------------------------------------------------------------
(* Properties *)

Files == {NoFile} \cup ((0..LastRelease) \X ({Shipped, {Partly}} \cup {{u} : u \in Updaters}))

UpdateTypeOK ==
    /\ windows \in BOOLEAN /\ lock \in BOOLEAN /\ harmed \in BOOLEAN
    /\ latest \in 1..LastRelease
    /\ target \in Files /\ old \in Files /\ staged \in Files
    /\ ~windows => old = NoFile /\ staged = NoFile
    /\ \A u \in Updaters :
          \/ updater[u] = [step |-> "idle"]
          \/ updater[u].image \in Files \ {NoFile} /\ updater[u].tag \in 0..LastRelease

\* Whoever fails, dies, races with whom and cleans up after whom, a whole binary
\* is at the path of the executable or parked beside it.
BinaryNeverLost == Whole(target) \/ Whole(old)

\* "verify checksum BEFORE touching the binary": what can be started is what was
\* there at first or a whole, verified release.
OnlyVerifiedIsInstalled ==
    target # NoFile =>
        Whole(target) /\ (VersionOf(target) \in Released \/ target[2] = Shipped)

\* "A lock file guards the whole operation": one replacement at a time, and its
\* holder's lock is there, even when locks of dead holders are removed by hand.
OneReplacement ==
    \A u \in Updaters : InReplace(u) =>
        lock /\ \A other \in Updaters : InReplace(other) => other = u

\* "a failed swap rolls the old binary back": with nobody at work there is a
\* binary and nothing half-done beside it, unless an updater died or could not
\* put the binary back.
FailureLeavesNothing ==
    ~harmed /\ (\A u \in Updaters : ~InReplace(u)) =>
        target # NoFile /\ staged = NoFile /\ ~lock

\* Whatever fails or dies, there is one binary, whole and verified, or its copy.
UpdateSafe ==
    BinaryNeverLost /\ OnlyVerifiedIsInstalled /\ OneReplacement /\ FailureLeavesNothing
=============================================================================
