----------------------------- MODULE SetupProofs -----------------------------
(***************************************************************************)
(* Proofs about what royo-learn does to the machine it is installed on     *)
(* (MCSetup), for any number of updaters, callers, commands, agents, files *)
(* and versions: its binary survives (SelfUpdate), the scripts of a build  *)
(* take effect once and in order (Migrations), an upgrade of a skill costs *)
(* no work of the user (AgentSkills), and the configuration of an agent    *)
(* keeps what is not ours (AgentConfig).                                   *)
(***************************************************************************)
EXTENDS MCSetup, WellFoundedInduction, TLAPS

-----------------------------------------------------------------------------
(* SelfUpdate. On Windows the binary is out of its place for a while, and    *)
(* what keeps the parked copy from being cleaned up then is that every       *)
(* process that could do so runs from it: FromDisk, the heart of the         *)
(* invariant.                                                                *)

\* A file that may be started: whole, and shipped or one of n releases.
Fit(f, n) == Whole(f) /\ (VersionOf(f) \in 1..n \/ f[2] = Shipped)
FitOrNone(f) == f = NoFile \/ Fit(f, latest)

Shaped ==
    /\ DOMAIN updater = Updaters
    /\ \A u \in Updaters :
          \/ updater[u].step = "idle"
          \/ updater[u] = [step |-> updater[u].step, image |-> updater[u].image,
                           explicit |-> updater[u].explicit, tag |-> updater[u].tag,
                           archive |-> updater[u].archive, sums |-> updater[u].sums]

\* What is on disk can be started, and is there; elsewhere than on Windows
\* nothing is ever beside it.
OnDisk ==
    /\ FitOrNone(target) /\ FitOrNone(old)
    /\ target # NoFile \/ old # NoFile
    /\ ~windows => target # NoFile /\ old = NoFile /\ staged = NoFile

\* Whoever is alive was started from one of the two files that are there.
FromDisk ==
    windows => \A u \in Updaters : Alive(u) =>
        updater[u].image # NoFile /\ updater[u].image \in {target, old}

\* An updater asks for releases there are, and replaces nothing with an archive
\* that it has not verified.
Asked ==
    /\ latest \in Nat \ {0}
    /\ \A u \in Updaters :
          /\ AtStep(u, "resolve") =>
                /\ updater[u].explicit \in Released \cup {Dev}
                /\ updater[u].tag = updater[u].explicit
          /\ Alive(u) /\ ~AtStep(u, "resolve") => updater[u].tag \in Released
          /\ AtStep(u, "lock") \/ InReplace(u) => updater[u].archive = "good"

\* What the one replacement knows at each of its steps on Windows.
Midway ==
    \A u \in Updaters :
        /\ updater[u].step \in {"fill", "stale", "park", "swap", "restore"} => windows
        /\ updater[u].step \in {"stale", "park", "swap"} =>
              staged = File(updater[u].tag, {u})
        /\ AtStep(u, "park") => old = NoFile
        /\ updater[u].step \in {"swap", "restore"} => target = NoFile

\* As long as nobody died, whatever is half-done has somebody at work on it.
Tidy ==
    ~harmed =>
        /\ lock => \E u \in Updaters : InReplace(u)
        /\ target = NoFile => \E u \in Updaters : updater[u].step \in {"swap", "restore"}
        /\ staged # NoFile => \E u \in Updaters :
              updater[u].step \in {"fill", "stale", "park", "swap", "restore"}

UInv == /\ Shaped /\ OnDisk /\ FromDisk /\ Asked
        /\ OneReplacement /\ Midway /\ Tidy

-----------------------------------------------------------------------------
(* Files. *)

\* The files that are ever started are whole.
LEMMA FitFiles ==
    ASSUME NEW n \in Nat
    PROVE  /\ \A v : Fit(File(v, Shipped), n)
           /\ \A v \in 1..n, u \in Updaters : Fit(File(v, {u}), n)
           /\ ~Fit(NoFile, n)
  <1>1. Shipped # {Partly} /\ \A u \in Updaters : {u} # {Partly}
    BY UpdateAssumption DEF Shipped, Partly
  <1>2. \A v, b : File(v, b) # NoFile /\ File(v, b)[1] = v /\ File(v, b)[2] = b
    BY DEF File, NoFile
  <1> QED BY <1>1, <1>2 DEF Fit, Whole, VersionOf

\* A new release takes nothing away from a file.
LEMMA StaysFit ==
    ASSUME NEW n \in Nat, NEW f, Fit(f, n)
    PROVE  Fit(f, n + 1)
  BY DEF Fit

\* A step of one updater, and nothing else of it or of another.
LEMMA StepOf ==
    ASSUME Shaped, NEW u \in Updaters, ~AtStep(u, "idle"), NEW s, s # "idle", Step(u, s)
    PROVE  /\ Shaped'
           /\ updater'[u].step = s
           /\ \A v \in Updaters :
                 /\ v # u => updater'[v] = updater[v]
                 /\ updater'[v].image = updater[v].image
                 /\ updater'[v].explicit = updater[v].explicit
                 /\ updater'[v].tag = updater[v].tag
                 /\ updater'[v].archive = updater[v].archive
  <1> DEFINE r == updater[u]
  <1>1. r = [step |-> r.step, image |-> r.image, explicit |-> r.explicit, tag |-> r.tag,
             archive |-> r.archive, sums |-> r.sums]
    BY DEF Shaped, AtStep
  <1>2. [r EXCEPT !.step = s] =
            [step |-> s, image |-> r.image, explicit |-> r.explicit, tag |-> r.tag,
             archive |-> r.archive, sums |-> r.sums]
    BY <1>1
  <1>3. updater' = [updater EXCEPT ![u] = [r EXCEPT !.step = s]]
    BY DEF Step
  <1>4. /\ DOMAIN updater' = Updaters
        /\ updater'[u] = [r EXCEPT !.step = s]
        /\ \A v \in Updaters : v # u => updater'[v] = updater[v]
    BY <1>3 DEF Shaped
  <1>5. /\ updater'[u].step = s /\ updater'[u].image = r.image
        /\ updater'[u].explicit = r.explicit /\ updater'[u].tag = r.tag
        /\ updater'[u].archive = r.archive /\ updater'[u].sums = r.sums
    BY <1>2, <1>4
  <1>6. Shaped'
    BY <1>2, <1>4, <1>5 DEF Shaped
  <1> QED BY <1>4, <1>5, <1>6

LEMMA UpdateInitial == UpdateInit => UInv
  <1> SUFFICES ASSUME UpdateInit PROVE UInv
    OBVIOUS
  <1>1. Fit(File(Dev, Shipped), 1) /\ Fit(File(1, Shipped), 1) /\ ~Fit(NoFile, 1)
    BY FitFiles
  <1>2. Shaped /\ OneReplacement /\ Midway
    BY DEF UpdateInit, Shaped, OneReplacement, Midway, InReplace, AtStep
  <1>3. target # NoFile
    BY <1>1 DEF UpdateInit
  <1>4. OnDisk /\ Tidy
    BY <1>1, <1>3 DEF UpdateInit, OnDisk, FitOrNone, Tidy
  <1>5. FromDisk /\ Asked
    BY DEF UpdateInit, FromDisk, Asked, Alive, Resting, AtStep, InReplace
  <1> QED BY <1>2, <1>4, <1>5 DEF UInv

-----------------------------------------------------------------------------
(* The steps, each with what it does to the files. *)

LEMMA LaunchStep ==
    ASSUME UInv, NEW u \in Updaters, NEW explicit, Launch(u, explicit)
    PROVE  UInv'
  <1>1. /\ DOMAIN updater' = Updaters
        /\ updater'[u] = [step |-> "resolve", image |-> target, explicit |-> explicit,
                          tag |-> explicit, archive |-> "none", sums |-> "none"]
        /\ \A v \in Updaters : v # u => updater'[v] = updater[v]
        /\ UNCHANGED <<windows, latest, target, old, staged, lock, harmed>>
        /\ AtStep(u, "idle") /\ target # NoFile /\ explicit \in Released \cup {Dev}
    BY DEF UInv, Shaped, Launch
  <1>2. /\ updater'[u].step = "resolve" /\ updater'[u].image = target
        /\ updater'[u].explicit = explicit /\ updater'[u].tag = explicit
    BY <1>1
  <1>3. Shaped'
    BY <1>1, <1>2 DEF UInv, Shaped
  <1>4. OnDisk'
    BY <1>1 DEF UInv, OnDisk, FitOrNone
  <1>5. FromDisk'
    BY <1>1, <1>2 DEF UInv, FromDisk, Alive
  <1>6. Asked'
    BY <1>1, <1>2 DEF UInv, Asked, Alive, AtStep, InReplace, Released
  <1>7. OneReplacement' /\ Midway'
    BY <1>1, <1>2 DEF UInv, OneReplacement, Midway, InReplace, AtStep
  <1>8. Tidy'
    BY <1>1, <1>2 DEF UInv, Tidy, InReplace, AtStep
  <1> QED BY <1>3, <1>4, <1>5, <1>6, <1>7, <1>8 DEF UInv

\* A step outside of the replacement, which may clean the parked binary up.
LEMMA OutsideStep ==
    ASSUME UInv, NEW u \in Updaters, Alive(u), ~InReplace(u),
           NEW s \in {"ended", "dead", "download", "verify", "lock"}, Shaped',
           updater'[u].step = s, updater'[u].image = updater[u].image,
           \A v \in Updaters : v # u => updater'[v] = updater[v],
           UNCHANGED <<windows, latest, target, staged, lock>>,
           old' = old \/ (old' = NoFile /\ ~InUse(old)),
           harmed' = harmed \/ harmed' = TRUE,
           s \notin {"ended", "dead"} => updater'[u].tag \in Released,
           s = "lock" => updater'[u].archive = "good"
    PROVE  UInv'
  <1>1. s \notin {"idle", "resolve", "fill", "copy", "stale", "park", "swap", "restore", "unlock"}
    OBVIOUS
  <1>2. windows /\ old' # old => target # NoFile /\ \A v \in Updaters : Alive(v) => updater[v].image = target
    BY DEF UInv, FromDisk, InUse
  <1>3. OnDisk'
    BY <1>2 DEF UInv, OnDisk, FitOrNone
  <1>4. FromDisk'
    BY <1>2, <1>1 DEF UInv, FromDisk, Alive, Resting
  <1>5. Asked'
    BY <1>1 DEF UInv, Asked, Alive, Resting, AtStep, InReplace, Released
  <1>6. OneReplacement'
    BY <1>1 DEF UInv, OneReplacement, InReplace
  <1>7. Midway'
    BY <1>1 DEF UInv, Midway, AtStep
  <1>8. \A v \in Updaters : InReplace(v) => updater'[v] = updater[v]
    OBVIOUS
  <1>9. Tidy'
    <2>1. SUFFICES ASSUME ~harmed' PROVE Tidy'
      BY DEF Tidy
    <2>2. ~harmed
      BY <2>1
    <2> QED BY <1>8, <2>2 DEF UInv, Tidy, InReplace
  <1> QED BY <1>3, <1>4, <1>5, <1>6, <1>7, <1>9 DEF UInv

\* A record of an updater, with its step and its tag changed.
LEMMA NewTag ==
    ASSUME NEW r, NEW x, NEW y,
           r = [step |-> r.step, image |-> r.image, explicit |-> r.explicit, tag |-> r.tag,
                archive |-> r.archive, sums |-> r.sums]
    PROVE  [r EXCEPT !.step = x, !.tag = y] =
              [step |-> x, image |-> r.image, explicit |-> r.explicit, tag |-> y,
               archive |-> r.archive, sums |-> r.sums]
  <1>1. PICK a, b, c, d, e, f :
           /\ r = [step |-> a, image |-> b, explicit |-> c, tag |-> d, archive |-> e, sums |-> f]
           /\ b = r.image /\ c = r.explicit /\ d = r.tag /\ e = r.archive /\ f = r.sums
    OBVIOUS
  <1> DEFINE q == [step |-> x, image |-> b, explicit |-> c, tag |-> d, archive |-> e, sums |-> f]
  <1>2. [r EXCEPT !.step = x] = q
    BY <1>1
  <1>3. [q EXCEPT !.tag = y] =
            [step |-> x, image |-> b, explicit |-> c, tag |-> y, archive |-> e, sums |-> f]
    OBVIOUS
  <1>4. [r EXCEPT !.step = x, !.tag = y] = [[r EXCEPT !.step = x] EXCEPT !.tag = y]
    OBVIOUS
  <1> QED BY <1>1, <1>2, <1>3, <1>4

LEMMA ResolveStep == ASSUME UInv, NEW u \in Updaters, Resolve(u) PROVE UInv'
  <1>0. /\ AtStep(u, "resolve") /\ Alive(u) /\ ~InReplace(u) /\ Shaped /\ ~AtStep(u, "idle")
        /\ UNCHANGED <<windows, latest, target, staged, lock, harmed>>
    BY DEF UInv, Resolve, AtStep, Alive, Resting, InReplace
  <1>1. CASE Fails(u) /\ (old' = old \/ CleanupOld)
    <2>1. old' = old \/ (old' = NoFile /\ ~InUse(old))
      BY <1>1 DEF CleanupOld
    <2>2. Step(u, "ended")
      BY <1>1 DEF Fails
    <2>3. /\ Shaped' /\ updater'[u].step = "ended" /\ updater'[u].image = updater[u].image
          /\ \A v \in Updaters : v # u => updater'[v] = updater[v]
      BY <1>0, <2>2, StepOf
    <2> QED BY <1>0, <2>1, <2>3, OutsideStep
  <1>2. CASE ~(Fails(u) /\ (old' = old \/ CleanupOld))
    <2> DEFINE r == updater[u]
               tag == IF r.explicit = Dev THEN LatestTag ELSE r.explicit
    <2>1. updater' = [updater EXCEPT ![u] = [r EXCEPT !.step = "download", !.tag = tag]] /\ old' = old
      BY <1>2 DEF Resolve
    <2>2. tag \in Released
      BY <1>0 DEF UInv, Asked, LatestTag, Released
    <2>3. r = [step |-> r.step, image |-> r.image, explicit |-> r.explicit, tag |-> r.tag,
               archive |-> r.archive, sums |-> r.sums]
      BY <1>0 DEF Shaped, AtStep
    <2>4. [r EXCEPT !.step = "download", !.tag = tag] =
              [step |-> "download", image |-> r.image, explicit |-> r.explicit, tag |-> tag,
               archive |-> r.archive, sums |-> r.sums]
      <3> HIDE DEF r, tag
      <3> QED BY <2>3, NewTag
    <2>5. /\ DOMAIN updater' = Updaters
          /\ updater'[u] = [step |-> "download", image |-> r.image, explicit |-> r.explicit,
                            tag |-> tag, archive |-> r.archive, sums |-> r.sums]
          /\ \A v \in Updaters : v # u => updater'[v] = updater[v]
      BY <1>0, <2>1, <2>4 DEF Shaped
    <2>6. updater'[u].step = "download" /\ updater'[u].image = r.image /\ updater'[u].tag = tag
      BY <2>5
    <2>7. Shaped'
      BY <1>0, <2>5 DEF Shaped
    <2> QED BY <1>0, <2>1, <2>2, <2>5, <2>6, <2>7, OutsideStep
  <1> QED BY <1>1, <1>2

LEMMA DownloadStep == ASSUME UInv, NEW u \in Updaters, Download(u) PROVE UInv'
  <1> DEFINE r == updater[u]
  <1>0. /\ AtStep(u, "download") /\ Alive(u) /\ ~InReplace(u) /\ Shaped
        /\ UNCHANGED <<windows, latest, target, old, staged, lock, harmed>>
        /\ r.tag \in Released
    BY DEF UInv, Download, AtStep, Alive, Resting, InReplace, Asked
  <1>1. PICK archive \in {"good", "damaged"}, sums \in {"good", "damaged", "missing"} :
           updater' = [updater EXCEPT ![u] = [r EXCEPT !.step = "verify", !.archive = archive,
                                                       !.sums = sums]]
    BY DEF Download
  <1>2. r = [step |-> r.step, image |-> r.image, explicit |-> r.explicit, tag |-> r.tag,
             archive |-> r.archive, sums |-> r.sums]
    BY <1>0 DEF Shaped, AtStep
  <1>3. [r EXCEPT !.step = "verify", !.archive = archive, !.sums = sums] =
            [step |-> "verify", image |-> r.image, explicit |-> r.explicit, tag |-> r.tag,
             archive |-> archive, sums |-> sums]
    <2> HIDE DEF r
    <2>1. PICK a, b, c, d, e, f :
             /\ r = [step |-> a, image |-> b, explicit |-> c, tag |-> d, archive |-> e, sums |-> f]
             /\ b = r.image /\ c = r.explicit /\ d = r.tag
      BY <1>2
    <2> DEFINE q == [step |-> "verify", image |-> b, explicit |-> c, tag |-> d, archive |-> e,
                     sums |-> f]
               p == [step |-> "verify", image |-> b, explicit |-> c, tag |-> d,
                     archive |-> archive, sums |-> f]
    <2>2. [r EXCEPT !.step = "verify"] = q
      BY <2>1
    <2>3. [q EXCEPT !.archive = archive] = p
      OBVIOUS
    <2>4. [p EXCEPT !.sums = sums] =
              [step |-> "verify", image |-> b, explicit |-> c, tag |-> d,
               archive |-> archive, sums |-> sums]
      OBVIOUS
    <2>5. [r EXCEPT !.step = "verify", !.archive = archive, !.sums = sums] =
              [[[r EXCEPT !.step = "verify"] EXCEPT !.archive = archive] EXCEPT !.sums = sums]
      OBVIOUS
    <2> QED BY <2>1, <2>2, <2>3, <2>4, <2>5
  <1>4. /\ DOMAIN updater' = Updaters
        /\ updater'[u] = [step |-> "verify", image |-> r.image, explicit |-> r.explicit,
                          tag |-> r.tag, archive |-> archive, sums |-> sums]
        /\ \A v \in Updaters : v # u => updater'[v] = updater[v]
    BY <1>0, <1>1, <1>3 DEF Shaped
  <1>5. updater'[u].step = "verify" /\ updater'[u].image = r.image /\ updater'[u].tag = r.tag
    BY <1>4
  <1>6. Shaped'
    BY <1>0, <1>4 DEF Shaped
  <1> QED BY <1>0, <1>4, <1>5, <1>6, OutsideStep

LEMMA VerifyStep == ASSUME UInv, NEW u \in Updaters, Verify(u) PROVE UInv'
  <1>0. /\ AtStep(u, "verify") /\ Alive(u) /\ ~InReplace(u) /\ Shaped /\ ~AtStep(u, "idle")
        /\ UNCHANGED <<windows, latest, target, staged, lock, harmed>>
        /\ updater[u].tag \in Released
    BY DEF UInv, Verify, AtStep, Alive, Resting, InReplace, Asked
  <1>1. /\ old' = old \/ (old' = NoFile /\ ~InUse(old))
        /\ Step(u, "ended") \/ (Step(u, "lock") /\ updater[u].archive = "good")
    BY DEF Verify, Fails, CleanupOld, ChecksumMatches
  <1>2. CASE Step(u, "ended")
    BY <1>0, <1>1, <1>2, StepOf, OutsideStep
  <1>3. CASE Step(u, "lock") /\ updater[u].archive = "good"
    BY <1>0, <1>1, <1>3, StepOf, OutsideStep
  <1> QED BY <1>1, <1>2, <1>3

LEMMA GiveUpStep == ASSUME UInv, NEW u \in Updaters, GiveUpUpdate(u) PROVE UInv'
  <1>0. /\ Alive(u) /\ ~InReplace(u) /\ Shaped /\ ~AtStep(u, "idle") /\ Step(u, "ended")
        /\ UNCHANGED <<windows, latest, target, old, staged, lock, harmed>>
    BY DEF UInv, GiveUpUpdate, AtStep, Alive, Resting, InReplace, Fails
  <1> QED BY <1>0, StepOf, OutsideStep

LEMMA AcquireStep == ASSUME UInv, NEW u \in Updaters, AcquireUpdateLock(u) PROVE UInv'
  <1>0. /\ AtStep(u, "lock") /\ Alive(u) /\ ~InReplace(u) /\ Shaped /\ ~AtStep(u, "idle")
        /\ UNCHANGED <<windows, latest, target, old, staged, harmed>> /\ lock' = TRUE
    BY DEF UInv, AcquireUpdateLock, AtStep, Alive, Resting, InReplace
  <1>1. CASE lock
    BY <1>0, <1>1, StepOf, OutsideStep DEF AcquireUpdateLock, Fails
  <1>2. CASE ~lock
    <2>1. Step(u, "copy")
      BY <1>2 DEF AcquireUpdateLock
    <2>2. /\ Shaped' /\ updater'[u].step = "copy" /\ updater'[u].image = updater[u].image
          /\ updater'[u].tag = updater[u].tag /\ updater'[u].archive = updater[u].archive
          /\ \A v \in Updaters : v # u => updater'[v] = updater[v]
      BY <1>0, <2>1, StepOf
    <2>3. \A v \in Updaters : ~InReplace(v)
      BY <1>2 DEF UInv, OneReplacement
    <2>4. OnDisk' /\ FromDisk'
      BY <1>0, <2>2 DEF UInv, OnDisk, FitOrNone, FromDisk, Alive, Resting
    <2>5. Asked'
      BY <1>0, <2>2 DEF UInv, Asked, Alive, Resting, AtStep, InReplace, Released
    <2>6. OneReplacement'
      BY <1>0, <2>2, <2>3 DEF OneReplacement, InReplace
    <2>7. Midway'
      BY <1>0, <2>2 DEF UInv, Midway, AtStep
    <2>8. Tidy'
      BY <1>0, <2>2, <2>3 DEF UInv, Tidy, InReplace
    <2> QED BY <2>2, <2>4, <2>5, <2>6, <2>7, <2>8 DEF UInv
  <1> QED BY <1>1, <1>2

\* The holder of the lock goes on to s: what does not depend on the files.
LEMMA InsideStep ==
    ASSUME UInv, NEW u \in Updaters, NEW s \in {"fill", "stale", "park", "swap", "restore", "unlock"},
           InReplace(u), Step(u, s), UNCHANGED <<windows, latest, lock>>
    PROVE  /\ Shaped' /\ Asked' /\ OneReplacement'
           /\ updater'[u].step = s
           /\ \A v \in Updaters :
                 /\ v # u => updater'[v] = updater[v] /\ ~InReplace(v)
                 /\ updater'[v].image = updater[v].image
                 /\ updater'[v].tag = updater[v].tag
                 /\ Alive(v)' <=> Alive(v)
           /\ lock /\ Alive(u) /\ updater[u].tag \in Released /\ updater[u].archive = "good"
  <1>0. /\ Shaped /\ ~AtStep(u, "idle") /\ Alive(u) /\ ~AtStep(u, "resolve") /\ s # "idle"
        /\ s \notin Resting
    BY DEF UInv, InReplace, AtStep, Alive, Resting
  <1>1. /\ Shaped' /\ updater'[u].step = s
        /\ \A v \in Updaters :
              /\ v # u => updater'[v] = updater[v]
              /\ updater'[v].image = updater[v].image
              /\ updater'[v].explicit = updater[v].explicit
              /\ updater'[v].tag = updater[v].tag
              /\ updater'[v].archive = updater[v].archive
    BY <1>0, StepOf
  <1>2. lock /\ \A v \in Updaters : v # u => ~InReplace(v)
    BY DEF UInv, OneReplacement
  <1>3. updater[u].tag \in Released /\ updater[u].archive = "good"
    BY <1>0 DEF UInv, Asked
  <1>4. \A v \in Updaters : Alive(v)' <=> Alive(v)
    BY <1>0, <1>1 DEF Alive
  <1>5. Asked'
    BY <1>0, <1>1, <1>3, <1>4 DEF UInv, Asked, AtStep, InReplace, Released
  <1>6. OneReplacement'
    BY <1>1, <1>2 DEF OneReplacement, InReplace
  <1> QED BY <1>0, <1>1, <1>2, <1>3, <1>4, <1>5, <1>6

LEMMA ReplaceUnixStep == ASSUME UInv, NEW u \in Updaters, ReplaceUnix(u) PROVE UInv'
  <1>0. /\ ~windows /\ AtStep(u, "copy") /\ InReplace(u) /\ Step(u, "unlock")
        /\ UNCHANGED <<windows, latest, old, staged, lock, harmed>>
        /\ target' \in {target, NewFile(u)}
    BY DEF ReplaceUnix, AtStep, InReplace
  <1>1. /\ Shaped' /\ Asked' /\ OneReplacement' /\ updater'[u].step = "unlock"
        /\ \A v \in Updaters : v # u => updater'[v] = updater[v] /\ ~InReplace(v)
        /\ updater[u].tag \in Released /\ updater[u].archive = "good"
    BY <1>0, InsideStep
  <1>2. NewFile(u) = File(updater[u].tag, {u})
    BY <1>1 DEF NewFile
  <1>3. Fit(NewFile(u), latest) /\ NewFile(u) # NoFile
    BY <1>1, <1>2, FitFiles DEF UInv, Asked, Released
  <1>4. OnDisk'
    BY <1>0, <1>3 DEF UInv, OnDisk, FitOrNone
  <1>5. FromDisk'
    BY <1>0 DEF FromDisk
  <1>6. Midway'
    BY <1>0, <1>1 DEF UInv, Midway, AtStep
  <1>7. Tidy'
    BY <1>0, <1>1, <1>4 DEF UInv, Tidy, InReplace, OnDisk
  <1> QED BY <1>1, <1>4, <1>5, <1>6, <1>7 DEF UInv

LEMMA StageStep == ASSUME UInv, NEW u \in Updaters, StageFile(u) PROVE UInv'
  <1>0. /\ windows /\ AtStep(u, "copy") /\ InReplace(u) /\ Step(u, "fill")
        /\ UNCHANGED <<windows, latest, target, old, lock, harmed>>
    BY DEF StageFile, AtStep, InReplace
  <1>1. /\ Shaped' /\ Asked' /\ OneReplacement' /\ updater'[u].step = "fill"
        /\ \A v \in Updaters :
              /\ v # u => updater'[v] = updater[v] /\ ~InReplace(v)
              /\ updater'[v].image = updater[v].image /\ (Alive(v)' <=> Alive(v))
    BY <1>0, InsideStep
  <1>2. OnDisk' /\ FromDisk'
    BY <1>0, <1>1 DEF UInv, OnDisk, FitOrNone, FromDisk
  <1>3. Midway'
    BY <1>0, <1>1 DEF UInv, Midway, AtStep, InReplace
  <1>4. Tidy'
    BY <1>0, <1>1 DEF UInv, Tidy, InReplace, AtStep
  <1> QED BY <1>1, <1>2, <1>3, <1>4 DEF UInv

LEMMA FillStep == ASSUME UInv, NEW u \in Updaters, FillStaged(u) PROVE UInv'
  <1>0. /\ windows /\ AtStep(u, "fill") /\ InReplace(u)
        /\ UNCHANGED <<windows, latest, target, old, lock, harmed>>
    BY DEF UInv, Midway, FillStaged, AtStep, InReplace
  <1>1. PICK s \in {"stale", "unlock"} :
           /\ Step(u, s)
           /\ s = "stale" => staged' = NewFile(u)
           /\ s = "unlock" => staged' = NoFile
    BY DEF FillStaged
  <1>2. /\ Shaped' /\ Asked' /\ OneReplacement' /\ updater'[u].step = s
        /\ \A v \in Updaters :
              /\ v # u => updater'[v] = updater[v] /\ ~InReplace(v)
              /\ updater'[v].image = updater[v].image /\ updater'[v].tag = updater[v].tag
              /\ (Alive(v)' <=> Alive(v))
        /\ updater[u].archive = "good"
    BY <1>0, <1>1, InsideStep
  <1>3. OnDisk' /\ FromDisk'
    BY <1>0, <1>2 DEF UInv, OnDisk, FitOrNone, FromDisk
  <1>4. Midway'
    BY <1>0, <1>1, <1>2 DEF UInv, Midway, AtStep, InReplace, NewFile
  <1>5. Tidy'
    BY <1>0, <1>1, <1>2 DEF UInv, Tidy, InReplace, AtStep
  <1> QED BY <1>2, <1>3, <1>4, <1>5 DEF UInv

\* The parked file is removed only if nobody runs from it, and then whoever asks
\* runs from the target, which is therefore there.
LEMMA RemoveStaleStep == ASSUME UInv, NEW u \in Updaters, RemoveStale(u) PROVE UInv'
  <1>0. /\ windows /\ AtStep(u, "stale") /\ InReplace(u) /\ Alive(u)
        /\ staged = File(updater[u].tag, {u})
        /\ UNCHANGED <<windows, latest, target, lock, harmed>>
    BY DEF UInv, Midway, RemoveStale, AtStep, InReplace, Alive, Resting
  <1>1. PICK s \in {"park", "unlock"} :
           /\ Step(u, s)
           /\ s = "park" => ~InUse(old) /\ old' = NoFile /\ staged' = staged
           /\ s = "unlock" => old' = old /\ staged' = NoFile
    BY DEF RemoveStale
  <1>2. /\ Shaped' /\ Asked' /\ OneReplacement' /\ updater'[u].step = s
        /\ \A v \in Updaters :
              /\ v # u => updater'[v] = updater[v] /\ ~InReplace(v)
              /\ updater'[v].image = updater[v].image /\ updater'[v].tag = updater[v].tag
              /\ (Alive(v)' <=> Alive(v))
    BY <1>0, <1>1, InsideStep
  <1>3. s = "park" => /\ target # NoFile
                      /\ \A v \in Updaters : Alive(v) => updater[v].image = target
    BY <1>0, <1>1 DEF UInv, FromDisk, InUse
  <1>4. OnDisk' /\ FromDisk'
    BY <1>0, <1>1, <1>2, <1>3 DEF UInv, OnDisk, FitOrNone, FromDisk
  <1>5. Midway'
    BY <1>0, <1>1, <1>2 DEF UInv, Midway, AtStep, InReplace
  <1>6. Tidy'
    BY <1>0, <1>1, <1>2 DEF UInv, Tidy, InReplace, AtStep
  <1> QED BY <1>2, <1>4, <1>5, <1>6 DEF UInv

LEMMA ParkStep == ASSUME UInv, NEW u \in Updaters, Park(u) PROVE UInv'
  <1>0. /\ windows /\ AtStep(u, "park") /\ InReplace(u)
        /\ staged = File(updater[u].tag, {u}) /\ old = NoFile
        /\ UNCHANGED <<windows, latest, lock, harmed>>
    BY DEF UInv, Midway, Park, AtStep, InReplace
  <1>1. PICK s \in {"swap", "unlock"} :
           /\ Step(u, s)
           /\ s = "swap" => target # NoFile /\ old' = target /\ target' = NoFile /\ staged' = staged
           /\ s = "unlock" => UNCHANGED <<old, target>> /\ staged' = NoFile
    BY DEF Park
  <1>2. /\ Shaped' /\ Asked' /\ OneReplacement' /\ updater'[u].step = s
        /\ \A v \in Updaters :
              /\ v # u => updater'[v] = updater[v] /\ ~InReplace(v)
              /\ updater'[v].image = updater[v].image /\ updater'[v].tag = updater[v].tag
              /\ (Alive(v)' <=> Alive(v))
    BY <1>0, <1>1, InsideStep
  <1>3. OnDisk'
    BY <1>0, <1>1 DEF UInv, OnDisk, FitOrNone
  <1>4. FromDisk'
    BY <1>0, <1>1, <1>2 DEF UInv, FromDisk
  <1>5. Midway'
    BY <1>0, <1>1, <1>2 DEF UInv, Midway, AtStep, InReplace
  <1>6. Tidy'
    BY <1>0, <1>1, <1>2 DEF UInv, Tidy, InReplace, AtStep
  <1> QED BY <1>2, <1>3, <1>4, <1>5, <1>6 DEF UInv

LEMMA SwapStep == ASSUME UInv, NEW u \in Updaters, Swap(u) PROVE UInv'
  <1>0. /\ windows /\ AtStep(u, "swap") /\ InReplace(u)
        /\ staged = File(updater[u].tag, {u}) /\ target = NoFile /\ old # NoFile
        /\ UNCHANGED <<windows, latest, old, lock, harmed>>
    BY DEF UInv, Midway, OnDisk, Swap, AtStep, InReplace
  <1>1. PICK s \in {"unlock", "restore"} :
           /\ Step(u, s)
           /\ s = "unlock" => target' = staged /\ staged' = NoFile
           /\ s = "restore" => UNCHANGED <<target, staged>>
    BY DEF Swap
  <1>2. /\ Shaped' /\ Asked' /\ OneReplacement' /\ updater'[u].step = s
        /\ \A v \in Updaters :
              /\ v # u => updater'[v] = updater[v] /\ ~InReplace(v)
              /\ updater'[v].image = updater[v].image /\ updater'[v].tag = updater[v].tag
              /\ (Alive(v)' <=> Alive(v))
        /\ updater[u].tag \in Released
    BY <1>0, <1>1, InsideStep
  <1>3. Fit(staged, latest) /\ ~Fit(NoFile, latest)
    BY <1>0, <1>2, FitFiles DEF UInv, Asked, Released
  <1>4. OnDisk'
    BY <1>0, <1>1, <1>3 DEF UInv, OnDisk, FitOrNone
  <1>5. FromDisk'
    BY <1>0, <1>1, <1>2 DEF UInv, FromDisk
  <1>6. Midway'
    BY <1>0, <1>1, <1>2 DEF UInv, Midway, AtStep, InReplace
  <1>7. Tidy'
    BY <1>0, <1>1, <1>2, <1>3 DEF UInv, Tidy, InReplace, AtStep
  <1> QED BY <1>2, <1>4, <1>5, <1>6, <1>7 DEF UInv

LEMMA RestoreStep == ASSUME UInv, NEW u \in Updaters, Restore(u) PROVE UInv'
  <1>0. /\ windows /\ AtStep(u, "restore") /\ InReplace(u) /\ Step(u, "unlock")
        /\ target = NoFile /\ old # NoFile /\ staged' = NoFile
        /\ UNCHANGED <<windows, latest, lock>>
        /\ \/ target' = old /\ old' = NoFile /\ harmed' = harmed
           \/ UNCHANGED <<target, old>> /\ harmed' = TRUE
    BY DEF UInv, Midway, OnDisk, Restore, AtStep, InReplace
  <1>1. /\ Shaped' /\ Asked' /\ OneReplacement' /\ updater'[u].step = "unlock"
        /\ \A v \in Updaters :
              /\ v # u => updater'[v] = updater[v] /\ ~InReplace(v)
              /\ updater'[v].image = updater[v].image /\ (Alive(v)' <=> Alive(v))
    BY <1>0, InsideStep
  <1>2. OnDisk' /\ FromDisk'
    BY <1>0, <1>1 DEF UInv, OnDisk, FitOrNone, FromDisk
  <1>3. Midway'
    BY <1>0, <1>1 DEF UInv, Midway, AtStep, InReplace
  <1>4. Tidy'
    BY <1>0, <1>1 DEF UInv, Tidy, InReplace, AtStep
  <1> QED BY <1>1, <1>2, <1>3, <1>4 DEF UInv

\* Whoever leaves the replacement, by its end or by its death, leaves what Tidy
\* asks of a state with nobody at work.
LEMMA LeaveStep ==
    ASSUME UInv, NEW u \in Updaters, NEW s \in {"ended", "dead"}, Alive(u), Step(u, s),
           UNCHANGED <<windows, latest, target, old, staged>>,
           \A v \in Updaters : v # u /\ InReplace(v) => lock',
           Tidy'
    PROVE  UInv'
  <1>0. Shaped /\ ~AtStep(u, "idle") /\ s # "idle" /\ s \in Resting
    BY DEF UInv, Alive, Resting, AtStep
  <1>1. /\ Shaped' /\ updater'[u].step = s
        /\ \A v \in Updaters :
              /\ v # u => updater'[v] = updater[v]
              /\ updater'[v].image = updater[v].image
    BY <1>0, StepOf
  <1>2. OnDisk' /\ FromDisk'
    BY <1>0, <1>1 DEF UInv, OnDisk, FitOrNone, FromDisk, Alive
  <1>3. Asked'
    BY <1>0, <1>1 DEF UInv, Asked, Alive, Resting, AtStep, InReplace, Released
  <1>4. OneReplacement'
    BY <1>0, <1>1 DEF UInv, OneReplacement, InReplace
  <1>5. Midway'
    BY <1>0, <1>1 DEF UInv, Midway, AtStep
  <1> QED BY <1>1, <1>2, <1>3, <1>4, <1>5 DEF UInv

LEMMA UnlockStep == ASSUME UInv, NEW u \in Updaters, Unlock(u) PROVE UInv'
  <1>0. /\ AtStep(u, "unlock") /\ InReplace(u) /\ Alive(u) /\ Step(u, "ended") /\ lock' = FALSE
        /\ UNCHANGED <<windows, latest, target, old, staged, harmed>>
    BY DEF Unlock, AtStep, InReplace, Alive, Resting, Fails
  <1>1. \A v \in Updaters : v # u => ~InReplace(v)
    BY <1>0 DEF UInv, OneReplacement
  <1>2. Tidy'
    BY <1>0, <1>1 DEF UInv, Tidy, InReplace, AtStep
  <1> QED BY <1>0, <1>1, <1>2, LeaveStep

LEMMA DieStep == ASSUME UInv, NEW u \in Updaters, DieUpdating(u) PROVE UInv'
  <1>0. /\ Alive(u) /\ Step(u, "dead") /\ harmed' = TRUE
        /\ UNCHANGED <<windows, latest, target, old, staged, lock>>
    BY DEF DieUpdating
  <1>1. Tidy'
    BY <1>0 DEF Tidy
  <1>2. \A v \in Updaters : v # u /\ InReplace(v) => lock'
    BY <1>0 DEF UInv, OneReplacement
  <1> QED BY <1>0, <1>1, <1>2, LeaveStep

\* Steps of nobody: a lock file that is removed while nobody replaces, and a release.
LEMMA OutsiderStep == ASSUME UInv, RemoveLockFile \/ NewRelease PROVE UInv'
  <1>1. CASE RemoveLockFile
    BY <1>1 DEF RemoveLockFile, UInv, Shaped, OnDisk, FitOrNone, FromDisk, Asked, OneReplacement,
                Midway, Tidy, InReplace, Alive, AtStep, Released
  <1>2. CASE NewRelease
    <2>1. latest \in Nat \ {0} /\ latest' = latest + 1 /\ Released \subseteq Released'
      BY <1>2 DEF NewRelease, UInv, Asked, Released
    <2>2. UNCHANGED <<windows, target, old, staged, lock, updater, harmed>>
      BY <1>2 DEF NewRelease
    <2>3. OnDisk'
      BY <2>1, <2>2, StaysFit DEF UInv, OnDisk, FitOrNone
    <2>4. Asked'
      BY <2>1, <2>2 DEF UInv, Asked, Alive, AtStep, InReplace
    <2>5. Shaped' /\ FromDisk' /\ OneReplacement' /\ Midway' /\ Tidy'
      BY <2>2 DEF UInv, Shaped, FromDisk, OneReplacement, Midway, Tidy, Alive, AtStep, InReplace
    <2> QED BY <2>3, <2>4, <2>5 DEF UInv
  <1> QED BY <1>1, <1>2

-----------------------------------------------------------------------------
LEMMA UInvStep == UInv /\ [UpdateNext]_updVars => UInv'
  <1> SUFFICES ASSUME UInv, [UpdateNext]_updVars PROVE UInv'
    OBVIOUS
  <1>1. CASE UNCHANGED updVars
    BY <1>1 DEF updVars, UInv, Shaped, OnDisk, FitOrNone, FromDisk, Asked, OneReplacement,
                Midway, Tidy, InReplace, Alive, AtStep, Released
  <1>2. CASE UpdateNext
    BY <1>2, LaunchStep, ResolveStep, DownloadStep, VerifyStep, AcquireStep, ReplaceUnixStep,
       StageStep, FillStep, RemoveStaleStep, ParkStep, SwapStep, RestoreStep, UnlockStep,
       GiveUpStep, DieStep, OutsiderStep
       DEF UpdateNext
  <1> QED BY <1>1, <1>2

LEMMA UInvSafe == UInv => UpdateSafe
  <1> SUFFICES ASSUME UInv PROVE UpdateSafe
    OBVIOUS
  <1>1. \A f : Fit(f, latest) => Whole(f)
    BY DEF Fit
  <1>2. BinaryNeverLost
    BY <1>1 DEF UInv, OnDisk, FitOrNone, BinaryNeverLost
  <1>3. OnlyVerifiedIsInstalled
    BY DEF UInv, OnDisk, FitOrNone, Fit, OnlyVerifiedIsInstalled, Released
  <1>4. FailureLeavesNothing
    BY DEF UInv, Tidy, FailureLeavesNothing, InReplace
  <1> QED BY <1>2, <1>3, <1>4 DEF UInv, UpdateSafe

-----------------------------------------------------------------------------
(* The shape of the state. *)

\* What u puts on disk is a file.
LEMMA NewFileIs ==
    ASSUME UpdateTypeOK, NEW u \in Updaters, updater[u].tag \in 0..LastRelease
    PROVE  NewFile(u) \in Files /\ File(updater[u].tag, {Partly}) \in Files
  <1>1. Dev \in 0..LastRelease
    BY UpdateAssumption DEF Dev
  <1> QED BY <1>1 DEF NewFile, File, Files

\* An updater that has started runs from a file, for a release.
LEMMA RunsFrom ==
    ASSUME UpdateTypeOK, NEW u \in Updaters, updater[u].step # "idle"
    PROVE  updater[u].image \in Files \ {NoFile} /\ updater[u].tag \in 0..LastRelease
  BY DEF UpdateTypeOK

LEMMA DiskStep ==
    ASSUME UInv, UpdateTypeOK, UpdateNext
    PROVE  target' \in Files /\ old' \in Files /\ staged' \in Files
  <1> USE DEF UpdateTypeOK, AtStep
  <1>1. NoFile \in Files
    BY DEF Files
  <1>2. ASSUME NEW u \in Updaters,
               ReplaceUnix(u) \/ StageFile(u) \/ FillStaged(u)
        PROVE  target' \in Files /\ old' \in Files /\ staged' \in Files
    <2>1. updater[u].step # "idle"
      BY <1>2 DEF ReplaceUnix, StageFile, FillStaged
    <2>2. NewFile(u) \in Files /\ File(updater[u].tag, {Partly}) \in Files
      BY <2>1, RunsFrom, NewFileIs
    <2> QED BY <1>1, <1>2, <2>2 DEF ReplaceUnix, StageFile, FillStaged
  <1>3. ASSUME NEW u \in Updaters,
               \/ Resolve(u) \/ Download(u) \/ Verify(u) \/ AcquireUpdateLock(u)
               \/ RemoveStale(u) \/ Park(u) \/ Swap(u) \/ Restore(u) \/ Unlock(u)
               \/ GiveUpUpdate(u) \/ DieUpdating(u)
        PROVE  target' \in Files /\ old' \in Files /\ staged' \in Files
    BY <1>1, <1>3 DEF Resolve, Download, Verify, AcquireUpdateLock, RemoveStale, Park, Swap,
                      Restore, Unlock, GiveUpUpdate, DieUpdating, CleanupOld
  <1> QED BY <1>2, <1>3 DEF UpdateNext, Launch, RemoveLockFile, NewRelease

LEMMA RunsStep ==
    ASSUME UInv, UpdateTypeOK, UpdateNext, NEW v \in Updaters
    PROVE  \/ updater'[v] = updater[v]
           \/ updater'[v].image \in Files \ {NoFile} /\ updater'[v].tag \in 0..LastRelease
  <1> DEFINE Runs == /\ updater'[v].image \in Files \ {NoFile}
                     /\ updater'[v].tag \in 0..LastRelease
  <1>1. Shaped /\ Asked /\ DOMAIN updater = Updaters
    BY DEF UInv, Shaped
  <1>2. ASSUME NEW u \in Updaters, ~AtStep(u, "idle"), NEW s, s # "idle", Step(u, s)
        PROVE  updater'[v] = updater[v] \/ Runs
    BY <1>1, <1>2, StepOf, RunsFrom DEF AtStep
  <1>3. ASSUME NEW u \in Updaters, NEW explicit \in 0..LastRelease, Launch(u, explicit)
        PROVE  updater'[v] = updater[v] \/ Runs
    <2>1. updater' = [updater EXCEPT ![u] =
             [step |-> "resolve", image |-> target, explicit |-> explicit,
              tag |-> explicit, archive |-> "none", sums |-> "none"]]
          /\ target \in Files \ {NoFile}
      BY <1>3 DEF Launch, UpdateTypeOK
    <2> QED BY <1>1, <2>1
  <1>4. ASSUME NEW u \in Updaters, Resolve(u) PROVE updater'[v] = updater[v] \/ Runs
    <2> DEFINE newest == IF updater[u].explicit = Dev THEN LatestTag ELSE updater[u].explicit
    <2>1. ~AtStep(u, "idle")
      BY <1>4 DEF Resolve, AtStep
    <2>2. CASE Fails(u)
      BY <1>2, <2>1, <2>2 DEF Fails
    <2>3. CASE updater' = [updater EXCEPT ![u].step = "download", ![u].tag = newest]
      <3>1. updater[u].explicit \in 0..LastRelease /\ latest \in 0..LastRelease
        BY <1>1, <1>4, UpdateAssumption DEF Resolve, Asked, Released, Dev, UpdateTypeOK
      <3>2. newest \in 0..LastRelease
        BY <3>1 DEF LatestTag
      <3>3. updater[u].image \in Files \ {NoFile}
        BY <2>1, RunsFrom DEF AtStep
      <3>4. updater[u] = [step |-> updater[u].step, image |-> updater[u].image,
                          explicit |-> updater[u].explicit, tag |-> updater[u].tag,
                          archive |-> updater[u].archive, sums |-> updater[u].sums]
        BY <1>1, <2>1 DEF Shaped, AtStep
      <3> HIDE DEF newest
      <3>5. u = v => updater'[v].image = updater[u].image /\ updater'[v].tag = newest
        BY <1>1, <2>3, <3>4
      <3>6. u # v => updater'[v] = updater[v]
        BY <1>1, <2>3
      <3> QED BY <3>2, <3>3, <3>5, <3>6
    <2> QED BY <1>4, <2>2, <2>3 DEF Resolve
  <1>5. ASSUME NEW u \in Updaters, Download(u) PROVE updater'[v] = updater[v] \/ Runs
    <2>1. ~AtStep(u, "idle")
      BY <1>5 DEF Download, AtStep
    <2>2. updater[u] = [step |-> updater[u].step, image |-> updater[u].image,
                        explicit |-> updater[u].explicit, tag |-> updater[u].tag,
                        archive |-> updater[u].archive, sums |-> updater[u].sums]
      BY <1>1, <2>1 DEF Shaped, AtStep
    <2>3. updater[u].image \in Files \ {NoFile} /\ updater[u].tag \in 0..LastRelease
      BY <2>1, RunsFrom DEF AtStep
    <2>4. PICK archive, sums : updater' = [updater EXCEPT ![u] =
             [@ EXCEPT !.step = "verify", !.archive = archive, !.sums = sums]]
      BY <1>5 DEF Download
    <2> QED BY <1>1, <2>2, <2>3, <2>4
  <1>6. ASSUME NEW u \in Updaters,
               \/ Verify(u) \/ AcquireUpdateLock(u)
               \/ ReplaceUnix(u) \/ StageFile(u) \/ FillStaged(u) \/ RemoveStale(u)
               \/ Park(u) \/ Swap(u) \/ Restore(u) \/ Unlock(u)
               \/ GiveUpUpdate(u) \/ DieUpdating(u)
        PROVE  updater'[v] = updater[v] \/ Runs
    <2>1. ~AtStep(u, "idle")
      BY <1>6 DEF Verify, AcquireUpdateLock, ReplaceUnix, StageFile, FillStaged, RemoveStale, Park,
                  Swap, Restore, Unlock, GiveUpUpdate, DieUpdating, AtStep, Alive, Resting
    <2>2. \E s \in {"lock", "copy", "unlock", "fill", "stale", "park", "swap", "restore", "ended",
                    "dead"} : Step(u, s)
      BY <1>6 DEF Verify, AcquireUpdateLock, ReplaceUnix, StageFile, FillStaged, RemoveStale, Park,
                  Swap, Restore, Unlock, GiveUpUpdate, DieUpdating, Fails
    <2> QED BY <1>2, <2>1, <2>2
  <1>7. ASSUME RemoveLockFile \/ NewRelease PROVE updater'[v] = updater[v] \/ Runs
    BY <1>7 DEF RemoveLockFile, NewRelease
  <1> QED BY <1>3, <1>4, <1>5, <1>6, <1>7 DEF UpdateNext

LEMMA UpdateTypeStep == UInv /\ UpdateTypeOK /\ [UpdateNext]_updVars => UpdateTypeOK'
  <1>1. CASE UNCHANGED updVars
    BY <1>1 DEF updVars, UpdateTypeOK
  <1>2. ASSUME UInv, UpdateTypeOK, UpdateNext PROVE UpdateTypeOK'
    <2>1. UInv'
      BY <1>2, UInvStep
    <2>2. (~windows => old = NoFile /\ staged = NoFile)'
      BY <2>1 DEF UInv, OnDisk
    <2>3. windows' \in BOOLEAN /\ lock' \in BOOLEAN /\ harmed' \in BOOLEAN
      BY <1>2 DEF UpdateTypeOK, UpdateNext, Launch, Resolve, Download, Verify, AcquireUpdateLock,
            ReplaceUnix, StageFile, FillStaged, RemoveStale, Park, Swap, Restore, Unlock,
            GiveUpUpdate, DieUpdating, RemoveLockFile, NewRelease
    <2>4. \/ latest' = latest
          \/ latest < LastRelease /\ latest' = latest + 1
      BY <1>2 DEF UpdateNext, Launch, Resolve, Download, Verify, AcquireUpdateLock,
            ReplaceUnix, StageFile, FillStaged, RemoveStale, Park, Swap, Restore, Unlock,
            GiveUpUpdate, DieUpdating, RemoveLockFile, NewRelease
    <2>5. latest' \in 1..LastRelease
      BY <1>2, <2>4, UpdateAssumption DEF UpdateTypeOK
    <2>6. \A v \in Updaters :
             \/ updater'[v] = [step |-> "idle"]
             \/ updater'[v].image \in Files \ {NoFile} /\ updater'[v].tag \in 0..LastRelease
      BY <1>2, RunsStep DEF UpdateTypeOK
    <2> QED BY <1>2, <2>2, <2>3, <2>5, <2>6, DiskStep DEF UpdateTypeOK
  <1> QED BY <1>1, <1>2

LEMMA UpdateTypeInitial == UpdateInit => UpdateTypeOK
  <1> SUFFICES ASSUME UpdateInit PROVE UpdateTypeOK
    OBVIOUS
  <1>1. {Dev, 1} \subseteq 0..LastRelease /\ 1 \in 1..LastRelease
    BY UpdateAssumption DEF Dev
  <1>2. File(Dev, Shipped) \in Files /\ File(1, Shipped) \in Files /\ NoFile \in Files
    BY <1>1 DEF Files, File
  <1> QED BY <1>1, <1>2 DEF UpdateInit, UpdateTypeOK

\* However many updates run, fail and die at whatever step, on either platform,
\* while locks of the dead are removed by hand: the binary is never lost, what can
\* be started was shipped or verified, one update replaces at a time, and a
\* failure leaves nothing half-done.
THEOREM UpdateSafeCorrect == UpdateSpec => []UpdateSafe
  BY UpdateInitial, UInvStep, UInvSafe, PTL DEF UpdateSpec

-----------------------------------------------------------------------------
(* Migrations: whoever races, fails or dies, a call that succeeds leaves all  *)
(* of the scripts of its build applied.                                       *)

Steps == {"idle", "wait", "check", "exec", "record", "commit", "reconcile", "ok", "error", "dead"}
Stands == call \in [Callers -> [step : Steps, version : Nat \ {0}]]

\* Where a call stands, everything before is applied as its binary has it.
PassedIsApplied ==
    \A c \in Callers : \A v \in DOMAIN Known[ProcessOf(c)] :
        v < call[c].version => applied[v] = Known[ProcessOf(c)][v]

\* A call looks at one of its own scripts, and one about to commit knows that
\* nobody has.
AtOwnScript ==
    \A c \in Callers :
        /\ call[c].step \in {"exec", "record", "commit", "reconcile"} =>
              call[c].version \in DOMAIN Known[ProcessOf(c)]
        /\ call[c].step = "commit" => applied[call[c].version] = Unapplied

\* A call that succeeded is past the last of its scripts.
OkIsPast == \A c \in Callers :
    call[c].step = "ok" => call[c].version \notin DOMAIN Known[ProcessOf(c)]

SInv == /\ MigTypeOK /\ Stands
        /\ PassedIsApplied /\ AtOwnScript /\ OkIsPast
        /\ AppliedOnce /\ AppliedInOrder

\* What the scripts of a binary are: 1 to some n, all of them of the schema, none
\* of them with the checksum that stands for no row.
LEMMA Scripts ==
    ASSUME NEW c \in Callers
    PROVE  /\ ProcessOf(c) \in DOMAIN Known
           /\ \E n \in Nat : DOMAIN Known[ProcessOf(c)] = 1..n
           /\ \A v \in DOMAIN Known[ProcessOf(c)] :
                 v \in Schema /\ Known[ProcessOf(c)][v] # Unapplied
  <1>1. ProcessOf(c) \in DOMAIN Known
    BY MigrationAssumption DEF ProcessOf
  <1>2. Known[ProcessOf(c)] \in Seq(STRING \ {Unapplied})
    BY <1>1, MigrationAssumption
  <1>3. /\ Len(Known[ProcessOf(c)]) \in Nat
        /\ DOMAIN Known[ProcessOf(c)] = 1..Len(Known[ProcessOf(c)])
        /\ \A v \in DOMAIN Known[ProcessOf(c)] : Known[ProcessOf(c)][v] # Unapplied
    BY <1>2
  <1>4. \A v \in DOMAIN Known[ProcessOf(c)] : v \in Schema
    BY <1>1 DEF Schema
  <1> QED BY <1>1, <1>3, <1>4

\* Versions are numbers.
LEMMA SchemaIsNat == Schema \subseteq Nat
  <1> SUFFICES ASSUME NEW p \in DOMAIN Known
               PROVE  DOMAIN Known[p] \subseteq Nat
    BY DEF Schema
  <1>1. Known[p] \in Seq(STRING \ {Unapplied})
    BY MigrationAssumption
  <1> QED BY <1>1

\* A script that is passed is applied, and what is applied stays so.
LEMMA PassedOk ==
    ASSUME SInv, NEW c \in Callers, call[c].step = "ok"
    PROVE  \A v \in DOMAIN Known[ProcessOf(c)] : applied[v] = Known[ProcessOf(c)][v]
  <1> SUFFICES ASSUME NEW v \in DOMAIN Known[ProcessOf(c)]
               PROVE  applied[v] = Known[ProcessOf(c)][v]
    OBVIOUS
  <1>1. PICK n \in Nat : DOMAIN Known[ProcessOf(c)] = 1..n
    BY Scripts
  <1>2. call[c].version \notin 1..n /\ call[c].version \in Nat \ {0}
    BY <1>1 DEF SInv, OkIsPast, Stands
  <1>3. v < call[c].version
    BY <1>1, <1>2
  <1> QED BY <1>3 DEF SInv, PassedIsApplied

\* Nothing is applied and every call is at the first script.
LEMMA MigInitial == MigInit => SInv
  <1> SUFFICES ASSUME MigInit PROVE SInv
    OBVIOUS
  <1>1. MigTypeOK /\ Stands
    BY MigrationAssumption DEF MigInit, MigTypeOK, Stands, Steps
  <1>2. PassedIsApplied
    <2> SUFFICES ASSUME NEW c \in Callers, NEW v \in DOMAIN Known[ProcessOf(c)], v < 1
                 PROVE  FALSE
      BY DEF MigInit, PassedIsApplied
    <2> QED BY Scripts
  <1>3. AtOwnScript /\ OkIsPast /\ AppliedOnce /\ AppliedInOrder
    BY DEF MigInit, AtOwnScript, OkIsPast, AppliedOnce, AppliedInOrder
  <1> QED BY <1>1, <1>2, <1>3 DEF SInv

\* A step that moves one call and leaves the schema alone keeps the invariant as
\* long as the call is past no more than it should be.
LEMMA Moves ==
    ASSUME SInv, NEW c \in Callers, NEW s \in Steps, NEW n \in Nat \ {0},
           call' = [call EXCEPT ![c] = [step |-> s, version |-> n]],
           UNCHANGED <<applied, effects>>,
           held' \subseteq DOMAIN Process \cup DOMAIN Known,
           s \in {"record", "commit"} => writer \in {Nobody, c},
           writer' = IF s \in {"record", "commit"} THEN c
                     ELSE IF writer = c THEN Nobody ELSE writer,
           \A v \in DOMAIN Known[ProcessOf(c)] : v < n => applied[v] = Known[ProcessOf(c)][v],
           s \in {"exec", "record", "commit", "reconcile"} => n \in DOMAIN Known[ProcessOf(c)],
           s = "commit" => applied[n] = Unapplied,
           s = "ok" => n \notin DOMAIN Known[ProcessOf(c)]
    PROVE  SInv'
  <1> USE DEF ProcessOf
  <1>0. /\ call'[c] = [step |-> s, version |-> n]
        /\ \A d \in Callers : d # c => call'[d] = call[d]
    BY DEF SInv, Stands
  <1>1. Stands'
    BY DEF SInv, Stands
  <1>2. PassedIsApplied'
    BY <1>0 DEF SInv, PassedIsApplied
  <1>3. AtOwnScript' /\ OkIsPast'
    BY <1>0 DEF SInv, AtOwnScript, OkIsPast
  <1>4. AppliedOnce' /\ AppliedInOrder'
    BY DEF SInv, AppliedOnce, AppliedInOrder
  <1>5. MigTypeOK'
    <2>1. /\ DOMAIN applied' = Schema /\ DOMAIN effects' = Schema
          /\ \A v \in Schema : effects'[v] \in Nat
          /\ writer' \in Callers \cup {Nobody}
          /\ DOMAIN call' = Callers
      BY DEF SInv, MigTypeOK
    <2>2. \A d \in Callers : call'[d].version \in Nat
      BY <1>0 DEF SInv, MigTypeOK
    <2>3. ASSUME NEW d \in Callers
          PROVE  call'[d].step \in {"record", "commit"} <=> writer' = d
      <3>1. CASE d = c
        BY <1>0, <3>1, MigrationAssumption
      <3>2. CASE d # c
        BY <1>0, <3>2, MigrationAssumption DEF SInv, MigTypeOK
      <3> QED BY <3>1, <3>2
    <2> QED BY <2>1, <2>2, <2>3 DEF MigTypeOK
  <1> QED BY <1>1, <1>2, <1>3, <1>4, <1>5 DEF SInv

\* The same for a step that names only where the call goes.
LEMMA GoesOn ==
    ASSUME SInv, NEW c \in Callers, NEW s \in Steps, Goes(c, s),
           UNCHANGED <<applied, effects>>,
           held' \subseteq DOMAIN Process \cup DOMAIN Known,
           s \in {"record", "commit"} => writer \in {Nobody, c},
           writer' = IF s \in {"record", "commit"} THEN c
                     ELSE IF writer = c THEN Nobody ELSE writer,
           s \in {"exec", "record", "commit", "reconcile"} =>
              call[c].version \in DOMAIN Known[ProcessOf(c)],
           s = "commit" => applied[call[c].version] = Unapplied,
           s = "ok" => call[c].version \notin DOMAIN Known[ProcessOf(c)]
    PROVE  SInv'
  <1>1. /\ call' = [call EXCEPT ![c] = [step |-> s, version |-> call[c].version]]
        /\ call[c].version \in Nat \ {0}
    <2>1. call[c] \in [step : Steps, version : Nat \ {0}] /\ c \in DOMAIN call
      BY DEF SInv, Stands
    <2>2. [call[c] EXCEPT !.step = s] = [step |-> s, version |-> call[c].version]
      BY <2>1
    <2>3. call' = [call EXCEPT ![c] = [call[c] EXCEPT !.step = s]]
      BY DEF Goes
    <2> QED BY <2>1, <2>2, <2>3
  <1>2. \A v \in DOMAIN Known[ProcessOf(c)] :
           v < call[c].version => applied[v] = Known[ProcessOf(c)][v]
    BY DEF SInv, PassedIsApplied
  <1> QED BY <1>1, <1>2, Moves

\* The only call inside a transaction is the one that holds the write lock.
LEMMA Outside ==
    ASSUME SInv, NEW c \in Callers
    PROVE  /\ call[c].step \in {"record", "commit"} <=> writer = c
           /\ held \subseteq DOMAIN Process \cup DOMAIN Known
  BY DEF SInv, MigTypeOK

LEMMA BeginStep == ASSUME SInv, NEW c \in Callers, BeginMigrate(c) PROVE SInv'
  <1>1. PICK s \in {"wait", "error"} : Goes(c, s)
    BY DEF BeginMigrate
  <1>2. /\ UNCHANGED <<applied, effects, writer>> /\ writer # c
        /\ held' \subseteq DOMAIN Process \cup DOMAIN Known
    BY Outside, MigrationAssumption DEF BeginMigrate
  <1>3. s \in Steps \ {"exec", "record", "commit", "reconcile", "ok"}
    BY DEF Steps
  <1> QED BY <1>1, <1>2, <1>3, GoesOn

LEMMA EnterStep == ASSUME SInv, NEW c \in Callers, EnterProcess(c) PROVE SInv'
  <1>1. /\ Goes(c, "check") /\ UNCHANGED <<applied, effects, writer>> /\ writer # c
        /\ held' \subseteq DOMAIN Process \cup DOMAIN Known
    BY Outside, MigrationAssumption DEF EnterProcess, ProcessOf
  <1>2. "check" \in Steps
    BY DEF Steps
  <1> QED BY <1>1, <1>2, GoesOn

LEMMA CheckStep == ASSUME SInv, NEW c \in Callers, CheckVersion(c) PROVE SInv'
  <1> DEFINE n == call[c].version
             K == Known[ProcessOf(c)]
  <1>1. \A v \in DOMAIN K : v < n => applied[v] = K[v]
    BY DEF SInv, PassedIsApplied
  <1>2. n \in Nat \ {0} /\ \A v \in DOMAIN K : v \in Nat
    BY Scripts, SchemaIsNat DEF SInv, Stands
  <1>3. UNCHANGED <<applied, effects, writer>> /\ writer # c
    BY Outside DEF CheckVersion
  <1>4. held' \subseteq DOMAIN Process \cup DOMAIN Known
    BY Outside DEF CheckVersion, Releases
  <1>5. {"ok", "exec", "check", "error"} \subseteq Steps
    BY DEF Steps
  <1>6. CASE n \notin DOMAIN K
    <2>1. Goes(c, "ok")
      BY <1>6 DEF CheckVersion
    <2> QED BY <1>3, <1>4, <1>5, <1>6, <2>1, GoesOn
  <1>7. CASE n \in DOMAIN K /\ ~IsApplied(c)
    <2>1. Goes(c, "exec")
      BY <1>7 DEF CheckVersion
    <2> QED BY <1>3, <1>4, <1>5, <1>7, <2>1, GoesOn
  <1>8. CASE n \in DOMAIN K /\ IsApplied(c) /\ applied[n] = Checksum(c)
    <2>1. call' = [call EXCEPT ![c].version = @ + 1]
      BY <1>8 DEF CheckVersion
    <2>2. call' = [call EXCEPT ![c] = [step |-> "check", version |-> n + 1]]
      <3>1. /\ call[c] \in [step : Steps, version : Nat \ {0}]
            /\ call[c].step = "check"
        BY DEF SInv, Stands, CheckVersion
      <3>2. [call[c] EXCEPT !.version = n + 1] = [step |-> "check", version |-> n + 1]
        BY <3>1
      <3>3. call' = [call EXCEPT ![c] = [call[c] EXCEPT !.version = n + 1]]
        BY <2>1
      <3> QED BY <3>2, <3>3
    <2>3. \A v \in DOMAIN K : v < n + 1 => applied[v] = K[v]
      BY <1>1, <1>2, <1>8 DEF Checksum
    <2>4. n + 1 \in Nat \ {0}
      BY <1>2
    <2> QED BY <1>3, <1>4, <1>5, <2>2, <2>3, <2>4, Moves
  <1>9. CASE n \in DOMAIN K /\ IsApplied(c) /\ applied[n] # Checksum(c)
    <2>1. Goes(c, "error")
      BY <1>9 DEF CheckVersion
    <2> QED BY <1>3, <1>4, <1>5, <2>1, GoesOn
  <1> QED BY <1>6, <1>7, <1>8, <1>9

LEMMA ExecStep == ASSUME SInv, NEW c \in Callers, ExecMigration(c) PROVE SInv'
  <1>1. /\ call[c].version \in DOMAIN Known[ProcessOf(c)]
        /\ UNCHANGED <<applied, effects, held>> /\ writer # c
        /\ held' \subseteq DOMAIN Process \cup DOMAIN Known
    BY Outside DEF SInv, AtOwnScript, ExecMigration
  <1>2. {"reconcile", "record"} \subseteq Steps
    BY DEF Steps
  <1>3. \/ Goes(c, "reconcile") /\ writer' = writer
        \/ Goes(c, "record") /\ writer' = c /\ writer = Nobody
    BY DEF ExecMigration
  <1> QED BY <1>1, <1>2, <1>3, GoesOn

LEMMA RecordStep == ASSUME SInv, NEW c \in Callers, RecordVersion(c) PROVE SInv'
  <1>1. /\ call[c].version \in DOMAIN Known[ProcessOf(c)]
        /\ UNCHANGED <<applied, effects, held>> /\ writer = c
        /\ held' \subseteq DOMAIN Process \cup DOMAIN Known
    BY Outside DEF SInv, AtOwnScript, RecordVersion
  <1>2. {"reconcile", "commit"} \subseteq Steps
    BY DEF Steps
  <1>3. \/ Goes(c, "reconcile") /\ writer' = Nobody
        \/ Goes(c, "commit") /\ writer' = writer /\ applied[call[c].version] = Unapplied
    BY DEF RecordVersion, IsApplied
  <1> QED BY <1>1, <1>2, <1>3, GoesOn

LEMMA ReconcileStep == ASSUME SInv, NEW c \in Callers, Reconcile(c) PROVE SInv'
  <1> DEFINE n == call[c].version
             K == Known[ProcessOf(c)]
  <1>1. n \in DOMAIN K /\ \A v \in DOMAIN K : v < n => applied[v] = K[v]
    BY DEF SInv, PassedIsApplied, AtOwnScript, Reconcile
  <1>2. n \in Nat \ {0} /\ \A v \in DOMAIN K : v \in Nat
    BY Scripts, SchemaIsNat DEF SInv, Stands
  <1>3. UNCHANGED <<applied, effects, writer>> /\ writer # c
    BY Outside DEF Reconcile
  <1>4. held' \subseteq DOMAIN Process \cup DOMAIN Known
    BY Outside DEF Reconcile, Releases
  <1>5. {"check", "error"} \subseteq Steps
    BY DEF Steps
  <1>6. CASE IsApplied(c) /\ applied[n] = Checksum(c)
    <2>1. call' = [call EXCEPT ![c] = [step |-> "check", version |-> n + 1]]
      BY <1>6 DEF Reconcile
    <2>2. \A v \in DOMAIN K : v < n + 1 => applied[v] = K[v]
      BY <1>1, <1>2, <1>6 DEF Checksum
    <2>3. n + 1 \in Nat \ {0}
      BY <1>2
    <2> QED BY <1>3, <1>4, <1>5, <2>1, <2>2, <2>3, Moves
  <1>7. CASE ~(IsApplied(c) /\ applied[n] = Checksum(c))
    <2>1. Goes(c, "error")
      BY <1>7 DEF Reconcile
    <2> QED BY <1>3, <1>4, <1>5, <2>1, GoesOn
  <1> QED BY <1>6, <1>7

LEMMA FailStep == ASSUME SInv, NEW c \in Callers, FailMigration(c) PROVE SInv'
  <1>1. /\ Goes(c, "error") /\ UNCHANGED <<applied, effects>>
        /\ writer' = IF writer = c THEN Nobody ELSE writer
    BY DEF FailMigration
  <1>2. held' \subseteq DOMAIN Process \cup DOMAIN Known
    BY Outside DEF FailMigration, Releases
  <1>3. "error" \in Steps
    BY DEF Steps
  <1> QED BY <1>1, <1>2, <1>3, GoesOn

\* The one step that changes the schema: the transaction is the only one, its
\* script is not applied and everything before it is.
LEMMA CommitStep == ASSUME SInv, NEW c \in Callers, CommitMigration(c) PROVE SInv'
  <1> DEFINE n == call[c].version
             K == Known[ProcessOf(c)]
  <1>1. /\ n \in DOMAIN K /\ applied[n] = Unapplied /\ writer = c
        /\ \A v \in DOMAIN K : v < n => applied[v] = K[v]
    BY DEF SInv, PassedIsApplied, AtOwnScript, CommitMigration, MigTypeOK
  <1>2. n \in Nat \ {0} /\ n \in Schema /\ K[n] # Unapplied
    BY <1>1, Scripts DEF SInv, Stands
  <1>3. /\ applied' = [applied EXCEPT ![n] = K[n]]
        /\ effects' = [effects EXCEPT ![n] = @ + 1]
        /\ call' = [call EXCEPT ![c] = [step |-> "check", version |-> n + 1]]
        /\ writer' = Nobody /\ held' = held
    BY DEF CommitMigration, Checksum
  <1>4. MigTypeOK'
    <2>1. /\ DOMAIN applied' = Schema /\ DOMAIN effects' = Schema
          /\ \A v \in Schema : effects'[v] \in Nat
          /\ DOMAIN call' = Callers
      BY <1>2, <1>3 DEF SInv, MigTypeOK
    <2>2. \A d \in Callers : call'[d].version \in Nat
      BY <1>2, <1>3 DEF SInv, Stands
    <2>3. \A d \in Callers : call'[d].step \notin {"record", "commit"}
      BY <1>1, <1>3 DEF SInv, MigTypeOK
    <2> QED BY <1>3, <2>1, <2>2, <2>3, MigrationAssumption DEF SInv, MigTypeOK
  <1>5. Stands'
    BY <1>2, <1>3 DEF SInv, Stands, Steps
  <1>6. PassedIsApplied'
    <2> SUFFICES ASSUME NEW d \in Callers, NEW v \in DOMAIN Known[ProcessOf(d)],
                        v < call'[d].version
                 PROVE  applied'[v] = Known[ProcessOf(d)][v]
      BY DEF PassedIsApplied, ProcessOf
    <2>1. v \in Schema /\ v \in Nat /\ Known[ProcessOf(d)][v] # Unapplied
      BY Scripts, SchemaIsNat
    <2>2. CASE d = c
      <3>0. call'[d].version = n + 1
        BY <1>3, <2>2 DEF SInv, Stands
      <3>1. v < n \/ v = n
        BY <1>2, <2>1, <3>0
      <3> QED BY <1>1, <1>2, <1>3, <2>1, <2>2, <3>1 DEF SInv, MigTypeOK
    <2>3. CASE d # c
      <3>1. applied[v] = Known[ProcessOf(d)][v]
        BY <1>3, <2>3 DEF SInv, Stands, PassedIsApplied
      <3> QED BY <1>1, <1>3, <2>1, <3>1 DEF SInv, MigTypeOK
    <2> QED BY <2>2, <2>3
  <1>7. AtOwnScript'
    <2> SUFFICES ASSUME NEW d \in Callers
                 PROVE  /\ call'[d].step \in {"exec", "record", "commit", "reconcile"} =>
                              call'[d].version \in DOMAIN Known[ProcessOf(d)]
                        /\ call'[d].step = "commit" => applied'[call'[d].version] = Unapplied
      BY DEF AtOwnScript, ProcessOf
    <2>1. CASE d = c
      BY <1>3, <2>1 DEF SInv, Stands
    <2>2. CASE d # c
      <3>1. call'[d] = call[d] /\ call[d].step \notin {"record", "commit"}
        BY <1>1, <1>3, <2>2 DEF SInv, Stands, MigTypeOK
      <3> QED BY <3>1 DEF SInv, AtOwnScript
    <2> QED BY <2>1, <2>2
  <1>8. OkIsPast'
    BY <1>3 DEF SInv, Stands, OkIsPast, ProcessOf
  <1>9. AppliedOnce'
    BY <1>1, <1>2, <1>3 DEF SInv, AppliedOnce, MigTypeOK
  <1>10. AppliedInOrder'
    <2> SUFFICES ASSUME NEW v \in Schema, NEW w \in Schema, v < w, applied'[w] # Unapplied
                 PROVE  applied'[v] # Unapplied
      BY DEF AppliedInOrder
    <2>1. CASE w = n
      <3>1. PICK m \in Nat : DOMAIN K = 1..m
        BY Scripts
      <3>2. v \in Nat \ {0}
        BY MigrationAssumption DEF Schema
      <3>3. v \in DOMAIN K
        BY <1>1, <2>1, <3>1, <3>2
      <3> QED BY <1>1, <1>3, <2>1, <3>3, Scripts, <1>2 DEF SInv, MigTypeOK
    <2>2. CASE w # n
      <3>1. applied[w] # Unapplied
        BY <1>3, <2>2 DEF SInv, MigTypeOK
      <3>2. applied[v] # Unapplied
        BY <3>1 DEF SInv, AppliedInOrder
      <3> QED BY <1>1, <1>3, <3>2 DEF SInv, MigTypeOK
    <2> QED BY <2>1, <2>2
  <1> QED BY <1>4, <1>5, <1>6, <1>7, <1>8, <1>9, <1>10 DEF SInv

LEMMA KillStep == ASSUME SInv, NEW p, KillProcess(p) PROVE SInv'
  <1>1. \A c \in Callers : \/ call'[c] = call[c]
                           \/ /\ ProcessOf(c) = p
                              /\ call'[c] = [step |-> "dead", version |-> call[c].version]
    BY DEF SInv, Stands, KillProcess
  <1>2. \A c \in Callers : ProcessOf(c) = p => call'[c].step \notin {"record", "commit"}
    BY DEF SInv, Stands, KillProcess, Rests
  <1>3. Stands'
    BY DEF SInv, Stands, KillProcess, Steps
  <1>4. MigTypeOK'
    <2>1. /\ DOMAIN applied' = Schema /\ DOMAIN effects' = Schema
          /\ \A v \in Schema : effects'[v] \in Nat
          /\ writer' \in Callers \cup {Nobody}
          /\ held' \subseteq DOMAIN Process \cup DOMAIN Known
          /\ DOMAIN call' = Callers
      BY DEF SInv, MigTypeOK, KillProcess
    <2>2. ASSUME NEW c \in Callers PROVE call'[c].version \in Nat
      <3>1. call'[c] \in {call[c], [step |-> "dead", version |-> call[c].version]}
        BY <1>1
      <3>2. [step |-> "dead", version |-> call[c].version].version = call[c].version
        OBVIOUS
      <3>3. call'[c].version = call[c].version
        BY <3>1, <3>2
      <3> QED BY <3>3 DEF SInv, MigTypeOK
    <2>3. \A c \in Callers : call'[c].step \in {"record", "commit"} <=> writer' = c
      BY <1>1, <1>2, MigrationAssumption DEF SInv, MigTypeOK, KillProcess
    <2> QED BY <2>1, <2>2, <2>3 DEF MigTypeOK
  <1>5. PassedIsApplied' /\ OkIsPast' /\ AtOwnScript'
    BY <1>1 DEF SInv, Stands, PassedIsApplied, OkIsPast, AtOwnScript, KillProcess, ProcessOf
  <1>6. AppliedOnce' /\ AppliedInOrder'
    BY DEF SInv, AppliedOnce, AppliedInOrder, KillProcess
  <1> QED BY <1>3, <1>4, <1>5, <1>6 DEF SInv

LEMMA SInvStep == SInv /\ [MigNext]_migVars => SInv'
  <1> SUFFICES ASSUME SInv, [MigNext]_migVars PROVE SInv'
    OBVIOUS
  <1>1. CASE UNCHANGED migVars
    BY <1>1 DEF migVars, SInv, MigTypeOK, Stands, PassedIsApplied, AtOwnScript, OkIsPast,
                AppliedOnce, AppliedInOrder, ProcessOf
  <1>2. CASE MigNext
    BY <1>2, BeginStep, EnterStep, CheckStep, ExecStep, RecordStep, CommitStep,
       ReconcileStep, FailStep, KillStep DEF MigNext, Proceed
  <1> QED BY <1>1, <1>2

\* However the calls of any number of processes and builds race, fail and die,
\* each script takes effect once, in order, and a call of Migrate that succeeds
\* leaves a schema that is the one of its binary.
THEOREM SchemaCorrect == MigSpec => []SchemaSound
  <1>1. SInv => SchemaSound
    BY PassedOk DEF SInv, SchemaSound, SuccessMeansMigrated
  <1> QED BY MigInitial, SInvStep, <1>1, PTL DEF MigSpec

\* The state of the migrations keeps its shape, and the write lock of SQLite is
\* held exactly by a call that is inside its transaction.
THEOREM MigTypeCorrect == MigSpec => []MigTypeOK
  <1>1. SInv => MigTypeOK
    BY DEF SInv
  <1> QED BY MigInitial, SInvStep, <1>1, PTL DEF MigSpec
-----------------------------------------------------------------------------
(* AgentSkills. What a command may take away or write over next is no text   *)
(* that the user counts on, or a backup holds it. An install alone has none. *)

\* What the user wrote in f, if anything, is in a backup.
BackedUp(f) == work[f] = Gone \/ \E copy \in saved : copy[f] = work[f]

Copying == run.step \in {"copy", "fill"}
Staged == {Sources(v) : v \in Versions}

\* Past the backup of an upgrade.
Swapping == run.step = "remove" \/ (Copying /\ run.next # "record")

\* What is copied comes from a version, or is the backup put back; a file of it that
\* is not to be copied any more is in place, or what the user wrote there since. An
\* install leaves the files it has none of its own for as it found them.
Copied ==
    /\ run.step \in {"backup", "candidate", "remove"} => run.staged \in Staged
    /\ Copying => /\ IF run.next = "restored" THEN run.from = run.before ELSE run.from \in Staged
                  /\ \A f \in run.todo : run.from[f] # Gone
                  /\ \A f \in SkillFiles \ run.todo :
                        run.from[f] # Gone => installed[f] \in {run.from[f]} \cup Notes
                  /\ run.next = "record" => \A f \in SkillFiles :
                        run.from[f] = Gone => installed[f] \in {run.before[f]} \cup Notes

\* What a command found is kept for ever by an upgrade, and was no skill to an install.
FoundBefore ==
    /\ Swapping => run.before \in saved
    /\ Copying /\ run.next = "record" => ~HasMarker(run.before)

\* What the user counts on is what he wrote.
WorkIsNotes == \A f \in SkillFiles : work[f] \in Notes \cup {Gone}

\* The files that may be taken away or filled without another look.
Exposed(f) == Swapping \/ (run.step = "fill" /\ f = FirstOf(run.todo))

Guarded == \A f \in SkillFiles : Exposed(f) => installed[f] # work[f] \/ BackedUp(f)

SkInv == SkillTypeOK /\ Copied /\ FoundBefore /\ WorkIsNotes /\ Guarded

\* The numbers that stand for contents are apart.
LEMMA Contents ==
    /\ 1 \in SkillFiles /\ SkillFiles \subseteq Nat /\ Versions \subseteq Nat \ {0} /\ 1 \in Versions
    /\ \A n \in Notes : n \in Nat /\ n # Gone /\ n # Half /\ n \notin Versions
    /\ \A v \in Versions : v # Gone /\ v # Half /\ Ships[v] \subseteq SkillFiles
  BY SkillAssumption DEF Versions, Gone, Half, FileNames

\* A version holds its number in every file that it has.
LEMMA SourcesAre ==
    ASSUME NEW v \in Versions
    PROVE  /\ Sources(v) \in Dirs
           /\ \A f \in SkillFiles : Sources(v)[f] \in {v, Gone}
  BY DEF Sources, Dirs, FileNames, FileTexts

LEMMA EmptyIsDir == EmptyDir \in Dirs /\ \A f \in FileNames : EmptyDir[f] = Gone
  BY DEF EmptyDir, Dirs, FileTexts

LEMMA CopyIsDir ==
    ASSUME NEW d \in Dirs
    PROVE  /\ CopyOf(d) \in Dirs
           /\ \A f \in SkillFiles : CopyOf(d)[f] = d[f]
  BY DEF CopyOf, Dirs, FileNames, FileTexts

\* The file that is copied next is one of those to be copied.
LEMMA FirstFile ==
    ASSUME NEW S \in SUBSET SkillFiles, S # {}
    PROVE  FirstOf(S) \in S
  <1>1. S \in SUBSET Nat
    BY Contents
  <1>2. \E j \in S : \A k \in S : <<k, j>> \notin OpToRel(<, Nat)
    BY <1>1, NatLessThanWellFounded, WFMin
  <1>3. PICK j \in S : \A k \in S : <<k, j>> \notin OpToRel(<, Nat)
    BY <1>2
  <1>4. \A k \in S : ~(k < j)
    BY <1>1, <1>3 DEF OpToRel
  <1>5. \A k \in S : j <= k
    BY <1>1, <1>4
  <1> QED BY <1>5 DEF FirstOf

\* What a run is when it is at a step.
LEMMA RunIs ==
    ASSUME SkillTypeOK
    PROVE  /\ run.step \in {"backup", "candidate", "remove"} => run.staged \in Dirs
           /\ run.step = "remove" => run.before \in Dirs
           /\ Copying =>
                /\ run \in [step : {"copy", "fill"}, todo : SUBSET SkillFiles, from : Dirs,
                            next : {"record", "replaced", "restored"}, before : Dirs]
                /\ run.step = "fill" => run.todo # {}
  BY DEF SkillTypeOK, Quiet, Copying

LEMMA QuietIs == Quiet.step = "quiet"
  BY DEF Quiet

\* A copy that begins: nothing is copied yet of what is to be.
LEMMA CopyBegins ==
    ASSUME NEW d \in Dirs, NEW next \in {"record", "replaced", "restored"}, NEW b \in Dirs
    PROVE  /\ CopyFrom(d, next, b) \in
                [step : {"copy", "fill"}, todo : SUBSET SkillFiles, from : Dirs,
                 next : {"record", "replaced", "restored"}, before : Dirs]
           /\ CopyFrom(d, next, b).step = "copy" /\ CopyFrom(d, next, b).next = next
           /\ CopyFrom(d, next, b).from = d /\ CopyFrom(d, next, b).before = b
           /\ \A f \in SkillFiles : f \in CopyFrom(d, next, b).todo <=> d[f] # Gone
  BY DEF CopyFrom

LEMMA SkillInitial == SkillInit => SkInv
  BY Contents, EmptyIsDir, QuietIs
     DEF SkillInit, SkInv, SkillTypeOK, Copied, Copying, Swapping, FoundBefore, HasMarker,
         WorkIsNotes, Exposed, Guarded, FileNames

\* A step that leaves the installed copy, the backups and the user's work alone,
\* and ends the command.
LEMMA EndStep ==
    ASSUME SkInv, run' = Quiet, UNCHANGED <<source, installed, saved, work>>,
           candidate' \in Dirs, manifest' \in SkillHashes \cup {NoManifest}
    PROVE  SkInv'
  <1>1. SkillTypeOK'
    BY DEF SkInv, SkillTypeOK
  <1>2. Copied' /\ FoundBefore' /\ Guarded'
    BY QuietIs DEF Copied, Copying, Swapping, FoundBefore, HasMarker, Exposed, Guarded
  <1> QED BY <1>1, <1>2 DEF SkInv, WorkIsNotes

\* No text of a file under way is the work of the user, but one from a backup.
LEMMA NoneOfHis ==
    ASSUME WorkIsNotes, NEW f \in SkillFiles, NEW text \in {Gone, Half} \cup Versions
    PROVE  text # work[f] \/ BackedUp(f)
  BY Contents DEF WorkIsNotes, BackedUp

\* What a copy in progress is about.
LEMMA CopyIs ==
    ASSUME SkInv, Copying, run.todo # {}
    PROVE  /\ run \in [step : {"copy", "fill"}, todo : SUBSET SkillFiles, from : Dirs,
                       next : {"record", "replaced", "restored"}, before : Dirs]
           /\ FirstOf(run.todo) \in run.todo
           /\ FirstOf(run.todo) \in SkillFiles /\ FirstOf(run.todo) \in FileNames
           /\ installed \in Dirs
  BY RunIs, FirstFile DEF SkInv, SkillTypeOK, FileNames

\* What is put in a file that is copied.
LEMMA FilledWith ==
    ASSUME SkInv, Copying, run.next # "record", NEW f \in SkillFiles
    PROVE  run.from[f] # work[f] \/ BackedUp(f)
  <1>1. CASE run.next = "restored"
    <2>1. run.from = run.before /\ run.before \in saved
      BY <1>1 DEF SkInv, Copied, FoundBefore, HasMarker, Swapping
    <2> QED BY <2>1 DEF BackedUp
  <1>2. CASE run.next # "restored"
    <2>1. PICK v \in Versions : run.from = Sources(v)
      BY <1>2 DEF SkInv, Copied, Staged
    <2>2. run.from[f] \in {v, Gone}
      BY <2>1, SourcesAre
    <2> QED BY <2>2, NoneOfHis DEF SkInv
  <1> QED BY <1>1, <1>2

LEMMA CreateFileStep == ASSUME SkInv, CreateFile PROVE SkInv'
  <1> DEFINE f == FirstOf(run.todo)
  <1>1. /\ run \in [step : {"copy", "fill"}, todo : SUBSET SkillFiles, from : Dirs,
                    next : {"record", "replaced", "restored"}, before : Dirs]
        /\ f \in run.todo /\ f \in SkillFiles /\ f \in FileNames /\ installed \in Dirs
    BY CopyIs DEF CreateFile, Copying
  <1>2. /\ installed' = [installed EXCEPT ![f] = Half] /\ run' = [run EXCEPT !.step = "fill"]
        /\ UNCHANGED <<source, manifest, saved, candidate, work>>
        /\ run.todo # {} /\ run.step = "copy"
    BY DEF CreateFile
  <1>3. run'.todo = run.todo /\ FirstOf(run.todo)' = f
    BY <1>1, <1>2
  <1> HIDE DEF f
  <1>4. SkillTypeOK'
    BY <1>1, <1>2 DEF SkInv, SkillTypeOK, Dirs, FileTexts
  <1>5. Copied'
    BY <1>1, <1>2 DEF SkInv, Copied, Copying, Dirs, FileNames
  <1>6. Swapping' => Swapping
    BY <1>1, <1>2 DEF Swapping, Copying
  <1>7. ASSUME NEW g \in SkillFiles, Exposed(g)' PROVE installed'[g] # work'[g] \/ BackedUp(g)'
    <2>1. CASE g = f
      <3>1. installed'[g] = Half
        BY <1>1, <1>2, <2>1 DEF Dirs
      <3>2. Half # work[g] \/ BackedUp(g)
        BY NoneOfHis DEF SkInv
      <3> QED BY <1>2, <3>1, <3>2 DEF BackedUp
    <2>2. CASE g # f
      <3>1. installed'[g] = installed[g]
        BY <1>1, <1>2, <2>2 DEF Dirs, FileNames
      <3>2. Swapping
        BY <1>3, <1>6, <1>7, <2>2 DEF Exposed
      <3> QED BY <1>2, <3>1, <3>2 DEF SkInv, Guarded, Exposed, BackedUp
    <2> QED BY <2>1, <2>2
  <1>8. FoundBefore'
    <2>1. run'.next = run.next /\ run'.before = run.before /\ Copying
      BY <1>1, <1>2 DEF Copying
    <2> QED BY <1>2, <1>6, <2>1 DEF SkInv, FoundBefore, HasMarker
  <1> QED BY <1>2, <1>4, <1>5, <1>7, <1>8 DEF SkInv, WorkIsNotes, Guarded

LEMMA FillFileStep == ASSUME SkInv, FillFile PROVE SkInv'
  <1> DEFINE f == FirstOf(run.todo)
  <1>0. run.step = "fill" /\ run.todo # {} /\ Copying
    BY RunIs DEF SkInv, FillFile, Copying
  <1>1. /\ run \in [step : {"copy", "fill"}, todo : SUBSET SkillFiles, from : Dirs,
                    next : {"record", "replaced", "restored"}, before : Dirs]
        /\ f \in run.todo /\ f \in SkillFiles /\ f \in FileNames /\ installed \in Dirs
    BY <1>0, CopyIs
  <1>2. /\ installed' = [installed EXCEPT ![f] = run.from[f]]
        /\ run' = [run EXCEPT !.step = "copy", !.todo = @ \ {f}]
        /\ UNCHANGED <<source, manifest, saved, candidate, work>>
    BY DEF FillFile
  <1> HIDE DEF f
  <1>3. SkillTypeOK'
    BY <1>1, <1>2 DEF SkInv, SkillTypeOK, Dirs
  <1>4. Copied'
    BY <1>0, <1>1, <1>2 DEF SkInv, Copied, Copying, Dirs, FileNames
  <1>5. Swapping' => Swapping /\ run.next # "record"
    BY <1>0, <1>1, <1>2 DEF Swapping, Copying
  <1>6. ASSUME NEW g \in SkillFiles, Exposed(g)' PROVE installed'[g] # work'[g] \/ BackedUp(g)'
    <2>0. Swapping /\ run.next # "record"
      BY <1>1, <1>2, <1>5, <1>6 DEF Exposed
    <2>1. CASE g = f
      <3>1. installed'[g] = run.from[g]
        BY <1>1, <1>2, <2>1 DEF Dirs
      <3>2. run.from[g] # work[g] \/ BackedUp(g)
        BY <1>0, <2>0, FilledWith
      <3> QED BY <1>2, <3>1, <3>2 DEF BackedUp
    <2>2. CASE g # f
      <3>1. installed'[g] = installed[g]
        BY <1>1, <1>2, <2>2 DEF Dirs, FileNames
      <3> QED BY <1>2, <2>0, <3>1 DEF SkInv, Guarded, Exposed, BackedUp
    <2> QED BY <2>1, <2>2
  <1>7. FoundBefore'
    <2>1. run'.next = run.next /\ run'.before = run.before
      BY <1>1, <1>2
    <2> QED BY <1>0, <1>2, <1>5, <2>1 DEF SkInv, FoundBefore, HasMarker
  <1> QED BY <1>2, <1>3, <1>4, <1>6, <1>7 DEF SkInv, WorkIsNotes, Guarded

\* What a copy that failed leaves.
LEMMA FailedIs ==
    ASSUME SkInv, Copying, run.todo # {}, NEW dir \in Failed
    PROVE  /\ dir \in Dirs
           /\ \A f \in SkillFiles :
                 \/ dir[f] = installed[f]
                 \/ /\ run.step = "fill" /\ f = FirstOf(run.todo)
                    /\ dir[f] \in {Gone, Half, run.from[f]}
  <1>1. /\ run.from \in Dirs /\ run.step \in {"copy", "fill"} /\ installed \in Dirs
        /\ FirstOf(run.todo) \in FileNames
    BY CopyIs
  <1> DEFINE g == FirstOf(run.todo)
  <1>2. CASE run.step = "copy"
    BY <1>1, <1>2 DEF Failed
  <1>3. CASE run.step = "fill"
    <2>1. PICK left \in {Gone, Half, run.from[g]} : dir = [installed EXCEPT ![g] = left]
      BY <1>3 DEF Failed
    <2>2. left \in FileTexts
      BY <1>1, <2>1 DEF Dirs, FileTexts
    <2> HIDE DEF g
    <2>3. dir \in Dirs /\ \A f \in SkillFiles : dir[f] = installed[f] \/ (f = g /\ dir[f] = left)
      BY <1>1, <2>1, <2>2 DEF Dirs, FileNames
    <2> QED BY <1>3, <2>1, <2>3 DEF g
  <1> QED BY <1>1, <1>2, <1>3

LEMMA FailCopyStep == ASSUME SkInv, FailCopy PROVE SkInv'
  <1>1. /\ run' = Quiet /\ UNCHANGED <<source, manifest, saved, candidate, work>>
        /\ installed' \in Dirs
    BY FailedIs DEF FailCopy, Copying
  <1>2. SkillTypeOK'
    BY <1>1 DEF SkInv, SkillTypeOK
  <1>3. Copied' /\ FoundBefore' /\ Guarded'
    BY <1>1, QuietIs DEF Copied, Copying, Swapping, FoundBefore, HasMarker, Exposed, Guarded
  <1> QED BY <1>1, <1>2, <1>3 DEF SkInv, WorkIsNotes

\* What is left in a file by an upgrade that rolls back.
LEMMA LeftIs ==
    ASSUME SkInv, RollBack
    PROVE  /\ Copying /\ run.todo # {} /\ run.next = "replaced"
           /\ run' = CopyFrom(run.before, "restored", run.before)
           /\ UNCHANGED <<source, manifest, saved, candidate, work>>
           /\ installed' \in Dirs
           /\ \A f \in SkillFiles : installed'[f] \in {installed[f], Gone, Half, run.from[f]}
  <1>1. /\ Copying /\ run.todo # {} /\ run.next = "replaced"
        /\ run' = CopyFrom(run.before, "restored", run.before)
        /\ UNCHANGED <<source, manifest, saved, candidate, work>>
    BY DEF RollBack, Copying
  <1>2. PICK dir \in Failed : \E left \in SUBSET {f \in FileNames : dir[f] # Gone} :
            installed' = [f \in FileNames |-> IF f \in left THEN dir[f] ELSE Gone]
    BY DEF RollBack
  <1>3. PICK left \in SUBSET {f \in FileNames : dir[f] # Gone} :
            installed' = [f \in FileNames |-> IF f \in left THEN dir[f] ELSE Gone]
    BY <1>2
  <1>4. /\ dir \in Dirs
        /\ \A f \in SkillFiles : dir[f] \in {installed[f], Gone, Half, run.from[f]}
    BY <1>1, FailedIs
  <1> QED BY <1>1, <1>3, <1>4 DEF Dirs, FileNames, FileTexts

LEMMA RollBackStep == ASSUME SkInv, RollBack PROVE SkInv'
  <1>1. /\ Copying /\ run.todo # {} /\ run.next = "replaced"
        /\ run' = CopyFrom(run.before, "restored", run.before)
        /\ UNCHANGED <<source, manifest, saved, candidate, work>>
        /\ installed' \in Dirs
        /\ \A f \in SkillFiles : installed'[f] \in {installed[f], Gone, Half, run.from[f]}
    BY LeftIs
  <1>2. run.before \in Dirs /\ run.before \in saved /\ Swapping
    BY <1>1, RunIs DEF SkInv, FoundBefore, HasMarker, Swapping
  <1>3. SkillTypeOK'
    BY <1>1, <1>2, CopyBegins DEF SkInv, SkillTypeOK
  <1>4. Copied' /\ FoundBefore'
    BY <1>1, <1>2, CopyBegins DEF Copied, Copying, FoundBefore, HasMarker
  <1>5. ASSUME NEW f \in SkillFiles PROVE installed'[f] # work'[f] \/ BackedUp(f)'
    <2>1. /\ installed[f] # work[f] \/ BackedUp(f)
          /\ run.from[f] # work[f] \/ BackedUp(f)
          /\ Gone # work[f] \/ BackedUp(f)
          /\ Half # work[f] \/ BackedUp(f)
      BY <1>1, <1>2, FilledWith, NoneOfHis DEF SkInv, Guarded, Exposed
    <2> QED BY <1>1, <2>1 DEF BackedUp
  <1> QED BY <1>1, <1>3, <1>4, <1>5 DEF SkInv, WorkIsNotes, Guarded

LEMMA StartInstallStep == ASSUME SkInv, StartInstall PROVE SkInv'
  <1>1. /\ run' = CopyFrom(Sources(source), "record", CopyOf(installed))
        /\ UNCHANGED <<source, installed, manifest, saved, candidate, work>>
        /\ source \in Versions
    BY DEF StartInstall, SkInv, SkillTypeOK
  <1>2. SkillTypeOK'
    BY <1>1, SourcesAre, CopyIsDir, CopyBegins DEF SkInv, SkillTypeOK
  <1>3. /\ run'.step = "copy" /\ run'.next = "record"
        /\ run'.before = CopyOf(installed) /\ installed \in Dirs
    BY <1>1, SourcesAre, CopyIsDir, CopyBegins DEF SkInv, SkillTypeOK
  <1>4. ~HasMarker(run'.before)
    BY <1>3, CopyIsDir, Contents DEF StartInstall, HasMarker, Marker
  <1>5. FoundBefore' /\ Guarded'
    BY <1>3, <1>4 DEF FoundBefore, HasMarker, Guarded, Exposed, Swapping, Copying
  <1>6. Copied'
    BY <1>1, <1>3, SourcesAre, CopyIsDir, CopyBegins DEF Copied, Copying, Staged
  <1> QED BY <1>1, <1>2, <1>5, <1>6 DEF SkInv, WorkIsNotes

\* What is copied from a version holds its number in each of its files.
LEMMA FromVersion ==
    ASSUME SkInv, Copying, run.next # "restored"
    PROVE  \E v \in Versions : \A f \in SkillFiles : run.from[f] \in {v, Gone}
  BY SourcesAre DEF SkInv, Copied, Staged

LEMMA ManifestStep == ASSUME SkInv, RecordInstalled \/ RecordUpgraded PROVE SkInv'
  <1>1. /\ run.step = "copy" /\ run' = Quiet
        /\ manifest' \in {manifest, HashSkillDir(installed), HashSkillDir(run.from)}
        /\ UNCHANGED <<source, installed, saved, candidate, work>>
    BY DEF RecordInstalled, RecordUpgraded
  <1>2. installed \in Dirs /\ run.from \in Dirs
    BY <1>1, RunIs DEF SkInv, SkillTypeOK, Copying
  <1>3. manifest' \in SkillHashes \cup {NoManifest}
    BY <1>1, <1>2 DEF SkInv, SkillTypeOK, HashSkillDir, SkillHashes, Dirs, FileNames
  <1> QED BY <1>1, <1>3, EndStep DEF SkInv, SkillTypeOK

LEMMA QuietEndStep == ASSUME SkInv, EndRestore \/ WriteCandidate \/ GiveUp PROVE SkInv'
  <1>1. /\ run' = Quiet /\ UNCHANGED <<source, installed, manifest, saved, work>>
        /\ candidate' = candidate \/ (candidate' = run.staged /\ run.step = "candidate")
    BY DEF EndRestore, WriteCandidate, GiveUp
  <1>2. candidate' \in Dirs
    BY <1>1, RunIs DEF SkInv, SkillTypeOK
  <1> QED BY <1>1, <1>2, EndStep DEF SkInv, SkillTypeOK

LEMMA StartUpgradeStep == ASSUME SkInv, StartUpgrade PROVE SkInv'
  <1>1. /\ run'.step \in {"backup", "candidate"} /\ run'.staged = Sources(source)
        /\ UNCHANGED <<source, installed, manifest, saved, candidate, work>>
        /\ source \in Versions /\ Sources(source) \in Dirs /\ Sources(source) \in Staged
    BY SourcesAre DEF StartUpgrade, SkInv, SkillTypeOK, Staged
  <1>2. SkillTypeOK'
    BY <1>1 DEF SkInv, SkillTypeOK
  <1>3. Copied' /\ FoundBefore' /\ Guarded'
    BY <1>1 DEF Copied, Copying, Swapping, FoundBefore, HasMarker, Exposed, Guarded
  <1> QED BY <1>1, <1>2, <1>3 DEF SkInv, WorkIsNotes

\* The backup holds what is in the copy at that moment.
LEMMA BackUpStep == ASSUME SkInv, BackUpSkill PROVE SkInv'
  <1>1. /\ run.step = "backup" /\ run'.step = "remove"
        /\ run'.staged = run.staged /\ run'.before = CopyOf(installed)
        /\ saved' = saved \cup {CopyOf(installed)}
        /\ UNCHANGED <<source, installed, manifest, candidate, work>>
        /\ installed \in Dirs
    BY DEF BackUpSkill, SkInv, SkillTypeOK
  <1>2. CopyOf(installed) \in Dirs /\ \A f \in SkillFiles : CopyOf(installed)[f] = installed[f]
    BY <1>1, CopyIsDir
  <1>3. SkillTypeOK'
    BY <1>1, <1>2, RunIs DEF SkInv, SkillTypeOK
  <1>4. Copied' /\ FoundBefore'
    BY <1>1 DEF SkInv, Copied, Copying, FoundBefore, HasMarker
  <1>5. \A f \in SkillFiles : installed'[f] # work'[f] \/ BackedUp(f)'
    BY <1>1, <1>2 DEF BackedUp
  <1> QED BY <1>1, <1>3, <1>4, <1>5 DEF SkInv, WorkIsNotes, Guarded

LEMMA RemoveOneStep == ASSUME SkInv, NEW f \in FileNames, RemoveOne(f) PROVE SkInv'
  <1>1. /\ run.step = "remove" /\ installed' = [installed EXCEPT ![f] = Gone]
        /\ UNCHANGED <<source, manifest, saved, candidate, run, work>>
        /\ installed \in Dirs
    BY DEF RemoveOne, SkInv, SkillTypeOK
  <1>2. SkillTypeOK'
    BY <1>1 DEF SkInv, SkillTypeOK, Dirs, FileTexts
  <1>3. ASSUME NEW g \in SkillFiles PROVE installed'[g] # work'[g] \/ BackedUp(g)'
    <2>1. installed'[g] \in {installed[g], Gone}
      BY <1>1 DEF Dirs, FileNames
    <2>2. /\ installed[g] # work[g] \/ BackedUp(g)
          /\ Gone # work[g] \/ BackedUp(g)
      BY <1>1, NoneOfHis DEF SkInv, Guarded, Exposed, Swapping
    <2> QED BY <1>1, <2>1, <2>2 DEF BackedUp
  <1>4. Copied' /\ FoundBefore'
    BY <1>1 DEF SkInv, Copied, Copying, FoundBefore, HasMarker, Swapping
  <1> QED BY <1>1, <1>2, <1>3, <1>4 DEF SkInv, WorkIsNotes, Guarded

LEMMA RemovedAllStep == ASSUME SkInv, RemovedAll PROVE SkInv'
  <1>1. /\ run.step = "remove" /\ run' = CopyFrom(run.staged, "replaced", run.before)
        /\ UNCHANGED <<source, installed, manifest, saved, candidate, work>>
        /\ run.staged \in Dirs /\ run.before \in Dirs /\ run.staged \in Staged
    BY RunIs DEF RemovedAll, SkInv, Copied
  <1>2. SkillTypeOK'
    BY <1>1, CopyBegins DEF SkInv, SkillTypeOK
  <1>3. \A g \in SkillFiles : installed'[g] # work'[g] \/ BackedUp(g)'
    BY <1>1 DEF SkInv, Guarded, Exposed, Swapping, BackedUp
  <1>4. Copied' /\ FoundBefore'
    BY <1>1, CopyBegins DEF SkInv, Copied, Copying, FoundBefore, HasMarker, Swapping
  <1> QED BY <1>1, <1>2, <1>3, <1>4 DEF SkInv, WorkIsNotes, Guarded

LEMMA NewVersionStep == ASSUME SkInv, NewVersion PROVE SkInv'
  <1>1. /\ source' = source + 1 /\ source < LastVersion /\ source \in Versions
        /\ UNCHANGED <<installed, manifest, saved, candidate, run, work>>
    BY DEF NewVersion, SkInv, SkillTypeOK
  <1>2. source' \in Versions
    BY <1>1, SkillAssumption DEF Versions
  <1>3. SkillTypeOK'
    BY <1>1, <1>2 DEF SkInv, SkillTypeOK
  <1> QED
    BY <1>1, <1>3
       DEF SkInv, Copied, Copying, Swapping, FoundBefore, HasMarker, WorkIsNotes, Exposed,
           Guarded, BackedUp

LEMMA WriteNoteStep == ASSUME SkInv, NEW f \in FileNames, NEW note \in Notes, WriteNote(f, note) PROVE SkInv'
  <1>1. /\ installed' = [installed EXCEPT ![f] = note]
        /\ work' = [work EXCEPT ![f] = IF Unguarded THEN Gone ELSE note]
        /\ UNCHANGED <<source, manifest, saved, candidate, run>>
        /\ installed \in Dirs /\ work \in Dirs
    BY DEF WriteNote, SkInv, SkillTypeOK
  <1>2. note \in FileTexts /\ Gone \in FileTexts
    BY Contents DEF FileTexts
  <1>3. /\ installed' \in Dirs /\ work' \in Dirs
        /\ installed'[f] = note /\ \A g \in FileNames \ {f} : installed'[g] = installed[g]
        /\ work'[f] = (IF Unguarded THEN Gone ELSE note)
        /\ \A g \in FileNames \ {f} : work'[g] = work[g]
    BY <1>1, <1>2 DEF Dirs
  <1>4. SkillTypeOK'
    BY <1>1, <1>3 DEF SkInv, SkillTypeOK
  <1>5. Copied' /\ FoundBefore' /\ WorkIsNotes'
    BY <1>1, <1>3 DEF SkInv, Copied, Copying, FoundBefore, HasMarker, Swapping, WorkIsNotes, FileNames
  <1>6. ASSUME NEW g \in SkillFiles, Exposed(g)' PROVE installed'[g] # work'[g] \/ BackedUp(g)'
    <2>1. Exposed(g) /\ Unguarded
      BY <1>1, <1>6 DEF Exposed, Swapping, Copying, Unguarded
    <2> QED BY <1>1, <1>3, <2>1 DEF SkInv, Guarded, BackedUp, FileNames
  <1> QED BY <1>1, <1>4, <1>5, <1>6 DEF SkInv, Guarded

LEMMA DeleteStep ==
    ASSUME SkInv, RemoveSkill \/ \E f \in FileNames : DeleteFile(f)
    PROVE  SkInv'
  <1>1. UNCHANGED <<source, manifest, saved, candidate, run>> /\ ~Unguarded
    BY QuietIs DEF RemoveSkill, DeleteFile, Unguarded
  <1>2. /\ installed' \in Dirs /\ work' \in Dirs
        /\ \A f \in SkillFiles : work'[f] \in {work[f], Gone}
    <2>1. CASE RemoveSkill
      BY <2>1, EmptyIsDir DEF RemoveSkill, FileNames
    <2>2. ASSUME NEW f \in FileNames, DeleteFile(f)
          PROVE  /\ installed' \in Dirs /\ work' \in Dirs
                 /\ \A g \in SkillFiles : work'[g] \in {work[g], Gone}
      BY <2>2 DEF DeleteFile, SkInv, SkillTypeOK, Dirs, FileTexts, FileNames
    <2> QED BY <2>1, <2>2
  <1>3. SkillTypeOK'
    BY <1>1, <1>2 DEF SkInv, SkillTypeOK
  <1>4. Copied' /\ FoundBefore' /\ Guarded'
    BY <1>1 DEF SkInv, Copied, Copying, Swapping, FoundBefore, HasMarker, Exposed, Guarded, Unguarded
  <1> QED BY <1>1, <1>2, <1>3, <1>4 DEF SkInv, WorkIsNotes

LEMMA SkInvStep == SkInv /\ [SkillNext]_skillVars => SkInv'
  <1>1. ASSUME SkInv, UNCHANGED skillVars PROVE SkInv'
    BY <1>1 DEF skillVars, SkInv, SkillTypeOK, Copied, Copying, Swapping, FoundBefore, HasMarker,
                WorkIsNotes, Exposed, Guarded, BackedUp
  <1>2. ASSUME SkInv, SkillNext PROVE SkInv'
    BY <1>2, CreateFileStep, FillFileStep, FailCopyStep, RollBackStep, StartInstallStep, ManifestStep,
       QuietEndStep, StartUpgradeStep, BackUpStep, RemoveOneStep, RemovedAllStep, NewVersionStep,
       WriteNoteStep, DeleteStep
       DEF SkillNext
  <1> QED BY <1>1, <1>2

\* A file that a step leaves alone is kept as it was.
LEMMA KeptAlone ==
    ASSUME NEW f \in SkillFiles, Kept(f), saved \subseteq saved',
           installed'[f] = installed[f], work'[f] = work[f]
    PROVE  Kept(f)'
  BY DEF Kept

\* A step of copying takes no text that is exposed: it is not the user's, or is saved.
LEMMA KeptExposed ==
    ASSUME SkInv, NEW f \in SkillFiles, Exposed(f), Kept(f), UNCHANGED <<saved, work>>
    PROVE  Kept(f)'
  BY DEF SkInv, Guarded, Kept, BackedUp

\* The first file of a copy is created over what the user left in it, if the copy is
\* of an install; nothing else takes what he wrote.
LEMMA TakesIfInstall ==
    ASSUME SkInv, [SkillNext]_skillVars, NEW f \in SkillFiles, Kept(f), ~Kept(f)'
    PROVE  TakenByInstall(f)
  <1>0. f \in FileNames /\ installed \in Dirs /\ work \in Dirs
    BY DEF FileNames, SkInv, SkillTypeOK
  <1>1. ~(/\ saved \subseteq saved' /\ installed'[f] = installed[f] /\ work'[f] = work[f])
    BY KeptAlone
  <1>2. ~(Exposed(f) /\ UNCHANGED <<saved, work>>)
    BY KeptExposed
  <1>3. work'[f] # Gone /\ installed'[f] # work'[f]
    BY DEF Kept
  <1>4. CASE CreateFile
    <2>1. /\ FirstOf(run.todo) \in run.todo /\ UNCHANGED <<saved, work>>
          /\ installed' = [installed EXCEPT ![FirstOf(run.todo)] = Half]
          /\ run.step = "copy" /\ run.todo # {}
      BY <1>4, CopyIs DEF CreateFile, Copying
    <2>2. f = FirstOf(run.todo)
      BY <1>0, <1>1, <2>1 DEF Dirs
    <2>3. run.next = "record"
      BY <1>2, <2>1 DEF Exposed, Swapping, Copying
    <2>4. ~HasMarker(run.before)
      BY <2>1, <2>3 DEF SkInv, FoundBefore, Copying
    <2> QED BY <1>4, <2>1, <2>2, <2>3, <2>4 DEF TakenByInstall
  <1>5. ~FillFile
    BY <1>0, <1>1, <1>2 DEF FillFile, Exposed, Dirs
  <1>6. ~FailCopy
    <2> SUFFICES ASSUME FailCopy PROVE FALSE
      OBVIOUS
    <2>1. /\ installed'[f] = installed[f] \/ (run.step = "fill" /\ f = FirstOf(run.todo))
          /\ UNCHANGED <<saved, work>>
      BY FailedIs DEF FailCopy, Copying
    <2> QED BY <1>1, <1>2, <2>1 DEF Exposed
  <1>7. ~RollBack
    BY <1>2, LeftIs DEF Exposed, Swapping
  <1>8. ~(\E g \in FileNames : RemoveOne(g))
    BY <1>2 DEF RemoveOne, Exposed, Swapping
  <1>9. ~(\E g \in FileNames : DeleteFile(g) \/ \E note \in Notes : WriteNote(g, note))
    <2>1. ASSUME NEW g \in FileNames, DeleteFile(g) PROVE FALSE
      BY <1>0, <1>1, <1>3, <2>1 DEF DeleteFile, Dirs
    <2>2. ASSUME NEW g \in FileNames, NEW note \in Notes, WriteNote(g, note) PROVE FALSE
      <3>1. /\ installed' = [installed EXCEPT ![g] = note] /\ saved' = saved
            /\ work' = [work EXCEPT ![g] = IF Unguarded THEN Gone ELSE note]
        BY <2>2 DEF WriteNote
      <3>2. f = g
        BY <1>0, <1>1, <3>1 DEF Dirs
      <3>3. installed'[f] = note /\ work'[f] \in {Gone, note}
        BY <1>0, <3>1, <3>2 DEF Dirs
      <3> QED BY <1>3, <3>3
    <2> QED BY <2>1, <2>2
  <1>10. ~RemoveSkill
    BY <1>0, <1>3, EmptyIsDir DEF RemoveSkill
  <1>11. ~BackUpSkill
    BY <1>1 DEF BackUpSkill
  <1>12. ~(\/ StartInstall \/ RecordInstalled \/ StartUpgrade \/ RemovedAll \/ RecordUpgraded
           \/ EndRestore \/ WriteCandidate \/ GiveUp \/ NewVersion \/ UNCHANGED skillVars)
    BY <1>1 DEF StartInstall, RecordInstalled, StartUpgrade, RemovedAll, RecordUpgraded, EndRestore,
                WriteCandidate, GiveUp, NewVersion, skillVars
  <1> QED BY <1>4, <1>5, <1>6, <1>7, <1>8, <1>9, <1>10, <1>11, <1>12 DEF SkillNext

\* A half file gets into a manifest only where an install found it and has none of its own.
LEMMA HalfWasThere ==
    ASSUME SkInv, [SkillNext]_skillVars, NEW f \in SkillFiles,
           manifest' # manifest, manifest' # NoManifest, manifest'[f] = Half
    PROVE  run.next = "record" /\ run.before[f] = Half /\ run.from[f] = Gone
  <1>1. RecordInstalled \/ RecordUpgraded
    BY DEF SkillNext, CreateFile, FillFile, FailCopy, RollBack, StartInstall, StartUpgrade, BackUpSkill,
           RemoveOne, RemovedAll, EndRestore, WriteCandidate, GiveUp, NewVersion, RemoveSkill,
           DeleteFile, WriteNote, skillVars
  <1>2. run.step = "copy" /\ run.todo = {} /\ Copying /\ run.next # "restored"
    BY <1>1 DEF RecordInstalled, RecordUpgraded, Copying
  <1>3. PICK v \in Versions : \A g \in SkillFiles : run.from[g] \in {v, Gone}
    BY <1>2, FromVersion
  <1>4. run.from[f] # Half /\ Half \notin Notes
    BY <1>3, Contents DEF Gone, Half
  <1>5. ~(manifest' = HashSkillDir(run.from))
    BY <1>4 DEF HashSkillDir
  <1>6. RecordInstalled /\ installed[f] = Half
    BY <1>1, <1>5 DEF RecordInstalled, RecordUpgraded, HashSkillDir
  <1>7. run.from[f] = Gone
    BY <1>2, <1>4, <1>6 DEF SkInv, Copied
  <1> QED BY <1>2, <1>4, <1>6, <1>7 DEF SkInv, Copied, RecordInstalled

\* What a rollback puts back in a file of the skill was there before the upgrade, or
\* was written by the user meanwhile.
LEMMA SkInvUndone ==
    SkInv => (EndRestore =>
        \A f \in SkillFiles : run.before[f] # Gone => installed[f] \in {run.before[f]} \cup Notes)
  BY DEF SkInv, Copied, Copying, EndRestore

\* What the user wrote in a file of the skill, in a directory with or without SKILL.md,
\* is in the copy or in a backup until an install that found no SKILL.md creates the
\* file over it; nothing else takes it, whatever fails or dies. No manifest records a file
\* that a copy left half, but one that an install found there and has none for, and a
\* failed swap puts back every file that was there. For any files, notes, versions,
\* whatever files each has, and commands.
THEOREM SkillsSafeCorrect == SkillSpec => SkillsSafe
  <1>1. SkInv /\ [SkillNext]_skillVars =>
            [\A f \in SkillFiles :
                manifest' # manifest /\ manifest' # NoManifest /\ manifest'[f] = Half =>
                    run.next = "record" /\ run.before[f] = Half /\ run.from[f] = Gone]_skillVars
    BY HalfWasThere
  <1>2. SkInv /\ [SkillNext]_skillVars =>
            [\A f \in SkillFiles : Kept(f) /\ ~Kept(f)' => TakenByInstall(f)]_skillVars
    BY TakesIfInstall
  <1>3. SkInv /\ [SkillNext]_skillVars =>
            [EndRestore => \A f \in SkillFiles :
                run.before[f] # Gone => installed[f] \in {run.before[f]} \cup Notes]_skillVars
    BY SkInvUndone
  <1> QED BY <1>1, <1>2, <1>3, SkillInitial, SkInvStep, PTL
             DEF SkillSpec, SkillsSafe, OnlyInstallTakes, CutShortIsNoUpgrade, FailedSwapIsUndone

\* The files of a skill, its manifest, backups and candidate keep their shape.
THEOREM SkillTypeCorrect == SkillSpec => []SkillTypeOK
  <1>1. SkInv => SkillTypeOK
    BY DEF SkInv
  <1> QED BY <1>1, SkillInitial, SkInvStep, PTL DEF SkillSpec

-----------------------------------------------------------------------------
(* AgentConfig. A document that is written is complete before it is renamed, *)
(* and it was read from the configuration it replaces; what makes it so is   *)
(* that the inode of path + ".tmp" is never that of the configuration.       *)

ServerSets == SUBSET (OwnServers \cup {"royo-learn"})
Outcomes == {"error", "skipped", "changed"}
CommandStates ==
    [step : {"backup", "load", "open", "write", "rename", "done", "dead"},
     job : {"install", "uninstall"}, at : DOMAIN AllAgents, unsaved : BOOLEAN,
     servers : ServerSets, inode : Inodes \cup {NoInode}, results : Seq(Outcomes)]
TempInodes(a) == {<<c, a>> : c \in Commands}

\* The state, with the inodes of each agent its own.
ConfigShape ==
    /\ DOMAIN config = Agents /\ DOMAIN temp = Agents
    /\ \A a \in Agents : /\ config[a] \in TempInodes(a) \cup {NoInode, UserInode(a)}
                         /\ temp[a] \in TempInodes(a) \cup {NoInode}
    /\ config = [a \in Agents |-> config[a]] /\ temp = [a \in Agents |-> temp[a]]
    /\ data \in [Inodes -> Documents]
    /\ backups \in [Agents -> SUBSET Documents]
    /\ own \in [Agents -> SUBSET OwnServers]
    /\ command \in [Commands -> CommandStates \cup {Unstarted}]
    /\ \A c \in Commands : command[c].step \in {"write", "rename"} =>
          command[c].inode \in TempInodes(AgentOf(c))

\* Of the agents, the one at index i is still ahead of a command.
Ahead(c, i) ==
    \/ command[c].step = "idle"
    \/ command[c].at < i
    \/ command[c].at = i /\ command[c].step \in {"backup", "load", "open"}

\* A command has no inode of an agent that is ahead of it.
FreshInodes ==
    \A c \in Commands, i \in DOMAIN AllAgents : Ahead(c, i) =>
        /\ config[AllAgents[i]] # <<c, AllAgents[i]>>
        /\ temp[AllAgents[i]] # <<c, AllAgents[i]>>

OneAtWork == \A c, d \in Commands : ~Ended(c) /\ ~Ended(d) => c = d
TempApart == \A a \in Agents : temp[a] = NoInode \/ temp[a] # config[a]

\* What the command under way has read, saved and written so far.
Pending(c) ==
    LET a == AgentOf(c) IN
    /\ command[c].step \in {"load", "open", "write", "rename"} =>
          \/ command[c].unsaved
          \/ config[a] = NoInode
          \/ TextOf(config[a]) \in backups[a]
    /\ command[c].step \in {"open", "write", "rename"} =>
          command[c].servers = Wanted(c, Servers(config[a]))
    /\ command[c].step = "write" =>
          temp[a] = command[c].inode /\ data[command[c].inode] = Empty
    /\ command[c].step = "rename" =>
          temp[a] # NoInode /\ data[temp[a]] = Doc(command[c].servers)

CfInv ==
    /\ ConfigShape /\ FreshInodes /\ OneAtWork /\ TempApart
    /\ OwnServersKept
    /\ \A c \in Commands : Pending(c)

\* What the kinds of a text are, and what servers it has.
LEMMA Texts ==
    /\ Empty \in Documents /\ Torn \in Documents /\ Empty # Torn
    /\ \A s \in ServerSets : Doc(s) \in Documents
    /\ \A s : /\ Doc(s).kind = "doc" /\ Doc(s).servers = s
              /\ Doc(s) # Empty /\ Doc(s) # Torn
    /\ Empty.kind # "doc" /\ Torn.kind # "doc"
  BY DEF Empty, Torn, Doc, Documents, ServerSets

\* A document is empty, torn, or the one of its servers.
LEMMA DocumentIs ==
    ASSUME NEW d \in Documents
    PROVE  \/ d \in {Empty, Torn} /\ d.kind # "doc"
           \/ d.kind = "doc" /\ d = Doc(d.servers) /\ d.servers \in ServerSets
  <1>1. CASE d \in {Empty, Torn}
    BY <1>1, Texts
  <1>2. CASE \E s \in ServerSets : d = Doc(s)
    BY <1>2, Texts
  <1> QED BY <1>1, <1>2 DEF Documents, ServerSets

\* Inodes of different owners differ.
LEMMA InodesAre ==
    /\ NoInode \notin Inodes
    /\ \A a \in Agents : UserInode(a) \in Inodes
    /\ \A c \in Commands, a \in Agents : <<c, a>> \in Inodes
    /\ \A c \in Commands, a, b \in Agents : <<c, a>> # UserInode(b)
    /\ \A a, b \in Agents : UserInode(a) = UserInode(b) => a = b
    /\ \A c, d \in Commands, a, b \in Agents : <<c, a>> = <<d, b>> => c = d /\ a = b
  BY ConfigAssumption DEF NoInode, UserInode, Inodes

\* The text of a configuration.
LEMMA TextIs ==
    ASSUME ConfigShape, NEW n \in Inodes \cup {NoInode}
    PROVE  /\ TextOf(n) \in Documents /\ Servers(n) \in ServerSets
           /\ n # NoInode => TextOf(n) = data[n]
           /\ n = NoInode => TextOf(n) = Doc({})
           /\ TextOf(n).kind = "doc" => /\ Parses(n) /\ TextOf(n) = Doc(Servers(n))
                                        /\ Servers(n) = TextOf(n).servers
  <1>1. TextOf(n) \in Documents
    BY Texts DEF ConfigShape, TextOf, Nothing, ServerSets
  <1>2. /\ n # NoInode => TextOf(n) = data[n]
        /\ n = NoInode => TextOf(n) = Doc({})
    BY DEF TextOf, Nothing
  <1>3. CASE TextOf(n) \in {Empty, Torn}
    BY <1>1, <1>2, <1>3, Texts DEF Servers, ServerSets
  <1>4. CASE TextOf(n).kind = "doc" /\ TextOf(n) = Doc(TextOf(n).servers) /\ TextOf(n).servers \in ServerSets
    BY <1>1, <1>2, <1>4, Texts DEF Servers, Parses
  <1> QED BY <1>1, <1>3, <1>4, DocumentIs

\* Where the inodes of an agent are.
LEMMA OfAgent ==
    ASSUME ConfigShape, NEW a \in Agents
    PROVE  /\ config[a] \in Inodes \cup {NoInode}
           /\ temp[a] \in Inodes \cup {NoInode}
           /\ TempInodes(a) \subseteq Inodes
           /\ \A b \in Agents : b # a => /\ config[b] \notin TempInodes(a)
                                         /\ temp[b] \notin TempInodes(a)
                                         /\ config[b] # UserInode(a)
           /\ \A b \in Agents : temp[b] # UserInode(a)
  BY InodesAre DEF ConfigShape, TempInodes

LEMMA WantedIs ==
    ASSUME NEW c, NEW s \in ServerSets
    PROVE  /\ Wanted(c, s) \in ServerSets
           /\ Wanted(c, s) \ {"royo-learn"} = s \ {"royo-learn"}
  BY DEF Wanted, ServerSets

\* A command that has begun and not ended.
LEMMA AtWork ==
    ASSUME ConfigShape, NEW c \in Commands, command[c].step # "idle"
    PROVE  /\ command[c] \in CommandStates
           /\ AgentOf(c) \in Agents /\ command[c].at \in DOMAIN AllAgents
  BY DEF ConfigShape, CommandStates, Unstarted, AgentOf, Agents

LEMMA Unbegun == Unstarted.step = "idle"
  BY DEF Unstarted

LEMMA AgentIndex ==
    /\ Len(AllAgents) \in Nat \ {0} /\ DOMAIN AllAgents = 1..Len(AllAgents)
    /\ \A i \in DOMAIN AllAgents : AllAgents[i] \in Agents
    /\ \A a \in Agents : \E i \in DOMAIN AllAgents : a = AllAgents[i]
    /\ \A i, j \in DOMAIN AllAgents : AllAgents[i] = AllAgents[j] => i = j
  BY ConfigAssumption DEF Agents

-----------------------------------------------------------------------------
(* What the steps make of a command.                                         *)

\* Only c moves, to another state of a command.
MovesOnly(c) ==
    /\ command' \in [Commands -> CommandStates \cup {Unstarted}]
    /\ command'[c] \in CommandStates
    /\ \A d \in Commands \ {c} : command'[d] = command[d]

LEMMA GoToIs ==
    ASSUME ConfigShape, NEW c \in Commands, command[c].step # "idle",
           NEW step \in {"backup", "load", "open", "write", "rename", "done", "dead"}, GoTo(c, step)
    PROVE  MovesOnly(c) /\ command'[c] = [command[c] EXCEPT !.step = step]
  <1>1. command[c] \in CommandStates
    BY AtWork
  <1>2. [command[c] EXCEPT !.step = step] \in CommandStates
    BY <1>1 DEF CommandStates
  <1>3. command' = [command EXCEPT ![c] = [command[c] EXCEPT !.step = step]]
    BY DEF GoTo
  <1> QED BY <1>2, <1>3 DEF MovesOnly, ConfigShape

LEMMA NextIs ==
    ASSUME ConfigShape, NEW c \in Commands, command[c].step # "idle",
           NEW result \in Outcomes, NextAgent(c, result)
    PROVE  /\ MovesOnly(c)
           /\ \/ command'[c].at = command[c].at /\ command'[c].step = "done"
              \/ command'[c].at = command[c].at + 1 /\ command'[c].step = "backup"
           /\ command[c].at \in Nat /\ command'[c].step \in {"done", "backup"}
           /\ command'[c].results = Append(command[c].results, result)
           /\ command'[c].job = command[c].job
  <1> DEFINE next == [command[c] EXCEPT
        !.step = IF command[c].at = Len(AllAgents) THEN "done" ELSE "backup",
        !.at = IF @ = Len(AllAgents) THEN @ ELSE @ + 1,
        !.unsaved = FALSE,
        !.results = Append(@, result)]
  <1>1. command[c] \in CommandStates
    BY AtWork
  <1>2. command' = [command EXCEPT ![c] = next]
    BY <1>1 DEF NextAgent, ConfigShape, CommandStates
  <1>3. (IF command[c].at = Len(AllAgents) THEN command[c].at ELSE command[c].at + 1) \in DOMAIN AllAgents
    BY <1>1, AgentIndex DEF CommandStates
  <1>6. Append(command[c].results, result) \in Seq(Outcomes)
    BY <1>1 DEF CommandStates
  <1>4. next \in CommandStates
    BY <1>1, <1>3, <1>6 DEF CommandStates
  <1>5. /\ next.step = (IF command[c].at = Len(AllAgents) THEN "done" ELSE "backup")
        /\ next.at = (IF command[c].at = Len(AllAgents) THEN command[c].at ELSE command[c].at + 1)
        /\ next.results = Append(command[c].results, result)
        /\ next.job = command[c].job
    BY <1>1 DEF CommandStates
  <1>7. command[c].at \in Nat
    BY <1>1, AgentIndex DEF CommandStates
  <1> HIDE DEF next
  <1>8. command'[c] = next /\ MovesOnly(c)
    BY <1>2, <1>4 DEF MovesOnly, ConfigShape
  <1> QED BY <1>5, <1>7, <1>8

LEMMA ConfigInitial == ConfigInit => CfInv
  <1> SUFFICES ASSUME ConfigInit PROVE CfInv
    OBVIOUS
  <1>1. data \in [Inodes -> Documents]
    BY Texts DEF ConfigInit, Inodes, UserInode, ServerSets
  <1>2. \A a \in Agents : config[a] \in {NoInode, UserInode(a)}
    BY DEF ConfigInit
  <1>3. ConfigShape
    BY <1>1, <1>2, Unbegun DEF ConfigInit, ConfigShape
  <1>4. \A a \in Agents : config[a] # NoInode => data[config[a]] = Doc(own[a])
    BY <1>2, InodesAre DEF ConfigInit, UserInode
  <1>5. OwnServersKept
    <2> SUFFICES ASSUME NEW a \in Agents
                 PROVE  TextOf(config[a]).kind = "doc" /\ Servers(config[a]) \ {"royo-learn"} = own[a]
      BY DEF OwnServersKept
    <2>1. TextOf(config[a]) = Doc(own[a])
      BY <1>4, <1>3, TextIs, OfAgent DEF ConfigInit
    <2>2. Servers(config[a]) = own[a]
      BY <1>3, <2>1, TextIs, OfAgent, Texts
    <2> QED BY <2>1, <2>2, Texts, ConfigAssumption, <1>3 DEF ConfigShape
  <1>6. FreshInodes
    <2> SUFFICES ASSUME NEW c \in Commands, NEW a \in Agents
                 PROVE  config[a] # <<c, a>> /\ temp[a] # <<c, a>>
      BY AgentIndex DEF FreshInodes
    <2>1. config[a] \in {NoInode, UserInode(a)} /\ temp[a] = NoInode
      BY <1>2 DEF ConfigInit
    <2>2. <<c, a>> # NoInode /\ <<c, a>> # UserInode(a)
      BY InodesAre
    <2> QED BY <2>1, <2>2
  <1>7. \A c \in Commands : command[c].step = "idle"
    BY Unbegun DEF ConfigInit
  <1> QED
    BY <1>3, <1>5, <1>6, <1>7 DEF CfInv, OneAtWork, Ended, TempApart, Pending, ConfigInit

\* No command is ahead again of an agent that it was not ahead of.
LEMMA AheadOnly ==
    ASSUME ConfigShape, NEW c \in Commands, command[c].step # "idle", MovesOnly(c),
           \/ /\ command'[c].at = command[c].at
              /\ command'[c].step \in {"backup", "load", "open"} =>
                    command[c].step \in {"backup", "load", "open"}
           \/ command'[c].at = command[c].at + 1 /\ command'[c].step = "backup"
    PROVE  \A d \in Commands, i \in DOMAIN AllAgents : Ahead(d, i)' => Ahead(d, i)
  <1> SUFFICES ASSUME NEW d \in Commands, NEW i \in DOMAIN AllAgents, Ahead(d, i)'
               PROVE  Ahead(d, i)
    OBVIOUS
  <1>1. command[c] \in CommandStates /\ command'[c] \in CommandStates
    BY AtWork DEF MovesOnly
  <1>2. /\ command[c].at \in Nat /\ i \in Nat
        /\ command'[c].step # "idle"
    BY <1>1, AgentIndex DEF CommandStates
  <1>3. CASE d = c
    BY <1>2, <1>3 DEF Ahead
  <1>4. CASE d # c
    BY <1>4 DEF Ahead, MovesOnly
  <1> QED BY <1>3, <1>4

LEMMA FreshStays ==
    ASSUME FreshInodes,
           \A d \in Commands, i \in DOMAIN AllAgents : Ahead(d, i)' =>
              /\ Ahead(d, i)
              /\ config'[AllAgents[i]] = <<d, AllAgents[i]>> =>
                    config[AllAgents[i]] = <<d, AllAgents[i]>> \/ temp[AllAgents[i]] = <<d, AllAgents[i]>>
              /\ temp'[AllAgents[i]] = <<d, AllAgents[i]>> => temp[AllAgents[i]] = <<d, AllAgents[i]>>
    PROVE  FreshInodes'
  BY DEF FreshInodes

\* While c is at work, the others are where they were, and nothing is pending.
LEMMA OthersRest ==
    ASSUME CfInv, NEW c \in Commands, ~Ended(c), MovesOnly(c)
    PROVE  /\ command[c].step # "idle" /\ command[c] \in CommandStates
           /\ AgentOf(c) \in Agents /\ command[c].at \in DOMAIN AllAgents
           /\ OneAtWork'
           /\ \A d \in Commands \ {c} : Pending(d)'
  <1>1. command[c].step # "idle"
    BY DEF Ended
  <1>2. \A d \in Commands \ {c} : Ended(d) /\ command'[d] = command[d]
    BY DEF CfInv, OneAtWork, MovesOnly
  <1>3. \A d \in Commands \ {c} : command'[d].step \in {"idle", "done", "dead"}
    BY <1>2 DEF Ended
  <1>4. OneAtWork'
    BY <1>3 DEF OneAtWork, Ended
  <1>5. \A d \in Commands \ {c} : Pending(d)'
    BY <1>3 DEF Pending
  <1> QED BY <1>1, <1>4, <1>5, AtWork DEF CfInv

LEMMA TextKept ==
    ASSUME NEW a, config'[a] = config[a], config[a] = NoInode \/ data'[config[a]] = data[config[a]]
    PROVE  TextOf(config[a])' = TextOf(config[a]) /\ Servers(config[a])' = Servers(config[a])
  BY DEF TextOf, Servers

LEMMA TextNow ==
    ASSUME NEW a, NEW s, config'[a] # NoInode, data'[config'[a]] = Doc(s)
    PROVE  TextOf(config[a])' = Doc(s) /\ Servers(config[a])' = s
  BY Texts DEF TextOf, Servers

\* The configuration of an agent before a step.
LEMMA ConfigOf ==
    ASSUME CfInv, NEW a \in Agents
    PROVE  /\ TextOf(config[a]).kind = "doc" /\ TextOf(config[a]) \in Documents
           /\ Servers(config[a]) \in ServerSets /\ Parses(config[a])
           /\ Servers(config[a]) \ {"royo-learn"} = own[a]
           /\ TextOf(config[a]) = Doc(Servers(config[a]))
  BY TextIs, OfAgent DEF CfInv, OwnServersKept

\* A step of c that leaves the configurations and what they hold alone.
LEMMA ConfigsKept ==
    ASSUME CfInv, UNCHANGED <<config, own>>,
           \A a \in Agents : config[a] = NoInode \/ data'[config[a]] = data[config[a]]
    PROVE  OwnServersKept'
  BY TextKept DEF CfInv, OwnServersKept

\* A step of c that changes data at most, in an inode of a temporary file.
LEMMA ShapeKept ==
    ASSUME ConfigShape, NEW c \in Commands, MovesOnly(c),
           UNCHANGED <<config, temp, backups, own>>, data' \in [Inodes -> Documents],
           command'[c].step \in {"write", "rename"} => command'[c].inode \in TempInodes(AgentOf(c)')
    PROVE  ConfigShape'
  <1>1. \A d \in Commands : command'[d].step \in {"write", "rename"} =>
            command'[d].inode \in TempInodes(AgentOf(d)')
    BY DEF MovesOnly, ConfigShape, AgentOf
  <1> QED BY <1>1 DEF ConfigShape, MovesOnly

-----------------------------------------------------------------------------
(* The shape of the state, whoever acts at the same time.                    *)

Works(c) ==
    \/ BackupConfig(c) \/ SameSecond(c) \/ LoadConfig(c) \/ RunAgentCLI(c)
    \/ OpenTemp(c) \/ WriteTemp(c) \/ RenameTemp(c) \/ FailToWrite(c) \/ Die(c)

\* A function on a set that is changed at a point.
LEMMA Changed ==
    ASSUME NEW S, NEW f, f = [x \in S |-> f[x]], NEW y \in S, NEW v
    PROVE  LET g == [f EXCEPT ![y] = v] IN
           /\ g = [x \in S |-> g[x]] /\ g[y] = v
           /\ \A x \in S \ {y} : g[x] = f[x]
  OBVIOUS

\* A command at work goes on with its own temporary file.
LEMMA CommandMoves ==
    ASSUME ConfigShape, NEW c \in Commands, Works(c)
    PROVE  /\ MovesOnly(c)
           /\ command'[c].step \in {"write", "rename"} => command'[c].inode \in TempInodes(AgentOf(c)')
  <1>1. command[c].step # "idle"
    BY DEF Works, BackupConfig, SameSecond, LoadConfig, RunAgentCLI, OpenTemp, WriteTemp, RenameTemp,
           FailToWrite, Die, At, Ended
  <1>2. command[c] \in CommandStates /\ DOMAIN command = Commands
    BY <1>1, AtWork DEF ConfigShape
  <1>3. PICK a \in Agents : a = AgentOf(c)
    BY <1>1, AtWork
  <1>4. ASSUME NEW result \in Outcomes, NextAgent(c, result)
        PROVE  MovesOnly(c) /\ command'[c].step \in {"done", "backup"}
    BY <1>1, <1>4, NextIs
  <1>5. ASSUME NEW st \in CommandStates, command' = [command EXCEPT ![c] = st]
        PROVE  MovesOnly(c) /\ command'[c] = st
    BY <1>2, <1>5 DEF MovesOnly, ConfigShape
  <1>6. {"error", "skipped", "changed"} = Outcomes
    BY DEF Outcomes
  <1>7. CASE BackupConfig(c) \/ SameSecond(c)
    <2>1. CASE GoTo(c, "load")
      BY <1>1, <1>2, <2>1, GoToIs DEF CommandStates
    <2>2. CASE command' = [command EXCEPT ![c].step = "load", ![c].unsaved = TRUE]
      <3>1. command' = [command EXCEPT ![c] = [command[c] EXCEPT !.step = "load", !.unsaved = TRUE]]
        BY <2>2
      <3>2. [command[c] EXCEPT !.step = "load", !.unsaved = TRUE] \in CommandStates
        BY <1>2 DEF CommandStates
      <3>3. [command[c] EXCEPT !.step = "load", !.unsaved = TRUE].step = "load"
        BY <1>2 DEF CommandStates
      <3> QED BY <1>5, <3>1, <3>2, <3>3
    <2> QED BY <1>7, <2>1, <2>2 DEF BackupConfig, SameSecond
  <1>8. CASE LoadConfig(c)
    <2> DEFINE servers == Wanted(c, Servers(config[a]))
    <2>1. Servers(config[a]) \in ServerSets
      BY TextIs, OfAgent
    <2>2. servers \in ServerSets
      BY <2>1, WantedIs
    <2>3. \/ NextAgent(c, "error") \/ NextAgent(c, "skipped")
          \/ command' = [command EXCEPT ![c].step = "open", ![c].servers = servers]
      BY <1>3, <1>8 DEF LoadConfig
    <2> HIDE DEF servers
    <2>4. CASE command' = [command EXCEPT ![c].step = "open", ![c].servers = servers]
      <3>1. command' = [command EXCEPT ![c] = [command[c] EXCEPT !.step = "open", !.servers = servers]]
        BY <2>4
      <3>2. [command[c] EXCEPT !.step = "open", !.servers = servers] \in CommandStates
        BY <1>2, <2>2 DEF CommandStates
      <3>3. [command[c] EXCEPT !.step = "open", !.servers = servers].step = "open"
        BY <1>2 DEF CommandStates
      <3> QED BY <1>5, <3>1, <3>2, <3>3
    <2> QED BY <1>4, <1>6, <2>3, <2>4
  <1>9. CASE RunAgentCLI(c) \/ RenameTemp(c) \/ FailToWrite(c)
    <2>1. NextAgent(c, "error") \/ NextAgent(c, "skipped") \/ NextAgent(c, "changed")
      BY <1>9 DEF RunAgentCLI, RenameTemp, FailToWrite
    <2> QED BY <1>4, <1>6, <2>1
  <1>10. CASE OpenTemp(c)
    <2>1. PICK n : n = IF temp[a] = NoInode THEN <<c, a>> ELSE temp[a]
      OBVIOUS
    <2>2. n \in TempInodes(a)
      BY <2>1 DEF ConfigShape, TempInodes
    <2>3. command' = [command EXCEPT ![c] = [command[c] EXCEPT !.step = "write", !.inode = n]]
      BY <1>3, <1>10, <2>1 DEF OpenTemp
    <2>4. [command[c] EXCEPT !.step = "write", !.inode = n] \in CommandStates
      BY <1>2, <2>2, OfAgent DEF CommandStates
    <2>5. /\ MovesOnly(c) /\ command'[c] = [command[c] EXCEPT !.step = "write", !.inode = n]
      BY <1>5, <2>3, <2>4
    <2>6. command'[c].inode = n /\ command'[c].at = command[c].at
      BY <1>2, <2>5 DEF CommandStates
    <2> QED BY <1>3, <2>2, <2>5, <2>6 DEF AgentOf
  <1>11. CASE WriteTemp(c)
    <2>1. MovesOnly(c) /\ command'[c] = [command[c] EXCEPT !.step = "rename"] /\ command[c].step = "write"
      BY <1>1, <1>11, GoToIs DEF WriteTemp, At
    <2>2. command'[c].inode = command[c].inode /\ command'[c].at = command[c].at
      BY <1>2, <2>1 DEF CommandStates
    <2> QED BY <2>1, <2>2 DEF ConfigShape, AgentOf
  <1>12. CASE Die(c)
    BY <1>1, <1>2, <1>12, GoToIs DEF Die, CommandStates
  <1> QED BY <1>7, <1>8, <1>9, <1>10, <1>11, <1>12 DEF Works

\* The inodes and what they hold, under a command at work.
LEMMA FilesMove ==
    ASSUME ConfigShape, NEW c \in Commands, Works(c)
    PROVE  /\ config' = [a \in Agents |-> config'[a]] /\ temp' = [a \in Agents |-> temp'[a]]
           /\ \A a \in Agents : /\ config'[a] \in TempInodes(a) \cup {NoInode, UserInode(a)}
                                /\ temp'[a] \in TempInodes(a) \cup {NoInode}
           /\ data' \in [Inodes -> Documents] /\ backups' \in [Agents -> SUBSET Documents]
           /\ own' = own
  <1>1. command[c].step # "idle"
    BY DEF Works, BackupConfig, SameSecond, LoadConfig, RunAgentCLI, OpenTemp, WriteTemp, RenameTemp,
           FailToWrite, Die, At, Ended
  <1>2. command[c] \in CommandStates
    BY <1>1, AtWork
  <1>3. PICK a \in Agents : a = AgentOf(c)
    BY <1>1, AtWork
  <1>4. <<c, a>> \in TempInodes(a) /\ TempInodes(a) \subseteq Inodes
    BY OfAgent DEF TempInodes
  <1>5. ASSUME NEW n \in Inodes, NEW d \in Documents
        PROVE  [data EXCEPT ![n] = d] \in [Inodes -> Documents]
    BY DEF ConfigShape
  <1>6. own' = own
    BY DEF Works, BackupConfig, SameSecond, LoadConfig, RunAgentCLI, OpenTemp, WriteTemp, RenameTemp,
           FailToWrite, Die
  <1>7. ASSUME UNCHANGED <<config, temp>>
        PROVE  /\ config' = [b \in Agents |-> config'[b]] /\ temp' = [b \in Agents |-> temp'[b]]
               /\ \A b \in Agents : /\ config'[b] \in TempInodes(b) \cup {NoInode, UserInode(b)}
                                    /\ temp'[b] \in TempInodes(b) \cup {NoInode}
    BY <1>7 DEF ConfigShape
  <1>8. CASE BackupConfig(c) \/ SameSecond(c)
    <2>1. TextOf(config[a]) \in Documents /\ backups \in [Agents -> SUBSET Documents]
      BY TextIs, OfAgent DEF ConfigShape
    <2>2. \E T \in SUBSET Documents : backups' = [backups EXCEPT ![a] = T]
      <3>1. backups[a] \in SUBSET Documents /\ backups = [backups EXCEPT ![a] = backups[a]]
        BY <2>1
      <3>2. \/ backups' = backups
            \/ backups' = [backups EXCEPT ![a] = backups[a] \cup {TextOf(config[a])}]
            \/ \E lost \in backups[a] :
                  backups' = [backups EXCEPT ![a] = (backups[a] \ {lost}) \cup {TextOf(config[a])}]
        BY <1>3, <1>8 DEF BackupConfig, SameSecond
      <3> QED BY <2>1, <3>1, <3>2
    <2>3. backups' \in [Agents -> SUBSET Documents]
      BY <2>1, <2>2
    <2>4. UNCHANGED <<config, temp, data>>
      BY <1>8 DEF BackupConfig, SameSecond
    <2> QED BY <1>6, <1>7, <2>3, <2>4 DEF ConfigShape
  <1>9. CASE LoadConfig(c)
    <2>1. UNCHANGED <<config, temp, data, backups>>
      BY <1>9 DEF LoadConfig
    <2> QED BY <1>6, <1>7, <2>1 DEF ConfigShape
  <1>10. CASE RunAgentCLI(c)
    <2>1. \/ UNCHANGED <<config, data>>
          \/ /\ config' = [config EXCEPT ![a] = <<c, a>>]
             /\ data' = [data EXCEPT ![<<c, a>>] = Doc(Wanted(c, Servers(config[a])))]
      BY <1>3, <1>10 DEF RunAgentCLI
    <2>2. UNCHANGED <<temp, backups>>
      BY <1>10 DEF RunAgentCLI
    <2>3. Doc(Wanted(c, Servers(config[a]))) \in Documents
      <3>1. Servers(config[a]) \in ServerSets
        BY TextIs, OfAgent
      <3> QED BY <3>1, WantedIs, Texts
    <2>4. data' \in [Inodes -> Documents]
      BY <1>4, <1>5, <2>1, <2>3 DEF ConfigShape
    <2>5. CASE config' = config
      BY <1>6, <1>7, <2>2, <2>4, <2>5 DEF ConfigShape
    <2>6. CASE config' = [config EXCEPT ![a] = <<c, a>>]
      BY <1>4, <1>6, <2>2, <2>4, <2>6, Changed DEF ConfigShape
    <2> QED BY <2>1, <2>5, <2>6
  <1>11. CASE OpenTemp(c)
    <2>1. PICK n : n = IF temp[a] = NoInode THEN <<c, a>> ELSE temp[a]
      OBVIOUS
    <2>2. n \in TempInodes(a) /\ n \in Inodes
      BY <1>4, <2>1 DEF ConfigShape
    <2>3. /\ temp' = [temp EXCEPT ![a] = n] /\ data' = [data EXCEPT ![n] = Empty]
          /\ UNCHANGED <<config, backups>>
      BY <1>3, <1>11, <2>1 DEF OpenTemp
    <2>4. data' \in [Inodes -> Documents]
      BY <1>5, <2>2, <2>3, Texts
    <2> QED BY <1>6, <2>2, <2>3, <2>4, Changed DEF ConfigShape
  <1>12. CASE WriteTemp(c)
    <2>1. UNCHANGED <<config, temp, backups>> /\ command[c].step = "write"
      BY <1>12 DEF WriteTemp, At
    <2>2. command[c].inode \in Inodes
      BY <1>3, <1>4, <2>1 DEF ConfigShape
    <2>3. Doc(command[c].servers) \in Documents
      BY <1>2, Texts DEF CommandStates
    <2>4. \E d \in Documents : data' = [data EXCEPT ![command[c].inode] = d]
      BY <1>12, <2>3, Texts DEF WriteTemp
    <2> QED BY <1>5, <1>6, <1>7, <2>1, <2>2, <2>4 DEF ConfigShape
  <1>13. CASE RenameTemp(c)
    <2>1. UNCHANGED <<data, backups>>
      BY <1>13 DEF RenameTemp
    <2>2. \/ UNCHANGED <<config, temp>>
          \/ /\ temp[a] # NoInode
             /\ config' = [config EXCEPT ![a] = temp[a]] /\ temp' = [temp EXCEPT ![a] = NoInode]
      BY <1>3, <1>13 DEF RenameTemp
    <2>3. CASE UNCHANGED <<config, temp>>
      BY <1>6, <1>7, <2>1, <2>3 DEF ConfigShape
    <2>4. CASE /\ temp[a] # NoInode
               /\ config' = [config EXCEPT ![a] = temp[a]] /\ temp' = [temp EXCEPT ![a] = NoInode]
      <3>1. temp[a] \in TempInodes(a)
        BY <2>4 DEF ConfigShape
      <3> QED BY <1>6, <2>1, <2>4, <3>1, Changed DEF ConfigShape
    <2> QED BY <2>2, <2>3, <2>4
  <1>14. CASE FailToWrite(c)
    <2>1. UNCHANGED <<config, backups>>
      BY <1>14 DEF FailToWrite
    <2>2. CASE command[c].step = "write"
      <3>1. command[c].inode \in Inodes
        BY <1>3, <1>4, <2>2 DEF ConfigShape
      <3>2. temp' = temp /\ \E d \in Documents : data' = [data EXCEPT ![command[c].inode] = d]
        BY <1>14, <2>2, Texts DEF FailToWrite, At
      <3> QED BY <1>5, <1>6, <1>7, <2>1, <3>1, <3>2 DEF ConfigShape
    <2>3. CASE command[c].step # "write"
      <3>1. temp' = [temp EXCEPT ![a] = NoInode] /\ data' = data
        BY <1>3, <1>14, <2>3 DEF FailToWrite, At
      <3> QED BY <1>6, <2>1, <3>1, Changed DEF ConfigShape
    <2> QED BY <2>2, <2>3
  <1>15. CASE Die(c)
    <2>1. UNCHANGED <<config, temp, backups>>
      BY <1>15 DEF Die
    <2>2. CASE command[c].step = "write"
      <3>1. command[c].inode \in Inodes
        BY <1>3, <1>4, <2>2 DEF ConfigShape
      <3>2. data[command[c].inode] \in Documents
        BY <3>1 DEF ConfigShape
      <3>3. \E d \in Documents : data' = [data EXCEPT ![command[c].inode] = d]
        BY <1>15, <2>2, <3>2, Texts DEF Die, At
      <3> QED BY <1>5, <1>6, <1>7, <2>1, <3>1, <3>3 DEF ConfigShape
    <2>3. CASE command[c].step # "write"
      <3>1. data' = data
        BY <1>15, <2>3 DEF Die, At
      <3> QED BY <1>6, <1>7, <2>1, <3>1 DEF ConfigShape
    <2> QED BY <2>2, <2>3
  <1> QED BY <1>8, <1>9, <1>10, <1>11, <1>12, <1>13, <1>14, <1>15 DEF Works

LEMMA ShapeAtWork == ASSUME ConfigShape, NEW c \in Commands, Works(c) PROVE ConfigShape'
  <1>1. \A d \in Commands : command'[d].step \in {"write", "rename"} =>
            command'[d].inode \in TempInodes(AgentOf(d)')
    BY CommandMoves DEF MovesOnly, ConfigShape, AgentOf
  <1>2. command' \in [Commands -> CommandStates \cup {Unstarted}]
    BY CommandMoves DEF MovesOnly
  <1>3. own' \in [Agents -> SUBSET OwnServers] /\ DOMAIN config' = Agents /\ DOMAIN temp' = Agents
    BY FilesMove DEF ConfigShape
  <1> QED BY <1>1, <1>2, <1>3, FilesMove DEF ConfigShape

\* A command that begins.
LEMMA StartIs ==
    ASSUME ConfigShape, NEW c \in Commands, NEW job \in {"install", "uninstall"}, Start(c, job)
    PROVE  /\ MovesOnly(c) /\ command'[c].step = "backup" /\ command'[c].at = 1
           /\ ConfigShape'
  <1> DEFINE begun == [step |-> "backup", job |-> job, at |-> 1, unsaved |-> FALSE,
                       servers |-> {}, inode |-> NoInode, results |-> <<>>]
  <1>1. command' = [command EXCEPT ![c] = begun] /\ UNCHANGED <<config, temp, data, backups, own>>
    BY DEF Start
  <1>2. begun \in CommandStates
    BY AgentIndex DEF CommandStates, ServerSets
  <1>3. begun.step = "backup" /\ begun.at = 1
    OBVIOUS
  <1> HIDE DEF begun
  <1>4. MovesOnly(c) /\ command'[c] = begun
    BY <1>1, <1>2 DEF MovesOnly, ConfigShape
  <1>5. ConfigShape'
    BY <1>1, <1>3, <1>4, ShapeKept DEF ConfigShape
  <1> QED BY <1>3, <1>4, <1>5

\* A configuration that the user rewrites.
LEMMA EditShape ==
    ASSUME ConfigShape, NEW a \in Agents, NEW servers \in SUBSET OwnServers, UserEdits(a, servers)
    PROVE  ConfigShape'
  <1>1. /\ own' = [own EXCEPT ![a] = servers]
        /\ config' = [config EXCEPT ![a] = UserInode(a)]
        /\ data' = [data EXCEPT ![UserInode(a)] = Doc(servers \cup (Servers(config[a]) \ OwnServers))]
        /\ UNCHANGED <<temp, backups, command>>
    BY DEF UserEdits
  <1>2. Doc(servers \cup (Servers(config[a]) \ OwnServers)) \in Documents
    <2>1. Servers(config[a]) \in ServerSets
      BY TextIs, OfAgent
    <2>2. servers \cup (Servers(config[a]) \ OwnServers) \in ServerSets
      BY <2>1 DEF ServerSets
    <2> QED BY <2>2, Texts
  <1>3. data' \in [Inodes -> Documents] /\ own' \in [Agents -> SUBSET OwnServers]
    BY <1>1, <1>2, InodesAre DEF ConfigShape
  <1>4. /\ config' = [b \in Agents |-> config'[b]] /\ DOMAIN config' = Agents
        /\ \A b \in Agents : config'[b] \in TempInodes(b) \cup {NoInode, UserInode(b)}
    BY <1>1, Changed DEF ConfigShape
  <1> QED BY <1>1, <1>3, <1>4 DEF ConfigShape, AgentOf

LEMMA ShapeStep == ConfigShape /\ [ConfigNext]_configVars => ConfigShape'
  <1>1. ASSUME ConfigShape, UNCHANGED configVars PROVE ConfigShape'
    BY <1>1 DEF configVars, ConfigShape, AgentOf
  <1>2. ASSUME ConfigShape, ConfigNext PROVE ConfigShape'
    <2>1. \/ \E c \in Commands, job \in {"install", "uninstall"} : Start(c, job)
          \/ \E c \in Commands : Works(c)
          \/ \E a \in Agents, servers \in SUBSET OwnServers : UserEdits(a, servers)
      BY <1>2 DEF ConfigNext, Works
    <2> QED BY <1>2, <2>1, StartIs, ShapeAtWork, EditShape
  <1> QED BY <1>1, <1>2

\* The shape is that of the type invariant.
LEMMA ShapeIsType == ConfigShape => ConfigTypeOK
  <1> SUFFICES ASSUME ConfigShape PROVE ConfigTypeOK
    OBVIOUS
  <1>1. \A c \in Commands :
          \/ command[c] = Unstarted
          \/ /\ command[c].step \in {"backup", "load", "open", "write", "rename", "done", "dead"}
             /\ command[c].at \in DOMAIN AllAgents
             /\ command[c].inode \in Inodes \cup {NoInode}
    BY DEF ConfigShape, CommandStates
  <1>2. config \in [Agents -> Inodes \cup {NoInode}] /\ temp \in [Agents -> Inodes \cup {NoInode}]
    BY OfAgent DEF ConfigShape
  <1> QED BY <1>1, <1>2 DEF ConfigShape, ConfigTypeOK

-----------------------------------------------------------------------------
(* The steps, of one command or of the user at a time.                      *)

LEMMA StartStep ==
    ASSUME CfInv, Overlap = FALSE, NEW c \in Commands, NEW job \in {"install", "uninstall"}, Start(c, job)
    PROVE  CfInv'
  <1> DEFINE begun == [step |-> "backup", job |-> job, at |-> 1, unsaved |-> FALSE,
                       servers |-> {}, inode |-> NoInode, results |-> <<>>]
  <1>1. /\ command' = [command EXCEPT ![c] = begun]
        /\ UNCHANGED <<config, temp, data, backups, own>>
        /\ \A other \in Commands : Ended(other)
        /\ command[c].step = "idle"
    BY DEF Start, At
  <1>2. 1 \in DOMAIN AllAgents
    BY AgentIndex
  <1>3. begun \in CommandStates
    BY <1>2 DEF CommandStates, ServerSets
  <1>4. begun.step = "backup" /\ begun.at = 1
    OBVIOUS
  <1> HIDE DEF begun
  <1>5. /\ command'[c] = begun
        /\ \A d \in Commands \ {c} : command'[d] = command[d]
        /\ command' \in [Commands -> CommandStates \cup {Unstarted}]
    BY <1>1, <1>3 DEF CfInv, ConfigShape
  <1>6. ConfigShape'
    <2> SUFFICES ASSUME NEW d \in Commands, command'[d].step \in {"write", "rename"}
                 PROVE  command'[d].inode \in TempInodes(AgentOf(d)')
      BY <1>1, <1>5 DEF CfInv, ConfigShape
    <2> QED BY <1>4, <1>5 DEF CfInv, ConfigShape, AgentOf
  <1>7. \A d \in Commands \ {c} : command'[d].step \in {"idle", "done", "dead"}
    BY <1>1, <1>5 DEF Ended
  <1>8. OneAtWork'
    BY <1>7 DEF OneAtWork, Ended
  <1>9. FreshInodes'
    BY <1>1, <1>5, FreshStays DEF CfInv, Ahead
  <1>10. \A d \in Commands : Pending(d)'
    BY <1>4, <1>5, <1>7 DEF Pending
  <1> QED
    BY <1>1, <1>6, <1>8, <1>9, <1>10, ConfigsKept DEF CfInv, TempApart

LEMMA BackupStep ==
    ASSUME CfInv, NEW c \in Commands, BackupConfig(c) \/ SameSecond(c)
    PROVE  CfInv'
  <1>1. command[c].step = "backup" /\ ~Ended(c) /\ UNCHANGED <<config, temp, data, own>>
    BY DEF BackupConfig, SameSecond, At, Ended
  <1>2. command[c] \in CommandStates /\ AgentOf(c) \in Agents /\ ConfigShape
    BY <1>1, AtWork DEF CfInv
  <1>a. PICK a \in Agents : a = AgentOf(c)
    BY <1>2
  <1>3. \/ GoTo(c, "load")
        \/ command' = [command EXCEPT ![c].step = "load", ![c].unsaved = TRUE]
    BY DEF BackupConfig, SameSecond
  <1>4. /\ MovesOnly(c) /\ command'[c].step = "load" /\ command'[c].at = command[c].at
        /\ GoTo(c, "load") \/ command'[c].unsaved = TRUE
    <2>1. CASE GoTo(c, "load")
      BY <1>1, <1>2, <2>1, GoToIs DEF CommandStates
    <2>2. CASE command' = [command EXCEPT ![c].step = "load", ![c].unsaved = TRUE]
      <3>1. command' = [command EXCEPT ![c] = [command[c] EXCEPT !.step = "load", !.unsaved = TRUE]]
        BY <2>2
      <3>2. [command[c] EXCEPT !.step = "load", !.unsaved = TRUE] \in CommandStates
        BY <1>2 DEF CommandStates
      <3>3. command'[c] = [command[c] EXCEPT !.step = "load", !.unsaved = TRUE]
        BY <1>2, <3>1 DEF ConfigShape
      <3>4. MovesOnly(c)
        BY <1>2, <3>1, <3>2 DEF MovesOnly, ConfigShape
      <3> QED BY <1>2, <3>3, <3>4 DEF CommandStates
    <2> QED BY <1>3, <2>1, <2>2
  <1>5. TextOf(config[a]) \in Documents /\ TextOf(config[a])' = TextOf(config[a])
    BY <1>1, ConfigOf, TextKept
  <1>6. backups' \in [Agents -> SUBSET Documents]
    <2>1. backups \in [Agents -> SUBSET Documents]
      BY <1>2 DEF ConfigShape
    <2>2. \E T \in SUBSET Documents : backups' = [backups EXCEPT ![a] = T]
      <3>1. backups[a] \in SUBSET Documents /\ backups = [backups EXCEPT ![a] = backups[a]]
        BY <1>2, <2>1
      <3>2. \/ backups' = backups
            \/ backups' = [backups EXCEPT ![a] = backups[a] \cup {TextOf(config[a])}]
            \/ \E lost \in backups[a] :
                  backups' = [backups EXCEPT ![a] = (backups[a] \ {lost}) \cup {TextOf(config[a])}]
        BY <1>a DEF BackupConfig, SameSecond
      <3> QED BY <1>5, <3>1, <3>2
    <2> QED BY <1>2, <2>1, <2>2
  <1>7. config[a] = NoInode \/ command'[c].unsaved \/ TextOf(config[a]) \in backups'[a]
    <2>1. backups \in [Agents -> SUBSET Documents]
      BY <1>2 DEF ConfigShape
    <2>2. \/ config[a] = NoInode
          \/ command' = [command EXCEPT ![c].step = "load", ![c].unsaved = TRUE]
          \/ \E T : TextOf(config[a]) \in T /\ backups' = [backups EXCEPT ![a] = T]
      BY <1>a DEF BackupConfig, SameSecond
    <2>3. command' = [command EXCEPT ![c].step = "load", ![c].unsaved = TRUE] => command'[c].unsaved
      BY <1>2 DEF ConfigShape, CommandStates
    <2> QED BY <2>1, <2>2, <2>3
  <1>8. ConfigShape'
    BY <1>1, <1>4, <1>6 DEF CfInv, ConfigShape, MovesOnly, AgentOf
  <1>9. FreshInodes'
    BY <1>1, <1>2, <1>4, AheadOnly, FreshStays DEF CfInv
  <1>10. Pending(c)'
    BY <1>1, <1>4, <1>5, <1>7, <1>a DEF Pending, AgentOf
  <1> QED
    BY <1>1, <1>4, <1>8, <1>9, <1>10, ConfigsKept, OthersRest DEF CfInv, TempApart

LEMMA LoadStep ==
    ASSUME CfInv, NEW c \in Commands, LoadConfig(c)
    PROVE  CfInv'
  <1>1. /\ command[c].step = "load" /\ ~Ended(c) /\ command[c].step # "idle"
        /\ UNCHANGED <<config, temp, data, backups, own>>
    BY DEF LoadConfig, At, Ended
  <1>2. command[c] \in CommandStates /\ ConfigShape
    BY <1>1, AtWork DEF CfInv
  <1>3. PICK a \in Agents : a = AgentOf(c)
    BY <1>1, <1>2, AtWork
  <1> DEFINE servers == Wanted(c, Servers(config[a]))
  <1>4. servers \in ServerSets /\ Parses(config[a])
    BY ConfigOf, WantedIs
  <1>5. \/ NextAgent(c, "skipped")
        \/ command' = [command EXCEPT ![c].step = "open", ![c].servers = servers]
    BY <1>3, <1>4 DEF LoadConfig
  <1> HIDE DEF servers
  <1>6. CASE NextAgent(c, "skipped")
    <2>1. /\ MovesOnly(c) /\ command'[c].step \in {"done", "backup"}
          /\ command[c].at \in Nat
          /\ \/ command'[c].at = command[c].at /\ command'[c].step = "done"
             \/ command'[c].at = command[c].at + 1 /\ command'[c].step = "backup"
      <3>1. "skipped" \in Outcomes /\ command[c].step # "idle" /\ ConfigShape
        BY <1>1, <1>2 DEF Outcomes
      <3> QED BY <1>6, <3>1, NextIs, Zenon
    <2>2. ConfigShape'
      BY <1>1, <1>2, <2>1, ShapeKept DEF ConfigShape
    <2>3. FreshInodes'
      BY <1>1, <1>2, <2>1, AheadOnly, FreshStays DEF CfInv
    <2>4. Pending(c)'
      BY <2>1 DEF Pending
    <2> QED BY <1>1, <2>1, <2>2, <2>3, <2>4, ConfigsKept, OthersRest DEF CfInv, TempApart
  <1>7. CASE command' = [command EXCEPT ![c].step = "open", ![c].servers = servers]
    <2>1. command' = [command EXCEPT ![c] = [command[c] EXCEPT !.step = "open", !.servers = servers]]
      BY <1>7
    <2>2. [command[c] EXCEPT !.step = "open", !.servers = servers] \in CommandStates
      BY <1>2, <1>4 DEF CommandStates
    <2>3. command'[c] = [command[c] EXCEPT !.step = "open", !.servers = servers] /\ MovesOnly(c)
      BY <1>2, <2>1, <2>2 DEF MovesOnly, ConfigShape
    <2>4. /\ command'[c].step = "open" /\ command'[c].servers = servers
          /\ command'[c].at = command[c].at /\ command'[c].unsaved = command[c].unsaved
          /\ command'[c].job = command[c].job
      BY <1>2, <2>3 DEF CommandStates
    <2>5. ConfigShape'
      BY <1>1, <1>2, <2>3, <2>4, ShapeKept DEF ConfigShape
    <2>6. FreshInodes'
      BY <1>1, <1>2, <2>3, <2>4, AheadOnly, FreshStays DEF CfInv
    <2>7. TextOf(config[a])' = TextOf(config[a]) /\ Servers(config[a])' = Servers(config[a])
      BY <1>1, TextKept
    <2>8. AgentOf(c)' = a
      BY <1>3, <2>4 DEF AgentOf
    <2>9. Pending(c)'
      BY <1>1, <1>3, <2>4, <2>7, <2>8 DEF CfInv, Pending, Wanted, servers
    <2> QED BY <1>1, <2>3, <2>5, <2>6, <2>9, ConfigsKept, OthersRest DEF CfInv, TempApart
  <1> QED BY <1>5, <1>6, <1>7

LEMMA CLIStep ==
    ASSUME CfInv, NEW c \in Commands, RunAgentCLI(c)
    PROVE  CfInv'
  <1>1. /\ command[c].step = "load" /\ ~Ended(c) /\ command[c].step # "idle"
        /\ UNCHANGED <<temp, backups, own>>
    BY DEF RunAgentCLI, At, Ended
  <1>2. command[c] \in CommandStates /\ ConfigShape
    BY <1>1, AtWork DEF CfInv
  <1>3. PICK a \in Agents : a = AgentOf(c)
    BY <1>1, <1>2, AtWork
  <1>4. NextAgent(c, "error") \/ NextAgent(c, "skipped") \/ NextAgent(c, "changed")
    BY DEF RunAgentCLI
  <1>5. /\ MovesOnly(c) /\ command'[c].step \in {"done", "backup"}
        /\ \/ command'[c].at = command[c].at /\ command'[c].step = "done"
           \/ command'[c].at = command[c].at + 1 /\ command'[c].step = "backup"
    <2>1. PICK result \in Outcomes : NextAgent(c, result)
      BY <1>4 DEF Outcomes
    <2> QED BY <1>1, <1>2, <2>1, NextIs
  <1>6. Pending(c)'
    BY <1>5 DEF Pending
  <1>7. CASE UNCHANGED <<config, data>>
    <2>1. ConfigShape'
      BY <1>1, <1>2, <1>5, <1>7, ShapeKept DEF ConfigShape
    <2>2. FreshInodes'
      BY <1>1, <1>2, <1>5, <1>7, AheadOnly, FreshStays DEF CfInv
    <2> QED BY <1>1, <1>5, <1>6, <1>7, <2>1, <2>2, ConfigsKept, OthersRest DEF CfInv, TempApart
  <1>8. CASE ~UNCHANGED <<config, data>>
    <2> DEFINE servers == Wanted(c, Servers(config[a]))
    <2>1. /\ config' = [config EXCEPT ![a] = <<c, a>>]
          /\ data' = [data EXCEPT ![<<c, a>>] = Doc(servers)]
      BY <1>3, <1>8 DEF RunAgentCLI
    <2>2. servers \in ServerSets /\ servers \ {"royo-learn"} = own[a]
      BY ConfigOf, WantedIs
    <2> HIDE DEF servers
    <2>3. <<c, a>> \in Inodes /\ <<c, a>> \in TempInodes(a) /\ <<c, a>> # NoInode
      BY InodesAre DEF TempInodes
    <2>4. /\ config'[a] = <<c, a>> /\ \A b \in Agents \ {a} : config'[b] = config[b]
          /\ data'[<<c, a>>] = Doc(servers) /\ \A n \in Inodes \ {<<c, a>>} : data'[n] = data[n]
          /\ data' \in [Inodes -> Documents]
          /\ DOMAIN config' = Agents /\ config' = [b \in Agents |-> config'[b]]
      BY <1>2, <2>1, <2>2, <2>3, Texts DEF ConfigShape
    <2>5. ConfigShape'
      <3>1. \A b \in Agents : /\ config'[b] \in TempInodes(b) \cup {NoInode, UserInode(b)}
                              /\ temp'[b] \in TempInodes(b) \cup {NoInode}
        BY <1>1, <1>2, <2>3, <2>4 DEF ConfigShape
      <3>2. \A d \in Commands : command'[d].step \in {"write", "rename"} =>
                command'[d].inode \in TempInodes(AgentOf(d)')
        BY <1>2, <1>5 DEF MovesOnly, ConfigShape, AgentOf
      <3> QED BY <1>1, <1>2, <1>5, <2>4, <3>1, <3>2 DEF ConfigShape, MovesOnly
    <2>6. PICK k \in DOMAIN AllAgents : k = command[c].at /\ a = AllAgents[k]
      BY <1>2, <1>3 DEF CommandStates, AgentOf
    <2>7. ~Ahead(c, k)'
      BY <1>5, <2>6, AgentIndex DEF Ahead
    <2>8. \A d \in Commands, i \in DOMAIN AllAgents : Ahead(d, i)' => Ahead(d, i)
      BY <1>1, <1>2, <1>5, AheadOnly
    <2>9. ASSUME NEW d \in Commands, NEW i \in DOMAIN AllAgents, Ahead(d, i)',
                 config'[AllAgents[i]] = <<d, AllAgents[i]>>
          PROVE  config[AllAgents[i]] = <<d, AllAgents[i]>>
      BY <2>4, <2>6, <2>7, <2>9, AgentIndex, InodesAre
    <2>10. FreshInodes'
      BY <1>1, <2>8, <2>9, FreshStays DEF CfInv
    <2>11. temp[a] # <<c, a>>
      BY <1>1, <2>6 DEF CfInv, FreshInodes, Ahead
    <2>12. TempApart'
      BY <1>1, <2>4, <2>11 DEF CfInv, TempApart
    <2>13. ASSUME NEW b \in Agents
           PROVE  TextOf(config[b])'.kind = "doc" /\ Servers(config[b])' \ {"royo-learn"} = own'[b]
      <3>1. CASE b = a
        BY <1>1, <2>2, <2>3, <2>4, <3>1, TextNow, Texts
      <3>2. CASE b # a
        <4>1. config[b] \in (Inodes \ {<<c, a>>}) \cup {NoInode}
          BY <1>2, <2>3, <3>2, OfAgent
        <4>2. TextOf(config[b])' = TextOf(config[b]) /\ Servers(config[b])' = Servers(config[b])
          BY <2>4, <3>2, <4>1, TextKept
        <4> QED BY <1>1, <4>2, ConfigOf
      <3> QED BY <3>1, <3>2
    <2>14. OwnServersKept'
      BY <2>13 DEF OwnServersKept
    <2> QED BY <1>1, <1>5, <1>6, <2>5, <2>10, <2>12, <2>14, OthersRest DEF CfInv
  <1> QED BY <1>7, <1>8

\* What a step changes in the inodes of temporary files shows in no configuration.
LEMMA DataOfTemp ==
    ASSUME CfInv, NEW a \in Agents, NEW n \in TempInodes(a), n # config[a],
           UNCHANGED <<config, own>>, \A m \in Inodes \ {n} : data'[m] = data[m]
    PROVE  /\ OwnServersKept'
           /\ \A b \in Agents : /\ TextOf(config[b])' = TextOf(config[b])
                                /\ Servers(config[b])' = Servers(config[b])
  <1>1. \A b \in Agents : config[b] \in (Inodes \ {n}) \cup {NoInode}
    <2> SUFFICES ASSUME NEW b \in Agents PROVE config[b] \in (Inodes \ {n}) \cup {NoInode}
      OBVIOUS
    <2>1. config[b] \in Inodes \cup {NoInode} /\ (b # a => config[b] \notin TempInodes(a))
      BY OfAgent DEF CfInv
    <2> QED BY <2>1
  <1>2. \A b \in Agents : config[b] = NoInode \/ data'[config[b]] = data[config[b]]
    BY <1>1
  <1> QED BY <1>2, ConfigsKept, TextKept

LEMMA OpenStep ==
    ASSUME CfInv, NEW c \in Commands, OpenTemp(c)
    PROVE  CfInv'
  <1>1. /\ command[c].step = "open" /\ ~Ended(c) /\ command[c].step # "idle"
        /\ UNCHANGED <<config, backups, own>>
    BY DEF OpenTemp, At, Ended
  <1>2. command[c] \in CommandStates /\ ConfigShape
    BY <1>1, AtWork DEF CfInv
  <1>3. PICK a \in Agents : a = AgentOf(c)
    BY <1>1, <1>2, AtWork
  <1>4. PICK n : n = IF temp[a] = NoInode THEN <<c, a>> ELSE temp[a]
    OBVIOUS
  <1>5. /\ temp' = [temp EXCEPT ![a] = n] /\ data' = [data EXCEPT ![n] = Empty]
        /\ command' = [command EXCEPT ![c].step = "write", ![c].inode = n]
    BY <1>3, <1>4 DEF OpenTemp
  <1>6. PICK k \in DOMAIN AllAgents : k = command[c].at /\ a = AllAgents[k]
    BY <1>2, <1>3 DEF CommandStates, AgentOf
  <1>7. <<c, a>> # config[a]
    BY <1>1, <1>6 DEF CfInv, FreshInodes, Ahead
  <1>8. n \in TempInodes(a) /\ n \in Inodes /\ n # config[a] /\ n # NoInode
    <2>1. temp[a] \in TempInodes(a) \cup {NoInode} /\ (temp[a] = NoInode \/ temp[a] # config[a])
      BY <1>2 DEF ConfigShape, CfInv, TempApart
    <2>2. <<c, a>> \in TempInodes(a) /\ TempInodes(a) \subseteq Inodes
      BY <1>2, OfAgent DEF TempInodes
    <2> QED BY <1>4, <1>7, <2>1, <2>2, InodesAre
  <1>9. /\ temp'[a] = n /\ \A b \in Agents \ {a} : temp'[b] = temp[b]
        /\ DOMAIN temp' = Agents /\ temp' = [b \in Agents |-> temp'[b]]
        /\ data'[n] = Empty /\ \A m \in Inodes \ {n} : data'[m] = data[m]
        /\ data' \in [Inodes -> Documents]
    BY <1>2, <1>5, <1>8, Texts DEF ConfigShape
  <1>10. /\ MovesOnly(c) /\ command'[c].step = "write" /\ command'[c].inode = n
         /\ command'[c].at = command[c].at /\ command'[c].servers = command[c].servers
         /\ command'[c].unsaved = command[c].unsaved /\ command'[c].job = command[c].job
    <2>1. command' = [command EXCEPT ![c] = [command[c] EXCEPT !.step = "write", !.inode = n]]
      BY <1>5
    <2>2. [command[c] EXCEPT !.step = "write", !.inode = n] \in CommandStates
      BY <1>2, <1>8 DEF CommandStates
    <2>3. command'[c] = [command[c] EXCEPT !.step = "write", !.inode = n] /\ MovesOnly(c)
      BY <1>2, <2>1, <2>2 DEF MovesOnly, ConfigShape
    <2> QED BY <1>2, <2>3 DEF CommandStates
  <1>11. AgentOf(c)' = a
    BY <1>3, <1>10 DEF AgentOf
  <1>12. ConfigShape'
    <2>1. \A b \in Agents : /\ config'[b] \in TempInodes(b) \cup {NoInode, UserInode(b)}
                            /\ temp'[b] \in TempInodes(b) \cup {NoInode}
      BY <1>1, <1>2, <1>8, <1>9 DEF ConfigShape
    <2>2. \A d \in Commands : command'[d].step \in {"write", "rename"} =>
              command'[d].inode \in TempInodes(AgentOf(d)')
      BY <1>2, <1>8, <1>10, <1>11 DEF MovesOnly, ConfigShape, AgentOf
    <2> QED BY <1>1, <1>2, <1>9, <1>10, <2>1, <2>2 DEF ConfigShape, MovesOnly
  <1>13. \A d \in Commands, i \in DOMAIN AllAgents : Ahead(d, i)' => Ahead(d, i)
    BY <1>1, <1>2, <1>10, AheadOnly
  <1>14. ~Ahead(c, k)'
    <2>1. command'[c].at = k /\ k \in Nat
      BY <1>6, <1>10, AgentIndex
    <2> QED BY <2>1, <1>10 DEF Ahead
  <1>15. ASSUME NEW d \in Commands, NEW i \in DOMAIN AllAgents, Ahead(d, i)',
                temp'[AllAgents[i]] = <<d, AllAgents[i]>>
         PROVE  temp[AllAgents[i]] = <<d, AllAgents[i]>>
    BY <1>4, <1>6, <1>9, <1>14, <1>15, AgentIndex, InodesAre
  <1>16. FreshInodes'
    BY <1>1, <1>13, <1>15, FreshStays DEF CfInv
  <1>17. TempApart'
    BY <1>1, <1>8, <1>9 DEF CfInv, TempApart
  <1>18. /\ OwnServersKept' /\ TextOf(config[a])' = TextOf(config[a])
         /\ Servers(config[a])' = Servers(config[a])
    BY <1>1, <1>8, <1>9, DataOfTemp
  <1>19. Pending(c)'
    BY <1>1, <1>3, <1>9, <1>10, <1>11, <1>18 DEF CfInv, Pending, Wanted
  <1> QED BY <1>1, <1>10, <1>12, <1>16, <1>17, <1>18, <1>19, OthersRest DEF CfInv

LEMMA WriteStep ==
    ASSUME CfInv, NEW c \in Commands, WriteTemp(c)
    PROVE  CfInv'
  <1>1. /\ command[c].step = "write" /\ ~Ended(c) /\ command[c].step # "idle"
        /\ UNCHANGED <<config, temp, backups, own>>
    BY DEF WriteTemp, At, Ended
  <1>2. command[c] \in CommandStates /\ ConfigShape
    BY <1>1, AtWork DEF CfInv
  <1>3. PICK a \in Agents : a = AgentOf(c)
    BY <1>1, <1>2, AtWork
  <1>4. PICK n : n = command[c].inode
    OBVIOUS
  <1>5. PICK mine : mine = Doc(command[c].servers)
    OBVIOUS
  <1>6. /\ n \in TempInodes(a) /\ n \in Inodes /\ n # NoInode
        /\ temp[a] = n /\ data[n] = Empty /\ n # config[a]
    <2>1. n \in TempInodes(a) /\ temp[a] = n /\ data[n] = Empty
      BY <1>1, <1>2, <1>3, <1>4 DEF ConfigShape, CfInv, Pending
    <2>2. n \in Inodes /\ n # NoInode
      BY <1>2, <2>1, OfAgent, InodesAre
    <2> QED BY <2>1, <2>2 DEF CfInv, TempApart
  <1>7. data' = [data EXCEPT ![n] = mine] /\ GoTo(c, "rename") /\ mine \in Documents
    BY <1>2, <1>4, <1>5, <1>6, Texts DEF WriteTemp, CommandStates
  <1>8. /\ data'[n] = mine /\ \A m \in Inodes \ {n} : data'[m] = data[m]
        /\ data' \in [Inodes -> Documents]
    BY <1>2, <1>6, <1>7 DEF ConfigShape
  <1>9. /\ MovesOnly(c) /\ command'[c].step = "rename" /\ command'[c].inode = n
        /\ command'[c].at = command[c].at /\ command'[c].servers = command[c].servers
        /\ command'[c].unsaved = command[c].unsaved /\ command'[c].job = command[c].job
    BY <1>1, <1>2, <1>4, <1>7, GoToIs DEF CommandStates
  <1>10. AgentOf(c)' = a
    BY <1>3, <1>9 DEF AgentOf
  <1>11. ConfigShape'
    BY <1>1, <1>2, <1>6, <1>8, <1>9, <1>10, ShapeKept
  <1>12. FreshInodes'
    BY <1>1, <1>2, <1>9, AheadOnly, FreshStays DEF CfInv
  <1>13. /\ OwnServersKept' /\ TextOf(config[a])' = TextOf(config[a])
         /\ Servers(config[a])' = Servers(config[a])
    BY <1>1, <1>6, <1>8, DataOfTemp
  <1>14. Pending(c)'
    BY <1>1, <1>3, <1>5, <1>6, <1>8, <1>9, <1>10, <1>13 DEF CfInv, Pending, Wanted
  <1> QED BY <1>1, <1>9, <1>11, <1>12, <1>13, <1>14, OthersRest DEF CfInv, TempApart

LEMMA RenameStep ==
    ASSUME CfInv, NEW c \in Commands, RenameTemp(c)
    PROVE  CfInv'
  <1>1. /\ command[c].step = "rename" /\ ~Ended(c) /\ command[c].step # "idle"
        /\ UNCHANGED <<data, backups, own>>
    BY DEF RenameTemp, At, Ended
  <1>2. command[c] \in CommandStates /\ ConfigShape
    BY <1>1, AtWork DEF CfInv
  <1>3. PICK a \in Agents : a = AgentOf(c)
    BY <1>1, <1>2, AtWork
  <1>4. PICK n : n = temp[a]
    OBVIOUS
  <1>5. PICK servers : servers = command[c].servers
    OBVIOUS
  <1>6. n # NoInode /\ data[n] = Doc(servers) /\ servers = Wanted(c, Servers(config[a]))
    BY <1>1, <1>3, <1>4, <1>5 DEF CfInv, Pending
  <1>7. servers \in ServerSets /\ servers \ {"royo-learn"} = own[a]
    BY <1>6, ConfigOf, WantedIs
  <1>8. /\ config' = [config EXCEPT ![a] = n] /\ temp' = [temp EXCEPT ![a] = NoInode]
        /\ NextAgent(c, "changed")
    BY <1>3, <1>4, <1>6 DEF RenameTemp
  <1>9. /\ MovesOnly(c) /\ command'[c].step \in {"done", "backup"}
        /\ \/ command'[c].at = command[c].at /\ command'[c].step = "done"
           \/ command'[c].at = command[c].at + 1 /\ command'[c].step = "backup"
    <2>1. "changed" \in Outcomes
      BY DEF Outcomes
    <2> QED BY <1>1, <1>2, <1>8, <2>1, NextIs
  <1>10. n \in TempInodes(a) /\ n \in Inodes
    BY <1>2, <1>4, <1>6, OfAgent DEF ConfigShape
  <1>11. /\ config'[a] = n /\ \A b \in Agents \ {a} : config'[b] = config[b]
         /\ DOMAIN config' = Agents /\ config' = [b \in Agents |-> config'[b]]
         /\ temp'[a] = NoInode /\ \A b \in Agents \ {a} : temp'[b] = temp[b]
         /\ DOMAIN temp' = Agents /\ temp' = [b \in Agents |-> temp'[b]]
    BY <1>2, <1>8 DEF ConfigShape
  <1>12. ConfigShape'
    <2>1. \A b \in Agents : /\ config'[b] \in TempInodes(b) \cup {NoInode, UserInode(b)}
                            /\ temp'[b] \in TempInodes(b) \cup {NoInode}
      BY <1>2, <1>10, <1>11 DEF ConfigShape
    <2>2. \A d \in Commands : command'[d].step \in {"write", "rename"} =>
              command'[d].inode \in TempInodes(AgentOf(d)')
      BY <1>2, <1>9 DEF MovesOnly, ConfigShape, AgentOf
    <2> QED BY <1>1, <1>2, <1>9, <1>11, <2>1, <2>2 DEF ConfigShape, MovesOnly
  <1>13. \A d \in Commands, i \in DOMAIN AllAgents : Ahead(d, i)' => Ahead(d, i)
    BY <1>1, <1>2, <1>9, AheadOnly
  <1>14. ASSUME NEW d \in Commands, NEW i \in DOMAIN AllAgents, Ahead(d, i)'
         PROVE  /\ config'[AllAgents[i]] = <<d, AllAgents[i]>> =>
                      config[AllAgents[i]] = <<d, AllAgents[i]>> \/ temp[AllAgents[i]] = <<d, AllAgents[i]>>
                /\ temp'[AllAgents[i]] = <<d, AllAgents[i]>> => temp[AllAgents[i]] = <<d, AllAgents[i]>>
    <2>1. PICK b \in Agents : b = AllAgents[i]
      BY AgentIndex
    <2>2. <<d, b>> # NoInode
      BY InodesAre
    <2> QED BY <1>4, <1>11, <2>1, <2>2
  <1>15. FreshInodes'
    BY <1>13, <1>14, FreshStays DEF CfInv
  <1>16. TempApart'
    BY <1>11 DEF CfInv, TempApart
  <1>17. ASSUME NEW b \in Agents
         PROVE  TextOf(config[b])'.kind = "doc" /\ Servers(config[b])' \ {"royo-learn"} = own'[b]
    <2>1. CASE b = a
      BY <1>1, <1>6, <1>7, <1>10, <1>11, <2>1, TextNow, Texts
    <2>2. CASE b # a
      <3>1. TextOf(config[b])' = TextOf(config[b]) /\ Servers(config[b])' = Servers(config[b])
        BY <1>1, <1>11, <2>2, TextKept
      <3> QED BY <1>1, <3>1, ConfigOf
    <2> QED BY <2>1, <2>2
  <1>18. OwnServersKept'
    BY <1>17 DEF OwnServersKept
  <1>19. Pending(c)'
    BY <1>9 DEF Pending
  <1> QED BY <1>1, <1>9, <1>12, <1>15, <1>16, <1>18, <1>19, OthersRest DEF CfInv

LEMMA FailToWriteStep ==
    ASSUME CfInv, NEW c \in Commands, FailToWrite(c)
    PROVE  CfInv'
  <1>1. /\ command[c].step \in {"write", "rename"} /\ ~Ended(c) /\ command[c].step # "idle"
        /\ UNCHANGED <<config, backups, own>> /\ NextAgent(c, "error")
    BY DEF FailToWrite, At, Ended
  <1>2. command[c] \in CommandStates /\ ConfigShape
    BY <1>1, AtWork DEF CfInv
  <1>3. PICK a \in Agents : a = AgentOf(c)
    BY <1>1, <1>2, AtWork
  <1>4. PICK n : n = command[c].inode
    OBVIOUS
  <1>5. /\ MovesOnly(c) /\ command'[c].step \in {"done", "backup"}
        /\ \/ command'[c].at = command[c].at /\ command'[c].step = "done"
           \/ command'[c].at = command[c].at + 1 /\ command'[c].step = "backup"
    <2>1. "error" \in Outcomes
      BY DEF Outcomes
    <2> QED BY <1>1, <1>2, <2>1, NextIs
  <1>6. Pending(c)'
    BY <1>5 DEF Pending
  <1>7. CASE command[c].step = "write"
    <2>1. PICK torn \in {Empty, Torn} : data' = [data EXCEPT ![n] = torn] /\ temp' = temp
      BY <1>4, <1>7 DEF FailToWrite, At
    <2>2. n \in TempInodes(a) /\ n \in Inodes /\ temp[a] = n /\ n # config[a]
      <3>1. n \in TempInodes(a) /\ temp[a] = n
        BY <1>2, <1>3, <1>4, <1>7 DEF ConfigShape, CfInv, Pending
      <3>2. n \in Inodes /\ n # NoInode
        BY <1>2, <3>1, OfAgent, InodesAre
      <3> QED BY <3>1, <3>2 DEF CfInv, TempApart
    <2>3. /\ \A m \in Inodes \ {n} : data'[m] = data[m]
          /\ data' \in [Inodes -> Documents]
      BY <1>2, <2>1, <2>2, Texts DEF ConfigShape
    <2>4. ConfigShape'
      BY <1>1, <1>2, <1>5, <2>1, <2>3, ShapeKept
    <2>5. FreshInodes'
      BY <1>1, <1>2, <1>5, <2>1, AheadOnly, FreshStays DEF CfInv
    <2>6. OwnServersKept'
      BY <1>1, <2>2, <2>3, DataOfTemp
    <2> QED BY <1>1, <1>5, <1>6, <2>1, <2>4, <2>5, <2>6, OthersRest DEF CfInv, TempApart
  <1>8. CASE command[c].step = "rename"
    <2>1. temp' = [temp EXCEPT ![a] = NoInode] /\ data' = data
      BY <1>3, <1>8 DEF FailToWrite, At
    <2>2. /\ temp'[a] = NoInode /\ \A b \in Agents \ {a} : temp'[b] = temp[b]
          /\ DOMAIN temp' = Agents /\ temp' = [b \in Agents |-> temp'[b]]
      BY <1>2, <2>1 DEF ConfigShape
    <2>3. ConfigShape'
      <3>1. \A b \in Agents : temp'[b] \in TempInodes(b) \cup {NoInode}
        BY <1>2, <2>2 DEF ConfigShape
      <3>2. \A d \in Commands : command'[d].step \in {"write", "rename"} =>
                command'[d].inode \in TempInodes(AgentOf(d)')
        BY <1>2, <1>5 DEF MovesOnly, ConfigShape, AgentOf
      <3> QED BY <1>1, <1>2, <1>5, <2>1, <2>2, <3>1, <3>2 DEF ConfigShape, MovesOnly
    <2>4. \A d \in Commands, i \in DOMAIN AllAgents : Ahead(d, i)' => Ahead(d, i)
      BY <1>1, <1>2, <1>5, AheadOnly
    <2>5. ASSUME NEW d \in Commands, NEW i \in DOMAIN AllAgents, temp'[AllAgents[i]] = <<d, AllAgents[i]>>
          PROVE  temp[AllAgents[i]] = <<d, AllAgents[i]>>
      <3>1. PICK b \in Agents : b = AllAgents[i]
        BY AgentIndex
      <3>2. <<d, b>> # NoInode
        BY InodesAre
      <3> QED BY <2>2, <2>5, <3>1, <3>2
    <2>6. FreshInodes'
      BY <1>1, <2>4, <2>5, FreshStays DEF CfInv
    <2>7. TempApart'
      BY <1>1, <2>2 DEF CfInv, TempApart
    <2>8. OwnServersKept'
      BY <1>1, <2>1, ConfigsKept
    <2> QED BY <1>1, <1>5, <1>6, <2>3, <2>6, <2>7, <2>8, OthersRest DEF CfInv
  <1> QED BY <1>1, <1>7, <1>8

LEMMA AgentDiesStep ==
    ASSUME CfInv, NEW c \in Commands, Die(c)
    PROVE  CfInv'
  <1>1. /\ ~Ended(c) /\ command[c].step # "idle"
        /\ UNCHANGED <<config, temp, backups, own>> /\ GoTo(c, "dead")
    BY DEF Die, Ended
  <1>2. command[c] \in CommandStates /\ ConfigShape
    BY <1>1, AtWork DEF CfInv
  <1>3. PICK a \in Agents : a = AgentOf(c)
    BY <1>1, <1>2, AtWork
  <1>4. PICK n : n = command[c].inode
    OBVIOUS
  <1>5. MovesOnly(c) /\ command'[c].step = "dead" /\ command'[c].at = command[c].at
    BY <1>1, <1>2, GoToIs DEF CommandStates
  <1>6. Pending(c)'
    BY <1>5 DEF Pending
  <1>7. FreshInodes'
    BY <1>1, <1>2, <1>5, AheadOnly, FreshStays DEF CfInv
  <1>8. data' \in [Inodes -> Documents] /\ OwnServersKept'
    <2>1. CASE command[c].step = "write"
      <3>1. n \in TempInodes(a) /\ n \in Inodes /\ n # config[a]
        <4>1. n \in TempInodes(a) /\ temp[a] = n
          BY <1>2, <1>3, <1>4, <2>1 DEF ConfigShape, CfInv, Pending
        <4>2. n \in Inodes /\ n # NoInode
          BY <1>2, <4>1, OfAgent, InodesAre
        <4> QED BY <4>1, <4>2 DEF CfInv, TempApart
      <3>2. PICK torn \in {data[n], Torn} : data' = [data EXCEPT ![n] = torn]
        BY <1>4, <2>1 DEF Die, At
      <3>3. torn \in Documents
        BY <1>2, <3>1, <3>2, Texts DEF ConfigShape
      <3>4. /\ \A m \in Inodes \ {n} : data'[m] = data[m]
            /\ data' \in [Inodes -> Documents]
        BY <1>2, <3>1, <3>2, <3>3 DEF ConfigShape
      <3> QED BY <1>1, <3>1, <3>4, DataOfTemp
    <2>2. CASE command[c].step # "write"
      <3>1. data' = data
        BY <2>2 DEF Die, At
      <3> QED BY <1>1, <1>2, <3>1, ConfigsKept DEF ConfigShape
    <2> QED BY <2>1, <2>2
  <1>9. ConfigShape'
    BY <1>1, <1>2, <1>5, <1>8, ShapeKept
  <1> QED BY <1>1, <1>5, <1>6, <1>7, <1>8, <1>9, OthersRest DEF CfInv, TempApart

LEMMA EditStep ==
    ASSUME CfInv, Overlap = FALSE, NEW a \in Agents, NEW servers \in SUBSET OwnServers,
           UserEdits(a, servers)
    PROVE  CfInv'
  <1> DEFINE all == servers \cup (Servers(config[a]) \ OwnServers)
  <1>1. /\ \A c \in Commands : Ended(c)
        /\ own' = [own EXCEPT ![a] = servers]
        /\ config' = [config EXCEPT ![a] = UserInode(a)]
        /\ data' = [data EXCEPT ![UserInode(a)] = Doc(all)]
        /\ UNCHANGED <<temp, backups, command>> /\ ConfigShape
    BY DEF UserEdits, CfInv
  <1>2. all \in ServerSets /\ all \ {"royo-learn"} = servers
    BY ConfigOf, ConfigAssumption DEF ServerSets
  <1> HIDE DEF all
  <1>3. UserInode(a) \in Inodes /\ UserInode(a) # NoInode
    BY InodesAre
  <1>4. /\ config'[a] = UserInode(a) /\ \A b \in Agents \ {a} : config'[b] = config[b]
        /\ DOMAIN config' = Agents /\ config' = [b \in Agents |-> config'[b]]
        /\ own'[a] = servers /\ \A b \in Agents \ {a} : own'[b] = own[b]
        /\ own' \in [Agents -> SUBSET OwnServers]
        /\ data'[UserInode(a)] = Doc(all) /\ \A m \in Inodes \ {UserInode(a)} : data'[m] = data[m]
        /\ data' \in [Inodes -> Documents]
    BY <1>1, <1>2, <1>3, Texts DEF ConfigShape
  <1>5. ConfigShape'
    <2>1. \A b \in Agents : config'[b] \in TempInodes(b) \cup {NoInode, UserInode(b)}
      BY <1>1, <1>4 DEF ConfigShape
    <2> QED BY <1>1, <1>4, <2>1 DEF ConfigShape, AgentOf
  <1>6. ASSUME NEW d \in Commands, NEW i \in DOMAIN AllAgents, config'[AllAgents[i]] = <<d, AllAgents[i]>>
        PROVE  config[AllAgents[i]] = <<d, AllAgents[i]>>
    <2>1. PICK b \in Agents : b = AllAgents[i]
      BY AgentIndex
    <2>2. <<d, b>> # UserInode(a)
      BY InodesAre
    <2> QED BY <1>4, <1>6, <2>1, <2>2
  <1>7. FreshInodes'
    BY <1>1, <1>6, FreshStays DEF CfInv, Ahead
  <1>8. TempApart'
    BY <1>1, <1>4, OfAgent DEF CfInv, TempApart
  <1>9. ASSUME NEW b \in Agents
        PROVE  TextOf(config[b])'.kind = "doc" /\ Servers(config[b])' \ {"royo-learn"} = own'[b]
    <2>1. CASE b = a
      BY <1>2, <1>3, <1>4, <2>1, TextNow, Texts
    <2>2. CASE b # a
      <3>1. config[b] \in (Inodes \ {UserInode(a)}) \cup {NoInode}
        BY <1>1, <2>2, OfAgent
      <3>2. TextOf(config[b])' = TextOf(config[b]) /\ Servers(config[b])' = Servers(config[b])
        BY <1>4, <2>2, <3>1, TextKept
      <3> QED BY <1>4, <2>2, <3>2, ConfigOf
    <2> QED BY <2>1, <2>2
  <1>10. OwnServersKept'
    BY <1>9 DEF OwnServersKept
  <1>11. OneAtWork' /\ \A c \in Commands : Pending(c)'
    BY <1>1 DEF OneAtWork, Ended, Pending
  <1> QED BY <1>5, <1>7, <1>8, <1>10, <1>11 DEF CfInv

LEMMA CfInvStep == ASSUME Overlap = FALSE PROVE CfInv /\ [ConfigNext]_configVars => CfInv'
  <1>1. ASSUME CfInv, UNCHANGED configVars PROVE CfInv'
    <2>1. UNCHANGED <<config, temp, data, backups, own, command>>
      BY <1>1 DEF configVars
    <2>2. ConfigShape' /\ FreshInodes' /\ OneAtWork' /\ TempApart'
      BY <1>1, <2>1 DEF CfInv, ConfigShape, FreshInodes, Ahead, OneAtWork, Ended, TempApart, AgentOf
    <2>3. OwnServersKept'
      BY <1>1, <2>1, ConfigsKept
    <2>4. \A c \in Commands : Pending(c)'
      BY <1>1, <2>1 DEF CfInv, Pending, AgentOf, TextOf, Servers, Wanted
    <2> QED BY <2>2, <2>3, <2>4 DEF CfInv
  <1>2. ASSUME CfInv, ConfigNext PROVE CfInv'
    BY <1>2, StartStep, BackupStep, LoadStep, CLIStep, OpenStep, WriteStep, RenameStep,
       FailToWriteStep, AgentDiesStep, EditStep DEF ConfigNext
  <1> QED BY <1>1, <1>2

-----------------------------------------------------------------------------
(* What a step reports and replaces.                                         *)


LEMMA Royo ==
    ASSUME NEW c, NEW s
    PROVE  "royo-learn" \in Wanted(c, s) <=> command[c].job = "install"
  BY DEF Wanted

\* A command is moved by its own steps alone.
LEMMA OwnSteps ==
    ASSUME ConfigShape, ConfigNext, NEW c \in Commands, command[c].step # "idle",
           command'[c] # command[c]
    PROVE  \/ BackupConfig(c) \/ SameSecond(c) \/ LoadConfig(c) \/ RunAgentCLI(c)
           \/ OpenTemp(c) \/ WriteTemp(c) \/ RenameTemp(c) \/ FailToWrite(c) \/ Die(c)
  <1>1. DOMAIN command = Commands
    BY DEF ConfigShape
  <1>2. ASSUME NEW d \in Commands, NEW job, Start(d, job) PROVE FALSE
    BY <1>1, <1>2 DEF Start, At
  <1>3. ASSUME NEW a \in Agents, NEW servers, UserEdits(a, servers) PROVE FALSE
    BY <1>3 DEF UserEdits
  <1>4. ASSUME NEW d \in Commands, d # c,
               \/ BackupConfig(d) \/ SameSecond(d) \/ LoadConfig(d) \/ RunAgentCLI(d)
               \/ OpenTemp(d) \/ WriteTemp(d) \/ RenameTemp(d) \/ FailToWrite(d) \/ Die(d)
        PROVE  FALSE
    <2>1. \/ \E step : GoTo(d, step)
          \/ \E result : NextAgent(d, result)
          \/ command' = [command EXCEPT ![d].step = "load", ![d].unsaved = TRUE]
          \/ \E s : command' = [command EXCEPT ![d].step = "open", ![d].servers = s]
          \/ \E n : command' = [command EXCEPT ![d].step = "write", ![d].inode = n]
      BY <1>4 DEF BackupConfig, SameSecond, LoadConfig, RunAgentCLI, OpenTemp, WriteTemp, RenameTemp,
                  FailToWrite, Die
    <2> QED BY <1>1, <1>4, <2>1 DEF GoTo, NextAgent
  <1> QED BY <1>2, <1>3, <1>4 DEF ConfigNext

\* What a step of a command adds to its report.
LEMMA Reports ==
    ASSUME CfInv, ConfigNext, NEW c \in Commands, ~Ended(c),
           Len(command'[c].results) > Len(command[c].results),
           command'[c].results[Len(command'[c].results)] # "error"
    PROVE  \/ LoadConfig(c) /\ NextAgent(c, "skipped")
           \/ RunAgentCLI(c) /\ ~NextAgent(c, "error")
           \/ RenameTemp(c) /\ NextAgent(c, "changed")
  <1>1. command[c].step # "idle" /\ ConfigShape
    BY DEF Ended, CfInv
  <1>2. command[c] \in CommandStates /\ command[c].results \in Seq(Outcomes)
        /\ Len(command[c].results) \in Nat
    BY <1>1, AtWork DEF CommandStates
  <1>3. command'[c].results # command[c].results
    BY <1>2
  <1>4. ASSUME NEW step \in {"backup", "load", "open", "write", "rename", "done", "dead"}, GoTo(c, step)
        PROVE  FALSE
    BY <1>1, <1>2, <1>3, <1>4, GoToIs DEF CommandStates
  <1>5. command' # [command EXCEPT ![c].step = "load", ![c].unsaved = TRUE]
    BY <1>1, <1>2, <1>3 DEF ConfigShape, CommandStates
  <1>6. ASSUME NEW s, command' = [command EXCEPT ![c].step = "open", ![c].servers = s] PROVE FALSE
    BY <1>1, <1>2, <1>3, <1>6 DEF ConfigShape, CommandStates
  <1>7. ASSUME NEW n, command' = [command EXCEPT ![c].step = "write", ![c].inode = n] PROVE FALSE
    BY <1>1, <1>2, <1>3, <1>7 DEF ConfigShape, CommandStates
  <1>8. ~NextAgent(c, "error")
    <2> SUFFICES ASSUME NextAgent(c, "error") PROVE FALSE
      OBVIOUS
    <2>1. "error" \in Outcomes
      BY DEF Outcomes
    <2>2. command'[c].results = Append(command[c].results, "error")
      BY <1>1, <2>1, NextIs
    <2> QED BY <1>2, <2>1, <2>2
  <1>9. ~BackupConfig(c) /\ ~SameSecond(c) /\ ~OpenTemp(c) /\ ~WriteTemp(c) /\ ~Die(c) /\ ~FailToWrite(c)
    BY <1>4, <1>5, <1>7, <1>8 DEF BackupConfig, SameSecond, OpenTemp, WriteTemp, Die, FailToWrite
  <1>10. ASSUME LoadConfig(c) PROVE NextAgent(c, "skipped")
    BY <1>6, <1>8, <1>10 DEF LoadConfig
  <1>11. ASSUME RenameTemp(c) PROVE NextAgent(c, "changed")
    BY <1>8, <1>11 DEF RenameTemp
  <1> QED BY <1>1, <1>3, <1>8, <1>9, <1>10, <1>11, OwnSteps

\* What a command reports for an agent, other than an error, is so.
LEMMA ReportIsSo ==
    ASSUME CfInv, ConfigNext, NEW c \in Commands, ~Ended(c),
           Len(command'[c].results) > Len(command[c].results),
           command'[c].results[Len(command'[c].results)] # "error",
           NEW a \in Agents, a = AgentOf(c)
    PROVE  Registered(a)' = (command[c].job = "install")
  <1>1. command[c].step # "idle" /\ ConfigShape
    BY DEF Ended, CfInv
  <1> DEFINE servers == Wanted(c, Servers(config[a]))
  <1>2. Servers(config[a])' = servers
    <2>1. CASE LoadConfig(c) /\ NextAgent(c, "skipped")
      <3>1. Parses(config[a]) /\ UNCHANGED <<config, data>>
        BY <2>1, ConfigOf DEF LoadConfig
      <3>2. Wanted(c, Servers(config[a])) = Servers(config[a])
        <4> SUFFICES ASSUME Wanted(c, Servers(config[a])) # Servers(config[a]) PROVE FALSE
          OBVIOUS
        <4>1. command' = [command EXCEPT ![c].step = "open", ![c].servers = servers]
          BY <2>1, <3>1 DEF LoadConfig
        <4>2. command'[c].step = "open"
          BY <1>1, <4>1, AtWork DEF ConfigShape, CommandStates
        <4>3. "skipped" \in Outcomes
          BY DEF Outcomes
        <4>4. command'[c].step \in {"done", "backup"}
          BY <1>1, <2>1, <4>3, NextIs
        <4> QED BY <4>2, <4>4
      <3> QED BY <3>1, <3>2, TextKept
    <2>2. CASE RunAgentCLI(c) /\ ~NextAgent(c, "error")
      <3>1. CASE Wanted(c, Servers(config[a])) = Servers(config[a])
        <4>1. UNCHANGED <<config, data>>
          BY <2>2, <3>1 DEF RunAgentCLI
        <4> QED BY <3>1, <4>1, TextKept
      <3>2. CASE Wanted(c, Servers(config[a])) # Servers(config[a])
        <4>1. /\ config' = [config EXCEPT ![a] = <<c, a>>]
              /\ data' = [data EXCEPT ![<<c, a>>] = Doc(servers)]
          BY <2>2, <3>2 DEF RunAgentCLI
        <4>2. config'[a] = <<c, a>> /\ <<c, a>> # NoInode /\ data'[<<c, a>>] = Doc(servers)
          BY <1>1, <4>1, InodesAre DEF ConfigShape
        <4> HIDE DEF servers
        <4> QED BY <4>2, TextNow
      <3> QED BY <3>1, <3>2
    <2>3. CASE RenameTemp(c) /\ NextAgent(c, "changed")
      <3>1. temp[a] # NoInode /\ data[temp[a]] = Doc(servers)
        BY <2>3 DEF RenameTemp, At, CfInv, Pending
      <3>2. config'[a] = temp[a] /\ data' = data
        BY <1>1, <2>3, <3>1 DEF RenameTemp, ConfigShape
      <3> HIDE DEF servers
      <3> QED BY <3>1, <3>2, TextNow
    <2> QED BY <2>1, <2>2, <2>3, Reports
  <1>3. Registered(a)' <=> "royo-learn" \in servers
    BY <1>2 DEF Registered
  <1>4. "royo-learn" \in servers <=> command[c].job = "install"
    BY Royo
  <1>5. Registered(a)' \in BOOLEAN
    BY DEF Registered
  <1> QED BY <1>3, <1>4, <1>5, Zenon

\* Every configuration that a command replaces is in a backup, unless the backup
\* failed; it keeps what is not ours, and shows what the command reported. For any
\* agents, servers and commands that come one after the other.
THEOREM ConfigSafeCorrect == ASSUME Overlap = FALSE PROVE ConfigSpec => ConfigSafe
  <1>1. CfInv => OwnServersKept
    BY DEF CfInv
  <1>2. CfInv /\ [ConfigNext]_configVars =>
          [\A c \in Commands :
              At(c, "rename") /\ config' # config =>
                  \/ command[c].unsaved
                  \/ config[AgentOf(c)] = NoInode
                  \/ TextOf(config[AgentOf(c)]) \in backups[AgentOf(c)]]_configVars
    BY DEF CfInv, Pending, At
  <1>3. CfInv /\ [ConfigNext]_configVars =>
          [\A c \in Commands, a \in Agents :
              /\ ~Ended(c) /\ a = AgentOf(c)
              /\ Len(command'[c].results) > Len(command[c].results)
              /\ command'[c].results[Len(command'[c].results)] # "error"
              => Registered(a)' = (command[c].job = "install")]_configVars
    BY ReportIsSo
  <1>4. CfInv /\ [ConfigNext]_configVars => CfInv'
    BY CfInvStep
  <1> QED
    BY <1>1, <1>2, <1>3, <1>4, ConfigInitial, PTL
       DEF ConfigSpec, ConfigSafe, ReplacedIsSaved, SuccessMeansDone

\* What agents, commands, backups and documents are, also when commands overlap.
THEOREM ConfigTypeCorrect == ConfigSpec => []ConfigTypeOK
  <1>1. ConfigInit => ConfigShape
    BY ConfigInitial DEF CfInv
  <1> QED BY <1>1, ShapeStep, ShapeIsType, PTL DEF ConfigSpec


-----------------------------------------------------------------------------
(* The four together: a behaviour of the machine is one of each part, which  *)
(* its own steps and those of the others, that leave it at rest, make up.    *)

LEMMA SetupParts ==
    /\ SetupInit => UpdateInit /\ SkillInit /\ ConfigInit /\ MigInit
    /\ [SetupNext]_setupVars =>
          /\ [UpdateNext]_updVars /\ [SkillNext]_skillVars
          /\ [ConfigNext]_configVars /\ [MigNext]_migVars
  BY DEF SetupInit, SetupNext, setupVars

\* SetupSpec implements the specification of each of its parts but for fairness.
LEMMA SetupImplements ==
    SetupSpec => /\ UpdateInit /\ [][UpdateNext]_updVars
                 /\ SkillInit /\ [][SkillNext]_skillVars
                 /\ ConfigInit /\ [][ConfigNext]_configVars
                 /\ MigInit /\ [][MigNext]_migVars /\ MigFairness
  BY SetupParts, PTL DEF SetupSpec

\* The state of the binary, the skills, the configurations and the schema keeps
\* its shape.
THEOREM SetupTypeCorrect == SetupSpec => []SetupTypeOK
  <1>1. UInv /\ UpdateTypeOK /\ [UpdateNext]_updVars => (UInv /\ UpdateTypeOK)'
    BY UInvStep, UpdateTypeStep
  <1>2. UpdateInit => UInv /\ UpdateTypeOK
    BY UpdateInitial, UpdateTypeInitial
  <1>3. SetupSpec => []UpdateTypeOK
    BY <1>1, <1>2, SetupImplements, PTL
  <1>4. SetupSpec => []SkillTypeOK
    BY SkillTypeCorrect, SetupImplements, PTL DEF SkillSpec
  <1>5. SetupSpec => []ConfigTypeOK
    BY ConfigTypeCorrect, SetupImplements, PTL DEF ConfigSpec
  <1>6. SetupSpec => []MigTypeOK
    BY MigTypeCorrect, SetupImplements, PTL DEF MigSpec
  <1>7. UpdateTypeOK /\ SkillTypeOK /\ ConfigTypeOK /\ MigTypeOK => SetupTypeOK
    BY DEF SetupTypeOK
  <1> QED BY <1>3, <1>4, <1>5, <1>6, <1>7, PTL

\* What the checks of one machine establish on a small one: its binary survives,
\* its schema is what its builds expect, nothing but an install into a directory
\* without SKILL.md takes what the user wrote in a skill, and no configuration of
\* his is lost, as long as commands do not overlap.
THEOREM SetupCorrect ==
    /\ SetupSpec => []UpdateSafe /\ []SchemaSound /\ SkillsSafe
    /\ Overlap = FALSE => (SetupSpec => ConfigSafe)
  <1>1. SetupSpec => []UpdateSafe
    BY UpdateSafeCorrect, SetupImplements, PTL DEF UpdateSpec
  <1>2. SetupSpec => []SchemaSound
    BY SchemaCorrect, SetupImplements, PTL DEF MigSpec
  <1>3. SetupSpec => SkillsSafe
    BY SkillsSafeCorrect, SetupImplements, PTL DEF SkillSpec
  <1>4. ASSUME Overlap = FALSE PROVE SetupSpec => ConfigSafe
    BY <1>4, ConfigSafeCorrect, SetupImplements, PTL DEF ConfigSpec
  <1> QED BY <1>1, <1>2, <1>3, <1>4
=============================================================================
