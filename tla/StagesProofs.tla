---------------------------- MODULE StagesProofs ----------------------------
(***************************************************************************)
(* What is derived from events and learnings is true of them, for any      *)
(* events, learnings, queries and processes: MCStages!DerivedSound, and    *)
(* with it what the gate and the drift job promise (GateProofs), in every  *)
(* behaviour of the stages that are checked together.                      *)
(*                                                                         *)
(* Each stage has an invariant of its own. Mining's says that a mining     *)
(* under way has yet to save what it has not saved; that of Detectors,     *)
(* that times only move on; Recurrence's, that a number shown was counted  *)
(* over a prefix of the records; Relations', that the ids are 1, 2, ... in *)
(* the order of the saves; Scan's, that a command has stored what it has   *)
(* behind it, as long as nothing was written since it began. Group merges  *)
(* clusters until none should be merged: each merge leaves a cluster less, *)
(* so that it ends.                                                        *)
(***************************************************************************)
EXTENDS MCStages, GateProofs, WellFoundedInduction

-----------------------------------------------------------------------------
(* Orders. In a finite set with a strict total order every place is taken by *)
(* one member.                                                               *)

StrictOrder(R, T) ==
    /\ \A x \in T : <<x, x>> \notin R
    /\ \A x, y, z \in T : <<x, y>> \in R /\ <<y, z>> \in R => <<x, z>> \in R
    /\ \A x, y \in T : x # y => <<x, y>> \in R \/ <<y, x>> \in R

PlacesIn(R, T) == [x \in T |-> Cardinality({y \in T : <<y, x>> \in R})]

TakesAll(f, R, T) ==
    /\ \A x \in T : f[x] \in 0..(Cardinality(T) - 1)
    /\ \A n \in 0..(Cardinality(T) - 1) : \E x \in T : f[x] = n
    /\ \A x, y \in T : <<x, y>> \in R <=> f[x] < f[y]
    /\ \A x, y \in T : f[x] = f[y] => x = y

\* The number of those before a member is its place.
LEMMA PlacesTaken ==
  ASSUME NEW T, IsFiniteSet(T), NEW R, StrictOrder(R, T),
         NEW f, f = PlacesIn(R, T)
  PROVE  TakesAll(f, R, T)
<1> DEFINE Prior(x) == {y \in T : <<y, x>> \in R}
<1>1. \A x \in T : IsFiniteSet(Prior(x)) /\ f[x] = Cardinality(Prior(x)) /\ Cardinality(Prior(x)) \in Nat
  BY FS_Subset, FS_CardinalityType DEF PlacesIn
<1>2. Cardinality(T) \in Nat
  BY FS_CardinalityType
<1>3. ASSUME NEW x \in T PROVE f[x] \in 0..(Cardinality(T) - 1)
  <2>1. Prior(x) \subseteq T /\ x \notin Prior(x)
    BY DEF StrictOrder
  <2>2. Cardinality(Prior(x)) < Cardinality(T)
    <3> HIDE DEF Prior
    <3> QED BY <2>1, <1>2, FS_Subset, FS_CardinalityType
  <2> HIDE DEF Prior
  <2> QED BY <1>1, <1>2, <2>2
<1>4. ASSUME NEW x \in T, NEW y \in T, <<x, y>> \in R PROVE f[x] < f[y]
  <2>1. Prior(x) \subseteq Prior(y) /\ x \in Prior(y) /\ x \notin Prior(x)
    BY <1>4 DEF StrictOrder
  <2> HIDE DEF Prior
  <2>2. Cardinality(Prior(x)) < Cardinality(Prior(y))
    <3>1. PICK A, B : A = Prior(x) /\ B = Prior(y)
      OBVIOUS
    <3>2. IsFiniteSet(B) /\ A \subseteq B /\ A # B
      BY <2>1, <1>1, <3>1
    <3>3. /\ Cardinality(A) \in Nat /\ Cardinality(B) \in Nat
          /\ Cardinality(A) <= Cardinality(B) /\ Cardinality(A) # Cardinality(B)
      BY <3>2, FS_Subset, FS_CardinalityType
    <3> QED BY <3>1, <3>3
  <2> QED BY <2>2, <1>1
<1>5. \A x, y \in T : f[x] \in Nat /\ f[y] \in Nat
  BY <1>1
<1>6. ASSUME NEW x \in T, NEW y \in T, f[x] = f[y] PROVE x = y
  <2>1. SUFFICES ASSUME x # y PROVE FALSE
    OBVIOUS
  <2>2. <<x, y>> \in R \/ <<y, x>> \in R
    BY <2>1 DEF StrictOrder
  <2>3. f[x] < f[y] \/ f[y] < f[x]
    BY <1>4, <2>2
  <2> QED BY <1>5, <1>6, <2>3
<1>7. ASSUME NEW x \in T, NEW y \in T PROVE <<x, y>> \in R <=> f[x] < f[y]
  <2>1. CASE x = y
    BY <1>5, <2>1 DEF StrictOrder
  <2>2. CASE x # y
    <3>1. <<x, y>> \in R \/ <<y, x>> \in R
      BY <2>2 DEF StrictOrder
    <3>2. CASE <<x, y>> \in R
      BY <1>4, <3>2
    <3>3. CASE <<y, x>> \in R
      <4>1. f[y] < f[x] /\ <<x, y>> \notin R
        BY <1>4, <3>3 DEF StrictOrder
      <4> QED BY <1>5, <4>1
    <3> QED BY <3>1, <3>2, <3>3
  <2> QED BY <2>1, <2>2
<1>8. \A n \in 0..(Cardinality(T) - 1) : \E x \in T : f[x] = n
  <2>1. PICK D : D = 0..(Cardinality(T) - 1)
    OBVIOUS
  <2>2. f \in Injection(T, D)
    BY <1>3, <1>6, <2>1 DEF Injection, IsInjective, PlacesIn
  <2>3. IsFiniteSet(D) /\ Cardinality(D) = Cardinality(T)
    BY <1>2, <2>1, FS_Interval
  <2>4. f \in Surjection(T, D)
    BY <2>2, <2>3, FS_Injection
  <2> QED BY <2>1, <2>4 DEF Surjection
<1> QED BY <1>3, <1>6, <1>7, <1>8 DEF TakesAll

-----------------------------------------------------------------------------
(* Numbers                                                                  *)

\* Any numbers have a least one.
LEMMA LeastOf ==
  ASSUME NEW N, N \subseteq Nat, N # {}
  PROVE  \E n \in N : \A m \in N : n <= m
<1>1. PICK n \in N : \A m \in N : <<m, n>> \notin OpToRel(<, Nat)
  BY NatLessThanWellFounded, WFMin
<1>2. \A m \in N : ~(m < n)
  BY <1>1 DEF OpToRel
<1> QED BY <1>2

\* Which Min finds.
LEMMA MinOf ==
  ASSUME NEW N, N \subseteq Nat, N # {}
  PROVE  Min(N) \in N
<1>1. \E n \in N : \A m \in N : n <= m
  BY LeastOf
<1> QED BY <1>1 DEF Min

\* Numbers have a greatest one among finitely many.
LEMMA BoundOf ==
  ASSUME NEW n \in Nat, NEW g \in [1..n -> Nat]
  PROVE  \E m \in Nat : \A i \in 1..n : g[i] <= m
<1>1. PICK B : B = {k \in 0..n : ~ \E m \in Nat : \A i \in 1..k : g[i] <= m}
  OBVIOUS
<1>2. ASSUME B # {} PROVE FALSE
  <2>1. PICK k \in B : \A j \in B : k <= j
    <3>1. B \subseteq Nat /\ B # {}
      <4>1. \A k \in B : k \in 0..n
        BY <1>1, Zenon
      <4> QED BY <1>2, <4>1
    <3> QED BY ONLY <3>1, LeastOf
  <2>2. k \in 0..n /\ ~ \E m \in Nat : \A i \in 1..k : g[i] <= m
    BY <1>1, <2>1
  <2>3. k # 0
    <3>1. k = 0 => \A i \in 1..k : g[i] <= 0
      OBVIOUS
    <3> QED BY <2>2, <3>1
  <2>4. PICK m \in Nat : \A i \in 1..(k - 1) : g[i] <= m
    <3>1. k - 1 \in 0..n /\ k - 1 \notin B
      BY <2>1, <2>2, <2>3
    <3> QED BY <1>1, <3>1
  <2>5. g[k] \in Nat
    BY <2>2, <2>3
  <2>6. PICK w \in Nat : m <= w /\ g[k] <= w
    <3>1. m <= m + g[k] /\ g[k] <= m + g[k] /\ m + g[k] \in Nat
      BY <2>4, <2>5
    <3> QED BY <3>1
  <2>7. \A i \in 1..k : g[i] <= w
    <3>1. ASSUME NEW i \in 1..k PROVE g[i] <= w
      <4>1. CASE i = k
        BY <2>6, <4>1
      <4>2. CASE i # k
        <5>1. i \in 1..(k - 1) /\ i \in 1..n
          BY <2>2, <3>1, <4>2
        <5>2. g[i] <= m /\ g[i] \in Nat
          BY <2>4, <5>1
        <5> QED BY <2>6, <5>2
      <4> QED BY <4>1, <4>2
    <3> QED BY <3>1
  <2> QED BY <2>2, <2>7
<1>3. n \notin B
  BY <1>2
<1> QED BY <1>1, <1>3

LEMMA MaxOf ==
  ASSUME NEW n \in Nat, NEW g \in [1..n -> Nat], NEW S, S \subseteq 1..n, S # {}
  PROVE  \E k \in S : \A i \in S : g[i] <= g[k]
<1>1. PICK N : N = {m \in Nat : \A i \in S : g[i] <= m}
  OBVIOUS
<1>2. N # {}
  <2>1. PICK m \in Nat : \A i \in 1..n : g[i] <= m
    BY BoundOf
  <2> QED BY <1>1, <2>1
<1>3. PICK m \in N : \A w \in N : m <= w
  BY <1>1, <1>2, LeastOf
<1>4. m \in Nat /\ \A i \in S : g[i] <= m /\ g[i] \in Nat
  BY <1>1, <1>3
<1>5. \E k \in S : g[k] = m
  <2>1. SUFFICES ASSUME \A k \in S : g[k] # m PROVE FALSE
    OBVIOUS
  <2>2. \A k \in S : g[k] <= m - 1
    BY <1>4, <2>1
  <2>3. m - 1 \in Nat
    <3>1. PICK i \in S : TRUE
      OBVIOUS
    <3>2. g[i] \in Nat /\ g[i] <= m - 1 /\ m \in Nat
      BY <1>4, <2>2
    <3> QED BY <3>2
  <2>4. m - 1 \in N
    BY <1>1, <2>2, <2>3
  <2> QED BY <1>3, <1>4, <2>4
<1> QED BY <1>4, <1>5

-----------------------------------------------------------------------------
(* Scan: commands. *)

Phases == {"idle", "found", "healthy", "hashed", "read", "done", "failed"}

\* What a command is.
Command(r) ==
    /\ r = [phase |-> r.phase, todo |-> r.todo, asked |-> r.asked, hash |-> r.hash,
            batch |-> r.batch, status |-> r.status, all |-> r.all, since |-> r.since,
            alone |-> r.alone]
    /\ r.phase \in Phases /\ r.status \in {"ok", "degraded"} /\ r.todo \subseteq Files

\* Commands that differ in their progress alone.
SameCall(u, r) == u.all = r.all /\ u.since = r.since /\ u.alone = r.alone

LEMMA PhaseSet ==
  ASSUME NEW r, Command(r), NEW p \in Phases, NEW u, u = [r EXCEPT !.phase = p]
  PROVE  /\ Command(u) /\ SameCall(u, r) /\ u.phase = p /\ u.todo = r.todo /\ u.asked = r.asked
         /\ u.hash = r.hash /\ u.batch = r.batch /\ u.status = r.status
BY DEF Command, SameCall

LEMMA HashSet ==
  ASSUME NEW r, Command(r), NEW h, NEW u, u = [r EXCEPT !.hash = h]
  PROVE  /\ Command(u) /\ SameCall(u, r) /\ u.phase = r.phase /\ u.todo = r.todo /\ u.asked = r.asked
         /\ u.hash = h /\ u.batch = r.batch /\ u.status = r.status
BY DEF Command, SameCall

LEMMA BatchSet ==
  ASSUME NEW r, Command(r), NEW b, NEW ask, NEW u, u = [r EXCEPT !.batch = b, !.asked = ask]
  PROVE  /\ Command(u) /\ SameCall(u, r) /\ u.phase = r.phase /\ u.todo = r.todo /\ u.asked = ask
         /\ u.hash = r.hash /\ u.batch = b /\ u.status = r.status
BY DEF Command, SameCall

LEMMA StatusSet ==
  ASSUME NEW r, Command(r), NEW u, u = [r EXCEPT !.status = "degraded"]
  PROVE  /\ Command(u) /\ SameCall(u, r) /\ u.phase = r.phase /\ u.todo = r.todo /\ u.asked = r.asked
         /\ u.hash = r.hash /\ u.batch = r.batch /\ u.status = "degraded"
BY DEF Command, SameCall

LEMMA AloneSet ==
  ASSUME NEW r, Command(r), NEW b, NEW u, u = [r EXCEPT !.alone = b]
  PROVE  /\ Command(u) /\ u.all = r.all /\ u.since = r.since /\ u.alone = b
         /\ u.phase = r.phase /\ u.todo = r.todo /\ u.asked = r.asked
         /\ u.hash = r.hash /\ u.batch = r.batch /\ u.status = r.status
BY DEF Command

\* On to the next source.
LEMMA SourceNext ==
  ASSUME NEW r, Command(r), NEW u, u = NextSource(r)
  PROVE  /\ Command(u) /\ SameCall(u, r)
         /\ u.todo = r.todo \ {Min(r.todo)} /\ u.phase = IF u.todo = {} THEN "done" ELSE "found"
         /\ u.asked = r.asked /\ u.hash = 0 /\ u.batch = r.batch /\ u.status = r.status
<1>1. PICK rest : rest = r.todo \ {Min(r.todo)}
  OBVIOUS
<1>2. PICK p : p = IF rest = {} THEN "done" ELSE "found"
  OBVIOUS
<1>3. u = [r EXCEPT !.phase = p, !.todo = rest, !.hash = 0]
  BY <1>1, <1>2 DEF NextSource
<1>4. p \in Phases /\ rest \subseteq Files
  BY <1>1, <1>2 DEF Phases, Command
<1>5. /\ u.all = r.all /\ u.since = r.since /\ u.alone = r.alone
      /\ u.todo = rest /\ u.phase = p
      /\ u.asked = r.asked /\ u.hash = 0 /\ u.batch = r.batch /\ u.status = r.status
      /\ u = [phase |-> u.phase, todo |-> u.todo, asked |-> u.asked, hash |-> u.hash,
            batch |-> u.batch, status |-> u.status, all |-> u.all, since |-> u.since,
            alone |-> u.alone]
  BY <1>3 DEF Command
<1> QED BY <1>1, <1>2, <1>4, <1>5 DEF Command, SameCall

-----------------------------------------------------------------------------
(* Scan: the invariant *)

\* As long as the source is as it was hashed, what there is of the turn is a text it had.
Vouched(loc) ==
    /\ loc.file \in Files /\ loc.hash \in 0..edition[loc.file]
    /\ edition[loc.file] = loc.hash /\ TurnHits(loc) # {}
          => data[loc.file][Min(TurnHits(loc))].text \in loc.said
EnvelopeOK(e) == e.at \in Nat /\ Vouched(e.locator)

Busy(r) == r.phase \notin {"idle", "done", "failed"}
At(r) == Min(r.todo)

\* What a command has in hand.
CommandOK(r) ==
    /\ Command(r)
    /\ Busy(r) => r.todo # {}
    /\ r.phase \in {"found", "healthy", "hashed"} => r.batch = {} /\ r.asked = {}
    /\ \A e \in r.batch : EnvelopeOK(e)
    /\ \A q \in r.asked : q.at \in Nat /\ agent = "opencode"
    /\ r.phase = "hashed" => agent = "opencode"
    /\ r.phase \in {"hashed", "read"} /\ agent = "opencode" => r.hash \in 0..edition[At(r)]
    /\ r.phase # "idle" => r.since \in [Files -> Nat] /\ \A f \in Files : r.since[f] <= edition[f]

\* As long as nothing was written since it began, that is what its source shows now.
Fresh(r) == Busy(r) /\ r.since = edition =>
    /\ r.phase \in {"healthy", "hashed", "read"} => Healthy(At(r))
    /\ r.phase \in {"hashed", "read"} /\ agent = "opencode" => r.hash = edition[At(r)]
    /\ r.batch \subseteq Shows(At(r))
    /\ r.asked \subseteq OpencodeSessions(data[At(r)])

\* And the sources it has behind it are stored, if nobody worked beside it.
Whole(f) == Healthy(f) => \A e \in Shows(f) : InStore(e)
StillAsked(e, r) == \E q \in r.asked : e \in OpencodeRows(data[At(r)], q, At(r), edition[At(r)])
Progress(r) == r.since = edition /\ r.all /\ r.phase \notin {"idle", "failed"} =>
    /\ r.todo \subseteq Found /\ (r.phase = "done" => r.todo = {})
    /\ r.status = "ok" <=> \A f \in Found \ r.todo : Healthy(f)
    /\ r.alone => \A f \in Found \ r.todo : Whole(f)
    /\ r.alone /\ r.phase = "read" =>
          \A e \in Shows(At(r)) : e \in r.batch \/ InStore(e) \/ StillAsked(e, r)

CommandSound(r) == CommandOK(r) /\ Fresh(r) /\ Progress(r)

\* Who is alone is the only one at work, or all who began since see what it saw.
Apart(r, u) ==
    /\ r.alone /\ Busy(r) => ~Busy(u)
    /\ r.alone /\ r.phase = "done" /\ r.since = edition /\ Busy(u) => u.since = edition

\* A session has one source, and in it a turn one line.
DataOK == \A f \in Files :
    /\ Identified(agent, data[f])
    /\ \A i \in DOMAIN data[f] : data[f][i].session \in SessionsOf(agent, f) \cup {0}

SessionOK(x) == x.at \in Nat /\ Vouched(x.locator)

ScanInv ==
    /\ ScanTypeOK /\ DataOK
    /\ IsFun(scanner, Scanners) /\ IsFun(turns, DOMAIN turns) /\ IsFun(sessions, DOMAIN sessions)
    /\ \A s \in Scanners : \A r \in {scanner[s]} : CommandSound(r)
    /\ \A s, o \in Scanners : \A r \in {scanner[s]}, u \in {scanner[o]} : s # o => Apart(r, u)
    /\ \A i \in DOMAIN sessions : \A x \in {sessions[i]} : SessionOK(x)

SourcesStand == UNCHANGED <<agent, place, data, edition>>

\* Nothing of this changes while the sources stand.
LEMMA SameVouched ==
  ASSUME SourcesStand
  PROVE  /\ \A loc : Vouched(loc)' <=> Vouched(loc)
         /\ \A e : EnvelopeOK(e)' <=> EnvelopeOK(e)
         /\ \A x : SessionOK(x)' <=> SessionOK(x)
<1>1. \A loc : Vouched(loc)' <=> Vouched(loc)
  BY DEF SourcesStand, Vouched, TurnHits, Named, SaidInCodex
<1>2. \A e : EnvelopeOK(e)' <=> EnvelopeOK(e)
  BY <1>1 DEF EnvelopeOK
<1>3. \A x : SessionOK(x)' <=> SessionOK(x)
  BY <1>1 DEF SessionOK
<1> QED BY <1>1, <1>2, <1>3

\* Whether what a command carries is vouched for, while its sources stand.
LEMMA SameCommand ==
  ASSUME SourcesStand
  PROVE  \A r : CommandOK(r)' <=> CommandOK(r)
BY SameVouched DEF SourcesStand, CommandOK

\* While the sources stand, they show what they showed.
LEMMA SameShows ==
  ASSUME SourcesStand
  PROVE  /\ \A f : Shows(f)' = Shows(f) /\ Healthy(f)' = Healthy(f)
         /\ Found' = Found
         /\ \A r : Fresh(r)' <=> Fresh(r)
<1>1. \A f : Healthy(f)' = Healthy(f)
  BY DEF SourcesStand, Healthy, Proper
<1>2. \A f : LogScan(f)' = LogScan(f)
  BY DEF SourcesStand, LogScan
<1>3. \A f : Shows(f)' = Shows(f)
  BY <1>2 DEF SourcesStand, Shows
<1>4. \A r : Fresh(r)' <=> Fresh(r)
  BY <1>1, <1>3 DEF SourcesStand, Fresh
<1> QED BY <1>1, <1>3, <1>4 DEF SourcesStand, Found

\* Nor does a command lose what it has behind it, as long as the store stays too.
LEMMA SameProgress ==
  ASSUME SourcesStand, Kept
  PROVE  \A r : Progress(r)' <=> Progress(r)
<1>1. \A e : InStore(e)' <=> InStore(e)
  BY DEF Kept, InStore, Older
<1>2. \A f : Whole(f)' <=> Whole(f)
  BY <1>1, SameShows DEF Whole
<1>3. \A e, r : StillAsked(e, r)' <=> StillAsked(e, r)
  BY DEF SourcesStand, StillAsked
<1> QED BY <1>1, <1>2, <1>3, SameShows DEF SourcesStand, Progress

-----------------------------------------------------------------------------
(* Scan: the agents write *)

\* What an agent writes has its form.
LEMMA DataWritten ==
  ASSUME ScanInv, NEW f \in Files, AgentWrites(f)
  PROVE  DataOK' /\ data' \in [Files -> Seq(Shape(agent))] /\ \A g \in Files \ {f} : data'[g] = data[g]
<1>1. PICK l \in Lines[agent][f] : AppendLine(f, l) \/ WriteRow(f, l)
  BY DEF AgentWrites
<1>2. agent \in AgentKinds /\ l \in Shape(agent)
  BY <1>1, ScanAssumption DEF ScanInv, ScanTypeOK
<1>3. l.session \in SessionsOf(agent, f) \cup {0}
  BY <1>1 DEF SessionsOf
<1>4. PICK Sh : Sh = Shape(agent)
  OBVIOUS
<1>5. /\ data \in [Files -> Seq(Sh)] /\ agent' = agent
      /\ Identified(agent, data[f])
      /\ \A i \in DOMAIN data[f] : data[f][i].session \in SessionsOf(agent, f) \cup {0}
  BY <1>4 DEF ScanInv, ScanTypeOK, DataOK, AgentWrites
<1>6. data[f] \in Seq(Sh) /\ Len(data[f]) \in Nat /\ DOMAIN data[f] = 1..Len(data[f])
  BY <1>5
<1>7. SUFFICES \E d \in Seq(Sh) :
          /\ data' = [data EXCEPT ![f] = d] /\ Identified(agent, d)
          /\ \A i \in DOMAIN d : d[i].session \in SessionsOf(agent, f) \cup {0}
  <2>1. PICK d \in Seq(Sh) :
          /\ data' = [data EXCEPT ![f] = d] /\ Identified(agent, d)
          /\ \A i \in DOMAIN d : d[i].session \in SessionsOf(agent, f) \cup {0}
    BY <1>7
  <2>2. data' \in [Files -> Seq(Sh)] /\ data'[f] = d /\ \A g \in Files \ {f} : data'[g] = data[g]
    BY <1>5, <2>1
  <2>3. ASSUME NEW g \in Files
        PROVE  /\ Identified(agent, data'[g])
               /\ \A i \in DOMAIN data'[g] : data'[g][i].session \in SessionsOf(agent, g) \cup {0}
    BY <2>1, <2>2 DEF ScanInv, DataOK
  <2>4. \A g \in Files : \A i \in DOMAIN data'[g] : data'[g][i].session \in SessionsOf(agent, g) \cup {0}
    BY <2>3
  <2>5. DataOK'
    BY <1>5, <2>3, <2>4 DEF DataOK, Identified, SessionsOf
  <2> QED BY <1>4, <2>2, <2>5
<1>8. CASE AppendLine(f, l)
  <2>1. PICK d : d = Append(data[f], l)
    OBVIOUS
  <2>2. d \in Seq(Sh) /\ data' = [data EXCEPT ![f] = d]
    BY <1>2, <1>4, <1>5, <1>6, <1>8, <2>1 DEF AppendLine
  <2>3. /\ DOMAIN d = 1..(Len(data[f]) + 1) /\ d[Len(data[f]) + 1] = l
        /\ \A i \in DOMAIN data[f] : d[i] = data[f][i]
    BY <1>2, <1>4, <1>6, <2>1
  <2>4. Identified(agent, d)
    BY <1>5, <1>6, <1>8, <2>3, <1>2 DEF Identified, AppendLine, AgentKinds
  <2>5. \A i \in DOMAIN d : d[i].session \in SessionsOf(agent, f) \cup {0}
    <3>1. \A i \in DOMAIN d : i \in DOMAIN data[f] \/ i = Len(data[f]) + 1
      BY <1>6, <2>3
    <3> QED BY <1>3, <1>5, <2>3, <3>1
  <2> QED BY <2>2, <2>4, <2>5
<1>9. CASE WriteRow(f, l)
  <2>1. PICK row : row = [l EXCEPT !.at = edition[f] + 2]
    OBVIOUS
  <2>2. agent = "opencode" /\ l \in Message /\ Sh = Message
    BY <1>2, <1>4, <1>9 DEF WriteRow, Shape
  <2>3. edition[f] + 2 \in Nat
    BY DEF ScanInv, ScanTypeOK
  <2>4. row \in Message /\ row.turn = l.turn /\ row.session = l.session
    BY <2>1, <2>2, <2>3 DEF Message
  <2>5. CASE ~ \E i \in DOMAIN data[f] : data[f][i].turn = l.turn
    <3>1. data' = [data EXCEPT ![f] = Append(@, row)]
      BY <1>9, <2>1, <2>5 DEF WriteRow
    <3>2. PICK d : d = Append(data[f], row)
      OBVIOUS
    <3>3. d \in Seq(Sh) /\ data' = [data EXCEPT ![f] = d]
      BY <1>5, <1>6, <2>2, <2>4, <3>1, <3>2
    <3>4. /\ DOMAIN d = 1..(Len(data[f]) + 1) /\ d[Len(data[f]) + 1] = row
          /\ \A i \in DOMAIN data[f] : d[i] = data[f][i]
      BY <1>6, <2>2, <2>4, <3>2
    <3>5. Identified(agent, d)
      BY <1>5, <1>6, <2>2, <2>4, <2>5, <3>4 DEF Identified
    <3>6. \A i \in DOMAIN d : d[i].session \in SessionsOf(agent, f) \cup {0}
      <4>1. \A i \in DOMAIN d : i \in DOMAIN data[f] \/ i = Len(data[f]) + 1
        BY <1>6, <3>4
      <4> QED BY <1>3, <1>5, <2>4, <3>4, <4>1
    <3> QED BY <3>3, <3>5, <3>6
  <2>6. CASE \E i \in DOMAIN data[f] : data[f][i].turn = l.turn
    <3>1. PICK i \in DOMAIN data[f] : data[f][i].turn = l.turn /\ data' = [data EXCEPT ![f][i] = row]
      BY <1>9, <2>1, <2>6 DEF WriteRow
    <3>2. PICK d : d = [data[f] EXCEPT ![i] = row]
      OBVIOUS
    <3>3. d \in Seq(Sh) /\ data' = [data EXCEPT ![f] = d]
      BY <1>5, <1>6, <2>2, <2>4, <3>1, <3>2
    <3>4. DOMAIN d = DOMAIN data[f] /\ d[i] = row /\ \A j \in DOMAIN data[f] \ {i} : d[j] = data[f][j]
      BY <1>6, <3>1, <3>2
    <3>5. Identified(agent, d)
      BY <1>5, <2>2, <2>4, <3>1, <3>4 DEF Identified
    <3> QED BY <1>3, <1>5, <2>4, <3>3, <3>4, <3>5
  <2> QED BY <2>5, <2>6
<1> QED BY <1>1, <1>8, <1>9

\* A write is a new edition, of which no locator and no command knows.
LEMMA EditionRises ==
  ASSUME ScanInv, NEW f \in Files, edition' = [edition EXCEPT ![f] = @ + 1], agent' = agent,
         UNCHANGED <<turns, sessions, scanner, commands>>,
         \A g \in Files \ {f} : data'[g] = data[g] /\ place'[g] = place[g],
         data' \in [Files -> Seq(Shape(agent))], place' \in [Files -> Places], DataOK'
  PROVE  ScanInv'
<1>1. /\ edition' \in [Files -> Nat] /\ edition'[f] = edition[f] + 1
      /\ \A g \in Files : edition[g] \in Nat /\ edition[g] <= edition'[g]
      /\ \A g \in Files \ {f} : edition'[g] = edition[g]
  BY DEF ScanInv, ScanTypeOK
<1>2. ASSUME NEW loc, Vouched(loc) PROVE Vouched(loc)'
  <2>0. PICK g, h : g = loc.file /\ h = loc.hash
    OBVIOUS
  <2>4. g \in Files /\ h \in 0..edition[g]
    BY <1>2, <2>0 DEF Vouched
  <2>5. edition[g] \in Nat /\ edition'[g] \in Nat /\ edition[g] <= edition'[g]
    BY <1>1, <2>4
  <2>1. loc.file \in Files /\ loc.hash \in 0..edition'[loc.file]
    BY <2>0, <2>4, <2>5
  <2>2. CASE loc.file = f
    <3>0. edition'[g] = edition[g] + 1
      BY <1>1, <2>0, <2>2
    <3>1. edition'[loc.file] # loc.hash
      BY <2>0, <2>4, <2>5, <3>0
    <3> QED BY <2>1, <3>1 DEF Vouched
  <2>3. CASE loc.file # f
    <3>1. data'[loc.file] = data[loc.file] /\ edition'[loc.file] = edition[loc.file]
      BY <1>1, <2>0, <2>3, <2>4
    <3>2. TurnHits(loc)' = TurnHits(loc)
      BY <3>1 DEF TurnHits, Named, SaidInCodex
    <3> QED BY <1>2, <2>1, <3>1, <3>2 DEF Vouched
  <2> QED BY <2>2, <2>3
<1>3. ASSUME NEW r, CommandOK(r) PROVE CommandOK(r)'
  <2>1. \A e \in r.batch : EnvelopeOK(e)'
    BY <1>2, <1>3 DEF CommandOK, EnvelopeOK
  <2>2. r.phase \in {"hashed", "read"} /\ agent' = "opencode" => r.hash \in 0..edition'[At(r)]
    <3>1. r.phase \in {"hashed", "read"} => At(r) \in Files
      BY <1>3, MinOf, ScanAssumption DEF CommandOK, Command, Busy, At
    <3> QED BY <1>1, <1>3, <3>1 DEF CommandOK
  <2>3. r.phase # "idle" => r.since \in [Files -> Nat] /\ \A g \in Files : r.since[g] <= edition'[g]
    BY <1>1, <1>3 DEF CommandOK
  <2> QED BY <1>3, <2>1, <2>2, <2>3 DEF CommandOK
<1>4. ASSUME NEW r, CommandOK(r), r.phase # "idle" PROVE r.since # edition'
  BY <1>1, <1>4 DEF CommandOK
<1>5. ASSUME NEW r, CommandSound(r) PROVE CommandSound(r)'
  BY <1>3, <1>4, <1>5 DEF CommandSound, Fresh, Progress, Busy
<1>6. ASSUME NEW r, NEW u, Apart(r, u), CommandOK(r) PROVE Apart(r, u)'
  BY <1>4, <1>6 DEF Apart
<1>7. ASSUME NEW x, SessionOK(x) PROVE SessionOK(x)'
  BY <1>2, <1>7 DEF SessionOK
<1>8. ScanTypeOK'
  BY <1>1 DEF ScanInv, ScanTypeOK
<1>9. \A s, o \in Scanners : \A r \in {scanner[s]}, u \in {scanner[o]} : s # o => Apart(r, u)'
  BY <1>6 DEF ScanInv, CommandSound
<1>10. /\ \A s \in Scanners : \A r \in {scanner[s]} : CommandSound(r)'
       /\ \A i \in DOMAIN sessions : \A x \in {sessions[i]} : SessionOK(x)'
  BY <1>5, <1>7 DEF ScanInv
<1> QED BY <1>8, <1>9, <1>10 DEF ScanInv, IsFun

\* The agent writes, or a session goes: the edition rises, so nothing is fresh.
LEMMA AgentKeeps ==
  ASSUME ScanInv, NEW f \in Files, AgentWrites(f) \/ SessionRemoved(f)
  PROVE  ScanInv'
<1>1. CASE AgentWrites(f)
  BY <1>1, DataWritten, EditionRises DEF AgentWrites, ScanInv, ScanTypeOK
<1>2. CASE SessionRemoved(f)
  <2>1. /\ edition' = [edition EXCEPT ![f] = @ + 1] /\ place' = [place EXCEPT ![f] = "gone"]
        /\ UNCHANGED <<agent, data, turns, sessions, scanner, commands>>
    BY <1>2 DEF SessionRemoved
  <2>2. place' \in [Files -> Places] /\ \A g \in Files \ {f} : place'[g] = place[g]
    BY <2>1 DEF ScanInv, ScanTypeOK, Places
  <2>3. DataOK'
    BY <2>1 DEF ScanInv, DataOK
  <2>4. data' \in [Files -> Seq(Shape(agent))]
    BY <2>1 DEF ScanInv, ScanTypeOK
  <2> QED BY <2>1, <2>2, <2>3, <2>4, EditionRises
<1> QED BY <1>1, <1>2

-----------------------------------------------------------------------------
(* Scan: the commands begin and go on *)

\* A step of a command puts another record in its place.
LEMMA ScanPut ==
  ASSUME ScanInv, NEW s \in Scanners, NEW r, r = scanner[s], Busy(r),
         NEW u, CommandSound(u), SameCall(u, r), Put(s, u), SourcesKept, Kept
  PROVE  ScanInv'
<1>1. scanner' = [o \in Scanners |-> IF o = s THEN u ELSE scanner[o]]
  BY DEF ScanInv, IsFun, Put
<1>2. \A o \in Scanners : scanner'[o] = IF o = s THEN u ELSE scanner[o]
  BY <1>1
<1>3. /\ \A v : CommandSound(v)' <=> CommandSound(v)
      /\ \A x : SessionOK(x)' <=> SessionOK(x)
      /\ \A v, w : Apart(v, w)' <=> Apart(v, w)
  <2>1. \A v, w : Apart(v, w)' <=> Apart(v, w)
    BY DEF SourcesKept, Apart
  <2>2. SourcesStand
    BY DEF SourcesKept, SourcesStand
  <2> QED BY <2>1, <2>2, SameCommand, SameShows, SameProgress, SameVouched DEF CommandSound
<1>4. \A o \in Scanners : \A v \in {scanner'[o]} : CommandSound(v)'
  BY <1>2, <1>3 DEF ScanInv
<1>5. ScanTypeOK'
  <2>1. \A o \in Scanners :
          /\ scanner'[o].phase \in {"idle", "found", "healthy", "hashed", "read", "done", "failed"}
          /\ scanner'[o].status \in {"ok", "degraded"}
          /\ scanner'[o].todo \subseteq Files
    BY <1>2 DEF ScanInv, ScanTypeOK, CommandSound, CommandOK, Command, Phases
  <2> QED BY <2>1 DEF ScanInv, ScanTypeOK, SourcesKept
<1>6. DataOK' /\ IsFun(turns, DOMAIN turns)' /\ IsFun(sessions, DOMAIN sessions)'
  BY DEF ScanInv, DataOK, SourcesKept, Kept, IsFun
<1>7. ASSUME NEW o \in Scanners, NEW p \in Scanners, NEW v, v = scanner'[o], NEW w, w = scanner'[p], o # p
      PROVE  Apart(v, w)'
  <2>1. CASE o # s /\ p # s
    BY <1>2, <1>3, <1>7, <2>1 DEF ScanInv
  <2>2. CASE o = s
    <3>1. Apart(r, w) /\ v = u
      BY <1>2, <1>7, <2>2 DEF ScanInv
    <3>2. Apart(v, w)
      BY <3>1 DEF Apart, SameCall
    <3> QED BY <1>3, <3>2
  <2>3. CASE p = s
    <3>1. Apart(v, r) /\ w = u
      BY <1>2, <1>7, <2>3 DEF ScanInv
    <3>2. Apart(v, w)
      BY <3>1 DEF Apart, SameCall
    <3> QED BY <1>3, <3>2
  <2> QED BY <2>1, <2>2, <2>3
<1>8. \A o, p \in Scanners : \A v \in {scanner'[o]}, w \in {scanner'[p]} : o # p => Apart(v, w)'
  BY <1>7
<1>9. \A i \in DOMAIN sessions' : \A x \in {sessions'[i]} : SessionOK(x)'
  BY <1>3 DEF ScanInv, Kept
<1>10. IsFun(scanner, Scanners)'
  BY <1>1 DEF IsFun
<1> QED BY <1>4, <1>5, <1>6, <1>8, <1>9, <1>10 DEF ScanInv

\* A command that begins has all its sources before it.
LEMMA ScanBegin ==
  ASSUME ScanInv, NEW s \in Scanners, NEW all, NEW S, S \subseteq Files, all => S = Found, NEW refused,
         Begin(s, all, S, refused)
  PROVE  ScanInv'
<1>1. PICK p : p = IF refused THEN "failed" ELSE IF S = {} THEN "done" ELSE "found"
  OBVIOUS
<1>2. PICK on : on = (\A x \in Scanners \ {s} : ~Working(x))
  OBVIOUS
<1>3. PICK r : r = [NoCommand EXCEPT !.phase = p, !.todo = S, !.all = all, !.since = edition, !.alone = on]
  OBVIOUS
<1>4. scanner' = [o \in Scanners |-> IF o = s THEN r ELSE [scanner[o] EXCEPT !.alone = @ /\ ~Working(o)]]
  BY <1>1, <1>2, <1>3, Zenon DEF Begin
<1>5. /\ commands < MaxCommands /\ ~Working(s) /\ commands' = commands + 1
      /\ UNCHANGED <<agent, place, data, edition, turns, sessions>>
  BY DEF Begin
<1>6. SourcesStand /\ Kept
  BY <1>5 DEF SourcesStand, Kept
<1>7. PICK v : /\ v = scanner'
               /\ v[s] = r
               /\ \A o \in Scanners \ {s} : v[o] = [scanner[o] EXCEPT !.alone = @ /\ ~Working(o)]
               /\ v = [o \in Scanners |-> v[o]]
  BY <1>4
<1>8. /\ \A u : CommandSound(u)' <=> CommandSound(u)
      /\ \A x : SessionOK(x)' <=> SessionOK(x)
      /\ \A u, w : Apart(u, w)' <=> Apart(u, w)
  <2>1. \A u, w : Apart(u, w)' <=> Apart(u, w)
    BY <1>5 DEF Apart
  <2> QED BY <1>6, <2>1, SameCommand, SameShows, SameProgress, SameVouched DEF CommandSound
\* The command itself.
<1>9. /\ r.phase = p /\ r.todo = S /\ r.all = all /\ r.since = edition /\ r.alone = on
      /\ r.asked = {} /\ r.batch = {} /\ r.status = "ok" /\ r.hash = 0
      /\ Command(r)
  <2>1. p \in Phases
    BY <1>1 DEF Phases
  <2>2. PICK e : e = edition
    OBVIOUS
  <2>3. r = [NoCommand EXCEPT !.phase = p, !.todo = S, !.all = all, !.since = e, !.alone = on]
    BY <1>3, <2>2
  <2>4. /\ r.phase = p /\ r.todo = S /\ r.all = all /\ r.since = e /\ r.alone = on
        /\ r.asked = {} /\ r.batch = {} /\ r.status = "ok" /\ r.hash = 0
        /\ r = [phase |-> p, todo |-> S, asked |-> {}, hash |-> 0, batch |-> {}, status |-> "ok",
                all |-> all, since |-> e, alone |-> on]
    BY <2>3 DEF NoCommand
  <2> QED BY <2>1, <2>2, <2>4 DEF Command
<1>10. CommandSound(r)
  <2>1. CommandOK(r)
    <3>1. edition \in [Files -> Nat] /\ \A f \in Files : edition[f] <= edition[f]
      BY DEF ScanInv, ScanTypeOK
    <3> QED BY <1>1, <1>9, <3>1 DEF CommandOK, Busy
  <2>2. Fresh(r)
    BY <1>1, <1>9 DEF Fresh
  <2>3. Progress(r)
    BY <1>1, <1>9 DEF Progress
  <2> QED BY <2>1, <2>2, <2>3 DEF CommandSound
\* The others, who are alone no more.
<1>11. ASSUME NEW o \in Scanners \ {s}, NEW q, q = scanner[o], NEW u, u = v[o]
       PROVE  /\ CommandSound(u) /\ Command(u)
              /\ u.phase = q.phase /\ u.since = q.since /\ (u.alone => q.alone /\ ~Busy(q))
  <2>1. PICK b : b = (q.alone /\ ~Working(o))
    OBVIOUS
  <2>2. u = [q EXCEPT !.alone = b]
    BY <1>7, <1>11, <2>1
  <2>3. CommandOK(q) /\ Fresh(q) /\ Progress(q)
    BY <1>11 DEF ScanInv, CommandSound
  <2>4. /\ Command(u) /\ u.all = q.all /\ u.since = q.since /\ u.alone = b
        /\ u.phase = q.phase /\ u.todo = q.todo /\ u.asked = q.asked
        /\ u.hash = q.hash /\ u.batch = q.batch /\ u.status = q.status
    BY <2>2, <2>3, AloneSet DEF CommandOK
  <2>5. b => q.alone /\ ~Busy(q)
    BY <1>11, <2>1 DEF Working, Busy
  <2>6. CommandOK(u)
    BY <2>3, <2>4 DEF CommandOK, Busy, At
  <2>7. Fresh(u)
    BY <2>3, <2>4 DEF Fresh, Busy, At
  <2>8. Progress(u)
    BY <2>3, <2>4, <2>5 DEF Progress, StillAsked, At
  <2> QED BY <2>4, <2>5, <2>6, <2>7, <2>8 DEF CommandSound
<1>12. \A o \in Scanners : \A u \in {v[o]} : CommandSound(u) /\ Command(u)
  BY <1>7, <1>10, <1>9, <1>11
<1>13. ASSUME NEW o \in Scanners, NEW i \in Scanners, o # i, NEW u, u = v[o], NEW w, w = v[i]
       PROVE  Apart(u, w)
  <2>1. CASE o = s
    <3>1. u = r /\ i \in Scanners \ {s}
      BY <1>7, <1>13, <2>1
    <3>2. u.alone => ~Busy(w)
      <4>1. w.phase = scanner[i].phase
        BY <1>11, <1>13, <3>1
      <4> QED BY <1>2, <1>9, <3>1, <4>1 DEF Working, Busy
    <3> QED BY <3>2 DEF Apart
  <2>2. CASE i = s
    <3>1. w = r /\ w.since = edition /\ o \in Scanners \ {s}
      BY <1>7, <1>9, <1>13, <2>2
    <3>2. u.alone => ~Busy(u)
      <4>1. u.alone => ~Busy(scanner[o])
        BY <1>11, <1>13, <3>1
      <4>2. u.phase = scanner[o].phase
        BY <1>11, <1>13, <3>1
      <4> QED BY <4>1, <4>2 DEF Busy
    <3> QED BY <3>1, <3>2 DEF Apart
  <2>3. CASE o # s /\ i # s
    <3>1. PICK q, t : q = scanner[o] /\ t = scanner[i]
      OBVIOUS
    <3>2. Apart(q, t)
      BY <1>13, <3>1 DEF ScanInv
    <3>3. u.phase = q.phase /\ u.since = q.since /\ (u.alone => q.alone)
      BY <1>11, <1>13, <2>3, <3>1
    <3>4. w.phase = t.phase /\ w.since = t.since
      BY <1>11, <1>13, <2>3, <3>1
    <3> QED BY <3>2, <3>3, <3>4 DEF Apart, Busy
  <2> QED BY <2>1, <2>2, <2>3
<1>14. \A o \in Scanners : \A u \in {scanner'[o]} : CommandSound(u)'
  BY <1>7, <1>8, <1>12
<1>15. \A o, i \in Scanners : \A u \in {scanner'[o]}, w \in {scanner'[i]} : o # i => Apart(u, w)'
  BY <1>7, <1>8, <1>13
<1>16. ScanTypeOK'
  <2>1. commands' \in 0..MaxCommands
    BY <1>5, ScanAssumption DEF ScanInv, ScanTypeOK
  <2>2. \A o \in Scanners :
          /\ scanner'[o].phase \in {"idle", "found", "healthy", "hashed", "read", "done", "failed"}
          /\ scanner'[o].status \in {"ok", "degraded"}
          /\ scanner'[o].todo \subseteq Files
    BY <1>7, <1>12 DEF Command, Phases
  <2> QED BY <1>5, <2>1, <2>2 DEF ScanInv, ScanTypeOK
<1>17. DataOK' /\ IsFun(turns, DOMAIN turns)' /\ IsFun(sessions, DOMAIN sessions)'
  BY <1>5 DEF ScanInv, DataOK, IsFun
<1>18. \A i \in DOMAIN sessions' : \A x \in {sessions'[i]} : SessionOK(x)'
  BY <1>5, <1>8 DEF ScanInv
<1>19. IsFun(scanner, Scanners)'
  BY <1>7 DEF IsFun
<1> QED BY <1>14, <1>15, <1>16, <1>17, <1>18, <1>19 DEF ScanInv

-----------------------------------------------------------------------------
(* Scan: what a source shows *)

\* The data of a source, and what its agent and lines are.
LEMMA DataOf ==
  ASSUME ScanInv, NEW f \in Files
  PROVE  /\ agent \in AgentKinds /\ edition[f] \in Nat
         /\ data[f] \in Seq(Shape(agent)) /\ DOMAIN data[f] = 1..Len(data[f]) /\ Len(data[f]) \in Nat
         /\ \A i \in DOMAIN data[f] : data[f][i] \in Shape(agent) /\ i \in Nat
         /\ Identified(agent, data[f])
         /\ \A i \in DOMAIN data[f] : data[f][i].session \in SessionsOf(agent, f) \cup {0}
<1>1. PICK Sh : Sh = Shape(agent)
  OBVIOUS
<1>2. data \in [Files -> Seq(Sh)]
  BY <1>1 DEF ScanInv, ScanTypeOK
<1>3. data[f] \in Seq(Sh)
  BY <1>2
<1>4. DOMAIN data[f] = 1..Len(data[f]) /\ Len(data[f]) \in Nat /\ \A i \in DOMAIN data[f] : data[f][i] \in Sh /\ i \in Nat
  BY <1>3
<1> QED BY <1>1, <1>3, <1>4 DEF ScanInv, ScanTypeOK, DataOK

\* A locator vouches for its texts when, of the lines there now, those that a trace
\* would take for the turn have them.
LEMMA VouchedIf ==
  ASSUME ScanInv, NEW f \in Files, NEW h \in 0..edition[f], NEW t, NEW said,
         NEW loc, loc = [file |-> f, turn |-> t, hash |-> h, said |-> said],
         h = edition[f] => \A i \in DOMAIN data[f] : data[f][i].kind # "bad" /\ Named(data[f][i], loc)
                              => data[f][i].text \in said
  PROVE  Vouched(loc)
<1>1. PICK d : d = data[f]
  OBVIOUS
<1>2. PICK hits : hits = {i \in 1..Len(d) : d[i].kind # "bad" /\ Named(d[i], loc)}
  OBVIOUS
<1>3. DOMAIN d = 1..Len(d) /\ Len(d) \in Nat
  BY <1>1, DataOf
<1>4. loc.file = f /\ loc.hash = h /\ loc.said = said
  OBVIOUS
<1>5. TurnHits(loc) = hits
  BY <1>1, <1>2, <1>4 DEF TurnHits
<1>6. hits # {} => Min(hits) \in hits
  <2>1. hits \subseteq Nat
    BY <1>2, <1>3
  <2> QED BY ONLY <2>1, MinOf
<1>7. h = edition[f] /\ hits # {} => d[Min(hits)].text \in said
  BY <1>1, <1>2, <1>3, <1>6
<1> QED BY <1>1, <1>4, <1>5, <1>7 DEF Vouched

\* The fields of an envelope.
LEMMA EnvelopeIs ==
  ASSUME NEW s, NEW t, NEW x, NEW rev, NEW at, NEW f, NEW h, NEW said,
         NEW e, e = Envelope(s, t, x, rev, at, f, h, said)
  PROVE  /\ e.key = <<s, t>> /\ e.text = x /\ e.rev = rev /\ e.at = at
         /\ e.locator = [file |-> f, turn |-> t, hash |-> h, said |-> said]
         /\ e.key[1] = s /\ e.key[2] = t
BY DEF Envelope

\* The envelopes of a log.
LEMMA LogVouched ==
  ASSUME ScanInv, NEW f \in Files, agent # "opencode", NEW e \in LogScan(f)
  PROVE  EnvelopeOK(e)
<1>1. PICK d, h : d = data[f] /\ h = edition[f]
  OBVIOUS
<1>2. /\ h \in 0..edition[f] /\ DOMAIN d = 1..Len(d) /\ Len(d) \in Nat /\ Identified(agent, d)
      /\ \A i \in DOMAIN d : i \in Nat
  BY <1>1, DataOf
<1>3. CASE agent = "codex"
  <2>1. e \in CodexScan(d, f, h)
    BY <1>1, <1>3 DEF LogScan
  <2>2. PICK t, s, T, x : /\ x.at \in DOMAIN d
                          /\ e = CodexEnvelope(s, t, x, f, h, CodexSaid(d, t))
    BY <2>1 DEF CodexScan
  <2>3. PICK loc : loc = [file |-> f, turn |-> t, hash |-> h, said |-> CodexSaid(d, t)]
    OBVIOUS
  <2>4. e.at = x.at /\ e.locator = loc
    BY <2>2, <2>3, EnvelopeIs DEF CodexEnvelope
  <2>5. \A i \in DOMAIN d : d[i].kind # "bad" /\ Named(d[i], loc) => d[i].text \in CodexSaid(d, t)
    BY <1>3, <2>3 DEF Named, SaidInCodex, CodexSaid
  <2>6. Vouched(loc)
    BY <1>1, <1>2, <2>3, <2>5, VouchedIf
  <2> QED BY <1>2, <2>2, <2>4, <2>6 DEF EnvelopeOK
<1>4. CASE agent = "claude_code"
  <2>1. e \in ClaudeScan(d, f, h)
    BY <1>1, <1>4 DEF LogScan
  <2>2. PICK i \in ClaudeLines(d) : e = ClaudeEnvelope(d[i], i, f, h)
    BY <2>1 DEF ClaudeScan
  <2>3. PICK loc : loc = [file |-> f, turn |-> d[i].turn, hash |-> h, said |-> {d[i].text}]
    OBVIOUS
  <2>4. e.at = i /\ e.locator = loc
    BY <2>2, <2>3, EnvelopeIs DEF ClaudeEnvelope
  <2>5. i \in DOMAIN d /\ d[i].turn # 0
    BY <2>2 DEF ClaudeLines
  <2>6. \A j \in DOMAIN d : Named(d[j], loc) => j = i
    BY <1>2, <1>4, <2>3, <2>5 DEF Named, Identified
  <2>8. PICK said : said = {d[i].text}
    OBVIOUS
  <2>9. \A j \in DOMAIN d : d[j].kind # "bad" /\ Named(d[j], loc) => d[j].text \in said
    BY <2>6, <2>8
  <2>7. Vouched(loc)
    BY <1>1, <1>2, <2>3, <2>8, <2>9, VouchedIf
  <2> QED BY <1>2, <2>4, <2>5, <2>7 DEF EnvelopeOK
<1> QED BY <1>3, <1>4, DataOf DEF AgentKinds

\* And those of a database, whose hash may be older than its rows.
LEMMA RowsVouched ==
  ASSUME ScanInv, NEW f \in Files, agent = "opencode", NEW h \in 0..edition[f],
         NEW q, q.at \in Nat, NEW e \in OpencodeRows(data[f], q, f, h)
  PROVE  EnvelopeOK(e)
<1>1. PICK d : d = data[f]
  OBVIOUS
<1>2. Identified(agent, d)
  BY <1>1, DataOf
<1>3. PICK i \in DOMAIN d : e = OpencodeEnvelope(q, d[i], f, h)
  BY <1>1 DEF OpencodeRows
<1>4. PICK loc : loc = [file |-> f, turn |-> d[i].turn, hash |-> h, said |-> {d[i].text}]
  OBVIOUS
<1>5. e.at = q.at /\ e.locator = loc
  <2>1. PICK rev : rev = IF d[i].revision = 0 THEN <<"row">> ELSE <<"revision", d[i].revision>>
    OBVIOUS
  <2>2. e = Envelope(q.id, d[i].turn, d[i].text, rev, q.at, f, h, {d[i].text})
    BY <1>3, <2>1 DEF OpencodeEnvelope
  <2> QED BY <1>4, <2>2 DEF Envelope
<1>6. \A j \in DOMAIN d : Named(d[j], loc) => j = i
  BY <1>2, <1>4 DEF Named, Identified
<1>8. PICK said : said = {d[i].text}
  OBVIOUS
<1>9. \A j \in DOMAIN d : d[j].kind # "bad" /\ Named(d[j], loc) => d[j].text \in said
  BY <1>6, <1>8
<1>7. Vouched(loc)
  BY <1>1, <1>4, <1>8, <1>9, VouchedIf
<1> QED BY <1>5, <1>7 DEF EnvelopeOK

\* A session was active when its last row was written.
LEMMA AskedOf ==
  ASSUME ScanInv, NEW f \in Files, agent = "opencode", NEW q \in OpencodeSessions(data[f])
  PROVE  /\ q.at \in Nat
         /\ q = [id |-> q.id, at |-> q.at]
         /\ \E k \in DOMAIN data[f] : /\ data[f][k].session = q.id /\ data[f][k].at = q.at
                                       /\ \A j \in DOMAIN data[f] : data[f][j].session = q.id => data[f][j].at <= q.at
<1>1. PICK d : d = data[f]
  OBVIOUS
<1>2. PICK k \in DOMAIN d : /\ q = [id |-> d[k].session, at |-> d[k].at]
                            /\ \A j \in DOMAIN d : d[j].session = d[k].session => d[j].at <= d[k].at
  BY <1>1 DEF OpencodeSessions
<1>3. d[k] \in Message
  BY <1>1, DataOf DEF Shape
<1>4. d[k].at \in Nat
  BY <1>3 DEF Message
<1> QED BY <1>1, <1>2, <1>4

-----------------------------------------------------------------------------
(* Scan: the steps of reading *)

\* The source a command is at.
LEMMA AtSource ==
  ASSUME NEW r, CommandOK(r), Busy(r)
  PROVE  At(r) \in r.todo /\ At(r) \in Files
<1>1. r.todo # {} /\ r.todo \subseteq Files /\ r.todo \subseteq Nat
  BY ScanAssumption DEF CommandOK, Command
<1> QED BY <1>1, MinOf DEF At

\* On to the next source, when this one is done with.
LEMMA NextSound ==
  ASSUME ScanInv, NEW r, CommandOK(r), Busy(r), r.batch = {}, r.asked = {},
         r.since = edition /\ r.all =>
            /\ r.todo \subseteq Found
            /\ r.status = "ok" <=> \A f \in (Found \ r.todo) \cup {At(r)} : Healthy(f)
            /\ r.alone => \A f \in (Found \ r.todo) \cup {At(r)} : Whole(f),
         NEW u, u = NextSource(r)
  PROVE  CommandSound(u) /\ SameCall(u, r)
<1>1. Command(r) /\ At(r) \in r.todo
  BY AtSource DEF CommandOK
<1>2. /\ Command(u) /\ SameCall(u, r)
      /\ u.todo = r.todo \ {At(r)} /\ u.phase = IF u.todo = {} THEN "done" ELSE "found"
      /\ u.asked = {} /\ u.hash = 0 /\ u.batch = {} /\ u.status = r.status
  BY <1>1, SourceNext DEF At
<1>3. CommandOK(u)
  BY <1>2 DEF CommandOK, Busy, SameCall
<1>4. Fresh(u)
  BY <1>2 DEF Fresh
<1>5. Progress(u)
  <2>1. SUFFICES ASSUME u.since = edition, u.all
                 PROVE  /\ u.todo \subseteq Found /\ (u.phase = "done" => u.todo = {})
                        /\ u.status = "ok" <=> \A f \in Found \ u.todo : Healthy(f)
                        /\ u.alone => \A f \in Found \ u.todo : Whole(f)
                        /\ u.phase # "read"
    BY DEF Progress
  <2>2. r.todo \subseteq Found /\ r.since = edition /\ r.all /\ u.alone = r.alone
    BY <1>2, <2>1 DEF SameCall
  <2>3. Found \ u.todo = (Found \ r.todo) \cup {At(r)}
    BY <1>1, <1>2, <2>2
  <2> QED BY <1>2, <2>2, <2>3
<1> QED BY <1>2, <1>3, <1>4, <1>5 DEF CommandSound

\* A source that is not healthy is passed over.
LEMMA SkippedSound ==
  ASSUME ScanInv, NEW s \in Scanners, NEW r, r = scanner[s], CommandSound(r), Busy(r),
         r.phase # "read", ~Healthy(At(r)),
         NEW u, u = Skipped(s)
  PROVE  CommandSound(u) /\ SameCall(u, r)
<1>1. PICK v : v = [r EXCEPT !.status = "degraded"]
  OBVIOUS
<1>2. Command(r) /\ r.batch = {} /\ r.asked = {} /\ CommandOK(r) /\ Progress(r)
  BY DEF CommandSound, CommandOK, Command, Busy, Phases
<1>3. /\ Command(v) /\ SameCall(v, r) /\ v.phase = r.phase /\ v.todo = r.todo /\ v.asked = r.asked
      /\ v.hash = r.hash /\ v.batch = r.batch /\ v.status = "degraded"
  BY <1>1, <1>2, StatusSet
<1>4. CommandOK(v) /\ Busy(v) /\ At(v) = At(r)
  BY <1>2, <1>3 DEF CommandOK, Busy, At, SameCall
<1>5. v.since = edition /\ v.all =>
            /\ v.todo \subseteq Found
            /\ v.status = "ok" <=> \A f \in (Found \ v.todo) \cup {At(v)} : Healthy(f)
            /\ v.alone => \A f \in (Found \ v.todo) \cup {At(v)} : Whole(f)
  BY <1>2, <1>3, <1>4 DEF Progress, Whole, Busy, SameCall
<1>6. u = NextSource(v)
  BY <1>1 DEF Skipped
<1>7. CommandSound(u) /\ SameCall(u, v)
  BY <1>2, <1>3, <1>4, <1>5, <1>6, NextSound
<1> QED BY <1>3, <1>7 DEF SameCall

\* So is one of which nothing is left to hand over.
LEMMA BatchSound ==
  ASSUME ScanInv, NEW r, CommandSound(r), r.phase = "read", NEW u, u = WithBatch(r)
  PROVE  CommandSound(u) /\ SameCall(u, r)
<1>1. CASE r.batch = {} /\ r.asked = {}
  <2>1. u = NextSource(r) /\ Busy(r) /\ CommandOK(r)
    BY <1>1 DEF WithBatch, Busy, CommandSound
  <2>2. r.since = edition /\ r.all =>
            /\ r.todo \subseteq Found
            /\ r.status = "ok" <=> \A f \in (Found \ r.todo) \cup {At(r)} : Healthy(f)
            /\ r.alone => \A f \in (Found \ r.todo) \cup {At(r)} : Whole(f)
    <3>1. r.since = edition => Healthy(At(r))
      BY <2>1 DEF CommandSound, Fresh
    <3>2. r.since = edition /\ r.all /\ r.alone => Whole(At(r))
      BY <1>1 DEF CommandSound, Progress, Whole, StillAsked
    <3> QED BY <3>1, <3>2 DEF CommandSound, Progress
  <2> QED BY <1>1, <2>1, <2>2, NextSound
<1>2. CASE ~(r.batch = {} /\ r.asked = {})
  BY <1>2 DEF WithBatch, SameCall
<1> QED BY <1>1, <1>2

\* What ends a command leaves it sound.
LEMMA FailedSound ==
  ASSUME NEW r, CommandSound(r), Busy(r), NEW u, u = [r EXCEPT !.phase = "failed"]
  PROVE  CommandSound(u) /\ SameCall(u, r)
<1>1. /\ Command(u) /\ SameCall(u, r) /\ u.phase = "failed" /\ u.todo = r.todo /\ u.asked = r.asked
      /\ u.hash = r.hash /\ u.batch = r.batch /\ u.status = r.status
  BY PhaseSet DEF CommandSound, CommandOK, Phases
<1>2. CommandOK(u)
  BY <1>1 DEF CommandSound, CommandOK, Busy, SameCall
<1> QED BY <1>1, <1>2 DEF CommandSound, Fresh, Progress, Busy

\* The command of a step, and what is known of it.
LEMMA CommandOf ==
  ASSUME ScanInv, NEW s \in Scanners, NEW r, r = scanner[s]
  PROVE  CommandSound(r) /\ CommandOK(r) /\ Command(r) /\ Fresh(r) /\ Progress(r)
BY DEF ScanInv, CommandSound, CommandOK

\* The health check of a source: it is passed over, or read.
LEMMA HealthKeeps ==
  ASSUME ScanInv, NEW s \in Scanners, Health(s)
  PROVE  ScanInv'
<1>1. PICK r : r = scanner[s]
  OBVIOUS
<1>2. r.phase = "found" /\ Busy(r) /\ Source(s) = At(r) /\ SourcesKept /\ Kept
  BY <1>1 DEF Health, Busy, Source, At
<1>3. CommandSound(r) /\ CommandOK(r) /\ Command(r) /\ Fresh(r) /\ Progress(r)
  BY <1>1, CommandOf
<1>4. CASE Healthy(At(r))
  <2>1. PICK u : u = [r EXCEPT !.phase = "healthy"]
    OBVIOUS
  <2>2. Put(s, u)
    BY <1>1, <1>2, <1>4, <2>1 DEF Health, To
  <2>3. /\ Command(u) /\ SameCall(u, r) /\ u.phase = "healthy" /\ u.todo = r.todo /\ u.asked = r.asked
        /\ u.hash = r.hash /\ u.batch = r.batch /\ u.status = r.status
    BY <1>3, <2>1, PhaseSet DEF Phases
  <2>4. CommandOK(u)
    BY <1>2, <1>3, <2>3 DEF CommandOK, Busy, SameCall
  <2>5. Fresh(u)
    BY <1>2, <1>3, <1>4, <2>3 DEF Fresh, Busy, SameCall, At
  <2>6. Progress(u)
    BY <1>2, <1>3, <2>3 DEF Progress, SameCall
  <2> QED BY <1>1, <1>2, <2>2, <2>3, <2>4, <2>5, <2>6, ScanPut DEF CommandSound
<1>5. CASE ~Healthy(At(r))
  <2>1. PICK u : u = Skipped(s)
    OBVIOUS
  <2>2. Put(s, u)
    BY <1>2, <1>5, <2>1 DEF Health
  <2>3. CommandSound(u) /\ SameCall(u, r)
    BY <1>1, <1>2, <1>3, <1>5, <2>1, SkippedSound
  <2> QED BY <1>1, <1>2, <2>2, <2>3, ScanPut
<1> QED BY <1>4, <1>5

\* The lines of a log are read: what is read is what the log shows.
LEMMA ReadKeeps ==
  ASSUME ScanInv, NEW s \in Scanners, ReadLines(s)
  PROVE  ScanInv'
<1>1. PICK r : r = scanner[s]
  OBVIOUS
<1>2. r.phase = "healthy" /\ Busy(r) /\ Source(s) = At(r) /\ SourcesKept /\ Kept /\ agent # "opencode"
  BY <1>1 DEF ReadLines, Busy, Source, At
<1>3. CommandSound(r) /\ CommandOK(r) /\ Command(r) /\ Fresh(r) /\ Progress(r)
  BY <1>1, CommandOf
<1>4. PICK f : f = At(r)
  OBVIOUS
<1>5. f \in Files
  BY <1>2, <1>3, <1>4, AtSource
<1>6. CASE place[f] = "gone" \/ TooLong(f)
  <2>1. PICK u : u = [r EXCEPT !.phase = "failed"]
    OBVIOUS
  <2>2. Put(s, u)
    BY <1>1, <1>2, <1>4, <1>6, <2>1 DEF ReadLines, To
  <2> QED BY <1>1, <1>2, <1>3, <2>1, <2>2, FailedSound, ScanPut
<1>7. CASE ~(place[f] = "gone" \/ TooLong(f))
  <2>1. PICK v, w, u, b : b = LogScan(f) /\ w = [r EXCEPT !.phase = "read"] /\ v = [w EXCEPT !.batch = b] /\ u = WithBatch(v)
    OBVIOUS
  <2>2. Put(s, u)
    BY <1>1, <1>2, <1>4, <1>7, <2>1 DEF ReadLines, To
  <2>3. /\ Command(w) /\ SameCall(w, r) /\ w.phase = "read" /\ w.todo = r.todo /\ w.asked = {}
        /\ w.hash = r.hash /\ w.status = r.status
    BY <1>2, <1>3, <2>1, PhaseSet DEF Phases, CommandOK
  <2>4. /\ Command(v) /\ SameCall(v, r) /\ v.phase = "read" /\ v.todo = r.todo /\ v.asked = {}
        /\ v.hash = r.hash /\ v.batch = b /\ v.status = r.status /\ At(v) = f
    BY <1>4, <2>1, <2>3 DEF Command, SameCall, At
  <2>5. CommandOK(v)
    <3>1. \A e \in b : EnvelopeOK(e)
      BY <1>2, <1>5, <2>1, LogVouched
    <3> QED BY <1>2, <1>3, <2>4, <3>1 DEF CommandOK, Busy, SameCall
  <2>6. Shows(f) = b
    BY <1>2, <2>1 DEF Shows
  <2>7. Fresh(v)
    BY <1>2, <1>3, <1>4, <2>4, <2>6 DEF Fresh, Busy, SameCall
  <2>8. Progress(v)
    BY <1>2, <1>3, <2>4, <2>6 DEF Progress, SameCall
  <2>9. CommandSound(u) /\ SameCall(u, v)
    BY <2>1, <2>4, <2>5, <2>7, <2>8, BatchSound DEF CommandSound
  <2> QED BY <1>1, <1>2, <2>2, <2>4, <2>9, ScanPut DEF SameCall
<1> QED BY <1>6, <1>7

\* The hash of a database is taken before its sessions are asked for.
LEMMA HashKeeps ==
  ASSUME ScanInv, NEW s \in Scanners, HashDatabase(s)
  PROVE  ScanInv'
<1>1. PICK r : r = scanner[s]
  OBVIOUS
<1>2. r.phase = "healthy" /\ Busy(r) /\ Source(s) = At(r) /\ SourcesKept /\ Kept /\ agent = "opencode"
  BY <1>1 DEF HashDatabase, Busy, Source, At
<1>3. CommandSound(r) /\ CommandOK(r) /\ Command(r) /\ Fresh(r) /\ Progress(r)
  BY <1>1, CommandOf
<1>4. CASE place[At(r)] = "gone"
  <2>1. PICK u : u = Skipped(s)
    OBVIOUS
  <2>2. Put(s, u) /\ ~Healthy(At(r))
    BY <1>2, <1>4, <2>1 DEF HashDatabase, Healthy
  <2> QED BY <1>1, <1>2, <1>3, <2>1, <2>2, SkippedSound, ScanPut
<1>5. CASE place[At(r)] # "gone"
  <2>1. PICK h, v, u : h = edition[At(r)] /\ v = [r EXCEPT !.phase = "hashed"] /\ u = [v EXCEPT !.hash = h]
    OBVIOUS
  <2>2. Put(s, u)
    BY <1>1, <1>2, <1>5, <2>1 DEF HashDatabase, To
  <2>3. /\ Command(v) /\ SameCall(v, r) /\ v.phase = "hashed" /\ v.todo = r.todo /\ v.asked = r.asked
        /\ v.batch = r.batch /\ v.status = r.status
    BY <1>3, <2>1, PhaseSet DEF Phases
  <2>4. /\ Command(u) /\ SameCall(u, v) /\ u.phase = "hashed" /\ u.todo = r.todo /\ u.asked = r.asked
        /\ u.hash = h /\ u.batch = r.batch /\ u.status = r.status
    BY <2>1, <2>3 DEF Command, SameCall, Phases
  <2>5. CommandOK(u)
    <3>1. h \in Nat /\ h \in 0..h
      BY <1>2, <1>3, <2>1, AtSource DEF ScanInv, ScanTypeOK
    <3> QED BY <1>2, <1>3, <2>1, <2>3, <2>4, <3>1 DEF CommandOK, Busy, SameCall, At
  <2>6. Fresh(u)
    BY <1>2, <1>3, <2>1, <2>3, <2>4 DEF Fresh, Busy, SameCall, At
  <2>7. Progress(u)
    BY <1>2, <1>3, <2>3, <2>4 DEF Progress, SameCall
  <2>8. SameCall(u, r)
    BY <2>3, <2>4 DEF SameCall
  <2> QED BY <1>1, <1>2, <2>2, <2>5, <2>6, <2>7, <2>8, ScanPut DEF CommandSound
<1> QED BY <1>4, <1>5

\* The sessions of a database are asked for.
LEMMA SessionsKeep ==
  ASSUME ScanInv, NEW s \in Scanners, AskSessions(s)
  PROVE  ScanInv'
<1>1. PICK r : r = scanner[s]
  OBVIOUS
<1>2. r.phase = "hashed" /\ Busy(r) /\ Source(s) = At(r) /\ SourcesKept /\ Kept
  BY <1>1 DEF AskSessions, Busy, Source, At
<1>3. CommandSound(r) /\ CommandOK(r) /\ Command(r) /\ Fresh(r) /\ Progress(r)
  BY <1>1, CommandOf
<1>4. agent = "opencode" /\ At(r) \in Files
  BY <1>2, <1>3, AtSource DEF CommandOK
<1>5. CASE place[At(r)] = "gone"
  <2>1. PICK u : u = Skipped(s)
    OBVIOUS
  <2>2. Put(s, u) /\ ~Healthy(At(r))
    BY <1>2, <1>5, <2>1 DEF AskSessions, Healthy
  <2> QED BY <1>1, <1>2, <1>3, <2>1, <2>2, SkippedSound, ScanPut
<1>6. CASE place[At(r)] # "gone"
  <2>1. PICK S, w, v, u : /\ S = OpencodeSessions(data[At(r)]) /\ w = [r EXCEPT !.phase = "read"]
                          /\ v = [w EXCEPT !.asked = S] /\ u = WithBatch(v)
    OBVIOUS
  <2>2. Put(s, u)
    BY <1>1, <1>2, <1>6, <2>1 DEF AskSessions, To
  <2>3. /\ Command(w) /\ SameCall(w, r) /\ w.phase = "read" /\ w.todo = r.todo /\ w.batch = {}
        /\ w.hash = r.hash /\ w.status = r.status
    BY <1>2, <1>3, <2>1, PhaseSet DEF Phases, CommandOK
  <2>4. /\ Command(v) /\ SameCall(v, r) /\ v.phase = "read" /\ v.todo = r.todo /\ v.asked = S
        /\ v.hash = r.hash /\ v.batch = {} /\ v.status = r.status /\ At(v) = At(r)
    BY <2>1, <2>3 DEF Command, SameCall, At
  <2>5. CommandOK(v)
    <3>1. \A q \in S : q.at \in Nat
      BY <1>4, <2>1, AskedOf
    <3> QED BY <1>2, <1>3, <1>4, <2>4, <3>1 DEF CommandOK, Busy, SameCall
  <2>6. Fresh(v)
    BY <1>2, <1>3, <2>1, <2>4 DEF Fresh, Busy, SameCall
  <2>7. \A e \in Shows(At(v)) : StillAsked(e, v)
    BY <1>4, <2>1, <2>4 DEF Shows, StillAsked
  <2>8. Progress(v)
    BY <1>2, <1>3, <2>4, <2>7 DEF Progress, SameCall
  <2>9. CommandSound(u) /\ SameCall(u, v)
    BY <2>1, <2>4, <2>5, <2>6, <2>8, BatchSound DEF CommandSound
  <2> QED BY <1>1, <1>2, <2>2, <2>4, <2>9, ScanPut DEF SameCall
<1> QED BY <1>5, <1>6

\* The rows of one session are asked for, and added to the batch.
LEMMA RowsKeep ==
  ASSUME ScanInv, NEW s \in Scanners, AskRows(s)
  PROVE  ScanInv'
<1>1. PICK r, f : r = scanner[s] /\ f = At(r)
  OBVIOUS
<1>2. r.phase = "read" /\ Busy(r) /\ Source(s) = f /\ SourcesKept /\ Kept
  BY <1>1 DEF AskRows, Busy, Source, At
<1>3. CommandSound(r) /\ CommandOK(r) /\ Command(r) /\ Fresh(r) /\ Progress(r)
  BY <1>1, CommandOf
<1>4. PICK q \in r.asked :
        Put(s, WithBatch([r EXCEPT !.batch = @ \cup OpencodeRows(data[f], q, f, r.hash), !.asked = @ \ {q}]))
  BY <1>1, <1>2 DEF AskRows, FirstById
<1>5. q.at \in Nat /\ agent = "opencode" /\ f \in Files /\ r.hash \in 0..edition[f]
  BY <1>1, <1>2, <1>3, <1>4, AtSource DEF CommandOK
<1>6. PICK E, b, ask, v, u : /\ E = OpencodeRows(data[f], q, f, r.hash) /\ b = r.batch \cup E /\ ask = r.asked \ {q}
                        /\ v = [r EXCEPT !.batch = b, !.asked = ask] /\ u = WithBatch(v)
  OBVIOUS
<1>7. Put(s, u)
  BY <1>4, <1>6
<1>8. /\ Command(v) /\ SameCall(v, r) /\ v.phase = "read" /\ v.todo = r.todo /\ v.asked = ask
      /\ v.hash = r.hash /\ v.batch = b /\ v.status = r.status /\ At(v) = f
  <2>1. /\ v.all = r.all /\ v.since = r.since /\ v.alone = r.alone /\ v.phase = r.phase /\ v.todo = r.todo
        /\ v.asked = ask /\ v.hash = r.hash /\ v.batch = b /\ v.status = r.status
        /\ v = [phase |-> v.phase, todo |-> v.todo, asked |-> v.asked, hash |-> v.hash,
                batch |-> v.batch, status |-> v.status, all |-> v.all, since |-> v.since, alone |-> v.alone]
    BY <1>3, <1>6 DEF Command
  <2>2. Command(v)
    BY <1>3, <2>1 DEF Command
  <2> QED BY <1>1, <1>2, <2>1, <2>2 DEF At, SameCall
<1>9. \A e \in E : EnvelopeOK(e)
  BY <1>5, <1>6, RowsVouched
<1>10. CommandOK(v)
  BY <1>1, <1>2, <1>3, <1>6, <1>8, <1>9 DEF CommandOK, Busy, SameCall
<1>11. r.since = edition => E = OpencodeRows(data[f], q, f, edition[f]) /\ E \subseteq Shows(f)
  <2>1. SUFFICES ASSUME r.since = edition PROVE E = OpencodeRows(data[f], q, f, edition[f]) /\ E \subseteq Shows(f)
    OBVIOUS
  <2>2. r.hash = edition[f] /\ q \in OpencodeSessions(data[f])
    BY <1>1, <1>2, <1>3, <1>4, <1>5, <2>1 DEF Fresh
  <2> QED BY <1>5, <1>6, <2>2 DEF Shows
<1>12. Fresh(v)
  BY <1>1, <1>2, <1>3, <1>6, <1>8, <1>11 DEF Fresh, Busy, SameCall
<1>13. ASSUME r.since = edition, NEW e, StillAsked(e, r) PROVE e \in b \/ StillAsked(e, v)
  BY <1>1, <1>6, <1>8, <1>11, <1>13 DEF StillAsked
<1>14. Progress(v)
  BY <1>1, <1>2, <1>3, <1>6, <1>8, <1>13 DEF Progress, SameCall
<1>15. CommandSound(u) /\ SameCall(u, v)
  BY <1>6, <1>8, <1>10, <1>12, <1>14, BatchSound DEF CommandSound
<1> QED BY <1>1, <1>2, <1>7, <1>8, <1>15, ScanPut DEF SameCall

-----------------------------------------------------------------------------
(* Scan: one envelope for a turn *)

\* Equal pairs have equal parts.
LEMMA PairsEqual ==
  ASSUME NEW w, NEW b, NEW c, NEW z, <<w, b>> = <<c, z>>
  PROVE  w = c /\ b = z
<1>1. <<w, b>>[1] = w /\ <<c, z>>[1] = c /\ <<w, b>>[2] = b /\ <<c, z>>[2] = z
  OBVIOUS
<1> QED BY <1>1

\* The session of what a source shows is kept there, and its turn once.
LEMMA LogKeys ==
  ASSUME ScanInv, NEW f \in Files, agent # "opencode"
  PROVE  /\ \A e \in LogScan(f) : e.key[1] \in SessionsOf(agent, f)
         /\ \A e, o \in LogScan(f) : e.key = o.key => e = o
<1>1. PICK d, h : d = data[f] /\ h = edition[f]
  OBVIOUS
<1>2. /\ Identified(agent, d)
      /\ \A i \in DOMAIN d : i \in Nat /\ d[i].session \in SessionsOf(agent, f) \cup {0}
  BY <1>1, DataOf
<1>3. CASE agent = "codex"
  <2>1. PICK T, M : T = CodexTurns(d) /\ M = CodexMetas(d)
    OBVIOUS
  <2>2. PICK s : s = d[Min(M)].session
    OBVIOUS
  <2>3. ASSUME NEW e \in LogScan(f)
        PROVE  \E t : M # {} /\ e = CodexEnvelope(s, t, T[t], f, h, CodexSaid(d, t))
    BY <1>1, <1>3, <2>1, <2>2, <2>3 DEF LogScan, CodexScan
  <2>4. M # {} => s \in SessionsOf(agent, f)
    <3>1. M # {} => Min(M) \in M
      BY <1>2, <2>1, MinOf DEF CodexMetas
    <3> QED BY <1>2, <2>1, <2>2, <3>1 DEF CodexMetas
  <2>5. ASSUME NEW t PROVE CodexEnvelope(s, t, T[t], f, h, CodexSaid(d, t)).key = <<s, t>>
    BY DEF CodexEnvelope, Envelope
  <2>6. ASSUME NEW e \in LogScan(f) PROVE e.key[1] \in SessionsOf(agent, f)
    <3>1. PICK t : M # {} /\ e = CodexEnvelope(s, t, T[t], f, h, CodexSaid(d, t))
      BY <2>3
    <3>2. e.key = <<s, t>>
      BY <2>5, <3>1
    <3> QED BY <2>4, <3>1, <3>2
  <2>7. ASSUME NEW e \in LogScan(f), NEW o \in LogScan(f), e.key = o.key PROVE e = o
    <3>1. PICK t : e = CodexEnvelope(s, t, T[t], f, h, CodexSaid(d, t))
      BY <2>3
    <3>2. PICK w : o = CodexEnvelope(s, w, T[w], f, h, CodexSaid(d, w))
      BY <2>3
    <3>3. e.key = <<s, t>> /\ o.key = <<s, w>>
      BY <2>5, <3>1, <3>2
    <3>4. t = w
      BY <2>7, <3>3, PairsEqual
    <3> QED BY <3>1, <3>2, <3>4
  <2> QED BY <2>6, <2>7
<1>4. CASE agent = "claude_code"
  <2>1. ASSUME NEW e \in LogScan(f)
        PROVE  \E i \in ClaudeLines(d) : e = ClaudeEnvelope(d[i], i, f, h)
    BY <1>1, <1>4, <2>1 DEF LogScan, ClaudeScan
  <2>2. ASSUME NEW i PROVE ClaudeEnvelope(d[i], i, f, h).key = <<d[i].session, d[i].turn>>
    BY DEF ClaudeEnvelope, Envelope
  <2>3. ASSUME NEW i \in ClaudeLines(d) PROVE i \in DOMAIN d /\ d[i].turn # 0 /\ d[i].session # 0
    BY DEF ClaudeLines
  <2>4. ASSUME NEW e \in LogScan(f) PROVE e.key[1] \in SessionsOf(agent, f)
    <3>1. PICK i \in ClaudeLines(d) : e = ClaudeEnvelope(d[i], i, f, h)
      BY <2>1
    <3>2. e.key = <<d[i].session, d[i].turn>>
      BY <2>2, <3>1
    <3> QED BY <1>2, <2>3, <3>2
  <2>5. ASSUME NEW e \in LogScan(f), NEW o \in LogScan(f), e.key = o.key PROVE e = o
    <3>1. PICK i \in ClaudeLines(d) : e = ClaudeEnvelope(d[i], i, f, h)
      BY <2>1
    <3>2. PICK j \in ClaudeLines(d) : o = ClaudeEnvelope(d[j], j, f, h)
      BY <2>1
    <3>3. e.key = <<d[i].session, d[i].turn>> /\ o.key = <<d[j].session, d[j].turn>>
      BY <2>2, <3>1, <3>2
    <3>6. <<d[i].session, d[i].turn>> = <<d[j].session, d[j].turn>>
      BY <2>5, <3>3
    <3>4. d[i].turn = d[j].turn
      BY ONLY <3>6, PairsEqual
    <3>5. i = j
      BY <1>2, <1>4, <2>3, <3>4 DEF Identified
    <3> QED BY <3>1, <3>2, <3>5
  <2> QED BY <2>4, <2>5
<1> QED BY <1>3, <1>4, DataOf DEF AgentKinds

\* The rows of a database are of its sessions, and each has a key of its own.
LEMMA RowKeys ==
  ASSUME ScanInv, NEW f \in Files, agent = "opencode"
  PROVE  /\ \A e \in Shows(f) : e.key[1] \in SessionsOf(agent, f)
         /\ \A e, o \in Shows(f) : e.key = o.key => e = o
<1>1. PICK d, h : d = data[f] /\ h = edition[f]
  OBVIOUS
<1>2. /\ Identified(agent, d)
      /\ \A i \in DOMAIN d : i \in Nat /\ d[i].session \in SessionsOf(agent, f) \cup {0} /\ d[i] \in Message
  BY <1>1, DataOf DEF Shape
<1>3. ASSUME NEW e \in Shows(f)
      PROVE  \E q \in OpencodeSessions(d), i \in DOMAIN d :
                d[i].session = q.id /\ e = OpencodeEnvelope(q, d[i], f, h)
  BY <1>1, <1>3 DEF Shows, OpencodeRows
<1>4. ASSUME NEW q, NEW i PROVE OpencodeEnvelope(q, d[i], f, h).key = <<q.id, d[i].turn>>
  <2>1. PICK rev : rev = IF d[i].revision = 0 THEN <<"row">> ELSE <<"revision", d[i].revision>>
    OBVIOUS
  <2>2. OpencodeEnvelope(q, d[i], f, h) = Envelope(q.id, d[i].turn, d[i].text, rev, q.at, f, h, {d[i].text})
    BY <2>1 DEF OpencodeEnvelope
  <2> QED BY <2>2 DEF Envelope
<1>5. ASSUME NEW e \in Shows(f) PROVE e.key[1] \in SessionsOf(agent, f)
  <2>1. PICK q \in OpencodeSessions(d), i \in DOMAIN d :
                d[i].session = q.id /\ e = OpencodeEnvelope(q, d[i], f, h)
    BY <1>3
  <2>2. e.key = <<q.id, d[i].turn>>
    BY <1>4, <2>1
  <2>3. d[i].session # 0
    BY <1>2 DEF Message
  <2> QED BY <1>2, <2>1, <2>2, <2>3
<1>6. ASSUME NEW e \in Shows(f), NEW o \in Shows(f), e.key = o.key PROVE e = o
  <2>1. PICK q \in OpencodeSessions(d), i \in DOMAIN d : e = OpencodeEnvelope(q, d[i], f, h)
    BY <1>3
  <2>2. PICK p \in OpencodeSessions(d), j \in DOMAIN d : o = OpencodeEnvelope(p, d[j], f, h)
    BY <1>3
  <2>3. e.key = <<q.id, d[i].turn>> /\ o.key = <<p.id, d[j].turn>>
    BY <1>4, <2>1, <2>2
  <2>4. q.id = p.id /\ d[i].turn = d[j].turn
    <3>1. <<q.id, d[i].turn>> = <<p.id, d[j].turn>>
      BY <1>6, <2>3
    <3> QED BY ONLY <3>1, PairsEqual
  <2>5. i = j
    BY <1>2, <2>4 DEF Identified
  <2>6. q = p
    <3>1. q = [id |-> q.id, at |-> q.at] /\ p = [id |-> p.id, at |-> p.at] /\ q.at \in Nat /\ p.at \in Nat
      BY <1>1, AskedOf
    <3>2. q.at <= p.at /\ p.at <= q.at
      BY <1>1, <2>4, AskedOf
    <3>3. q.at = p.at
      BY <3>1, <3>2
    <3> QED BY <2>4, <3>1, <3>3
  <2> QED BY <2>1, <2>2, <2>5, <2>6
<1> QED BY <1>5, <1>6

\* What two sources show are different turns.
LEMMA KeysApart ==
  ASSUME ScanInv, NEW f \in Files, NEW g \in Files, NEW e \in Shows(f), NEW o \in Shows(g), e.key = o.key
  PROVE  e = o
<1>1. \A x \in Files : \A z \in Shows(x) : z.key[1] \in SessionsOf(agent, x)
  BY LogKeys, RowKeys DEF Shows
<1>2. f = g
  <2>1. e.key[1] \in SessionsOf(agent, f) /\ e.key[1] \in SessionsOf(agent, g) /\ agent \in AgentKinds
    BY <1>1, DataOf
  <2>2. f # g => SessionsOf(agent, f) \cap SessionsOf(agent, g) = {}
    BY <2>1, SessionsAssumption
  <2>3. PICK A, B, k : A = SessionsOf(agent, f) /\ B = SessionsOf(agent, g) /\ k = e.key[1]
    OBVIOUS
  <2>4. k \in A \cap B
    BY <2>1, <2>3
  <2> QED BY <2>2, <2>3, <2>4
<1>3. CASE agent = "opencode"
  BY <1>2, <1>3, RowKeys
<1>4. CASE agent # "opencode"
  <2>1. Shows(f) = LogScan(f)
    BY <1>4 DEF Shows
  <2> QED BY <1>2, <1>4, <2>1, LogKeys
<1> QED BY <1>3, <1>4

\* And all of it has its form.
LEMMA ShownVouched ==
  ASSUME ScanInv, NEW f \in Files, NEW e \in Shows(f)
  PROVE  EnvelopeOK(e)
<1>1. CASE agent = "opencode"
  <2>1. PICK q \in OpencodeSessions(data[f]) : e \in OpencodeRows(data[f], q, f, edition[f])
    BY <1>1 DEF Shows
  <2>2. q.at \in Nat /\ edition[f] \in 0..edition[f]
    BY <1>1, AskedOf, DataOf
  <2> QED BY <1>1, <2>1, <2>2, RowsVouched
<1>2. CASE agent # "opencode"
  BY <1>2, LogVouched DEF Shows
<1> QED BY <1>1, <1>2

-----------------------------------------------------------------------------
(* Scan: an envelope is handed over *)

\* One entry of a table is set.
LEMMA EntrySet ==
  ASSUME NEW T, NEW k, NEW v, NEW W, W = Entered(T, k, v)
  PROVE  /\ DOMAIN W = DOMAIN T \cup {k} /\ W[k] = v /\ IsFun(W, DOMAIN W)
         /\ \A x \in DOMAIN T \ {k} : W[x] = T[x]
BY DEF Entered, IsFun

\* What is stored stays, but for the envelope of the same turn.
LEMMA StoreSound ==
  ASSUME ScanInv, NEW s \in Scanners, NEW e, EnvelopeOK(e), StoreEnvelope(s, e)
  PROVE  /\ InStore(e)'
         /\ \A o : EnvelopeOK(o) /\ InStore(o) /\ o.key # e.key => InStore(o)'
         /\ IsFun(turns, DOMAIN turns)' /\ IsFun(sessions, DOMAIN sessions)'
         /\ \A i \in DOMAIN sessions' : \A x \in {sessions'[i]} : SessionOK(x)
<1>1. PICK k, v, i, z : /\ k = e.key /\ v = [rev |-> e.rev, text |-> e.text]
                        /\ i = e.key[1] /\ z = [at |-> e.at, locator |-> e.locator]
  OBVIOUS
<1>2. turns' = Entered(turns, k, v) /\ sessions' = IF Older(e) THEN sessions ELSE Entered(sessions, i, z)
  BY <1>1 DEF StoreEnvelope
<1>3. /\ DOMAIN turns' = DOMAIN turns \cup {k} /\ turns'[k] = v /\ IsFun(turns', DOMAIN turns')
      /\ \A x \in DOMAIN turns \ {k} : turns'[x] = turns[x]
  <2>1. PICK T, W : T = turns /\ W = turns'
    OBVIOUS
  <2>2. W = Entered(T, k, v)
    BY <1>2, <2>1
  <2>3. /\ DOMAIN W = DOMAIN T \cup {k} /\ W[k] = v /\ IsFun(W, DOMAIN W)
        /\ \A x \in DOMAIN T \ {k} : W[x] = T[x]
    BY <2>2 DEF Entered, IsFun
  <2> QED BY <2>1, <2>3
<1>4. e.at \in Nat /\ \A x \in DOMAIN sessions : sessions[x].at \in Nat /\ SessionOK(sessions[x])
  BY DEF ScanInv, SessionOK, EnvelopeOK
<1>5. z.at = e.at /\ z.locator = e.locator /\ SessionOK(z)
  BY <1>1 DEF SessionOK, EnvelopeOK
<1>6. /\ IsFun(sessions', DOMAIN sessions')
      /\ i \in DOMAIN sessions' /\ e.at <= sessions'[i].at
      /\ \A x \in DOMAIN sessions : x \in DOMAIN sessions' /\ sessions[x].at <= sessions'[x].at
      /\ \A x \in DOMAIN sessions' : SessionOK(sessions'[x])
  <2>1. CASE Older(e)
    BY <1>1, <1>2, <1>4, <2>1 DEF Older, ScanInv
  <2>2. CASE ~Older(e)
    <3>1. /\ DOMAIN sessions' = DOMAIN sessions \cup {i} /\ sessions'[i] = z /\ IsFun(sessions', DOMAIN sessions')
          /\ \A x \in DOMAIN sessions \ {i} : sessions'[x] = sessions[x]
      <4>1. PICK T, W : T = sessions /\ W = sessions'
        OBVIOUS
      <4>2. W = Entered(T, i, z)
        BY <1>2, <2>2, <4>1
      <4>3. /\ DOMAIN W = DOMAIN T \cup {i} /\ W[i] = z /\ IsFun(W, DOMAIN W)
            /\ \A x \in DOMAIN T \ {i} : W[x] = T[x]
        BY ONLY <4>2, EntrySet
      <4> QED BY <4>1, <4>3
    <3>2. i \in DOMAIN sessions => sessions[i].at <= e.at
      BY <1>1, <1>4, <2>2 DEF Older
    <3>3. \A x \in DOMAIN sessions : sessions[x].at <= sessions'[x].at
      BY <1>4, <1>5, <3>1, <3>2
    <3>4. \A x \in DOMAIN sessions' : SessionOK(sessions'[x])
      BY <1>4, <1>5, <3>1
    <3> QED BY <1>4, <1>5, <3>1, <3>3, <3>4
  <2> QED BY <2>1, <2>2
<1>7. InStore(e)'
  <2>1. turns'[e.key] = [rev |-> e.rev, text |-> e.text] /\ e.key \in DOMAIN turns'
    BY <1>1, <1>3
  <2>2. e.key[1] \in DOMAIN sessions' /\ e.at <= sessions'[e.key[1]].at
    BY <1>1, <1>6
  <2> QED BY <2>1, <2>2 DEF InStore, Older
<1>8. ASSUME NEW o, EnvelopeOK(o), InStore(o), o.key # e.key PROVE InStore(o)'
  <2>1. PICK ok, oi, ot : ok = o.key /\ oi = o.key[1] /\ ot = o.at
    OBVIOUS
  <2>2. /\ ok \in DOMAIN turns /\ turns[ok] = [rev |-> o.rev, text |-> o.text]
        /\ oi \in DOMAIN sessions /\ ot <= sessions[oi].at
    BY <1>8, <2>1 DEF InStore, Older
  <2>3. ok \in DOMAIN turns' /\ turns'[ok] = turns[ok]
    BY <1>1, <1>3, <1>8, <2>1, <2>2
  <2>4. oi \in DOMAIN sessions' /\ sessions[oi].at <= sessions'[oi].at
    BY <1>6, <2>2
  <2>5. ot <= sessions'[oi].at
    <3>1. ot \in Nat /\ sessions[oi].at \in Nat /\ sessions'[oi].at \in Nat
      BY <1>4, <1>6, <1>8, <2>1, <2>2, <2>4 DEF EnvelopeOK, SessionOK
    <3> QED BY <2>2, <2>4, <3>1
  <2> QED BY <2>1, <2>2, <2>3, <2>4, <2>5 DEF InStore, Older
<1> QED BY <1>3, <1>6, <1>7, <1>8

\* What another command has behind it stays stored.
LEMMA OthersProgress ==
  ASSUME ScanInv, NEW s \in Scanners, NEW r, r = scanner[s], CommandSound(r), r.phase = "read",
         NEW e \in r.batch, StoreEnvelope(s, e), SourcesKept,
         NEW u, CommandSound(u), Apart(u, r)
  PROVE  Progress(u)'
<1>1. SourcesStand
  BY DEF SourcesKept, SourcesStand
<1>2. EnvelopeOK(e) /\ Busy(r) /\ At(r) \in Files
  BY AtSource DEF CommandSound, CommandOK, Busy
<1>3. r.since = edition => e \in Shows(At(r))
  BY <1>2 DEF CommandSound, Fresh
<1>4. ASSUME NEW f \in Files, Whole(f), r.since = edition PROVE Whole(f)'
  <2>1. ASSUME NEW o \in Shows(f), Healthy(f) PROVE InStore(o)'
    <3>1. InStore(o) /\ EnvelopeOK(o)
      BY <1>4, <2>1, ShownVouched DEF Whole
    <3>2. CASE o.key = e.key
      <4>1. o = e
        BY <1>2, <1>3, <1>4, <3>2, KeysApart
      <4> QED BY <1>2, <4>1, StoreSound
    <3>3. CASE o.key # e.key
      BY <1>2, <3>1, <3>3, StoreSound
    <3> QED BY <3>2, <3>3
  <2>2. Shows(f)' = Shows(f) /\ Healthy(f)' = Healthy(f)
    BY <1>1, SameShows
  <2>3. Healthy(f) => \A o \in Shows(f) : InStore(o)'
    BY <2>1
  <2> QED BY <2>2, <2>3 DEF Whole
<1>5. u.since = edition /\ u.alone /\ u.phase \notin {"idle", "failed"} => u.phase = "done" /\ r.since = edition
  BY <1>2 DEF Apart, Busy
<1>6. /\ Found' = Found /\ (\A f : Healthy(f)' = Healthy(f)) /\ edition' = edition
      /\ \A f \in Found : f \in Files
  BY <1>1, SameShows DEF SourcesStand, Found
<1>7. Progress(u)
  BY DEF CommandSound
<1>8. SUFFICES ASSUME u.since = edition, u.all, u.phase \notin {"idle", "failed"}
               PROVE  /\ u.todo \subseteq Found /\ (u.phase = "done" => u.todo = {})
                      /\ u.status = "ok" <=> \A f \in Found \ u.todo : Healthy(f)
                      /\ u.alone => \A f \in Found \ u.todo : Whole(f)'
                      /\ ~(u.alone /\ u.phase = "read")
  BY <1>5, <1>6 DEF Progress
<1>9. u.alone => \A f \in Found \ u.todo : Whole(f)'
  BY <1>4, <1>5, <1>6, <1>7, <1>8 DEF Progress
<1> QED BY <1>5, <1>7, <1>8, <1>9 DEF Progress

\* And the command that hands it over goes on.
LEMMA StoreProgress ==
  ASSUME ScanInv, NEW s \in Scanners, NEW r, r = scanner[s], CommandSound(r), r.phase = "read", r.asked = {},
         NEW e \in r.batch, StoreEnvelope(s, e), SourcesKept,
         NEW b, b = r.batch \ {e}, NEW v, v = [r EXCEPT !.batch = b], NEW u, u = WithBatch(v)
  PROVE  CommandOK(u) /\ Fresh(u) /\ Progress(u)' /\ SameCall(u, r)
<1>1. SourcesStand
  BY DEF SourcesKept, SourcesStand
<1>2. EnvelopeOK(e) /\ Busy(r) /\ At(r) \in Files /\ At(r) \in r.todo /\ CommandOK(r) /\ Command(r) /\ Fresh(r) /\ Progress(r)
  BY AtSource DEF CommandSound, CommandOK, Busy
<1>3. /\ Command(v) /\ SameCall(v, r) /\ v.phase = "read" /\ v.todo = r.todo /\ v.asked = {}
      /\ v.hash = r.hash /\ v.batch = b /\ v.status = r.status /\ At(v) = At(r)
  <2>1. /\ v.all = r.all /\ v.since = r.since /\ v.alone = r.alone /\ v.phase = r.phase /\ v.todo = r.todo
        /\ v.asked = r.asked /\ v.hash = r.hash /\ v.batch = b /\ v.status = r.status
        /\ v = [phase |-> v.phase, todo |-> v.todo, asked |-> v.asked, hash |-> v.hash,
                batch |-> v.batch, status |-> v.status, all |-> v.all, since |-> v.since, alone |-> v.alone]
    BY <1>2 DEF Command
  <2>2. Command(v)
    BY <1>2, <2>1 DEF Command
  <2> QED BY <2>1, <2>2 DEF At, SameCall
<1>4. CommandOK(v)
  BY <1>2, <1>3 DEF CommandOK, Busy, SameCall
<1>5. Fresh(v)
  BY <1>2, <1>3 DEF Fresh, Busy, SameCall
<1>6. /\ Found' = Found /\ (\A f : Healthy(f)' = Healthy(f) /\ Shows(f)' = Shows(f)) /\ edition' = edition
      /\ \A f \in Found : f \in Files
  BY <1>1, SameShows DEF SourcesStand, Found
<1>7. ASSUME NEW f \in Files, NEW o \in Shows(f), InStore(o), r.since = edition PROVE InStore(o)'
  <2>1. EnvelopeOK(o) /\ e \in Shows(At(r))
    BY <1>2, <1>7, ShownVouched DEF Fresh
  <2>2. CASE o.key = e.key
    <3>1. o = e
      BY <1>2, <1>7, <2>1, <2>2, KeysApart
    <3> QED BY <1>2, <3>1, StoreSound
  <2>3. CASE o.key # e.key
    BY <1>2, <1>7, <2>1, <2>3, StoreSound
  <2> QED BY <2>2, <2>3
<1>8. ASSUME r.since = edition, r.all, r.alone, NEW f \in Found \ r.todo PROVE Whole(f)'
  BY <1>2, <1>6, <1>7, <1>8 DEF Whole, Progress
<1>9. ASSUME r.since = edition, r.all, r.alone, NEW o \in Shows(At(r)) PROVE o \in b \/ InStore(o)'
  <2>1. o \in r.batch \/ InStore(o)
    BY <1>2, <1>9 DEF Progress, StillAsked
  <2>2. o = e => InStore(o)'
    BY <1>2, StoreSound
  <2> QED BY <1>2, <1>7, <1>9, <2>1, <2>2
<1>10. CASE b # {}
  <2>1. u = v
    BY <1>3, <1>10 DEF WithBatch
  <2>2. Progress(u)'
    <3>1. SUFFICES ASSUME u.since = edition, u.all
                   PROVE  /\ u.todo \subseteq Found
                          /\ u.status = "ok" <=> \A f \in Found \ u.todo : Healthy(f)
                          /\ u.alone => \A f \in Found \ u.todo : Whole(f)'
                          /\ u.alone => \A o \in Shows(At(u)) : o \in u.batch \/ InStore(o)'
      BY <1>3, <1>6, <2>1 DEF Progress
    <3>2. r.since = edition /\ r.all /\ u.alone = r.alone /\ u.todo = r.todo /\ At(u) = At(r)
          /\ u.batch = b /\ u.status = r.status
      BY <1>3, <2>1, <3>1 DEF SameCall
    <3>3. r.todo \subseteq Found /\ (r.status = "ok" <=> \A f \in Found \ r.todo : Healthy(f))
      BY <1>2, <3>2 DEF Progress
    <3> QED BY <1>8, <1>9, <3>2, <3>3
  <2> QED BY <1>3, <1>4, <1>5, <2>1, <2>2
<1>11. CASE b = {}
  <2>1. u = NextSource(v)
    BY <1>3, <1>11 DEF WithBatch
  <2>2. /\ Command(u) /\ SameCall(u, v)
        /\ u.todo = r.todo \ {At(r)} /\ u.phase = IF u.todo = {} THEN "done" ELSE "found"
        /\ u.asked = {} /\ u.hash = 0 /\ u.batch = {} /\ u.status = r.status
    <3>0. Command(v)
      BY <1>3
    <3>1. /\ Command(u) /\ SameCall(u, v)
          /\ u.todo = v.todo \ {Min(v.todo)} /\ u.phase = IF u.todo = {} THEN "done" ELSE "found"
          /\ u.asked = v.asked /\ u.hash = 0 /\ u.batch = v.batch /\ u.status = v.status
      BY ONLY <2>1, <3>0, SourceNext
    <3> QED BY <1>3, <1>11, <3>1 DEF At
  <2>3. CommandOK(u) /\ Fresh(u)
    BY <1>2, <1>3, <2>2 DEF CommandOK, Fresh, Busy, SameCall
  <2>4. SameCall(u, r)
    BY <1>3, <2>2 DEF SameCall
  <2>5. Progress(u)'
    <3>1. SUFFICES ASSUME u.since = edition, u.all
                   PROVE  /\ u.todo \subseteq Found /\ (u.phase = "done" => u.todo = {})
                          /\ u.status = "ok" <=> \A f \in Found \ u.todo : Healthy(f)
                          /\ u.alone => \A f \in Found \ u.todo : Whole(f)'
                          /\ u.phase # "read"
      BY <1>6 DEF Progress
    <3>2. r.since = edition /\ r.all /\ u.alone = r.alone
      BY <2>4, <3>1 DEF SameCall
    <3>3. r.todo \subseteq Found /\ (r.status = "ok" <=> \A f \in Found \ r.todo : Healthy(f))
      BY <1>2, <3>2 DEF Progress
    <3>4. Found \ u.todo = (Found \ r.todo) \cup {At(r)}
      BY <1>2, <2>2, <3>3
    <3>5. Healthy(At(r))
      BY <1>2, <3>2 DEF Fresh
    <3>6. u.alone => Whole(At(r))'
      BY <1>6, <1>9, <1>11, <3>2 DEF Whole
    <3> QED BY <1>8, <2>2, <3>2, <3>3, <3>4, <3>5, <3>6
  <2> QED BY <2>3, <2>4, <2>5
<1> QED BY <1>10, <1>11

\* A batch is ingested: in the store with what it was, or refused whole.
LEMMA IngestKeeps ==
  ASSUME ScanInv, NEW s \in Scanners, Ingest(s)
  PROVE  ScanInv'
<1>1. PICK r : r = scanner[s]
  OBVIOUS
<1>2. r.phase = "read" /\ r.asked = {} /\ Busy(r) /\ SourcesKept
  BY <1>1 DEF Ingest, Busy
<1>3. CommandSound(r) /\ CommandOK(r) /\ Command(r) /\ Fresh(r) /\ Progress(r)
  BY <1>1, CommandOf
<1>4. PICK e \in r.batch : RefuseEnvelope(s, e) \/ StoreEnvelope(s, e)
  BY <1>1 DEF Ingest, FirstByKey
<1>5. CASE RefuseEnvelope(s, e)
  <2>1. PICK u : u = [r EXCEPT !.phase = "failed"]
    OBVIOUS
  <2>2. Put(s, u) /\ Kept
    BY <1>1, <1>5, <2>1 DEF RefuseEnvelope, To
  <2> QED BY <1>1, <1>2, <1>3, <2>1, <2>2, FailedSound, ScanPut
<1>6. CASE StoreEnvelope(s, e)
  <2>1. PICK b, v, u : b = r.batch \ {e} /\ v = [r EXCEPT !.batch = b] /\ u = WithBatch(v)
    OBVIOUS
  <2>2. Put(s, u)
    BY <1>1, <1>6, <2>1 DEF StoreEnvelope
  <2>3. CommandOK(u) /\ Fresh(u) /\ Progress(u)' /\ SameCall(u, r)
    BY <1>1, <1>2, <1>3, <1>6, <2>1, StoreProgress
  <2>4. scanner' = [o \in Scanners |-> IF o = s THEN u ELSE scanner[o]]
    BY <2>2 DEF ScanInv, IsFun, Put
  <2>5. \A o \in Scanners : scanner'[o] = IF o = s THEN u ELSE scanner[o]
    BY <2>4
  <2>6. SourcesStand /\ EnvelopeOK(e)
    BY <1>2, <1>3 DEF SourcesKept, SourcesStand, CommandOK
  <2>7. /\ \A w : (CommandOK(w)' <=> CommandOK(w)) /\ (Fresh(w)' <=> Fresh(w))
        /\ \A x : SessionOK(x)' <=> SessionOK(x)
        /\ \A w, x : Apart(w, x)' <=> Apart(w, x)
    <3>1. \A w, x : Apart(w, x)' <=> Apart(w, x)
      BY <2>6 DEF SourcesStand, Apart
    <3> QED BY <2>6, <3>1, SameCommand, SameShows, SameVouched
  <2>8. ASSUME NEW o \in Scanners, NEW w, w = scanner'[o] PROVE CommandSound(w)'
    <3>1. CASE o = s
      BY <2>3, <2>5, <2>7, <2>8, <3>1 DEF CommandSound
    <3>2. CASE o # s
      <4>1. w = scanner[o] /\ CommandSound(w) /\ Apart(w, r)
        BY <1>1, <2>5, <2>8, <3>2, CommandOf DEF ScanInv
      <4>2. Progress(w)'
        BY <1>1, <1>2, <1>3, <1>4, <1>6, <4>1, OthersProgress
      <4> QED BY <2>7, <4>1, <4>2 DEF CommandSound
    <3> QED BY <3>1, <3>2
  <2>9. \A o \in Scanners : \A w \in {scanner'[o]} : CommandSound(w)'
    BY <2>8
  <2>10. ScanTypeOK'
    <3>1. \A o \in Scanners :
            /\ scanner'[o].phase \in {"idle", "found", "healthy", "hashed", "read", "done", "failed"}
            /\ scanner'[o].status \in {"ok", "degraded"}
            /\ scanner'[o].todo \subseteq Files
      BY <2>9 DEF CommandSound, CommandOK, Command, Phases
    <3> QED BY <1>2, <3>1 DEF ScanInv, ScanTypeOK, SourcesKept
  <2>11. DataOK'
    BY <1>2 DEF ScanInv, DataOK, SourcesKept
  <2>12. ASSUME NEW o \in Scanners, NEW p \in Scanners, NEW w, w = scanner'[o], NEW x, x = scanner'[p], o # p
         PROVE  Apart(w, x)'
    <3>1. CASE o # s /\ p # s
      BY <2>5, <2>7, <2>12, <3>1 DEF ScanInv
    <3>2. CASE o = s
      <4>1. Apart(r, x) /\ w = u
        BY <1>1, <2>5, <2>12, <3>2 DEF ScanInv
      <4>2. Apart(w, x)
        BY <1>2, <2>3, <4>1 DEF Apart, SameCall
      <4> QED BY <2>7, <4>2
    <3>3. CASE p = s
      <4>1. Apart(w, r) /\ x = u
        BY <1>1, <2>5, <2>12, <3>3 DEF ScanInv
      <4>2. Apart(w, x)
        BY <1>2, <2>3, <4>1 DEF Apart, SameCall
      <4> QED BY <2>7, <4>2
    <3> QED BY <3>1, <3>2, <3>3
  <2>13. \A o, p \in Scanners : \A w \in {scanner'[o]}, x \in {scanner'[p]} : o # p => Apart(w, x)'
    BY <2>12
  <2>14. /\ IsFun(turns, DOMAIN turns)' /\ IsFun(sessions, DOMAIN sessions)'
         /\ \A i \in DOMAIN sessions' : \A x \in {sessions'[i]} : SessionOK(x)'
    BY <1>6, <2>6, <2>7, StoreSound
  <2>15. IsFun(scanner, Scanners)'
    BY <2>4 DEF IsFun
  <2> QED BY <2>9, <2>10, <2>11, <2>13, <2>14, <2>15 DEF ScanInv
<1> QED BY <1>4, <1>5, <1>6

-----------------------------------------------------------------------------
(* Scan: the invariant holds *)

\* It holds at first.
LEMMA ScanInitInv ==
  ASSUME ScanInit
  PROVE  ScanInv
<1>1. /\ agent \in AgentKinds /\ place \in Layouts[agent] /\ data \in Histories[agent]
      /\ edition = [f \in Files |-> 0] /\ turns = <<>> /\ sessions = <<>>
      /\ scanner = [s \in Scanners |-> NoCommand] /\ commands = 0
  BY DEF ScanInit
<1>2. PICK Sh : Sh = Shape(agent)
  OBVIOUS
<1>3. place \in [Files -> Places] /\ data \in [Files -> Seq(Sh)] /\ \A f \in Files : Identified(agent, data[f])
  BY <1>1, <1>2, ScanAssumption
<1>4. ASSUME NEW f \in Files, NEW i \in DOMAIN data[f] PROVE data[f][i].session \in SessionsOf(agent, f) \cup {0}
  <2>1. data[f] \in Seq(Sh)
    BY <1>3
  <2>2. i \in 1..Len(data[f])
    BY <1>4, <2>1
  <2>3. data[f][i] \in ToSet(data[f])
    BY <2>1, <2>2 DEF ToSet
  <2>4. PICK l, H : l = data[f][i] /\ H = UNION {ToSet(h[f]) : h \in Histories[agent]}
    OBVIOUS
  <2>5. l \in H
    BY <1>1, <2>3, <2>4
  <2>6. SessionsOf(agent, f) = {x.session : x \in Lines[agent][f] \cup H} \ {0}
    BY <2>4 DEF SessionsOf
  <2> QED BY <2>4, <2>5, <2>6
<1>5. DataOK
  BY <1>3, <1>4 DEF DataOK
<1>6. /\ Command(NoCommand) /\ NoCommand.phase = "idle" /\ NoCommand.batch = {} /\ NoCommand.asked = {}
      /\ NoCommand.status = "ok" /\ NoCommand.todo = {} /\ NoCommand.alone = FALSE
  BY DEF NoCommand, Command, Phases
<1>7. CommandSound(NoCommand)
  BY <1>6 DEF CommandSound, CommandOK, Fresh, Progress, Busy
<1>8. \A s \in Scanners : scanner[s] = NoCommand
  BY <1>1
<1>9. ScanTypeOK
  <2>1. edition \in [Files -> Nat] /\ commands \in 0..MaxCommands
    BY <1>1, ScanAssumption
  <2> QED BY <1>1, <1>2, <1>3, <1>6, <1>8, <2>1 DEF ScanTypeOK
<1>10. IsFun(scanner, Scanners) /\ IsFun(turns, DOMAIN turns) /\ IsFun(sessions, DOMAIN sessions) /\ DOMAIN sessions = {}
  BY <1>1 DEF IsFun
<1>11. Apart(NoCommand, NoCommand)
  BY <1>6 DEF Apart
<1> QED BY <1>5, <1>7, <1>8, <1>9, <1>10, <1>11 DEF ScanInv

\* A step of another stage leaves it alone.
LEMMA ScanStutters ==
  ASSUME ScanInv, UNCHANGED scanVars
  PROVE  ScanInv'
<1>1. UNCHANGED <<agent, place, data, edition, turns, sessions, scanner, commands>>
  BY DEF scanVars
<1>2. SourcesStand /\ Kept
  BY <1>1 DEF SourcesStand, Kept
<1>3. /\ \A r : CommandSound(r)' <=> CommandSound(r)
      /\ \A x : SessionOK(x)' <=> SessionOK(x)
      /\ \A r, u : Apart(r, u)' <=> Apart(r, u)
  <2>1. \A r, u : Apart(r, u)' <=> Apart(r, u)
    BY <1>1 DEF Apart
  <2> QED BY <1>2, <2>1, SameCommand, SameShows, SameProgress, SameVouched DEF CommandSound
<1>4. ScanTypeOK' /\ DataOK'
  BY <1>1 DEF ScanInv, ScanTypeOK, DataOK
<1> QED BY <1>1, <1>3, <1>4 DEF ScanInv, IsFun

\* Every step keeps it.
LEMMA ScanStep ==
  ASSUME ScanInv, [ScanNext]_scanVars
  PROVE  ScanInv'
<1>1. ASSUME NEW f \in Files, AgentWrites(f) \/ SessionRemoved(f) PROVE ScanInv'
  BY <1>1, AgentKeeps
<1>2. ASSUME NEW s \in Scanners, Scan(s) PROVE ScanInv'
  BY <1>2, ScanBegin DEF Scan, Found
<1>3. ASSUME NEW s \in Scanners, NEW f \in Files, ScanFixture(s, f) PROVE ScanInv'
  BY <1>3, ScanBegin DEF ScanFixture
<1> QED BY <1>1, <1>2, <1>3, HealthKeeps, ReadKeeps, HashKeeps, SessionsKeep, RowsKeep, IngestKeeps, ScanStutters
       DEF ScanNext

-----------------------------------------------------------------------------
(* Scan: what the invariant means *)

\* A command that has ended, and nothing was written since: what is shown is stored.
LEMMA ShownInv ==
  ASSUME ScanInv
  PROVE  ShownIsStored
<1>1. SUFFICES ASSUME NEW s \in Scanners, Settled(s)
               PROVE  /\ scanner[s].status = "ok" <=> \A f \in Found : Healthy(f)
                      /\ \A f \in Found : Healthy(f) => \A e \in Shows(f) : InStore(e)
  BY DEF ShownIsStored
<1>2. PICK r : r = scanner[s]
  OBVIOUS
<1>3. Progress(r) /\ r.phase = "done" /\ r.all /\ r.alone /\ r.since = edition
  BY <1>1, <1>2, CommandOf DEF Settled
<1>4. r.todo = {}
  BY <1>3 DEF Progress
<1>5. (r.status = "ok" <=> \A f \in Found : Healthy(f)) /\ \A f \in Found : Whole(f)
  <2>1. Found \ r.todo = Found
    BY <1>4
  <2> QED BY <1>3, <2>1 DEF Progress
<1> QED BY <1>2, <1>5 DEF Whole

\* What is resolved from a stored trace is what was said, and no locator is younger
\* than its text.
LEMMA TraceInv ==
  ASSUME ScanInv
  PROVE  TraceTellsTruth /\ HashNotYounger
<1>1. ASSUME NEW i \in DOMAIN sessions, NEW x, x = sessions[i] PROVE Vouched(x.locator)
  BY <1>1 DEF ScanInv, SessionOK
<1>4. HashNotYounger
  BY <1>1 DEF Vouched, HashNotYounger
<1>2. ASSUME NEW i \in DOMAIN sessions
      PROVE  ResolveTrace(sessions[i].locator).code = ""
                => ResolveTrace(sessions[i].locator).told \in sessions[i].locator.said
  BY <1>1 DEF Vouched, ResolveTrace
<1> QED BY <1>2, <1>4 DEF TraceTellsTruth

\* What is stored as it is changes nothing when it is handed over again.
LEMMA StoredAgain ==
  ASSUME ScanInv, NEW s \in Scanners, NEW e, InStore(e), StoreEnvelope(s, e)
  PROVE  UNCHANGED <<turns, sessions>>
<1>1. sessions' = sessions
  BY DEF InStore, StoreEnvelope
<1>2. PICK k, v, T, W : k = e.key /\ v = [rev |-> e.rev, text |-> e.text] /\ T = turns /\ W = turns'
  OBVIOUS
<1>3. W = Entered(T, k, v) /\ k \in DOMAIN T /\ T[k] = v /\ T = [x \in DOMAIN T |-> T[x]]
  BY <1>2 DEF InStore, StoreEnvelope, ScanInv, IsFun
<1>4. W = T
  <2>1. DOMAIN T \cup {k} = DOMAIN T
    BY <1>3
  <2>2. W = [x \in DOMAIN T |-> IF x = k THEN v ELSE T[x]]
    BY <1>3, <2>1 DEF Entered
  <2> QED BY <1>3, <2>2
<1> QED BY <1>1, <1>2, <1>4

\* A scan after a scan, with nothing written in between, stores nothing.
LEMMA QuietScan ==
  ASSUME ScanInv, [ScanNext]_scanVars, \E s \in Scanners : Settled(s), Again
  PROVE  UNCHANGED <<turns, sessions>>
<1>1. PICK s \in Scanners : Settled(s)
  OBVIOUS
<1>2. ASSUME NEW o \in Scanners, Ingest(o) PROVE UNCHANGED <<turns, sessions>>
  <2>1. PICK t, r : t = scanner[s] /\ r = scanner[o]
    OBVIOUS
  <2>2. r.phase = "read" /\ Busy(r)
    BY <1>2, <2>1 DEF Ingest, Busy
  <2>3. CommandSound(r) /\ CommandOK(r) /\ Command(r) /\ Fresh(r)
    BY <2>1, CommandOf
  <2>4. t.phase = "done" /\ t.alone /\ t.since = edition
    BY <1>1, <2>1 DEF Settled
  <2>5. r.since = edition
    <3>1. o # s
      BY <2>1, <2>2, <2>4
    <3>2. Apart(t, r)
      BY <2>1, <3>1 DEF ScanInv
    <3> QED BY <2>2, <2>4, <3>2 DEF Apart
  <2>6. At(r) \in Found /\ At(r) \in Files /\ Healthy(At(r)) /\ r.batch \subseteq Shows(At(r))
    <3>1. r.todo \subseteq Found
      BY <2>1, <2>2 DEF Again, Working, Busy
    <3> QED BY <2>2, <2>3, <2>5, <3>1, AtSource DEF Fresh
  <2>7. PICK e \in r.batch : RefuseEnvelope(o, e) \/ StoreEnvelope(o, e)
    BY <1>2, <2>1 DEF Ingest, FirstByKey
  <2>8. InStore(e)
    BY <1>1, <2>6, ShownInv DEF ShownIsStored
  <2> QED BY <2>7, <2>8, StoredAgain DEF RefuseEnvelope, Kept
<1>3. ASSUME NEW f \in Files, AgentWrites(f) \/ SessionRemoved(f) PROVE UNCHANGED <<turns, sessions>>
  BY <1>3 DEF AgentWrites, SessionRemoved
<1>4. ASSUME NEW o \in Scanners, Scan(o) \/ \E f \in Files : ScanFixture(o, f) PROVE UNCHANGED <<turns, sessions>>
  BY <1>4 DEF Scan, ScanFixture, Begin
<1>5. ASSUME NEW o \in Scanners, Health(o) \/ ReadLines(o) \/ HashDatabase(o) \/ AskSessions(o) \/ AskRows(o)
      PROVE UNCHANGED <<turns, sessions>>
  BY <1>5 DEF Health, ReadLines, HashDatabase, AskSessions, AskRows, Kept
<1>6. UNCHANGED scanVars => UNCHANGED <<turns, sessions>>
  BY DEF scanVars
<1> QED BY <1>2, <1>3, <1>4, <1>5, <1>6 DEF ScanNext

-----------------------------------------------------------------------------
(* Scan: all that is finished is shown, first where a line or row is a turn. *)

\* Each line that is finished is an envelope, by its own identifier.
LEMMA ClaudeShown ==
  ASSUME ScanInv, NEW f \in Files, agent = "claude_code"
  PROVE  {[key |-> e.key, text |-> e.text] : e \in Shows(f)} = Finished(f)
<1>1. PICK d, h : d = data[f] /\ h = edition[f]
  OBVIOUS
<1>2. DOMAIN d = 1..Len(d) /\ Len(d) \in Nat
  BY <1>1, DataOf
<1>3. PICK K : K = {k \in ClaudeLines(d) : d[k].kind \in {"user", "assistant"} /\ ClaudeFinished(d, k)}
  OBVIOUS
<1>4. PICK J : J = {k \in 1..Len(d) :
                /\ d[k].kind \in {"user", "assistant"} /\ d[k].session # 0 /\ d[k].turn # 0
                /\ \/ d[k].stop
                   \/ \E j \in (k + 1)..Len(d) :
                        d[j].kind = "user" /\ d[j].session = d[k].session /\ d[j].turn # 0}
  OBVIOUS
<1>5. K = J
  <2>1. ASSUME NEW k \in 1..Len(d), d[k].session # 0
        PROVE  (\E j \in ClaudeLines(d) : j > k /\ d[j].session = d[k].session /\ d[j].kind = "user")
                  <=> (\E j \in (k + 1)..Len(d) : d[j].kind = "user" /\ d[j].session = d[k].session /\ d[j].turn # 0)
    <3>1. \A j : j \in 1..Len(d) /\ j > k <=> j \in (k + 1)..Len(d)
      BY <1>2, <2>1
    <3> QED BY <1>2, <2>1, <3>1 DEF ClaudeLines
  <2>2. \A k \in 1..Len(d) : k \in ClaudeLines(d) <=> d[k].kind # "bad" /\ d[k].turn # 0 /\ d[k].session # 0
    BY <1>2 DEF ClaudeLines
  <2>3. ASSUME NEW k PROVE k \in K <=> k \in J
    <3>1. k \in K \/ k \in J => k \in 1..Len(d)
      BY <1>2, <1>3, <1>4 DEF ClaudeLines
    <3>2. ASSUME k \in 1..Len(d) PROVE k \in K <=> k \in J
      BY <1>3, <1>4, <2>1, <2>2, <3>2 DEF ClaudeFinished
    <3> QED BY <3>1, <3>2
  <2> QED BY <2>3
<1>6. Shows(f) = {ClaudeEnvelope(d[i], i, f, h) : i \in K}
  BY <1>1, <1>3 DEF Shows, LogScan, ClaudeScan
<1>7. Finished(f) = {[key |-> <<l.session, l.turn>>, text |-> l.text] : l \in {d[i] : i \in J}}
  BY <1>1, <1>4 DEF Finished
<1>8. ASSUME NEW i PROVE ClaudeEnvelope(d[i], i, f, h).key = <<d[i].session, d[i].turn>>
                         /\ ClaudeEnvelope(d[i], i, f, h).text = d[i].text
  BY DEF ClaudeEnvelope, Envelope
<1>9. ASSUME NEW i
      PROVE  [key |-> ClaudeEnvelope(d[i], i, f, h).key, text |-> ClaudeEnvelope(d[i], i, f, h).text]
                = [key |-> <<d[i].session, d[i].turn>>, text |-> d[i].text]
  BY <1>8
<1>10. Finished(f) = {[key |-> <<d[i].session, d[i].turn>>, text |-> d[i].text] : i \in J}
  <2>1. PICK F, G, D : /\ D = {d[i] : i \in J}
                       /\ F = {[key |-> <<l.session, l.turn>>, text |-> l.text] : l \in D}
                       /\ G = {[key |-> <<d[i].session, d[i].turn>>, text |-> d[i].text] : i \in J}
    OBVIOUS
  <2>2. ASSUME NEW x \in F PROVE x \in G
    <3>1. PICK l \in D : x = [key |-> <<l.session, l.turn>>, text |-> l.text]
      BY <2>1, <2>2
    <3>2. PICK i \in J : l = d[i]
      BY <2>1
    <3> QED BY <2>1, <3>1, <3>2
  <2>3. ASSUME NEW x \in G PROVE x \in F
    <3>1. PICK i \in J : x = [key |-> <<d[i].session, d[i].turn>>, text |-> d[i].text]
      BY <2>1, <2>3
    <3>2. d[i] \in D
      BY <2>1
    <3> QED BY <2>1, <3>1, <3>2
  <2>4. F = G
    BY <2>2, <2>3
  <2> QED BY <1>7, <2>1, <2>4
<1>11. PICK F, G : /\ F = {[key |-> e.key, text |-> e.text] : e \in Shows(f)}
                   /\ G = {[key |-> <<d[i].session, d[i].turn>>, text |-> d[i].text] : i \in J}
  OBVIOUS
<1>12. ASSUME NEW x \in F PROVE x \in G
  <2>1. PICK e \in Shows(f) : x = [key |-> e.key, text |-> e.text]
    BY <1>11, <1>12
  <2>2. PICK i \in K : e = ClaudeEnvelope(d[i], i, f, h)
    BY <1>6
  <2> QED BY <1>5, <1>9, <1>11, <2>1, <2>2
<1>13. ASSUME NEW x \in G PROVE x \in F
  <2>1. PICK i \in K : x = [key |-> <<d[i].session, d[i].turn>>, text |-> d[i].text]
    BY <1>5, <1>11, <1>13
  <2>2. PICK e : e = ClaudeEnvelope(d[i], i, f, h)
    OBVIOUS
  <2>3. e \in Shows(f)
    BY <1>6, <2>2
  <2> QED BY <1>9, <1>11, <2>1, <2>2, <2>3
<1>14. F = G
  BY <1>12, <1>13
<1> QED BY <1>10, <1>11, <1>14

\* Each message that is complete is an envelope, by its own identifier.
LEMMA OpencodeShown ==
  ASSUME ScanInv, NEW f \in Files, agent = "opencode"
  PROVE  {[key |-> e.key, text |-> e.text] : e \in Shows(f)} = Finished(f)
<1>1. PICK d, h : d = data[f] /\ h = edition[f]
  OBVIOUS
<1>2. DOMAIN d = 1..Len(d) /\ Len(d) \in Nat /\ d \in Seq(Message) /\ \A i \in DOMAIN d : d[i] \in Message
  BY <1>1, DataOf DEF Shape
<1>3. PICK C : C = {i \in DOMAIN d : d[i].complete}
  OBVIOUS
<1>4. ASSUME NEW i \in C PROVE \E q \in OpencodeSessions(d) : q.id = d[i].session
  <2>1. PICK g : g = [k \in 1..Len(d) |-> d[k].at]
    OBVIOUS
  <2>2. g \in [1..Len(d) -> Nat] /\ \A k \in DOMAIN d : g[k] = d[k].at
    BY <1>2, <2>1 DEF Message
  <2>3. PICK S : S = {k \in DOMAIN d : d[k].session = d[i].session}
    OBVIOUS
  <2>4. S \subseteq 1..Len(d) /\ S # {}
    BY <1>2, <1>3, <1>4, <2>3
  <2>5. PICK k \in S : \A j \in S : g[j] <= g[k]
    BY <1>2, <2>2, <2>4, MaxOf
  <2>6. k \in DOMAIN d /\ d[k].session = d[i].session
        /\ \A j \in DOMAIN d : d[j].session = d[k].session => d[j].at <= d[k].at
    BY <2>2, <2>3, <2>5
  <2>7. [id |-> d[k].session, at |-> d[k].at] \in OpencodeSessions(d)
    BY <2>6 DEF OpencodeSessions
  <2> QED BY <2>6, <2>7
<1>5. ASSUME NEW q, NEW i
      PROVE  /\ OpencodeEnvelope(q, d[i], f, h).key = <<q.id, d[i].turn>>
             /\ OpencodeEnvelope(q, d[i], f, h).text = d[i].text
  <2>1. PICK rev : rev = IF d[i].revision = 0 THEN <<"row">> ELSE <<"revision", d[i].revision>>
    OBVIOUS
  <2>2. OpencodeEnvelope(q, d[i], f, h) = Envelope(q.id, d[i].turn, d[i].text, rev, q.at, f, h, {d[i].text})
    BY <2>1 DEF OpencodeEnvelope
  <2> QED BY <2>2 DEF Envelope
<1>6. Finished(f) = {[key |-> <<d[i].session, d[i].turn>>, text |-> d[i].text] : i \in C}
  <2>1. Finished(f) = {[key |-> <<r.session, r.turn>>, text |-> r.text] : r \in {x \in ToSet(d) : x.complete}}
    BY <1>1 DEF Finished
  <2>2. {x \in ToSet(d) : x.complete} = {d[i] : i \in C}
    BY <1>3 DEF ToSet
  <2> QED BY <2>1, <2>2
<1>7. ASSUME NEW e \in Shows(f)
      PROVE  \E i \in C : [key |-> e.key, text |-> e.text] = [key |-> <<d[i].session, d[i].turn>>, text |-> d[i].text]
  <2>1. PICK q \in OpencodeSessions(d), i \in C : d[i].session = q.id /\ e = OpencodeEnvelope(q, d[i], f, h)
    BY <1>1, <1>3 DEF Shows, OpencodeRows
  <2> QED BY <1>5, <2>1
<1>8. ASSUME NEW i \in C
      PROVE  \E e \in Shows(f) : [key |-> e.key, text |-> e.text] = [key |-> <<d[i].session, d[i].turn>>, text |-> d[i].text]
  <2>1. PICK q \in OpencodeSessions(d) : q.id = d[i].session
    BY <1>4
  <2>2. PICK e : e = OpencodeEnvelope(q, d[i], f, h)
    OBVIOUS
  <2>3. e \in OpencodeRows(d, q, f, h)
    BY <1>3, <2>1, <2>2 DEF OpencodeRows
  <2>4. e \in Shows(f)
    BY <1>1, <2>1, <2>3 DEF Shows
  <2> QED BY <1>5, <2>1, <2>2, <2>4
<1>9. PICK F, G : /\ F = {[key |-> e.key, text |-> e.text] : e \in Shows(f)}
                  /\ G = {[key |-> <<d[i].session, d[i].turn>>, text |-> d[i].text] : i \in C}
  OBVIOUS
<1>10. ASSUME NEW x \in F PROVE x \in G
  <2>1. PICK e \in Shows(f) : x = [key |-> e.key, text |-> e.text]
    BY <1>9, <1>10
  <2>2. PICK i \in C : [key |-> e.key, text |-> e.text] = [key |-> <<d[i].session, d[i].turn>>, text |-> d[i].text]
    BY <1>7
  <2> QED BY <1>9, <2>1, <2>2
<1>11. ASSUME NEW x \in G PROVE x \in F
  <2>1. PICK i \in C : x = [key |-> <<d[i].session, d[i].turn>>, text |-> d[i].text]
    BY <1>9, <1>11
  <2>2. PICK e \in Shows(f) : [key |-> e.key, text |-> e.text] = [key |-> <<d[i].session, d[i].turn>>, text |-> d[i].text]
    BY <1>8
  <2> QED BY <1>9, <2>1, <2>2
<1>12. F = G
  BY <1>10, <1>11
<1> QED BY <1>6, <1>9, <1>12

-----------------------------------------------------------------------------
(* Scan: Codex builds its turns up, a line at a time. After each line a turn  *)
(* holds what the lines so far say of it.                                   *)

\* The record of a turn, and the form of what the lines build up.
CodexTurn == [started : BOOLEAN, user : Seq(STRING), answer : Seq(STRING), at : Nat]
Builds(s) ==
    /\ s = [order |-> s.order, turns |-> s.turns] /\ s.order \in Seq(Nat)
    /\ DOMAIN s.turns \subseteq Nat /\ s.turns \in [DOMAIN s.turns -> CodexTurn]

\* What a record says of its turn after n lines.
TurnSays(d, n, t, r) ==
    /\ r.user = TextUpTo(d, CodexPart(d, "user", t, n))[n]
    /\ r.answer = TextUpTo(d, CodexPart(d, "complete", t, n))[n]
    /\ r.started <=> CodexPart(d, "user", t, n) \cup CodexPart(d, "started", t, n) # {}
    /\ r.at \in 0..n /\ (r.at # 0 <=> CodexPart(d, "complete", t, n) # {})

\* Turns are there from their first line on, in that order; the nameless one ends never.
Built(d, n, s) ==
    /\ Builds(s)
    /\ DOMAIN s.turns = {d[i].turn : i \in CodexOpened(d, n)}
    /\ IF CodexFirsts(d, n) = {} THEN s.order = <<>>
       ELSE s.order # <<>> /\ Last(s.order) = d[Max(CodexFirsts(d, n))].turn
    /\ \A t \in DOMAIN s.turns : t # 0 => TurnSays(d, n, t, s.turns[t])
    /\ 0 \in DOMAIN s.turns => s.turns[0].at = 0

\* What a turn was before a line, and what the line makes of it.
TurnBefore(s, x) == IF x \in DOMAIN s.turns THEN s.turns[x] ELSE FreshTurn
MadeBy(r, l, i, x, t) ==
    IF l.kind = "context" /\ l.turn = x THEN FreshTurn
    ELSE IF l.kind = "started" /\ l.turn = x THEN [r EXCEPT !.started = TRUE]
    ELSE IF l.kind = "user" /\ t = x THEN [r EXCEPT !.user = r.user \o l.text, !.started = TRUE]
    ELSE IF l.kind = "complete" /\ t = x THEN [r EXCEPT !.answer = r.answer \o l.text, !.at = i]
    ELSE r

\* The line took the turns on from s to v.
TakesOn(s, v, l, i) ==
    /\ Builds(v)
    /\ DOMAIN v.turns = DOMAIN s.turns \cup (IF CodexOpens(l) THEN {l.turn} ELSE {})
    /\ v.order = IF CodexOpens(l) /\ l.turn \notin DOMAIN s.turns THEN Append(s.order, l.turn) ELSE s.order
    /\ \A x \in DOMAIN v.turns : x # 0 => v.turns[x] = MadeBy(TurnBefore(s, x), l, i, x, Anchor(s, l))
    /\ 0 \in DOMAIN v.turns => v.turns[0].at = TurnBefore(s, 0).at

\* The states of the fold, one after the other.
FoldsTo(d, N, f) ==
    f = [n \in 0..N |-> IF n = 0 THEN [order |-> <<>>, turns |-> <<>>] ELSE CodexLine(f[n - 1], d[n], n)]
LEMMA LinesFolded ==
  ASSUME NEW d, NEW N \in Nat
  PROVE  \E f : FoldsTo(d, N, f)
<1> DEFINE B == [order |-> <<>>, turns |-> <<>>]
           Wrong == {k \in Nat : ~\E f : FoldsTo(d, k, f)}
<1>1. SUFFICES ASSUME Wrong # {} PROVE FALSE
  OBVIOUS
<1> HIDE DEF B
<1>2. PICK k \in Wrong : \A m \in Wrong : k <= m
  BY <1>1, LeastOf
<1>3. k # 0
  <2>1. PICK f : f = [n \in 0..0 |-> B]
    OBVIOUS
  <2>2. FoldsTo(d, 0, f)
    BY <2>1 DEF FoldsTo, B
  <2> QED BY <2>2
<1>4. PICK g : FoldsTo(d, k - 1, g)
  <2>1. k - 1 \in Nat /\ k - 1 \notin Wrong
    BY <1>2, <1>3
  <2> QED BY <2>1
<1>5. PICK f : f = [n \in 0..k |-> IF n = 0 THEN B ELSE CodexLine(g[n - 1], d[n], n)]
  OBVIOUS
<1>6. \A n \in 0..(k - 1) : f[n] = g[n]
  BY <1>3, <1>4, <1>5 DEF FoldsTo, B
<1>7. f = [n \in 0..k |-> IF n = 0 THEN B ELSE CodexLine(f[n - 1], d[n], n)]
  <2>1. \A n \in 0..k : n # 0 => f[n - 1] = g[n - 1]
    BY <1>3, <1>6
  <2>2. \A n \in 0..k : f[n] = IF n = 0 THEN B ELSE CodexLine(f[n - 1], d[n], n)
    BY <1>5, <2>1
  <2> QED BY <1>5, <2>2
<1>8. FoldsTo(d, k, f)
  BY <1>7 DEF FoldsTo, B
<1> QED BY <1>2, <1>8

\* And of the texts that are joined.
Joins(d, S, N, f) ==
    f = [n \in 0..N |-> IF n = 0 THEN <<>> ELSE IF n \in S THEN f[n - 1] \o d[n].text ELSE f[n - 1]]
LEMMA TextsJoined ==
  ASSUME NEW d, NEW S, NEW N \in Nat
  PROVE  \E f : Joins(d, S, N, f)
<1> DEFINE Next1(x, n) == IF n \in S THEN x \o d[n].text ELSE x
           Wrong == {k \in Nat : ~\E f : Joins(d, S, k, f)}
<1>1. SUFFICES ASSUME Wrong # {} PROVE FALSE
  OBVIOUS
<1> HIDE DEF Next1
<1>2. PICK k \in Wrong : \A m \in Wrong : k <= m
  BY <1>1, LeastOf
<1>3. k # 0
  <2>1. PICK f : f = [n \in 0..0 |-> <<>>]
    OBVIOUS
  <2>2. Joins(d, S, 0, f)
    BY <2>1 DEF Joins
  <2> QED BY <2>2
<1>4. PICK g : Joins(d, S, k - 1, g)
  <2>1. k - 1 \in Nat /\ k - 1 \notin Wrong
    BY <1>2, <1>3
  <2> QED BY <2>1
<1>5. PICK f : f = [n \in 0..k |-> IF n = 0 THEN <<>> ELSE Next1(g[n - 1], n)]
  OBVIOUS
<1>6. \A n \in 0..(k - 1) : f[n] = g[n]
  <2>1. g = [n \in 0..(k - 1) |-> IF n = 0 THEN <<>> ELSE Next1(g[n - 1], n)]
    BY <1>4 DEF Joins, Next1
  <2> QED BY <1>3, <1>5, <2>1
<1>7. f = [n \in 0..k |-> IF n = 0 THEN <<>> ELSE Next1(f[n - 1], n)]
  <2>1. \A n \in 0..k : n # 0 => f[n - 1] = g[n - 1]
    BY <1>3, <1>6
  <2>2. \A n \in 0..k : f[n] = IF n = 0 THEN <<>> ELSE Next1(f[n - 1], n)
    BY <1>5, <2>1
  <2> QED BY <1>5, <2>2
<1>8. Joins(d, S, k, f)
  BY <1>7 DEF Joins, Next1
<1> QED BY <1>2, <1>8

\* The text of some lines grows with each of them.
LEMMA TextGrows ==
  ASSUME NEW d \in Seq(LogLine), NEW S
  PROVE  /\ TextUpTo(d, S)[0] = <<>>
         /\ \A n \in 1..Len(d) : TextUpTo(d, S)[n] =
                IF n \in S THEN TextUpTo(d, S)[n - 1] \o d[n].text ELSE TextUpTo(d, S)[n - 1]
<1>1. Len(d) \in Nat
  OBVIOUS
<1>2. PICK N : N = Len(d)
  OBVIOUS
<1>3. PICK g : g = CHOOSE f : Joins(d, S, N, f)
  OBVIOUS
<1>4. Joins(d, S, N, g)
  <2>1. \E f : Joins(d, S, N, f)
    BY <1>1, <1>2, TextsJoined
  <2> QED BY <1>3, <2>1
<1>5. TextUpTo(d, S) = g
  BY <1>2, <1>3, Zenon DEF TextUpTo, Joins
<1>6. g[0] = <<>> /\ \A n \in 1..N : g[n] = IF n \in S THEN g[n - 1] \o d[n].text ELSE g[n - 1]
  BY <1>1, <1>2, <1>4 DEF Joins
<1> QED BY <1>2, <1>5, <1>6

\* It is a text, the same for the same lines, and empty for none.
LEMMA TextAgrees ==
  ASSUME NEW d \in Seq(LogLine), NEW S, NEW T, NEW m \in 0..Len(d), \A i \in 1..m : i \in S <=> i \in T
  PROVE  /\ TextUpTo(d, S)[m] = TextUpTo(d, T)[m] /\ TextUpTo(d, S)[m] \in Seq(STRING)
         /\ (\A i \in 1..m : i \notin S) => TextUpTo(d, S)[m] = <<>>
<1>1. PICK f, g : f = TextUpTo(d, S) /\ g = TextUpTo(d, T)
  OBVIOUS
<1>2. /\ f[0] = <<>>
      /\ \A n \in 1..Len(d) : f[n] = IF n \in S THEN f[n - 1] \o d[n].text ELSE f[n - 1]
  BY <1>1, TextGrows
<1>3. /\ g[0] = <<>>
      /\ \A n \in 1..Len(d) : g[n] = IF n \in T THEN g[n - 1] \o d[n].text ELSE g[n - 1]
  BY <1>1, TextGrows
<1>4. Len(d) \in Nat /\ \A n \in 1..Len(d) : d[n].text \in Seq(STRING)
  <2>1. \A n \in 1..Len(d) : d[n] \in LogLine
    OBVIOUS
  <2>2. \A l \in LogLine : l.text \in Seq(STRING)
    BY DEF LogLine
  <2> QED BY <2>1, <2>2
<1> DEFINE Good(n) == /\ f[n] = g[n] /\ f[n] \in Seq(STRING)
                      /\ (\A i \in 1..n : i \notin S) => f[n] = <<>>
           Wrong == {n \in 0..m : ~Good(n)}
<1>5. Good(0)
  BY <1>2, <1>3
<1>6. ASSUME NEW n \in 0..m, n # 0, Good(n - 1) PROVE Good(n)
  <2>1. n \in 1..Len(d) /\ n \in 1..m /\ 1..(n - 1) \subseteq 1..n /\ n \in 1..n
    BY <1>4, <1>6
  <2>2. f[n] = g[n]
    BY <1>2, <1>3, <1>6, <2>1
  <2>3. f[n] \in Seq(STRING)
    <3>1. PICK x, y : x = f[n - 1] /\ y = d[n].text
      OBVIOUS
    <3>2. x \in Seq(STRING) /\ y \in Seq(STRING)
      BY <1>4, <1>6, <2>1, <3>1
    <3>3. x \o y \in Seq(STRING)
      BY <3>2
    <3>4. f[n] = IF n \in S THEN x \o y ELSE x
      BY <1>2, <2>1, <3>1
    <3> QED BY <3>2, <3>3, <3>4
  <2>4. ASSUME \A i \in 1..n : i \notin S PROVE f[n] = <<>>
    BY <1>2, <1>6, <2>1, <2>4
  <2> QED BY <2>2, <2>3, <2>4
<1>7. Good(m)
  <2> HIDE DEF Good
  <2>1. SUFFICES ASSUME Wrong # {} PROVE FALSE
    BY <1>4
  <2>2. PICK n \in Wrong : \A k \in Wrong : n <= k
    <3>1. Wrong \subseteq Nat
      BY <1>4
    <3> QED BY <2>1, <3>1, LeastOf
  <2>3. n # 0 /\ n - 1 \in 0..m /\ n - 1 \notin Wrong
    BY <1>4, <1>5, <2>2
  <2> QED BY <1>6, <2>2, <2>3
<1> QED BY <1>1, <1>7

\* The last of the lines that open a turn first is one of them.
LEMMA LastFirst ==
  ASSUME NEW d, NEW n \in Nat, CodexFirsts(d, n) # {}
  PROVE  /\ Max(CodexFirsts(d, n)) \in CodexFirsts(d, n)
         /\ \A i \in CodexFirsts(d, n) : Max(CodexFirsts(d, n)) >= i
<1>1. PICK S : S = CodexFirsts(d, n)
  OBVIOUS
<1>2. S \subseteq 1..n /\ S # {}
  BY <1>1 DEF CodexFirsts, CodexOpened
<1>3. PICK g : g = [i \in 1..n |-> i]
  OBVIOUS
<1>4. \E k \in S : \A i \in S : k >= i
  <2>1. PICK k \in S : \A i \in S : g[i] <= g[k]
    <3>1. g \in [1..n -> Nat]
      BY <1>3
    <3> QED BY <1>2, <3>1, MaxOf
  <2>2. \A i \in S : i \in 1..n /\ g[i] = i
    BY <1>2, <1>3
  <2> QED BY <2>1, <2>2
<1> QED BY <1>1, <1>4 DEF Max

\* What one more line changes: who was opened, by which line first,
LEMMA OpenedNext ==
  ASSUME NEW d, NEW n \in Nat
  PROVE  /\ CodexOpened(d, n + 1) = CodexOpened(d, n) \cup (IF CodexOpens(d[n + 1]) THEN {n + 1} ELSE {})
         /\ CodexFirsts(d, n + 1) = CodexFirsts(d, n) \cup
                (IF CodexOpens(d[n + 1]) /\ \A j \in CodexOpened(d, n) : d[j].turn # d[n + 1].turn
                 THEN {n + 1} ELSE {})
<1>1. 1..(n + 1) = 1..n \cup {n + 1}
  OBVIOUS
<1>2. CodexOpened(d, n + 1) = CodexOpened(d, n) \cup (IF CodexOpens(d[n + 1]) THEN {n + 1} ELSE {})
  BY <1>1 DEF CodexOpened
<1>3. (n + 1) - 1 = n
  OBVIOUS
<1> QED BY <1>2, <1>3 DEF CodexFirsts

\* and what a turn has of each kind.
PartAfter(d, kind, t, n) ==
    IF d[n + 1].kind = "context" /\ d[n + 1].turn = t THEN {}
    ELSE IF /\ d[n + 1].kind = kind /\ CodexOf(d, n + 1) = t
            /\ \E j \in CodexOpened(d, n + 1) : d[j].turn = t
         THEN CodexPart(d, kind, t, n) \cup {n + 1} ELSE CodexPart(d, kind, t, n)
LEMMA PartNext ==
  ASSUME NEW d, NEW n \in Nat, NEW t, NEW kind, kind # "context"
  PROVE  CodexPart(d, kind, t, n + 1) = PartAfter(d, kind, t, n)
<1> DEFINE Renews(j) == d[j].kind = "context" /\ d[j].turn = t
           Owns(i) == /\ d[i].kind = kind /\ CodexOf(d, i) = t
                      /\ \E j \in CodexOpened(d, i) : d[j].turn = t
<1>1. \A m : CodexPart(d, kind, t, m) = {i \in 1..m : Owns(i) /\ \A j \in i..m : ~Renews(j)}
  BY DEF CodexPart
<1>2. Owns(n + 1) => ~Renews(n + 1)
  OBVIOUS
<1> HIDE DEF Owns, Renews
<1>3. 1..(n + 1) = 1..n \cup {n + 1} /\ (n + 1)..(n + 1) = {n + 1}
      /\ \A i \in 1..n : i..(n + 1) = i..n \cup {n + 1}
  OBVIOUS
<1>4. CASE Renews(n + 1)
  <2>1. CodexPart(d, kind, t, n + 1) = {}
    BY <1>1, <1>3, <1>4
  <2> QED BY <1>4, <2>1 DEF PartAfter, Renews
<1>5. CASE ~Renews(n + 1)
  <2>1. CodexPart(d, kind, t, n + 1) = CodexPart(d, kind, t, n) \cup {i \in {n + 1} : Owns(i)}
    BY <1>1, <1>3, <1>5
  <2> QED BY <1>5, <2>1 DEF PartAfter, Owns, Renews
<1> QED BY <1>4, <1>5

\* A turn that was not there is added, as a fresh one.
LEMMA TurnAdded ==
  ASSUME NEW s, Builds(s), NEW t \in Nat, NEW v, v = WithTurn(s, t)
  PROVE  /\ Builds(v) /\ DOMAIN v.turns = DOMAIN s.turns \cup {t}
         /\ v.order = IF t \in DOMAIN s.turns THEN s.order ELSE Append(s.order, t)
         /\ \A x \in DOMAIN v.turns : v.turns[x] = TurnBefore(s, x)
<1>1. FreshTurn \in CodexTurn
  BY DEF FreshTurn, CodexTurn
<1>2. CASE t \in DOMAIN s.turns
  BY <1>2 DEF WithTurn, TurnBefore
<1>3. CASE t \notin DOMAIN s.turns
  <2>1. PICK T : T = [x \in DOMAIN s.turns \cup {t} |-> IF x = t THEN FreshTurn ELSE s.turns[x]]
    OBVIOUS
  <2>2. PICK o, T0 : o = s.order /\ T0 = s.turns /\ s = [order |-> o, turns |-> T0]
    BY DEF Builds
  <2>3. v = [order |-> Append(o, t), turns |-> T]
    BY <1>3, <2>1, <2>2 DEF WithTurn
  <2>4. \A x \in DOMAIN T : T[x] = TurnBefore(s, x)
    BY <1>3, <2>1 DEF TurnBefore
  <2>5. T \in [DOMAIN T -> CodexTurn] /\ DOMAIN T = DOMAIN s.turns \cup {t}
    BY <1>1, <2>1 DEF Builds
  <2>6. Append(o, t) \in Seq(Nat)
    BY <2>2 DEF Builds
  <2>7. v.order = Append(o, t) /\ v.turns = T
    BY <2>3
  <2>8. DOMAIN T \subseteq Nat
    BY <2>5 DEF Builds
  <2>9. Builds(v)
    BY <2>3, <2>5, <2>6, <2>7, <2>8 DEF Builds
  <2> QED BY <1>3, <2>2, <2>4, <2>5, <2>7, <2>9
<1> QED BY <1>2, <1>3

\* A turn that is there gets another record.
Rewrites(s, t, r) == [s EXCEPT !.turns[t] = r]
LEMMA TurnChanged ==
  ASSUME NEW s, Builds(s), NEW t \in DOMAIN s.turns, NEW r \in CodexTurn,
         NEW v, v = Rewrites(s, t, r)
  PROVE  /\ Builds(v) /\ DOMAIN v.turns = DOMAIN s.turns /\ v.order = s.order
         /\ \A x \in DOMAIN v.turns : v.turns[x] = IF x = t THEN r ELSE s.turns[x]
<1>1. PICK o, T0 : o = s.order /\ T0 = s.turns /\ s = [order |-> o, turns |-> T0]
  BY DEF Builds
<1>2. PICK T : T = [T0 EXCEPT ![t] = r]
  OBVIOUS
<1>3. v = [order |-> o, turns |-> T]
  BY <1>1, <1>2 DEF Rewrites
<1>4. T \in [DOMAIN T0 -> CodexTurn] /\ DOMAIN T = DOMAIN T0
      /\ \A x \in DOMAIN T : T[x] = IF x = t THEN r ELSE T0[x]
  BY <1>1, <1>2 DEF Builds
<1>5. v.order = o /\ v.turns = T
  BY <1>3
<1>6. o \in Seq(Nat) /\ DOMAIN T \subseteq Nat
  BY <1>1, <1>4 DEF Builds
<1>7. Builds(v)
  BY <1>3, <1>4, <1>5, <1>6 DEF Builds
<1> QED BY <1>1, <1>4, <1>5, <1>7

\* A turn is added and gets another record.
Puts(s, t, r, v) ==
    /\ Builds(v) /\ DOMAIN v.turns = DOMAIN s.turns \cup {t}
    /\ v.order = IF t \in DOMAIN s.turns THEN s.order ELSE Append(s.order, t)
    /\ \A x \in DOMAIN v.turns : v.turns[x] = IF x = t THEN r ELSE TurnBefore(s, x)
LEMMA TurnPut ==
  ASSUME NEW s, Builds(s), NEW t \in Nat, NEW r \in CodexTurn,
         NEW v, v = Rewrites(WithTurn(s, t), t, r)
  PROVE  Puts(s, t, r, v)
<1>1. PICK w : w = WithTurn(s, t)
  OBVIOUS
<1>2. /\ Builds(w) /\ DOMAIN w.turns = DOMAIN s.turns \cup {t}
      /\ w.order = IF t \in DOMAIN s.turns THEN s.order ELSE Append(s.order, t)
      /\ \A x \in DOMAIN w.turns : w.turns[x] = TurnBefore(s, x)
  BY <1>1, TurnAdded
<1>3. t \in DOMAIN w.turns /\ v = Rewrites(w, t, r)
  BY <1>1, <1>2
<1>4. /\ Builds(v) /\ DOMAIN v.turns = DOMAIN w.turns /\ v.order = w.order
      /\ \A x \in DOMAIN v.turns : v.turns[x] = IF x = t THEN r ELSE w.turns[x]
  <2>1. Builds(w)
    BY <1>2
  <2> QED BY <1>3, <2>1, TurnChanged
<1> QED BY <1>2, <1>4 DEF Puts

\* What each line makes of the turns.
LEMMA LineTakesOn ==
  ASSUME NEW s, Builds(s), NEW l \in LogLine, NEW i \in Nat, NEW t, t = Anchor(s, l),
         t # l.turn => t \in DOMAIN s.turns
  PROVE  TakesOn(s, CodexLine(s, l, i), l, i)
<1>1. t \in Nat /\ l.turn \in Nat /\ (l.turn # 0 => t = l.turn)
  BY DEF LogLine, Anchor, Builds
<1>12. l.text \in Seq(STRING)
  BY DEF LogLine
<1>2. FreshTurn \in CodexTurn /\ FreshTurn.at = 0
  BY DEF FreshTurn, CodexTurn
<1>3. \A x : TurnBefore(s, x) \in CodexTurn
  BY <1>2 DEF TurnBefore, Builds
<1>4. \A x : x \in DOMAIN s.turns => TurnBefore(s, x) = s.turns[x]
  BY DEF TurnBefore
<1>5. PICK v : v = CodexLine(s, l, i)
  OBVIOUS
<1>6. CASE l.kind = "context" /\ l.turn # 0
  <2>1. v = Rewrites(WithTurn(s, t), t, FreshTurn)
    BY <1>5, <1>6 DEF CodexLine, Restart, Rewrites
  <2>2. Puts(s, t, FreshTurn, v)
    BY <1>1, <1>2, <2>1, TurnPut
  <2>3. t = l.turn /\ CodexOpens(l)
    BY <1>1, <1>6 DEF CodexOpens
  <2> QED BY <1>5, <1>6, <2>2, <2>3 DEF TakesOn, MadeBy, Puts
<1>7. CASE l.kind = "started"
  <2>1. PICK w : w = WithTurn(s, l.turn)
    OBVIOUS
  <2>2. Builds(w) /\ l.turn \in DOMAIN w.turns /\ w.turns[l.turn] = TurnBefore(s, l.turn)
    BY <1>1, <2>1, TurnAdded
  <2>3. PICK r : r = [TurnBefore(s, l.turn) EXCEPT !.started = TRUE]
    OBVIOUS
  <2>4. r \in CodexTurn /\ r.at = TurnBefore(s, l.turn).at
    BY <1>3, <2>3 DEF CodexTurn
  <2>5. v = [w EXCEPT !.turns[l.turn].started = TRUE]
    BY <1>5, <1>7, <2>1 DEF CodexLine
  <2>6. v = Rewrites(WithTurn(s, l.turn), l.turn, r)
    <3>1. PICK o, T : w = [order |-> o, turns |-> T]
      BY <2>2 DEF Builds
    <3>2. l.turn \in DOMAIN T /\ T[l.turn] \in CodexTurn
      BY <1>3, <2>2, <3>1
    <3>3. v = Rewrites(w, l.turn, r)
      BY <2>2, <2>3, <2>5, <3>1, <3>2 DEF Rewrites
    <3> QED BY <2>1, <3>3
  <2>7. Puts(s, l.turn, r, v)
    BY <1>1, <2>4, <2>6, TurnPut
  <2>8. CodexOpens(l)
    BY <1>7 DEF CodexOpens
  <2> QED BY <1>5, <1>7, <2>3, <2>4, <2>7, <2>8 DEF TakesOn, MadeBy, Puts
<1>8. CASE l.kind = "user" /\ t # 0
  <2>1. PICK w : w = WithTurn(s, t)
    OBVIOUS
  <2>2. Builds(w) /\ t \in DOMAIN w.turns /\ w.turns[t] = TurnBefore(s, t)
    <3>1. t \in Nat
      BY <1>1
    <3>2. Builds(w) /\ DOMAIN w.turns = DOMAIN s.turns \cup {t}
          /\ \A x \in DOMAIN w.turns : w.turns[x] = TurnBefore(s, x)
      BY <2>1, <3>1, TurnAdded
    <3> QED BY <3>2
  <2>3. PICK r : r = [TurnBefore(s, t) EXCEPT !.user = TurnBefore(s, t).user \o l.text, !.started = TRUE]
    OBVIOUS
  <2>4. r \in CodexTurn
    <3>1. TurnBefore(s, t) \in CodexTurn
      BY <1>3
    <3>2. TurnBefore(s, t).user \o l.text \in Seq(STRING)
      BY <1>12, <3>1 DEF CodexTurn
    <3> QED BY <2>3, <3>1, <3>2 DEF CodexTurn
  <2>5. v = [w EXCEPT !.turns[t].user = @ \o l.text, !.turns[t].started = TRUE]
    BY <1>5, <1>8, <2>1 DEF CodexLine
  <2>6. v = Rewrites(WithTurn(s, t), t, r)
    <3>1. PICK o, T : w = [order |-> o, turns |-> T]
      BY <2>2 DEF Builds
    <3>2. t \in DOMAIN T /\ T[t] \in CodexTurn
      BY <1>3, <2>2, <3>1
    <3>3. v = Rewrites(w, t, r)
      BY <2>2, <2>3, <2>5, <3>1, <3>2 DEF Rewrites
    <3> QED BY <2>1, <3>3
  <2>7. Puts(s, t, r, v)
    BY <1>1, <2>4, <2>6, TurnPut
  <2>8. CodexOpens(l) <=> l.turn # 0
    BY <1>8 DEF CodexOpens
  <2> QED BY <1>1, <1>5, <1>8, <2>3, <2>7, <2>8 DEF TakesOn, MadeBy, Puts
<1>9. CASE l.kind = "complete" /\ t # 0 /\ t \in DOMAIN s.turns
  <2>1. PICK r : r = [s.turns[t] EXCEPT !.answer = s.turns[t].answer \o l.text, !.at = i]
    OBVIOUS
  <2>2. r \in CodexTurn
    <3>1. s.turns[t] \in CodexTurn
      BY <1>9 DEF Builds
    <3>2. s.turns[t].answer \o l.text \in Seq(STRING)
      BY <1>12, <3>1 DEF CodexTurn
    <3> QED BY <2>1, <3>1, <3>2 DEF CodexTurn
  <2>3. v = [s EXCEPT !.turns[t].answer = @ \o l.text, !.turns[t].at = i]
    BY <1>5, <1>9 DEF CodexLine
  <2>4. v = Rewrites(s, t, r)
    <3>1. PICK o, T : s = [order |-> o, turns |-> T]
      BY DEF Builds
    <3> QED BY <1>9, <2>1, <2>3, <3>1 DEF Rewrites
  <2>5. /\ Builds(v) /\ DOMAIN v.turns = DOMAIN s.turns /\ v.order = s.order
        /\ \A x \in DOMAIN v.turns : v.turns[x] = IF x = t THEN r ELSE s.turns[x]
    BY <1>9, <2>2, <2>4, TurnChanged
  <2>6. ~CodexOpens(l)
    BY <1>9 DEF CodexOpens
  <2>7. ASSUME NEW x \in DOMAIN s.turns PROVE v.turns[x] = MadeBy(s.turns[x], l, i, x, t)
    BY <1>9, <2>1, <2>5 DEF MadeBy
  <2>8. 0 \in DOMAIN s.turns => v.turns[0] = s.turns[0]
    BY <1>9, <2>5
  <2> QED BY <1>4, <1>5, <2>5, <2>6, <2>7, <2>8 DEF TakesOn
<1>10. CASE l.kind = "item" /\ t # 0
  <2>1. v = WithTurn(s, t)
    BY <1>5, <1>10 DEF CodexLine
  <2>2. /\ Builds(v) /\ DOMAIN v.turns = DOMAIN s.turns \cup {t}
        /\ v.order = IF t \in DOMAIN s.turns THEN s.order ELSE Append(s.order, t)
        /\ \A x \in DOMAIN v.turns : v.turns[x] = TurnBefore(s, x)
    BY <1>1, <2>1, TurnAdded
  <2>3. CodexOpens(l) <=> l.turn # 0
    BY <1>10 DEF CodexOpens
  <2> QED BY <1>1, <1>5, <1>10, <2>2, <2>3 DEF TakesOn, MadeBy, Puts
<1>11. CASE /\ ~(l.kind = "context" /\ l.turn # 0) /\ l.kind # "started" /\ ~(l.kind = "user" /\ t # 0)
            /\ ~(l.kind = "complete" /\ t # 0 /\ t \in DOMAIN s.turns) /\ ~(l.kind = "item" /\ t # 0)
  <2>1. v = s
    BY <1>5, <1>11 DEF CodexLine
  <2>2. ~CodexOpens(l)
    BY <1>1, <1>11 DEF CodexOpens
  <2>3. ASSUME NEW x \in DOMAIN s.turns, x # 0 PROVE s.turns[x] = MadeBy(TurnBefore(s, x), l, i, x, t)
    BY <1>4, <1>11, <2>3 DEF MadeBy
  <2> QED BY <1>4, <1>5, <2>1, <2>2, <2>3 DEF TakesOn
<1> QED BY <1>6, <1>7, <1>8, <1>9, <1>10, <1>11

\* One more line to a text, or none.
LEMMA TextNext ==
  ASSUME NEW d \in Seq(LogLine), NEW n \in Nat, n + 1 \in 1..Len(d), NEW S, S \subseteq 1..n
  PROVE  /\ TextUpTo(d, S)[n + 1] = TextUpTo(d, S)[n]
         /\ TextUpTo(d, S \cup {n + 1})[n + 1] = TextUpTo(d, S)[n] \o d[n + 1].text
         /\ TextUpTo(d, {})[n + 1] = <<>>
<1>1. n \in 0..Len(d) /\ n + 1 \in 0..Len(d) /\ (n + 1) - 1 = n /\ n + 1 \notin S
  OBVIOUS
<1>2. TextUpTo(d, S)[n + 1] = TextUpTo(d, S)[n]
  BY <1>1, TextGrows
<1>3. PICK T : T = S \cup {n + 1}
  OBVIOUS
<1>4. n + 1 \in T /\ \A i \in 1..n : i \in T <=> i \in S
  BY <1>3
<1>5. TextUpTo(d, T)[n + 1] = TextUpTo(d, T)[n] \o d[n + 1].text
  <2>1. PICK g : g = TextUpTo(d, T)
    OBVIOUS
  <2>2. \A m \in 1..Len(d) : g[m] = IF m \in T THEN g[m - 1] \o d[m].text ELSE g[m - 1]
    BY <2>1, TextGrows
  <2>3. g[n + 1] = g[(n + 1) - 1] \o d[n + 1].text
    BY <1>4, <2>2
  <2> QED BY <1>1, <2>1, <2>3
<1>6. TextUpTo(d, T)[n] = TextUpTo(d, S)[n]
  BY <1>1, <1>4, TextAgrees
<1>7. TextUpTo(d, {})[n + 1] = <<>>
  <2>1. PICK E : E = {}
    OBVIOUS
  <2>2. \A i \in 1..(n + 1) : i \notin E
    BY <2>1
  <2>3. (\A i \in 1..(n + 1) : i \notin E) => TextUpTo(d, E)[n + 1] = <<>>
    BY <1>1, TextAgrees
  <2> QED BY <2>1, <2>2, <2>3
<1> QED BY <1>2, <1>3, <1>5, <1>6, <1>7

\* A record that says what there was says, with the line, what there is.
LEMMA SaysNext ==
  ASSUME NEW d \in Seq(LogLine), NEW n \in Nat, n + 1 \in 1..Len(d), NEW t \in Nat \ {0},
         NEW r \in CodexTurn, TurnSays(d, n, t, r),
         NEW x, d[n + 1].kind # "started" => x = CodexOf(d, n + 1),
         \E j \in CodexOpened(d, n + 1) : d[j].turn = t
  PROVE  TurnSays(d, n + 1, t, MadeBy(r, d[n + 1], n + 1, t, x))
<1>1. PICK l, U, S, C : /\ l = d[n + 1] /\ U = CodexPart(d, "user", t, n)
                        /\ S = CodexPart(d, "started", t, n) /\ C = CodexPart(d, "complete", t, n)
  OBVIOUS
<1>2. PICK U1, S1, C1 : /\ U1 = CodexPart(d, "user", t, n + 1)
                        /\ S1 = CodexPart(d, "started", t, n + 1) /\ C1 = CodexPart(d, "complete", t, n + 1)
  OBVIOUS
<1>3. U \subseteq 1..n /\ S \subseteq 1..n /\ C \subseteq 1..n
  BY <1>1 DEF CodexPart
<1>4. /\ r.user = TextUpTo(d, U)[n] /\ r.answer = TextUpTo(d, C)[n]
      /\ (r.started <=> U \cup S # {}) /\ r.at \in 0..n /\ (r.at # 0 <=> C # {})
  BY <1>1 DEF TurnSays
<1>5. PICK q : q = MadeBy(r, l, n + 1, t, x)
  OBVIOUS
<1>6. SUFFICES /\ q.user = TextUpTo(d, U1)[n + 1] /\ q.answer = TextUpTo(d, C1)[n + 1]
               /\ (q.started <=> U1 \cup S1 # {}) /\ q.at \in 0..(n + 1) /\ (q.at # 0 <=> C1 # {})
  BY <1>1, <1>2, <1>5 DEF TurnSays
<1> DEFINE Renews == l.kind = "context" /\ l.turn = t
           Owned == CodexOf(d, n + 1) = t
<1>7. /\ U1 = IF Renews THEN {} ELSE IF l.kind = "user" /\ Owned THEN U \cup {n + 1} ELSE U
      /\ S1 = IF Renews THEN {} ELSE IF l.kind = "started" /\ Owned THEN S \cup {n + 1} ELSE S
      /\ C1 = IF Renews THEN {} ELSE IF l.kind = "complete" /\ Owned THEN C \cup {n + 1} ELSE C
  <2>1. ASSUME NEW kind, kind # "context"
        PROVE  CodexPart(d, kind, t, n + 1) =
                 IF Renews THEN {}
                 ELSE IF l.kind = kind /\ Owned THEN CodexPart(d, kind, t, n) \cup {n + 1} ELSE CodexPart(d, kind, t, n)
    <3>1. CodexPart(d, kind, t, n + 1) = PartAfter(d, kind, t, n)
      BY <2>1, PartNext
    <3> QED BY <1>1, <3>1 DEF PartAfter
  <2> HIDE DEF Renews, Owned
  <2>2. U1 = IF Renews THEN {} ELSE IF l.kind = "user" /\ Owned THEN U \cup {n + 1} ELSE U
    BY <1>1, <1>2, <2>1
  <2>3. S1 = IF Renews THEN {} ELSE IF l.kind = "started" /\ Owned THEN S \cup {n + 1} ELSE S
    BY <1>1, <1>2, <2>1
  <2>4. C1 = IF Renews THEN {} ELSE IF l.kind = "complete" /\ Owned THEN C \cup {n + 1} ELSE C
    BY <1>1, <1>2, <2>1
  <2> QED BY <2>2, <2>3, <2>4
<1>8. l.kind = "started" => (Owned <=> l.turn = t)
  BY <1>1 DEF CodexOf
<1>9. l.kind # "started" => (Owned <=> x = t)
  BY <1>1
<1>10. /\ TextUpTo(d, U)[n + 1] = TextUpTo(d, U)[n] /\ TextUpTo(d, C)[n + 1] = TextUpTo(d, C)[n]
       /\ TextUpTo(d, U \cup {n + 1})[n + 1] = TextUpTo(d, U)[n] \o l.text
       /\ TextUpTo(d, C \cup {n + 1})[n + 1] = TextUpTo(d, C)[n] \o l.text
       /\ TextUpTo(d, {})[n + 1] = <<>>
  BY <1>1, <1>3, TextNext
<1>11. r.started \in BOOLEAN /\ r = [started |-> r.started, user |-> r.user, answer |-> r.answer, at |-> r.at]
  BY DEF CodexTurn
<1> HIDE DEF Owned
<1>12. CASE Renews
  <2>1. q = FreshTurn /\ U1 = {} /\ S1 = {} /\ C1 = {}
    BY <1>5, <1>7, <1>12 DEF MadeBy
  <2> QED BY <1>10, <2>1 DEF FreshTurn
<1>13. CASE l.kind = "started" /\ l.turn = t
  <2>1. q = [r EXCEPT !.started = TRUE] /\ U1 = U /\ S1 = S \cup {n + 1} /\ C1 = C
    BY <1>5, <1>7, <1>8, <1>13 DEF MadeBy
  <2> QED BY <1>4, <1>10, <1>11, <2>1
<1>14. CASE l.kind = "user" /\ x = t
  <2>1. q = [r EXCEPT !.user = r.user \o l.text, !.started = TRUE] /\ U1 = U \cup {n + 1} /\ S1 = S /\ C1 = C
    BY <1>5, <1>7, <1>9, <1>14 DEF MadeBy
  <2>2. q.user = r.user \o l.text /\ q.answer = r.answer /\ q.started = TRUE /\ q.at = r.at
    BY <1>11, <2>1
  <2>3. q.user = TextUpTo(d, U1)[n + 1] /\ q.answer = TextUpTo(d, C1)[n + 1]
    BY <1>4, <1>10, <2>1, <2>2
  <2>4. q.started <=> U1 \cup S1 # {}
    BY <2>1, <2>2
  <2> QED BY <1>4, <2>1, <2>2, <2>3, <2>4
<1>15. CASE l.kind = "complete" /\ x = t
  <2>1. q = [r EXCEPT !.answer = r.answer \o l.text, !.at = n + 1] /\ U1 = U /\ S1 = S /\ C1 = C \cup {n + 1}
    BY <1>5, <1>7, <1>9, <1>15 DEF MadeBy
  <2>2. q.user = r.user /\ q.answer = r.answer \o l.text /\ q.started = r.started /\ q.at = n + 1
    BY <1>11, <2>1
  <2>3. q.user = TextUpTo(d, U1)[n + 1] /\ q.answer = TextUpTo(d, C1)[n + 1]
    BY <1>4, <1>10, <2>1, <2>2
  <2>4. q.started <=> U1 \cup S1 # {}
    BY <1>4, <2>1, <2>2
  <2>5. q.at \in 0..(n + 1) /\ q.at # 0 /\ C1 # {}
    BY <2>1, <2>2
  <2> QED BY <2>3, <2>4, <2>5
<1>16. CASE /\ ~Renews /\ ~(l.kind = "started" /\ l.turn = t)
            /\ ~(l.kind = "user" /\ x = t) /\ ~(l.kind = "complete" /\ x = t)
  <2>1. q = r /\ U1 = U /\ S1 = S /\ C1 = C
    BY <1>5, <1>7, <1>8, <1>9, <1>16 DEF MadeBy
  <2> QED BY <1>4, <1>10, <2>1
<1> QED BY <1>12, <1>13, <1>14, <1>15, <1>16

\* The last of the turns in order is there, and it is the line's, if that names none.
LEMMA AnchorOf ==
  ASSUME NEW d, NEW n \in Nat, NEW s, Built(d, n, s)
  PROVE  /\ Anchor(s, d[n + 1]) # d[n + 1].turn => Anchor(s, d[n + 1]) \in DOMAIN s.turns
         /\ d[n + 1].kind # "started" => Anchor(s, d[n + 1]) = CodexOf(d, n + 1)
<1>1. PICK F, l : F = CodexFirsts(d, n) /\ l = d[n + 1]
  OBVIOUS
<1>2. CASE F = {}
  <2>1. s.order = <<>>
    BY <1>1, <1>2 DEF Built
  <2>2. Anchor(s, l) = l.turn
    BY <2>1 DEF Anchor
  <2>3. CodexOf(d, n + 1) = l.turn
    <3>1. (n + 1) - 1 = n
      OBVIOUS
    <3> QED BY <1>1, <1>2, <3>1, Zenon DEF CodexOf
  <2> QED BY <1>1, <2>2, <2>3
<1>3. CASE F # {}
  <2>1. PICK m : m = Max(F)
    OBVIOUS
  <2>2. s.order # <<>> /\ Last(s.order) = d[m].turn
    BY <1>1, <1>3, <2>1 DEF Built
  <2>3. m \in CodexOpened(d, n)
    BY <1>1, <1>3, <2>1, LastFirst DEF CodexFirsts
  <2>4. d[m].turn \in DOMAIN s.turns
    BY <2>3 DEF Built
  <2>5. Anchor(s, l) = IF l.turn # 0 THEN l.turn ELSE d[m].turn
    BY <2>2 DEF Anchor
  <2>6. l.kind # "started" => CodexOf(d, n + 1) = IF l.turn # 0 THEN l.turn ELSE d[m].turn
    BY <1>1, <1>3, <2>1 DEF CodexOf
  <2> QED BY <1>1, <2>4, <2>5, <2>6
<1> QED BY <1>2, <1>3

\* A turn that no line opened has nothing.
LEMMA UnopenedSays ==
  ASSUME NEW d \in Seq(LogLine), NEW n \in 0..Len(d), NEW t, t \notin {d[i].turn : i \in CodexOpened(d, n)}
  PROVE  TurnSays(d, n, t, FreshTurn)
<1>1. ASSUME NEW kind PROVE CodexPart(d, kind, t, n) = {}
  <2>1. \A i \in 1..n : CodexOpened(d, i) \subseteq CodexOpened(d, n)
    BY DEF CodexOpened
  <2> QED BY <2>1 DEF CodexPart
<1>2. PICK E : E = {}
  OBVIOUS
<1>3. \A i \in 1..n : i \notin E
  BY <1>2
<1>4. (\A i \in 1..n : i \notin E) => TextUpTo(d, E)[n] = <<>>
  BY TextAgrees
<1>5. TextUpTo(d, {})[n] = <<>>
  BY <1>2, <1>3, <1>4
<1>6. n \in Nat
  OBVIOUS
<1>7. PICK r : r = FreshTurn
  OBVIOUS
<1>8. r.user = <<>> /\ r.answer = <<>> /\ r.started = FALSE /\ r.at = 0
  BY <1>7 DEF FreshTurn
<1>9. \A kind : TextUpTo(d, CodexPart(d, kind, t, n))[n] = <<>>
  BY <1>1, <1>5
<1>10. CodexPart(d, "user", t, n) = {} /\ CodexPart(d, "started", t, n) = {} /\ CodexPart(d, "complete", t, n) = {}
  BY <1>1
<1> QED BY <1>6, <1>7, <1>8, <1>9, <1>10 DEF TurnSays

\* The lines build what they say, one after the other.
LEMMA BuiltNext ==
  ASSUME NEW d \in Seq(LogLine), NEW n \in Nat, n + 1 \in 1..Len(d), NEW s, Built(d, n, s)
  PROVE  Built(d, n + 1, CodexLine(s, d[n + 1], n + 1))
<1>1. PICK l, v, x : l = d[n + 1] /\ v = CodexLine(s, l, n + 1) /\ x = Anchor(s, l)
  OBVIOUS
<1>2. n \in 0..Len(d) /\ n + 1 \in Nat /\ l \in LogLine
  BY <1>1
<1>3. Builds(s) /\ DOMAIN s.turns = {d[i].turn : i \in CodexOpened(d, n)} /\ DOMAIN s.turns \subseteq Nat
  BY DEF Built, Builds
<1>4. /\ x # l.turn => x \in DOMAIN s.turns
      /\ l.kind # "started" => x = CodexOf(d, n + 1)
  BY <1>1, AnchorOf
<1>5. TakesOn(s, v, l, n + 1)
  <2>1. Builds(s)
    BY <1>3
  <2> QED BY <1>1, <1>2, <1>4, <2>1, LineTakesOn
<1>6. /\ Builds(v) /\ DOMAIN v.turns = DOMAIN s.turns \cup (IF CodexOpens(l) THEN {l.turn} ELSE {})
      /\ v.order = IF CodexOpens(l) /\ l.turn \notin DOMAIN s.turns THEN Append(s.order, l.turn) ELSE s.order
      /\ \A t \in DOMAIN v.turns : t # 0 => v.turns[t] = MadeBy(TurnBefore(s, t), l, n + 1, t, x)
      /\ 0 \in DOMAIN v.turns => v.turns[0].at = TurnBefore(s, 0).at
  BY <1>1, <1>5 DEF TakesOn
<1>7. /\ CodexOpened(d, n + 1) = CodexOpened(d, n) \cup (IF CodexOpens(l) THEN {n + 1} ELSE {})
      /\ CodexFirsts(d, n + 1) = CodexFirsts(d, n) \cup
            (IF CodexOpens(l) /\ \A j \in CodexOpened(d, n) : d[j].turn # l.turn THEN {n + 1} ELSE {})
  BY <1>1, OpenedNext
<1>8. DOMAIN v.turns = {d[i].turn : i \in CodexOpened(d, n + 1)}
  <2>1. {d[i].turn : i \in CodexOpened(d, n + 1)} =
            {d[i].turn : i \in CodexOpened(d, n)} \cup (IF CodexOpens(l) THEN {l.turn} ELSE {})
    BY <1>1, <1>7
  <2> QED BY <1>3, <1>6, <2>1
<1>9. IF CodexFirsts(d, n + 1) = {} THEN v.order = <<>>
      ELSE v.order # <<>> /\ Last(v.order) = d[Max(CodexFirsts(d, n + 1))].turn
  <2>1. CASE CodexOpens(l) /\ l.turn \notin DOMAIN s.turns
    <3>1. \A j \in CodexOpened(d, n) : d[j].turn # l.turn
      BY <1>3, <2>1
    <3>2. CodexFirsts(d, n + 1) = CodexFirsts(d, n) \cup {n + 1}
      BY <1>7, <2>1, <3>1
    <3>3. PICK m : m = Max(CodexFirsts(d, n + 1))
      OBVIOUS
    <3>4. CodexFirsts(d, n + 1) # {}
      BY <3>2
    <3>5. m \in CodexFirsts(d, n + 1) /\ \A i \in CodexFirsts(d, n + 1) : m >= i
      BY <1>2, <3>3, <3>4, LastFirst
    <3>6. CodexFirsts(d, n) \subseteq 1..n
      BY DEF CodexFirsts, CodexOpened
    <3>7. m = n + 1
      BY <3>2, <3>5, <3>6
    <3>8. s.order \in Seq(Nat) /\ l.turn \in Nat /\ v.order = Append(s.order, l.turn)
      BY <1>2, <1>3, <1>6, <2>1 DEF Builds, LogLine
    <3>9. v.order # <<>> /\ Last(v.order) = l.turn
      <4>1. PICK o, y : o = s.order /\ y = l.turn
        OBVIOUS
      <4>2. o \in Seq(Nat) /\ y \in Nat /\ v.order = Append(o, y)
        BY <3>8, <4>1
      <4>3. Len(Append(o, y)) = Len(o) + 1 /\ Append(o, y)[Len(o) + 1] = y /\ Append(o, y) # <<>>
        BY <4>2
      <4> QED BY <4>1, <4>2, <4>3 DEF Last
    <3> QED BY <1>1, <3>3, <3>4, <3>7, <3>9
  <2>2. CASE ~(CodexOpens(l) /\ l.turn \notin DOMAIN s.turns)
    <3>1. ~(CodexOpens(l) /\ \A j \in CodexOpened(d, n) : d[j].turn # l.turn)
      BY <1>3, <2>2
    <3>2. CodexFirsts(d, n + 1) = CodexFirsts(d, n) /\ v.order = s.order
      BY <1>6, <1>7, <2>2, <3>1
    <3> QED BY <3>2 DEF Built
  <2> QED BY <2>1, <2>2
<1>10. ASSUME NEW t \in DOMAIN v.turns, t # 0 PROVE TurnSays(d, n + 1, t, v.turns[t])
  <2>1. PICK r : r = TurnBefore(s, t)
    OBVIOUS
  <2>2. t \in Nat \ {0}
    BY <1>6, <1>10 DEF Builds
  <2>3. r \in CodexTurn
    BY <1>3, <2>1 DEF Builds, TurnBefore, FreshTurn, CodexTurn
  <2>4. TurnSays(d, n, t, r)
    <3>1. CASE t \in DOMAIN s.turns
      BY <1>10, <2>1, <3>1 DEF Built, TurnBefore
    <3>2. CASE t \notin DOMAIN s.turns
      <4>1. r = FreshTurn /\ t \notin {d[i].turn : i \in CodexOpened(d, n)}
        BY <1>3, <2>1, <3>2 DEF TurnBefore
      <4> QED BY <1>2, <4>1, UnopenedSays
    <3> QED BY <3>1, <3>2
  <2>5. \E j \in CodexOpened(d, n + 1) : d[j].turn = t
    BY <1>8, <1>10
  <2>6. d[n + 1].kind # "started" => x = CodexOf(d, n + 1)
    BY <1>1, <1>4
  <2>7. TurnSays(d, n + 1, t, MadeBy(r, d[n + 1], n + 1, t, x))
    BY <2>2, <2>3, <2>4, <2>5, <2>6, SaysNext
  <2> QED BY <1>1, <1>6, <1>10, <2>1, <2>7
<1>11. ASSUME 0 \in DOMAIN v.turns PROVE v.turns[0].at = 0
  BY <1>6, <1>11 DEF Built, TurnBefore, FreshTurn
<1> QED BY <1>1, <1>6, <1>8, <1>9, <1>10, <1>11 DEF Built

\* What CodexTurns comes to is what all the lines say.
LEMMA CodexBuilt ==
  ASSUME NEW d \in Seq(LogLine)
  PROVE  \E s : Built(d, Len(d), s) /\ CodexTurns(d) = s.turns
<1>1. PICK N : N = Len(d) /\ N \in Nat
  OBVIOUS
<1>2. PICK g : g = CHOOSE f : FoldsTo(d, N, f)
  OBVIOUS
<1>3. FoldsTo(d, N, g)
  BY <1>1, <1>2, LinesFolded
<1>4. CodexTurns(d) = g[N].turns
  BY <1>1, <1>2, Zenon DEF CodexTurns, FoldsTo
<1>5. /\ g[0] = [order |-> <<>>, turns |-> <<>>]
      /\ \A n \in 1..N : g[n] = CodexLine(g[n - 1], d[n], n)
  BY <1>1, <1>3 DEF FoldsTo
<1> DEFINE Wrong == {n \in 0..N : ~Built(d, n, g[n])}
<1>6. Built(d, 0, g[0])
  <2>1. PICK s : s = g[0]
    OBVIOUS
  <2>2. s.order = <<>> /\ s.turns = <<>> /\ s = [order |-> s.order, turns |-> s.turns]
    BY <1>5, <2>1
  <2>3. DOMAIN s.turns = {} /\ s.turns \in [{} -> CodexTurn]
    BY <2>2
  <2>4. Builds(s)
    BY <2>2, <2>3 DEF Builds
  <2>5. CodexOpened(d, 0) = {} /\ CodexFirsts(d, 0) = {}
    BY DEF CodexOpened, CodexFirsts
  <2> QED BY <2>1, <2>2, <2>3, <2>4, <2>5 DEF Built
<1>7. Wrong = {}
  <2>1. SUFFICES ASSUME Wrong # {} PROVE FALSE
    OBVIOUS
  <2>2. Wrong \subseteq Nat
    BY <1>1
  <2>3. PICK k \in Wrong : \A m \in Wrong : k <= m
    BY <2>1, <2>2, LeastOf
  <2>4. k # 0 /\ k \in 1..N
    BY <1>1, <1>6, <2>3
  <2>5. PICK n : n = k - 1
    OBVIOUS
  <2>6. n \in Nat /\ n + 1 = k /\ n + 1 \in 1..N /\ n \in 0..N /\ n \notin Wrong
    BY <1>1, <2>2, <2>3, <2>4, <2>5
  <2>7. Built(d, n, g[n])
    BY <2>6
  <2>8. Built(d, n + 1, CodexLine(g[n], d[n + 1], n + 1))
    BY <1>1, <2>6, <2>7, BuiltNext
  <2>9. g[k] = CodexLine(g[n], d[k], k)
    BY <1>5, <2>4, <2>5
  <2>10. Built(d, k, g[k])
    BY <2>6, <2>8, <2>9
  <2> QED BY <2>3, <2>10
<1>8. Built(d, N, g[N])
  BY <1>1, <1>7
<1> QED BY <1>1, <1>4, <1>8

\* Each turn that is complete and was started is an envelope, with all of its text.
LEMMA CodexShown ==
  ASSUME ScanInv, NEW f \in Files, agent = "codex"
  PROVE  {[key |-> e.key, text |-> e.text] : e \in Shows(f)} = Finished(f)
<1>1. PICK d, h : d = data[f] /\ h = edition[f]
  OBVIOUS
<1>2. d \in Seq(LogLine) /\ DOMAIN d = 1..Len(d) /\ Len(d) \in Nat
  BY <1>1, DataOf DEF Shape
<1>3. PICK s, T, N : Built(d, N, s) /\ T = s.turns /\ T = CodexTurns(d) /\ N = Len(d)
  BY <1>2, CodexBuilt
<1>4. DOMAIN T = {d[i].turn : i \in CodexOpened(d, N)}
      /\ (\A t \in DOMAIN T : t # 0 => TurnSays(d, N, t, T[t])) /\ (0 \in DOMAIN T => T[0].at = 0)
  BY <1>3 DEF Built
<1>5. PICK M, sess : M = CodexMetas(d) /\ sess = d[Min(M)].session
  OBVIOUS
<1> DEFINE Text(kind, t) == TextUpTo(d, CodexPart(d, kind, t, N))[N]
           Entry(t) == [key |-> <<sess, t>>, text |-> Text("user", t) \o Text("complete", t)]
           Shown == {x \in DOMAIN T : M # {} /\ T[x].started /\ T[x].at \in DOMAIN d}
           Ended == {x \in {d[i].turn : i \in 1..N} \ {0} :
                        CodexPart(d, "complete", x, N) # {} /\ CodexPart(d, "user", x, N) \cup CodexPart(d, "started", x, N) # {}}
<1>6. ASSUME NEW t \in DOMAIN T, T[t].at # 0
      PROVE  /\ T[t].user = Text("user", t) /\ T[t].answer = Text("complete", t)
             /\ T[t].started <=> CodexPart(d, "user", t, N) \cup CodexPart(d, "started", t, N) # {}
             /\ T[t].at \in 0..N /\ CodexPart(d, "complete", t, N) # {} /\ t # 0
  BY <1>4, <1>6 DEF TurnSays
<1>7. ASSUME NEW t \in DOMAIN T, t # 0, CodexPart(d, "complete", t, N) # {}
      PROVE  T[t].at # 0
  BY <1>4, <1>7 DEF TurnSays
<1>8. M # {} => Shown = Ended
  <2>1. ASSUME NEW t \in Shown PROVE t \in Ended
    <3>1. t \in DOMAIN T /\ T[t].at # 0 /\ T[t].started
      BY <1>2, <2>1
    <3>2. t \in {d[i].turn : i \in 1..N}
      BY <1>4, <3>1 DEF CodexOpened
    <3> QED BY <1>6, <3>1, <3>2
  <2>2. ASSUME M # {}, NEW t \in Ended PROVE t \in Shown
    <3>1. t # 0 /\ CodexPart(d, "complete", t, N) # {}
      BY <2>2
    <3>2. PICK i \in 1..N : \E j \in CodexOpened(d, i) : d[j].turn = t
      BY <3>1 DEF CodexPart
    <3>3. CodexOpened(d, i) \subseteq CodexOpened(d, N)
      BY <1>2, <1>3, <3>2 DEF CodexOpened
    <3>4. t \in DOMAIN T
      BY <1>4, <3>2, <3>3
    <3>5. T[t].at # 0
      BY <1>7, <3>1, <3>4
    <3>6. T[t].at \in 0..N /\ T[t].started
      BY <1>6, <2>2, <3>4, <3>5
    <3>7. T[t].at \in DOMAIN d
      BY <1>2, <1>3, <3>5, <3>6
    <3> QED BY <2>2, <3>4, <3>6, <3>7
  <2> QED BY <2>1, <2>2
<1>9. Shows(f) = {CodexEnvelope(sess, t, T[t], f, h, CodexSaid(d, t)) : t \in Shown}
  BY <1>1, <1>3, <1>5 DEF Shows, LogScan, CodexScan
<1>10. Finished(f) = IF M = {} THEN {} ELSE {Entry(t) : t \in Ended}
  BY <1>1, <1>3, <1>5 DEF Finished, CodexFinished
<1>11. ASSUME NEW t \in Shown
       PROVE  /\ CodexEnvelope(sess, t, T[t], f, h, CodexSaid(d, t)).key = <<sess, t>>
              /\ CodexEnvelope(sess, t, T[t], f, h, CodexSaid(d, t)).text = Text("user", t) \o Text("complete", t)
  <2>1. t \in DOMAIN T /\ T[t].at # 0
    BY <1>2, <1>11
  <2>2. T[t].user = Text("user", t) /\ T[t].answer = Text("complete", t)
    BY <1>6, <2>1
  <2>3. /\ CodexEnvelope(sess, t, T[t], f, h, CodexSaid(d, t)).key = <<sess, t>>
        /\ CodexEnvelope(sess, t, T[t], f, h, CodexSaid(d, t)).text = T[t].user \o T[t].answer
    BY DEF CodexEnvelope, Envelope
  <2> QED BY <2>2, <2>3
<1> HIDE DEF Text, Shown, Ended
<1>12. PICK F, G : F = {[key |-> e.key, text |-> e.text] : e \in Shows(f)} /\ G = {Entry(t) : t \in Shown}
  OBVIOUS
<1>13. ASSUME NEW x \in F PROVE x \in G
  <2>1. PICK e \in Shows(f) : x = [key |-> e.key, text |-> e.text]
    BY <1>12, <1>13
  <2>2. PICK t \in Shown : e = CodexEnvelope(sess, t, T[t], f, h, CodexSaid(d, t))
    BY <1>9
  <2>3. x = Entry(t)
    BY <1>11, <2>1, <2>2
  <2> QED BY <1>12, <2>3
<1>14. ASSUME NEW x \in G PROVE x \in F
  <2>1. PICK t \in Shown : x = Entry(t)
    BY <1>12, <1>14
  <2>2. PICK e : e = CodexEnvelope(sess, t, T[t], f, h, CodexSaid(d, t))
    OBVIOUS
  <2>3. e \in Shows(f)
    BY <1>9, <2>2
  <2>4. x = [key |-> e.key, text |-> e.text]
    BY <1>11, <2>1, <2>2
  <2> QED BY <1>12, <2>3, <2>4
<1>15. F = G
  BY <1>13, <1>14
<1>16. M = {} => Shown = {}
  BY DEF Shown
<1>17. G = IF M = {} THEN {} ELSE {Entry(t) : t \in Ended}
  <2>1. CASE M = {}
    BY <1>12, <1>16, <2>1
  <2>2. CASE M # {}
    BY <1>8, <1>12, <2>2
  <2> QED BY <2>1, <2>2
<1> QED BY <1>10, <1>12, <1>15, <1>17

\* What is shown is what is finished, for each of the agents.
LEMMA FinishedInv ==
  ASSUME ScanInv
  PROVE  FinishedIsShown
<1>1. agent \in {"claude_code", "codex", "opencode"}
  BY DEF ScanInv, ScanTypeOK, AgentKinds
<1>2. \A f \in Files : {[key |-> e.key, text |-> e.text] : e \in Shows(f)} = Finished(f)
  BY <1>1, ClaudeShown, CodexShown, OpencodeShown
<1> QED BY <1>2 DEF FinishedIsShown, Found

-----------------------------------------------------------------------------
(* Mining. A clustering of events: every round of merges leaves one behind   *)
(* with a cluster less, until no two should merge.                           *)

SoundCluster(c) ==
    /\ c = ClusterRecord(c.fp, c.chunk, c.members)
    /\ c.chunk \in Nat /\ c.fp \in Fingerprints
    /\ IsFiniteSet(c.members) /\ c.members # {} /\ c.count <= MaxClusterMembers
    /\ \A e \in c.members : e.kind = c.kind

Clusters(C, S) ==
    /\ IsFiniteSet(C)
    /\ \A c \in C : SoundCluster(c) /\ c.members \subseteq S
    /\ \A e \in S : \E c \in C : e \in c.members
    /\ \A c, d \in C : c # d => c.members \cap d.members = {} /\ <<c.fp, c.chunk>> # <<d.fp, d.chunk>>

Mergeable(C) == {p \in C \X C : Before(p[1], p[2]) /\ ShouldMerge(p[1], p[2])}

\* The fields of a cluster that is counted anew.
LEMMA ClusterFields ==
  ASSUME NEW fp, NEW n, NEW S, NEW c, c = ClusterRecord(fp, n, S)
  PROVE  /\ c.fp = fp /\ c.kind = fp[1] /\ c.chunk = n /\ c.members = S
         /\ c.terms = UNION {NormalizeRetrievalTerms(e.terms) : e \in S}
         /\ c.sessions = {e.session : e \in S} \ {0} /\ c.days = {e.day : e \in S}
         /\ c.distinctSessions = Cardinality(c.sessions) /\ c.distinctDays = Cardinality(c.days)
         /\ c.successes = Cardinality(Succeeded(S)) /\ c.count = Cardinality(S)
BY DEF ClusterRecord

\* Of any clusters one lies before the others.
LEMMA FirstCluster ==
  ASSUME NEW S, NEW C, Clusters(C, S), NEW D, D \subseteq C, D # {}
  PROVE  \E x \in D : \A y \in D : y = x \/ Before(x, y)
<1>1. \A c \in D : Rank(c.fp) \in Nat /\ c.chunk \in Nat /\ c.fp \in Fingerprints
  BY RankAssumption DEF Clusters, SoundCluster
<1>2. PICK r \in {Rank(c.fp) : c \in D} : \A q \in {Rank(c.fp) : c \in D} : r <= q
  <2>1. {Rank(c.fp) : c \in D} \subseteq Nat /\ {Rank(c.fp) : c \in D} # {}
    BY <1>1
  <2> QED BY <2>1, LeastOf
<1> DEFINE E == {c \in D : Rank(c.fp) = r}
<1>3. PICK n \in {c.chunk : c \in E} : \A m \in {c.chunk : c \in E} : n <= m
  <2>1. {c.chunk : c \in E} \subseteq Nat /\ {c.chunk : c \in E} # {}
    BY <1>1, <1>2
  <2> QED BY <2>1, LeastOf
<1>4. PICK x \in E : x.chunk = n
  BY <1>3
<1>5. ASSUME NEW y \in D, y # x PROVE Before(x, y)
  <2>1. CASE y \in E
    <3>1. y.fp = x.fp
      BY <1>1, <1>4, <2>1, RankAssumption
    <3>2. y.chunk # x.chunk
      BY <1>4, <1>5, <3>1 DEF Clusters
    <3>3. x.chunk <= y.chunk
      BY <1>3, <1>4, <2>1
    <3> QED BY <1>1, <1>4, <3>1, <3>2, <3>3 DEF Before
  <2>2. CASE y \notin E
    <3>1. Rank(x.fp) <= Rank(y.fp) /\ Rank(x.fp) # Rank(y.fp)
      BY <1>2, <1>4, <2>2
    <3> QED BY <1>1, <1>4, <3>1 DEF Before
  <2> QED BY <2>1, <2>2
<1> QED BY <1>4, <1>5

\* The pair that MergeFirst merges.
LEMMA FirstPair ==
  ASSUME NEW S, NEW C, Clusters(C, S), Mergeable(C) # {}
  PROVE  \E p \in Mergeable(C) :
            MergeFirst(C) = (C \ {p[1], p[2]}) \cup {Merge(p[1], p[2])}
<1> DEFINE P == Mergeable(C)
           First(p) == \A q \in P : p = q \/ Before(p[1], q[1]) \/ (p[1] = q[1] /\ Before(p[2], q[2]))
<1>1. \A p \in P : p = <<p[1], p[2]>> /\ p[1] \in C /\ p[2] \in C
  BY DEF Mergeable
<1>2. PICK x \in {p[1] : p \in P} : \A y \in {p[1] : p \in P} : y = x \/ Before(x, y)
  <2>1. {p[1] : p \in P} \subseteq C /\ {p[1] : p \in P} # {}
    BY <1>1
  <2> QED BY <2>1, FirstCluster
<1>3. PICK z \in {p[2] : p \in {q \in P : q[1] = x}} :
          \A y \in {p[2] : p \in {q \in P : q[1] = x}} : y = z \/ Before(z, y)
  <2>1. {p[2] : p \in {q \in P : q[1] = x}} \subseteq C /\ {p[2] : p \in {q \in P : q[1] = x}} # {}
    BY <1>1, <1>2
  <2> QED BY <2>1, FirstCluster
<1>4. PICK p \in P : p[1] = x /\ p[2] = z
  BY <1>3
<1>5. First(p)
  <2>1. SUFFICES ASSUME NEW q \in P, p # q
                 PROVE  Before(p[1], q[1]) \/ (p[1] = q[1] /\ Before(p[2], q[2]))
    OBVIOUS
  <2>2. q[1] = x \/ Before(x, q[1])
    BY <1>2
  <2>3. ASSUME q[1] = x PROVE q[2] # z /\ Before(z, q[2])
    BY <1>1, <1>3, <1>4, <2>1, <2>3
  <2> QED BY <1>4, <2>2, <2>3
<1>6. PICK f : f = (CHOOSE q \in P : First(q))
  OBVIOUS
<1>7. f \in P
  BY <1>5, <1>6
<1>8. MergeFirst(C) = (C \ {f[1], f[2]}) \cup {Merge(f[1], f[2])}
  BY <1>6, <1>7 DEF MergeFirst, Mergeable
<1> QED BY <1>7, <1>8

\* Two clusters of one kind that share no event make up the cluster of their events.
LEMMA MergeSound ==
  ASSUME NEW x, NEW y, SoundCluster(x), SoundCluster(y), x.members \cap y.members = {},
         ShouldMerge(x, y)
  PROVE  /\ SoundCluster(Merge(x, y))
         /\ Merge(x, y).fp = x.fp /\ Merge(x, y).chunk = x.chunk
         /\ Merge(x, y).members = x.members \cup y.members
<1>0. PICK A, B : A = x.members /\ B = y.members
  OBVIOUS
<1>1. x = ClusterRecord(x.fp, x.chunk, A) /\ y = ClusterRecord(y.fp, y.chunk, B)
  BY <1>0 DEF SoundCluster
<1>2. PICK m : m = ClusterRecord(x.fp, x.chunk, A \cup B)
  OBVIOUS
<1>3. /\ x.kind = x.fp[1]
      /\ x.terms = UNION {NormalizeRetrievalTerms(e.terms) : e \in A}
      /\ x.sessions = {e.session : e \in A} \ {0} /\ x.days = {e.day : e \in A}
      /\ x.successes = Cardinality(Succeeded(A)) /\ x.count = Cardinality(A)
      /\ y.terms = UNION {NormalizeRetrievalTerms(e.terms) : e \in B}
      /\ y.sessions = {e.session : e \in B} \ {0} /\ y.days = {e.day : e \in B}
      /\ y.successes = Cardinality(Succeeded(B)) /\ y.count = Cardinality(B)
  <2> HIDE DEF ClusterRecord
  <2> QED BY <1>1, ClusterFields
<1>13. /\ m.fp = x.fp /\ m.kind = x.fp[1] /\ m.chunk = x.chunk /\ m.members = A \cup B
      /\ m.terms = UNION {NormalizeRetrievalTerms(e.terms) : e \in A \cup B}
      /\ m.sessions = {e.session : e \in A \cup B} \ {0} /\ m.days = {e.day : e \in A \cup B}
      /\ m.distinctSessions = Cardinality(m.sessions) /\ m.distinctDays = Cardinality(m.days)
      /\ m.successes = Cardinality(Succeeded(A \cup B)) /\ m.count = Cardinality(A \cup B)
  BY <1>2, ClusterFields
<1>4. m.terms = x.terms \cup y.terms
  BY <1>3, <1>13
<1>5. m.sessions = x.sessions \cup y.sessions
  BY <1>3, <1>13
<1>6. m.days = x.days \cup y.days
  BY <1>3, <1>13
<1>7. IsFiniteSet(A) /\ IsFiniteSet(B) /\ A \cap B = {}
  BY <1>0 DEF SoundCluster
<1>8. m.count = x.count + y.count
  <2>1. Cardinality(A \cup B) = Cardinality(A) + Cardinality(B)
    BY <1>7, DisjointUnion
  <2> QED BY <1>3, <1>13, <2>1
<1>9. m.successes = x.successes + y.successes
  <2>1. /\ Succeeded(A) \subseteq A /\ Succeeded(B) \subseteq B
        /\ Succeeded(A \cup B) = Succeeded(A) \cup Succeeded(B)
    BY DEF Succeeded
  <2>2. IsFiniteSet(Succeeded(A)) /\ IsFiniteSet(Succeeded(B))
    BY <1>7, <2>1, FS_Subset
  <2>3. Succeeded(A) \cap Succeeded(B) = {}
    BY <1>7, <2>1
  <2>4. Cardinality(Succeeded(A) \cup Succeeded(B)) =
            Cardinality(Succeeded(A)) + Cardinality(Succeeded(B))
    BY <2>2, <2>3, DisjointUnion
  <2> QED BY <1>3, <1>13, <2>1, <2>4
<1>10. Merge(x, y) = m
  <2>1. m = [fp |-> m.fp, kind |-> m.kind, chunk |-> m.chunk, members |-> m.members,
             terms |-> m.terms, sessions |-> m.sessions, days |-> m.days,
             distinctSessions |-> m.distinctSessions, distinctDays |-> m.distinctDays,
             successes |-> m.successes, count |-> m.count]
    BY <1>2 DEF ClusterRecord
  <2> QED BY <1>0, <1>3, <1>13, <1>4, <1>5, <1>6, <1>8, <1>9, <2>1 DEF Merge
<1>11. SoundCluster(m)
  <2>1. IsFiniteSet(A \cup B)
    BY <1>7, FS_Union
  <2>2. m.count <= MaxClusterMembers /\ x.kind = y.kind
    BY <1>8, <1>13 DEF ShouldMerge
  <2>3. \A e \in A \cup B : e.kind = m.kind
    BY <1>0, <1>3, <1>13, <2>2 DEF SoundCluster
  <2>4. m = ClusterRecord(m.fp, m.chunk, m.members)
    BY <1>2, <1>13
  <2>5. m.members # {} /\ m.chunk \in Nat /\ m.fp \in Fingerprints /\ m.members = A \cup B
    BY <1>0, <1>13 DEF SoundCluster
  <2> HIDE DEF ClusterRecord
  <2> QED BY <2>1, <2>2, <2>3, <2>4, <2>5 DEF SoundCluster
<1> QED BY <1>0, <1>13, <1>10, <1>11

\* A round leaves clusters of the same events, and one less when it merged two.
LEMMA MergeClusters ==
  ASSUME NEW S, NEW C, Clusters(C, S)
  PROVE  /\ Clusters(MergeFirst(C), S)
         /\ Mergeable(C) # {} => Cardinality(MergeFirst(C)) < Cardinality(C)
<1>1. CASE Mergeable(C) = {}
  BY <1>1 DEF MergeFirst, Mergeable
<1>2. CASE Mergeable(C) # {}
  <2>1. PICK p \in Mergeable(C) : MergeFirst(C) = (C \ {p[1], p[2]}) \cup {Merge(p[1], p[2])}
    BY <1>2, FirstPair
  <2>2. PICK x, y : x = p[1] /\ y = p[2]
    OBVIOUS
  <2>3. x \in C /\ y \in C /\ ShouldMerge(x, y) /\ x # y
    BY <2>1, <2>2 DEF Mergeable, ShouldMerge
  <2>4. SoundCluster(x) /\ SoundCluster(y) /\ x.members \cap y.members = {}
    BY <2>3 DEF Clusters
  <2>5. PICK m : m = Merge(x, y)
    OBVIOUS
  <2>6. SoundCluster(m) /\ m.fp = x.fp /\ m.chunk = x.chunk /\ m.members = x.members \cup y.members
    BY <2>3, <2>4, <2>5, MergeSound
  <2>7. PICK D : D = C \ {x, y}
    OBVIOUS
  <2>8. MergeFirst(C) = D \cup {m}
    BY <2>1, <2>2, <2>5, <2>7
  <2>9. /\ IsFiniteSet(D) /\ Cardinality(D) = Cardinality(C) - 2
    <3>1. /\ IsFiniteSet(C \ {x}) /\ Cardinality(C \ {x}) = Cardinality(C) - 1
          /\ Cardinality(C) \in Nat
      BY <2>3, FS_RemoveElement, FS_CardinalityType DEF Clusters
    <3>2. y \in C \ {x} /\ D = (C \ {x}) \ {y}
      BY <2>3, <2>7
    <3>3. IsFiniteSet(D) /\ Cardinality(D) = Cardinality(C \ {x}) - 1
      BY <3>1, <3>2, FS_RemoveElement
    <3> QED BY <3>1, <3>3
  <2>10. IsFiniteSet(D \cup {m}) /\ Cardinality(D \cup {m}) <= Cardinality(D) + 1
    <3>1. Cardinality(D) \in Nat
      BY <2>9, FS_CardinalityType
    <3>2. /\ IsFiniteSet(D \cup {m})
          /\ Cardinality(D \cup {m}) = IF m \in D THEN Cardinality(D) ELSE Cardinality(D) + 1
      BY <2>9, FS_AddElement
    <3> QED BY <3>1, <3>2
  <2>11. \A c \in D \cup {m} : SoundCluster(c) /\ c.members \subseteq S
    BY <2>3, <2>6, <2>7 DEF Clusters
  <2>12. \A e \in S : \E c \in D \cup {m} : e \in c.members
    BY <2>3, <2>6, <2>7 DEF Clusters
  <2>13. \A c \in D : c.members \cap m.members = {} /\ <<c.fp, c.chunk>> # <<m.fp, m.chunk>>
    BY <2>3, <2>6, <2>7 DEF Clusters
  <2>14. \A c, d \in D \cup {m} : c # d =>
            c.members \cap d.members = {} /\ <<c.fp, c.chunk>> # <<d.fp, d.chunk>>
    BY <2>7, <2>13 DEF Clusters
  <2>15. Cardinality(C) \in Nat
    BY FS_CardinalityType DEF Clusters
  <2>16. Clusters(D \cup {m}, S)
    BY <2>10, <2>11, <2>12, <2>14 DEF Clusters
  <2>17. Cardinality(D \cup {m}) < Cardinality(C)
    <3>1. Cardinality(D \cup {m}) \in Nat
      BY <2>10, FS_CardinalityType
    <3> QED BY <2>9, <2>10, <2>15, <3>1
  <2> QED BY <2>8, <2>16, <2>17
<1> QED BY <1>1, <1>2

\* What division leaves.
LEMMA Divided ==
  ASSUME NEW w \in Nat, NEW b \in Nat \ {0}
  PROVE  LET k == w \div b IN k \in Nat /\ k * b \in Nat /\ k * b <= w /\ w < k * b + b
OBVIOUS

\* Events of one fingerprint have places of their own in its partition.
LEMMA PlacesDiffer ==
  ASSUME NEW S, S \subseteq Events, IsFiniteSet(S), NEW x \in S, NEW y \in S, x # y,
         PatternFingerprint(x) = PatternFingerprint(y)
  PROVE  PlaceOf(x, S) \in Nat /\ PlaceOf(y, S) \in Nat /\ PlaceOf(x, S) # PlaceOf(y, S)
<1> DEFINE Earlier(e) == {z \in S : PatternFingerprint(z) = PatternFingerprint(e) /\ z.id < e.id}
<1>1. \A e \in S : e.id \in Nat /\ \A f \in S : e.id = f.id => e = f
  BY MiningAssumption
<1>2. \A e \in S : IsFiniteSet(Earlier(e)) /\ PlaceOf(e, S) = Cardinality(Earlier(e))
  BY FS_Subset DEF PlaceOf
<1>3. ASSUME NEW e \in S, NEW f \in S, PatternFingerprint(e) = PatternFingerprint(f), e.id < f.id
      PROVE  Cardinality(Earlier(e)) # Cardinality(Earlier(f))
  <2>1. Earlier(e) \subseteq Earlier(f) /\ e \in Earlier(f) /\ e \notin Earlier(e)
    BY <1>1, <1>3
  <2> HIDE DEF Earlier
  <2> QED BY <1>2, <2>1, FS_Subset
<1>4. x.id < y.id \/ y.id < x.id
  BY <1>1
<1>5. Cardinality(Earlier(x)) \in Nat /\ Cardinality(Earlier(y)) \in Nat
  BY <1>2, FS_CardinalityType
<1> HIDE DEF Earlier
<1> QED BY <1>2, <1>3, <1>4, <1>5

\* A chunk is never above the cap.
LEMMA ChunkBounded ==
  ASSUME NEW S, S \subseteq Events, IsFiniteSet(S), NEW e \in S
  PROVE  IsFiniteSet(ChunkLike(e, S)) /\ Cardinality(ChunkLike(e, S)) <= MaxClusterMembers
<1> DEFINE T == ChunkLike(e, S)
           M == MaxClusterMembers
<1>1. M \in Nat \ {0}
  BY MiningAssumption DEF ValidConfig
<1>2. PICK k : k = ChunkOf(e, S)
  OBVIOUS
<1>3. \A x \in S : PlaceOf(x, S) \in Nat
  BY FS_Subset, FS_CardinalityType DEF PlaceOf
<1>4. \A x \in T : /\ k \in Nat /\ k * M \in Nat
                   /\ k * M <= PlaceOf(x, S) /\ PlaceOf(x, S) < k * M + M
  BY <1>1, <1>2, <1>3, Divided DEF ChunkLike, ChunkOf
<1>5. e \in T
  BY DEF ChunkLike
<1>6. PICK n \in Nat : n = k * M
  BY <1>4, <1>5
<1>7. PICK f : f = [x \in T |-> PlaceOf(x, S)]
  OBVIOUS
<1>8. \A x \in T : f[x] \in n..(n + M - 1)
  BY <1>1, <1>3, <1>4, <1>6, <1>7 DEF ChunkLike
<1>9. \A x, y \in T : f[x] = f[y] => x = y
  BY <1>7, PlacesDiffer DEF ChunkLike
<1>10. f \in Injection(T, n..(n + M - 1))
  BY <1>7, <1>8, <1>9 DEF Injection, IsInjective
<1>11. IsFiniteSet(n..(n + M - 1)) /\ Cardinality(n..(n + M - 1)) = M
  BY <1>1, FS_Interval
<1> HIDE DEF T, M
<1>12. IsFiniteSet(T) /\ Cardinality(T) <= M
  BY <1>10, <1>11, FS_Injection
<1> QED BY <1>12 DEF T, M

\* The clusters that a grouping begins with.
LEMMA ChunksSound ==
  ASSUME NEW S, S \subseteq Events, IsFiniteSet(S)
  PROVE  Clusters(Chunks(S), S)
<1>1. \A e \in S : PatternFingerprint(e) \in Fingerprints /\ PatternFingerprint(e)[1] = e.kind
  BY DEF Fingerprints, PatternFingerprint
<1>2. \A e \in S : ChunkOf(e, S) \in Nat
  <2>1. \A e \in S : PlaceOf(e, S) \in Nat
    BY FS_Subset, FS_CardinalityType DEF PlaceOf
  <2>2. MaxClusterMembers \in Nat \ {0}
    BY MiningAssumption DEF ValidConfig
  <2> QED BY <2>1, <2>2, Divided DEF ChunkOf
<1> DEFINE Cluster(e) == ClusterRecord(PatternFingerprint(e), ChunkOf(e, S), ChunkLike(e, S))
<1>3. ASSUME NEW e \in S PROVE SoundCluster(Cluster(e)) /\ Cluster(e).members \subseteq S
  <2>1. PICK c : c = Cluster(e)
    OBVIOUS
  <2>2. /\ c.fp = PatternFingerprint(e) /\ c.kind = c.fp[1] /\ c.chunk = ChunkOf(e, S)
        /\ c.members = ChunkLike(e, S) /\ c.count = Cardinality(ChunkLike(e, S))
    BY <2>1, ClusterFields
  <2>3. IsFiniteSet(ChunkLike(e, S)) /\ Cardinality(ChunkLike(e, S)) <= MaxClusterMembers
    BY ChunkBounded
  <2>4. \A x \in c.members : x.kind = c.kind /\ x \in S
    BY <1>1, <2>2 DEF ChunkLike
  <2>5. c = ClusterRecord(c.fp, c.chunk, c.members)
    BY <2>1, <2>2
  <2>6. SoundCluster(c)
    <3>1. e \in c.members
      BY <2>2 DEF ChunkLike
    <3> QED BY <3>1, <1>1, <1>2, <2>2, <2>3, <2>4, <2>5 DEF SoundCluster
  <2> QED BY <2>1, <2>4, <2>6
<1>4. IsFiniteSet(Chunks(S))
  <2>1. PICK f : f = [e \in S |-> Cluster(e)]
    OBVIOUS
  <2>2. f \in Surjection(S, Chunks(S))
    BY <2>1 DEF Chunks, Surjection
  <2> QED BY <2>2, FS_Surjection
<1>5. \A c \in Chunks(S) : SoundCluster(c) /\ c.members \subseteq S
  BY <1>3 DEF Chunks
<1>6. \A e \in S : \E c \in Chunks(S) : e \in c.members
  <2>1. ASSUME NEW e \in S PROVE e \in Cluster(e).members /\ Cluster(e) \in Chunks(S)
    <3>1. PICK c : c = Cluster(e)
      OBVIOUS
    <3>2. c.members = ChunkLike(e, S)
      BY <3>1, ClusterFields
    <3> QED BY <3>1, <3>2 DEF ChunkLike, Chunks
  <2> QED BY <2>1
<1>7. ASSUME NEW c \in Chunks(S), NEW d \in Chunks(S), c # d
      PROVE  c.members \cap d.members = {} /\ <<c.fp, c.chunk>> # <<d.fp, d.chunk>>
  <2>1. PICK e, f \in S : c = Cluster(e) /\ d = Cluster(f)
    BY <1>7 DEF Chunks
  <2>2. /\ c.fp = PatternFingerprint(e) /\ c.chunk = ChunkOf(e, S) /\ c.members = ChunkLike(e, S)
        /\ d.fp = PatternFingerprint(f) /\ d.chunk = ChunkOf(f, S) /\ d.members = ChunkLike(f, S)
    BY <2>1, ClusterFields
  <2>3. <<c.fp, c.chunk>> # <<d.fp, d.chunk>>
    <3>1. SUFFICES ASSUME c.fp = d.fp, c.chunk = d.chunk PROVE FALSE
      OBVIOUS
    <3>2. ChunkLike(e, S) = ChunkLike(f, S)
      BY <2>2, <3>1 DEF ChunkLike
    <3> QED BY <1>7, <2>1, <2>2, <3>1, <3>2
  <2>4. ASSUME NEW x \in c.members, x \in d.members PROVE FALSE
    BY <2>2, <2>3, <2>4 DEF ChunkLike
  <2> QED BY <2>3, <2>4
<1> QED BY <1>4, <1>5, <1>6, <1>7 DEF Clusters

\* The rounds of a grouping, one after the other.
LEMMA Rounds ==
  ASSUME NEW B, NEW N \in Nat
  PROVE  \E f : f = [n \in 0..N |-> IF n = 0 THEN B ELSE MergeFirst(f[n - 1])]
<1> DEFINE Is(k, f) == f = [n \in 0..k |-> IF n = 0 THEN B ELSE MergeFirst(f[n - 1])]
           Wrong == {k \in Nat : ~\E f : Is(k, f)}
<1>1. SUFFICES ASSUME Wrong # {} PROVE FALSE
  OBVIOUS
<1>2. PICK k \in Wrong : \A m \in Wrong : k <= m
  BY <1>1, LeastOf
<1>3. k # 0
  <2>1. PICK f : f = [n \in 0..0 |-> B]
    OBVIOUS
  <2>2. Is(0, f)
    BY <2>1
  <2> QED BY <2>2
<1>4. PICK g : Is(k - 1, g)
  <2>1. k - 1 \in Nat /\ k - 1 \notin Wrong
    BY <1>2, <1>3
  <2> QED BY <2>1
<1>5. PICK f : f = [n \in 0..k |-> IF n = 0 THEN B ELSE MergeFirst(g[n - 1])]
  OBVIOUS
<1>6. \A n \in 0..(k - 1) : f[n] = g[n]
  BY <1>3, <1>4, <1>5
<1>7. f = [n \in 0..k |-> IF n = 0 THEN B ELSE MergeFirst(f[n - 1])]
  <2>1. \A n \in 0..k : n # 0 => f[n - 1] = g[n - 1]
    BY <1>3, <1>6
  <2>2. \A n \in 0..k : f[n] = IF n = 0 THEN B ELSE MergeFirst(f[n - 1])
    BY <1>5, <2>1
  <2> QED BY <1>5, <2>2
<1> QED BY <1>2, <1>7

\* What a grouping comes to: the clusters of its events, none of which should merge.
LEMMA GroupClusters ==
  ASSUME NEW S, S \subseteq Events, IsFiniteSet(S)
  PROVE  Clusters(Group(S), S) /\ Mergeable(Group(S)) = {}
<1>1. PICK N : N = Cardinality(Chunks(S))
  OBVIOUS
<1>2. N \in Nat /\ Clusters(Chunks(S), S)
  BY <1>1, ChunksSound, FS_CardinalityType DEF Clusters
<1>3. PICK g : g = CHOOSE f : f = [n \in 0..N |-> IF n = 0 THEN Chunks(S) ELSE MergeFirst(f[n - 1])]
  OBVIOUS
<1>4. g = [n \in 0..N |-> IF n = 0 THEN Chunks(S) ELSE MergeFirst(g[n - 1])]
  BY <1>2, <1>3, Rounds
<1>5. Group(S) = g[N]
  BY <1>1, <1>3, Zenon DEF Group
<1> DEFINE Good(n) == /\ Clusters(g[n], S)
                      /\ Mergeable(g[n]) = {} \/ Cardinality(g[n]) + n <= N
           Wrong == {n \in 0..N : ~Good(n)}
<1>6. Good(0)
  <2>1. g[0] = Chunks(S)
    BY <1>2, <1>4
  <2> QED BY <1>1, <1>2, <2>1
<1>7. ASSUME NEW n \in 0..N, n # 0, Good(n - 1) PROVE Good(n)
  <2>1. n - 1 \in 0..N /\ g[n] = MergeFirst(g[n - 1])
    BY <1>2, <1>4, <1>7
  <2>2. PICK C : C = g[n - 1]
    OBVIOUS
  <2>3. /\ Clusters(C, S) /\ g[n] = MergeFirst(C)
        /\ Mergeable(C) = {} \/ Cardinality(C) + (n - 1) <= N
    BY <1>7, <2>1, <2>2
  <2>4. /\ Clusters(g[n], S)
        /\ Mergeable(C) # {} => Cardinality(g[n]) < Cardinality(C)
    BY <2>3, MergeClusters
  <2>5. Cardinality(C) \in Nat /\ Cardinality(g[n]) \in Nat
    BY <2>3, <2>4, FS_CardinalityType DEF Clusters
  <2>6. Mergeable(C) = {} => g[n] = C
    BY <2>3 DEF MergeFirst, Mergeable
  <2> HIDE DEF Mergeable
  <2> QED BY <1>2, <2>3, <2>4, <2>5, <2>6
<1>8. Good(N)
  <2>1. SUFFICES ASSUME Wrong # {} PROVE FALSE
    BY <1>2
  <2> HIDE DEF Good
  <2>2. PICK n \in Wrong : \A m \in Wrong : n <= m
    <3>1. Wrong \subseteq Nat
      BY <1>2
    <3> QED BY <2>1, <3>1, LeastOf
  <2>3. n # 0 /\ n - 1 \in 0..N /\ n - 1 \notin Wrong
    BY <1>2, <1>6, <2>2
  <2> QED BY <1>7, <2>2, <2>3
<1>9. PICK C : C = g[N]
  OBVIOUS
<1>10. Mergeable(C) = {}
  <2>1. SUFFICES ASSUME Cardinality(C) + N <= N PROVE Mergeable(C) = {}
    BY <1>8, <1>9
  <2>2. IsFiniteSet(C) /\ Cardinality(C) \in Nat
    BY <1>8, <1>9, FS_CardinalityType DEF Clusters
  <2>3. C = {}
    BY <1>2, <2>1, <2>2, FS_EmptySet
  <2> QED BY <2>3 DEF Mergeable
<1> QED BY <1>5, <1>8, <1>9, <1>10

\* A grouping of no events has no cluster.
LEMMA GroupOfNone == Group({}) = {}
<1>1. Clusters(Group({}), {})
  BY GroupClusters, FS_EmptySet
<1> QED BY <1>1 DEF Clusters, SoundCluster

\* Two clusters that are left should not merge, in neither order.
LEMMA NoneShouldMerge ==
  ASSUME NEW S, NEW C, Clusters(C, S), Mergeable(C) = {}, NEW c \in C, NEW d \in C
  PROVE  ~ShouldMerge(c, d)
<1>1. SUFFICES ASSUME ShouldMerge(c, d) PROVE FALSE
  OBVIOUS
<1>2. /\ IsFiniteSet(c.members) /\ c.count = Cardinality(c.members)
      /\ IsFiniteSet(d.members) /\ d.count = Cardinality(d.members)
      /\ c.fp \in Fingerprints /\ d.fp \in Fingerprints
  <2>1. SoundCluster(c) /\ SoundCluster(d)
    BY DEF Clusters
  <2> QED BY <2>1, ClusterFields DEF SoundCluster
<1>3. c.count \in Nat /\ d.count \in Nat
  BY <1>2, FS_CardinalityType
<1>4. ShouldMerge(d, c)
  <2>1. c.terms \cap d.terms = d.terms \cap c.terms /\ c.terms \cup d.terms = d.terms \cup c.terms
    OBVIOUS
  <2>2. Overlap(d, c)
    BY <1>1, <2>1 DEF ShouldMerge, Overlap
  <2> QED BY <1>1, <1>3, <2>2 DEF ShouldMerge
<1>5. Before(c, d) \/ Before(d, c)
  <2>1. c.fp # d.fp
    BY <1>1 DEF ShouldMerge
  <2> QED BY <1>2, <2>1, RankAssumption DEF Before
<1>6. \A x, y \in C : ~(Before(x, y) /\ ShouldMerge(x, y))
  <2>1. ASSUME NEW x \in C, NEW y \in C, Before(x, y), ShouldMerge(x, y) PROVE FALSE
    <3>1. <<x, y>> \in Mergeable(C)
      BY <2>1, Zenon DEF Mergeable
    <3> QED BY <3>1
  <2> QED BY <2>1
<1> QED BY <1>1, <1>4, <1>5, <1>6

\* The clusters of a grouping are as GroupSound has them.
LEMMA GroupIsSound ==
  ASSUME events \subseteq Events, IsFiniteSet(events)
  PROVE  GroupSound
<1>1. PICK C : C = Group(events)
  OBVIOUS
<1>2. Clusters(C, events) /\ Mergeable(C) = {}
  BY <1>1, GroupClusters
<1>3. UNION {c.members : c \in C} = events
  BY <1>2 DEF Clusters
<1>4. ASSUME NEW c \in C, NEW d \in C \ {c} PROVE c.members \cap d.members = {} /\ ~ShouldMerge(c, d)
  BY <1>2, NoneShouldMerge DEF Clusters
<1>5. \A c \in C : SoundCluster(c)
  BY <1>2 DEF Clusters
<1>6. \A c \in C : /\ c = ClusterRecord(c.fp, c.chunk, c.members)
                   /\ c.count <= MaxClusterMembers
                   /\ \A e \in c.members : e.kind = c.kind
  BY <1>5 DEF SoundCluster
<1> HIDE DEF Mergeable
<1> QED BY <1>1, <1>3, <1>4, <1>6 DEF GroupSound

\* More of a finite set has no less of them, of its sessions, days and successes.
LEMMA MoreEvidence ==
  ASSUME NEW T, IsFiniteSet(T), NEW S, S \subseteq T
  PROVE  /\ Cardinality(S) <= Cardinality(T)
         /\ Cardinality({e.session : e \in S} \ {0}) <= Cardinality({e.session : e \in T} \ {0})
         /\ Cardinality({e.day : e \in S}) <= Cardinality({e.day : e \in T})
         /\ Cardinality(Succeeded(S)) <= Cardinality(Succeeded(T))
         /\ {Cardinality(S), Cardinality(T),
             Cardinality({e.session : e \in S} \ {0}), Cardinality({e.session : e \in T} \ {0}),
             Cardinality({e.day : e \in S}), Cardinality({e.day : e \in T}),
             Cardinality(Succeeded(S)), Cardinality(Succeeded(T))} \subseteq Nat
<1>1. ASSUME NEW A, IsFiniteSet(A), NEW B, B \subseteq A
      PROVE  /\ Cardinality(B) \in Nat /\ Cardinality(A) \in Nat /\ Cardinality(B) <= Cardinality(A)
  BY <1>1, FS_Subset, FS_CardinalityType
<1>2. IsFiniteSet({e.session : e \in T})
  <2>1. PICK f : f = [e \in T |-> e.session]
    OBVIOUS
  <2>2. f \in Surjection(T, {e.session : e \in T})
    BY <2>1 DEF Surjection
  <2> QED BY <2>2, FS_Surjection
<1>3. IsFiniteSet({e.day : e \in T})
  <2>1. PICK f : f = [e \in T |-> e.day]
    OBVIOUS
  <2>2. f \in Surjection(T, {e.day : e \in T})
    BY <2>1 DEF Surjection
  <2> QED BY <2>2, FS_Surjection
<1>4. /\ {e.session : e \in S} \ {0} \subseteq {e.session : e \in T} \ {0}
      /\ {e.day : e \in S} \subseteq {e.day : e \in T}
      /\ Succeeded(S) \subseteq Succeeded(T) /\ Succeeded(T) \subseteq T
  BY DEF Succeeded
<1>5. IsFiniteSet({e.session : e \in T} \ {0}) /\ IsFiniteSet(Succeeded(T))
  BY <1>2, <1>4, FS_Subset
<1>6. PICK s, t, p, q, x, y : /\ s = {e.session : e \in S} \ {0} /\ t = {e.session : e \in T} \ {0}
                              /\ p = {e.day : e \in S} /\ q = {e.day : e \in T}
                              /\ x = Succeeded(S) /\ y = Succeeded(T)
  OBVIOUS
<1>7. /\ s \subseteq t /\ IsFiniteSet(t) /\ p \subseteq q /\ IsFiniteSet(q)
      /\ x \subseteq y /\ IsFiniteSet(y)
  BY <1>3, <1>4, <1>5, <1>6
<1>8. /\ Cardinality(s) \in Nat /\ Cardinality(t) \in Nat /\ Cardinality(s) <= Cardinality(t)
      /\ Cardinality(p) \in Nat /\ Cardinality(q) \in Nat /\ Cardinality(p) <= Cardinality(q)
      /\ Cardinality(x) \in Nat /\ Cardinality(y) \in Nat /\ Cardinality(x) <= Cardinality(y)
      /\ Cardinality(S) \in Nat /\ Cardinality(T) \in Nat /\ Cardinality(S) <= Cardinality(T)
  BY <1>1, <1>7
<1> QED BY <1>6, <1>8

-----------------------------------------------------------------------------
(* Mining: the invariant of its steps. *)

OnlyCluster(c) == \A d \in Group(mined) : d.fp = c.fp => d = c
Saved(c) == c.members \subseteq saved[c.fp].members \/ saved[c.fp].status = "dismissed"

MinInv ==
    /\ MinTypeOK
    /\ IsFiniteSet(events)
    /\ \A fp \in Fingerprints : IsFiniteSet(saved[fp].members)
    /\ queue \subseteq Group(mined)
    /\ \A c \in Group(mined) \ queue : OnlyCluster(c) => Saved(c)
    /\ QualifiedJustified

\* Mining begins so.
LEMMA MinInitInv == MinInit => MinInv
<1>1. SUFFICES ASSUME MinInit PROVE MinInv
  OBVIOUS
<1>2. MinTypeOK /\ IsFiniteSet(events) /\ \A fp \in Fingerprints : IsFiniteSet(saved[fp].members)
  <2>1. MaxRounds \in Nat
    BY MiningAssumption
  <2>2. NoPattern \in [status : {"none", "observed", "qualified", "dismissed"},
                       members : SUBSET Events, corrected : BOOLEAN]
    BY DEF NoPattern
  <2>3. NoPattern.members = {} /\ IsFiniteSet({})
    BY FS_EmptySet DEF NoPattern
  <2>4. MinTypeOK
    BY <1>1, <2>1, <2>2 DEF MinInit, MinTypeOK
  <2> QED BY <1>1, <2>3, <2>4 DEF MinInit
<1>3. QualifiedJustified
  BY <1>1 DEF MinInit, QualifiedJustified, NoPattern
<1>4. Group(mined) = {} /\ queue = {}
  BY <1>1, GroupOfNone DEF MinInit
<1> QED BY <1>2, <1>3, <1>4 DEF MinInv

\* A cluster that qualifies has the evidence, whatever its row had before.
LEMMA QualifyJustified ==
  ASSUME NEW c, SoundCluster(c), NEW v \in Verdicts, Qualify(c, v) = "qualified",
         NEW T, IsFiniteSet(T), c.members \subseteq T
  PROVE  /\ Cardinality(T) >= 2 /\ Cardinality({e.session : e \in T} \ {0}) >= 2
         /\ \/ Cardinality({e.session : e \in T} \ {0}) >= MinDistinctSessions
            \/ Cardinality({e.day : e \in T}) >= MinDistinctDays
         /\ Cardinality(Succeeded(T)) >= MinSuccessfulOccurrences \/ v.corrected
<1>1. /\ c.sessions = {e.session : e \in c.members} \ {0} /\ c.days = {e.day : e \in c.members}
      /\ c.distinctSessions = Cardinality(c.sessions) /\ c.distinctDays = Cardinality(c.days)
      /\ c.successes = Cardinality(Succeeded(c.members)) /\ c.count = Cardinality(c.members)
  BY ClusterFields DEF SoundCluster
<1>2. /\ c.count >= 2
      /\ c.distinctSessions >= 2
      /\ c.distinctSessions >= MinDistinctSessions \/ c.distinctDays >= MinDistinctDays
      /\ c.successes >= MinSuccessfulOccurrences \/ v.corrected
  BY DEF Qualify
<1>3. MinDistinctSessions \in Nat /\ MinDistinctDays \in Nat /\ MinSuccessfulOccurrences \in Nat
  BY MiningAssumption DEF ValidConfig
<1>4. PICK s, t, p, q, x, y, n, m :
          /\ s = Cardinality({e.session : e \in c.members} \ {0})
          /\ t = Cardinality({e.session : e \in T} \ {0})
          /\ p = Cardinality({e.day : e \in c.members}) /\ q = Cardinality({e.day : e \in T})
          /\ x = Cardinality(Succeeded(c.members)) /\ y = Cardinality(Succeeded(T))
          /\ n = Cardinality(c.members) /\ m = Cardinality(T)
  OBVIOUS
<1>5. {s, t, p, q, x, y, n, m} \subseteq Nat /\ s <= t /\ p <= q /\ x <= y /\ n <= m
  <2>1. PICK S : S = c.members
    OBVIOUS
  <2>2. /\ Cardinality(S) <= Cardinality(T)
        /\ Cardinality({e.session : e \in S} \ {0}) <= Cardinality({e.session : e \in T} \ {0})
        /\ Cardinality({e.day : e \in S}) <= Cardinality({e.day : e \in T})
        /\ Cardinality(Succeeded(S)) <= Cardinality(Succeeded(T))
        /\ {Cardinality(S), Cardinality(T),
            Cardinality({e.session : e \in S} \ {0}), Cardinality({e.session : e \in T} \ {0}),
            Cardinality({e.day : e \in S}), Cardinality({e.day : e \in T}),
            Cardinality(Succeeded(S)), Cardinality(Succeeded(T))} \subseteq Nat
    BY <2>1, MoreEvidence
  <2> QED BY <1>4, <2>1, <2>2
<1>6. /\ n >= 2 /\ s >= 2 /\ (s >= MinDistinctSessions \/ p >= MinDistinctDays)
      /\ x >= MinSuccessfulOccurrences \/ v.corrected
  BY <1>1, <1>2, <1>4
<1>7. /\ m >= 2 /\ t >= 2 /\ (t >= MinDistinctSessions \/ q >= MinDistinctDays)
      /\ y >= MinSuccessfulOccurrences \/ v.corrected
  BY <1>3, <1>5, <1>6
<1> QED BY <1>4, <1>7

\* Saving a cluster: its row gains its members, or keeps to its dismissal.
LEMMA IngestStep ==
  ASSUME MinInv, NEW c \in queue, NEW v \in Verdicts, IngestCluster(c, v)
  PROVE  MinInv'
<1>1. PICK C : C = Group(mined)
  OBVIOUS
<1>2. IsFiniteSet(mined) /\ mined \subseteq Events /\ mined \subseteq events
  BY FS_Subset DEF MinInv, MinTypeOK
<1>3. Clusters(C, mined)
  BY <1>1, <1>2, GroupClusters
<1>4. /\ c \in C /\ SoundCluster(c) /\ c.members \subseteq Events /\ IsFiniteSet(c.members)
      /\ c.fp \in Fingerprints
  BY <1>1, <1>2, <1>3 DEF MinInv, Clusters, SoundCluster
<1>5. PICK verdict : verdict = Qualify(c, v)
  OBVIOUS
<1>6. verdict \in {"observed", "qualified"}
  BY <1>5 DEF Qualify
<1>7. PICK new : new = [status |-> verdict, members |-> saved[c.fp].members \cup c.members,
                        corrected |-> verdict = "qualified" /\ v.corrected]
  OBVIOUS
<1>8. /\ events' = events /\ mined' = mined /\ rounds' = rounds /\ queue' = queue \ {c}
      /\ saved' = IF Suppressed(saved[c.fp], c, verdict) THEN saved ELSE [saved EXCEPT ![c.fp] = new]
  BY <1>5, <1>7 DEF IngestCluster
<1>9. saved \in [Fingerprints -> [status : {"none", "observed", "qualified", "dismissed"},
                                 members : SUBSET Events, corrected : BOOLEAN]]
  BY DEF MinInv, MinTypeOK
<1>10. new \in [status : {"none", "observed", "qualified", "dismissed"},
                members : SUBSET Events, corrected : BOOLEAN]
  BY <1>4, <1>6, <1>7, <1>9
<1>11. MinTypeOK'
  BY <1>4, <1>8, <1>9, <1>10 DEF MinInv, MinTypeOK
<1>12. IsFiniteSet(new.members) /\ c.members \subseteq new.members
  BY <1>4, <1>7, FS_Union DEF MinInv
<1>13. \A fp \in Fingerprints : IsFiniteSet(saved'[fp].members)
  BY <1>4, <1>8, <1>9, <1>12 DEF MinInv
<1>14. PICK T : T = new.members
  OBVIOUS
<1>15. QualifiedJustified'
  <2>1. SUFFICES ASSUME NEW fp \in Fingerprints, saved'[fp].status = "qualified",
                        NEW S, S = saved'[fp].members
                 PROVE  /\ Cardinality(S) >= 2 /\ Cardinality({e.session : e \in S} \ {0}) >= 2
                        /\ \/ Cardinality({e.session : e \in S} \ {0}) >= MinDistinctSessions
                           \/ Cardinality({e.day : e \in S}) >= MinDistinctDays
                        /\ Cardinality(Succeeded(S)) >= MinSuccessfulOccurrences \/ saved'[fp].corrected
    BY <1>11 DEF MinTypeOK, QualifiedJustified
  <2>2. CASE saved'[fp] = saved[fp]
    BY <1>9, <2>1, <2>2 DEF MinInv, QualifiedJustified
  <2>3. CASE saved'[fp] # saved[fp]
    <3>1. fp = c.fp /\ saved'[fp] = new
      BY <1>4, <1>8, <1>9, <2>3
    <3>2. Qualify(c, v) = "qualified" /\ S = T /\ saved'[fp].corrected = v.corrected
      BY <1>5, <1>7, <1>14, <2>1, <3>1 DEF Verdicts
    <3>3. /\ Cardinality(T) >= 2 /\ Cardinality({e.session : e \in T} \ {0}) >= 2
          /\ \/ Cardinality({e.session : e \in T} \ {0}) >= MinDistinctSessions
             \/ Cardinality({e.day : e \in T}) >= MinDistinctDays
          /\ Cardinality(Succeeded(T)) >= MinSuccessfulOccurrences \/ v.corrected
      BY <1>4, <1>12, <1>14, <3>2, QualifyJustified
    <3> QED BY <3>2, <3>3
  <2> QED BY <2>2, <2>3
<1>16. queue' \subseteq C
  BY <1>1, <1>8 DEF MinInv
<1>17. ASSUME NEW d \in C \ queue', \A x \in C : x.fp = d.fp => x = d
       PROVE  d.members \subseteq saved'[d.fp].members \/ saved'[d.fp].status = "dismissed"
  <2>1. CASE d = c
    BY <1>4, <1>8, <1>9, <1>12, <2>1 DEF Suppressed
  <2>2. CASE d # c
    <3>1. d.fp # c.fp
      BY <1>4, <1>17, <2>2
    <3>2. d \in C \ queue
      BY <1>8, <1>17, <2>2
    <3>3. d.members \subseteq saved[d.fp].members \/ saved[d.fp].status = "dismissed"
      BY <1>1, <1>17, <3>2 DEF MinInv, OnlyCluster, Saved
    <3>4. d.fp \in Fingerprints
      BY <1>3, <3>2 DEF Clusters, SoundCluster
    <3>5. saved'[d.fp] = saved[d.fp]
      BY <1>4, <1>8, <1>9, <3>1, <3>4
    <3> QED BY <3>3, <3>5
  <2> QED BY <2>1, <2>2
<1>18. Group(mined)' = C
  BY <1>1, <1>8
<1>19. \A d \in Group(mined)' \ queue' : OnlyCluster(d)' => Saved(d)'
  BY <1>17, <1>18 DEF OnlyCluster, Saved
<1>20. IsFiniteSet(events')
  BY <1>8 DEF MinInv
<1> QED BY <1>11, <1>13, <1>15, <1>16, <1>18, <1>19, <1>20 DEF MinInv

\* Every step of mining keeps it.
LEMMA MinStep ==
  ASSUME MinInv, [MinNext]_minVars
  PROVE  MinInv'
<1>1. ASSUME NEW e \in Events, Arrive(e) PROVE MinInv'
  <2>1. /\ events' = events \cup {e} /\ queue' = queue /\ mined' = mined
        /\ saved' = saved /\ rounds' = rounds
    BY <1>1 DEF Arrive
  <2>2. IsFiniteSet(events')
    BY <2>1, FS_AddElement DEF MinInv
  <2> QED BY <2>1, <2>2 DEF MinInv, MinTypeOK, QualifiedJustified, OnlyCluster, Saved
<1>2. CASE Mine
  <2>1. /\ events' = events /\ queue' = Group(events) /\ mined' = events
        /\ saved' = saved /\ rounds' = rounds + 1 /\ rounds < MaxRounds
    BY <1>2 DEF Mine
  <2>2. Group(mined)' = Group(events)
    BY <2>1
  <2>3. MinTypeOK'
    BY <2>1, MiningAssumption DEF MinInv, MinTypeOK
  <2>4. QualifiedJustified'
    BY <2>1 DEF MinInv, QualifiedJustified
  <2> QED BY <2>1, <2>2, <2>3, <2>4 DEF MinInv
<1>3. ASSUME NEW c \in queue, NEW v \in Verdicts, IngestCluster(c, v) PROVE MinInv'
  BY <1>3, IngestStep
<1>4. ASSUME NEW fp \in Fingerprints, Dismiss(fp) PROVE MinInv'
  <2>1. /\ events' = events /\ queue' = queue /\ mined' = mined /\ rounds' = rounds
        /\ saved' = [saved EXCEPT ![fp].status = "dismissed"]
    BY <1>4 DEF Dismiss
  <2>2. saved \in [Fingerprints -> [status : {"none", "observed", "qualified", "dismissed"},
                                   members : SUBSET Events, corrected : BOOLEAN]]
    BY DEF MinInv, MinTypeOK
  <2>3. /\ saved'[fp].status = "dismissed"
        /\ \A g \in Fingerprints : /\ saved'[g].members = saved[g].members
                                   /\ g # fp => saved'[g] = saved[g]
    BY <2>1, <2>2
  <2>4. MinTypeOK'
    BY <2>1, <2>2 DEF MinInv, MinTypeOK
  <2>5. QualifiedJustified'
    BY <2>2, <2>3, <2>4 DEF MinInv, MinTypeOK, QualifiedJustified
  <2>6. \A c \in Group(mined) : c.fp \in Fingerprints
    <3>1. mined \subseteq Events /\ IsFiniteSet(mined)
      BY FS_Subset DEF MinInv, MinTypeOK
    <3> QED BY <3>1, GroupClusters DEF Clusters, SoundCluster
  <2>7. Group(mined)' = Group(mined)
    BY <2>1
  <2>8. \A c \in Group(mined) : /\ OnlyCluster(c)' = OnlyCluster(c)
                                /\ Saved(c) => Saved(c)'
    BY <2>3, <2>6, <2>7 DEF OnlyCluster, Saved
  <2> QED BY <2>1, <2>3, <2>4, <2>5, <2>7, <2>8 DEF MinInv
<1>5. CASE MiningDies
  <2>1. /\ events' = events /\ queue' = {} /\ mined' = {} /\ saved' = saved /\ rounds' = rounds
    BY <1>5 DEF MiningDies
  <2>2. Group(mined)' = {}
    BY <2>1, GroupOfNone
  <2>3. MinTypeOK'
    BY <2>1 DEF MinInv, MinTypeOK
  <2>4. QualifiedJustified'
    BY <2>1 DEF MinInv, QualifiedJustified
  <2> QED BY <2>1, <2>2, <2>3, <2>4 DEF MinInv
<1>6. CASE UNCHANGED minVars
  BY <1>6 DEF minVars, MinInv, MinTypeOK, QualifiedJustified, OnlyCluster, Saved
<1> QED BY <1>1, <1>2, <1>3, <1>4, <1>5, <1>6 DEF MinNext

\* And gives what is promised of the evidence.
LEMMA MinInvSound == MinInv => MinTypeOK /\ EvidenceSound
<1>1. SUFFICES ASSUME MinInv PROVE MinTypeOK /\ EvidenceSound
  OBVIOUS
<1>2. GroupSound
  BY <1>1, GroupIsSound DEF MinInv, MinTypeOK
<1>3. NoneLost
  BY <1>1 DEF MinInv, NoneLost, OnlyCluster, Saved
<1> QED BY <1>1, <1>2, <1>3 DEF MinInv, EvidenceSound

-----------------------------------------------------------------------------
(* Detectors. Time only moves on, for the clock and from one observation to  *)
(* the next.                                                                 *)

DetInv ==
    /\ observed \in Seq([problem : Problems, result : Results, at : Nat])
    /\ now \in Nat
    /\ \A i \in DOMAIN observed : observed[i].at <= now
    /\ \A i, j \in DOMAIN observed : i < j => observed[i].at <= observed[j].at
    /\ RetryTrue

\* An observation has a time.
LEMMA ObservedAt ==
  ASSUME DetInv, NEW i \in DOMAIN observed
  PROVE  observed[i].at \in Nat
<1>1. PICK O : O = [problem : Problems, result : Results, at : Nat]
  OBVIOUS
<1>2. observed \in Seq(O) /\ i \in DOMAIN observed
  BY <1>1 DEF DetInv
<1>3. observed[i] \in O
  BY <1>2
<1> QED BY <1>1, <1>3

\* Detection begins so.
LEMMA DetInitInv == DetInit => DetInv
BY DEF DetInit, DetInv, RetryTrue

\* A retry that is recorded stays true of longer observations.
LEMMA LongerTrue ==
  ASSUME DetInv, NEW o \in [problem : Problems, result : Results, at : Nat],
         observed' = Append(observed, o), recorded' = recorded
  PROVE  RetryTrue'
<1>1. /\ Len(observed) \in Nat /\ Len(observed') = Len(observed) + 1
      /\ \A i \in 1..Len(observed) : observed'[i] = observed[i]
  BY DEF DetInv
<1>2. SUFFICES ASSUME NEW r \in recorded
               PROVE  \E S \in SUBSET (1..Len(observed')) :
                        /\ Cardinality(S) = r.occurrences /\ r.occurrences >= Threshold
                        /\ \A i \in S : observed'[i].problem = r.problem /\ observed'[i].result = "fail"
                        /\ \A i, j \in S : observed'[i].at - observed'[j].at <= WindowDuration
  BY DEF RetryTrue
<1>3. PICK S \in SUBSET (1..Len(observed)) :
          /\ Cardinality(S) = r.occurrences /\ r.occurrences >= Threshold
          /\ \A i \in S : observed[i].problem = r.problem /\ observed[i].result = "fail"
          /\ \A i, j \in S : observed[i].at - observed[j].at <= WindowDuration
  BY <1>2 DEF DetInv, RetryTrue
<1>4. S \in SUBSET (1..Len(observed')) /\ \A i \in S : observed'[i] = observed[i]
  BY <1>1, <1>3
<1> QED BY <1>3, <1>4

\* What the detector finds is a retry: its failures lie within one window.
LEMMA DetectTrue ==
  ASSUME DetInv, observed # <<>>, NEW held \in SUBSET (1..(Len(observed) - 1)), Detect(held)
  PROVE  DetInv'
<1> DEFINE current == Len(observed)
           p == observed[current].problem
           C == Counted(p, held)
           n == Occurrences(current, held)
<1>1. /\ current \in DOMAIN observed /\ current \in Nat \ {0}
      /\ C \subseteq held /\ held \subseteq 1..(current - 1) /\ held \subseteq DOMAIN observed
  BY DEF DetInv, Counted
<1>2. IsFiniteSet(C) /\ current \notin C
  <2>1. IsFiniteSet(1..(current - 1))
    BY <1>1, FS_Interval
  <2> QED BY <1>1, <2>1, FS_Subset
<1>3. UNCHANGED <<observed, now, registry>>
  BY DEF Detect
<1>4. CASE n < Threshold
  <2>1. recorded' = recorded
    BY <1>4 DEF Detect
  <2> QED BY <1>3, <2>1 DEF DetInv, RetryTrue
<1>5. CASE ~(n < Threshold)
  <2>1. recorded' = recorded \cup {RetryEvent(p, n)}
    BY <1>5 DEF Detect
  <2>2. observed[current].result = "fail" /\ n = 1 + Cardinality(C)
    BY <1>5, DetectorsAssumption DEF Occurrences
  <2>3. Cardinality(C) \in Nat /\ Cardinality(C \cup {current}) = Cardinality(C) + 1
    BY <1>2, FS_CardinalityType, FS_AddElement
  <2>4. n >= Threshold
    BY <1>5, <2>2, <2>3, DetectorsAssumption
  <2>5. PICK S : S = C \cup {current}
    OBVIOUS
  <2>6. S \in SUBSET (1..Len(observed)) /\ Cardinality(S) = n
    BY <1>1, <2>2, <2>3, <2>5
  <2>7. \A i \in S : observed[i].problem = p /\ observed[i].result = "fail"
    BY <2>2, <2>5 DEF Counted
  <2>8. \A i \in S : /\ observed[i].at \in Nat /\ observed[i].at <= observed[current].at
                     /\ observed[i].at <= now /\ now \in Nat
    BY <1>1, <2>5, ObservedAt DEF DetInv
  <2>9. \A i, j \in S : observed[i].at - observed[j].at <= WindowDuration
    <3> HIDE DEF C
    <3>1. \A j \in C : now - observed[j].at <= WindowDuration
      BY DEF C, Counted
    <3>2. WindowDuration \in Nat
      BY DetectorsAssumption
    <3> QED BY <2>5, <2>8, <3>1, <3>2
  <2>10. RetryTrue'
    <3>1. RetryEvent(p, n).occurrences = n /\ RetryEvent(p, n).problem = p
      BY DEF RetryEvent
    <3>2. PICK r : r = RetryEvent(p, n)
      OBVIOUS
    <3>3. /\ Cardinality(S) = r.occurrences /\ r.occurrences >= Threshold
          /\ \A i \in S : observed[i].problem = r.problem /\ observed[i].result = "fail"
          /\ \A i, j \in S : observed[i].at - observed[j].at <= WindowDuration
      BY <2>4, <2>6, <2>7, <2>9, <3>1, <3>2
    <3>4. recorded' = recorded \cup {r} /\ observed' = observed
      BY <1>3, <2>1, <3>2
    <3> HIDE DEF current, p, C, n
    <3> QED BY <2>6, <3>3, <3>4 DEF DetInv, RetryTrue
  <2> QED BY <1>3, <2>10 DEF DetInv
<1> QED BY <1>4, <1>5

\* Every step keeps it.
LEMMA DetStep ==
  ASSUME DetInv, [DetNext]_detVars
  PROVE  DetInv'
<1>1. ASSUME NEW p \in Problems, NEW result \in Results, Observe(p, result) PROVE DetInv'
  <2>1. PICK o : o = [problem |-> p, result |-> result, at |-> now]
    OBVIOUS
  <2>2. /\ o \in [problem : Problems, result : Results, at : Nat] /\ o.at = now
        /\ observed' = Append(observed, o) /\ UNCHANGED <<now, registry, recorded>>
    BY <1>1, <2>1 DEF Observe, DetInv
  <2>3. RetryTrue'
    BY <2>2, LongerTrue
  <2>4. /\ Len(observed) \in Nat /\ DOMAIN observed' = 1..(Len(observed) + 1)
        /\ DOMAIN observed = 1..Len(observed)
        /\ \A i \in 1..Len(observed) : observed'[i] = observed[i]
        /\ observed'[Len(observed) + 1] = o
        /\ observed' \in Seq([problem : Problems, result : Results, at : Nat])
    BY <2>2 DEF DetInv
  <2>5. \A i \in DOMAIN observed' : observed'[i].at <= now'
    BY <2>2, <2>4 DEF DetInv
  <2>6. \A i, j \in DOMAIN observed' : i < j => observed'[i].at <= observed'[j].at
    BY <2>2, <2>4 DEF DetInv
  <2> QED BY <2>2, <2>3, <2>4, <2>5, <2>6 DEF DetInv
<1>2. CASE Tick
  <2>1. now' = now + 1 /\ observed' = observed /\ recorded' = recorded
    BY <1>2 DEF Tick
  <2>2. \A i \in DOMAIN observed : observed[i].at \in Nat
    BY ObservedAt
  <2> QED BY <2>1, <2>2 DEF DetInv, RetryTrue
<1>3. CASE Register("retry")
  BY <1>3 DEF Register, DetInv, RetryTrue
<1>4. ASSUME NEW held \in SUBSET (1..(Len(observed) - 1)), observed # <<>>, Detect(held) PROVE DetInv'
  BY <1>4, DetectTrue
<1>5. CASE UNCHANGED detVars
  <2>1. observed' = observed /\ now' = now /\ recorded' = recorded
    BY <1>5 DEF detVars
  <2>2. RetryTrue' = RetryTrue
    BY <2>1 DEF RetryTrue
  <2> QED BY <2>1, <2>2 DEF DetInv
<1> QED BY <1>1, <1>2, <1>3, <1>4, <1>5 DEF DetNext

-----------------------------------------------------------------------------
(* Recurrence: the page of the records of a fingerprint. *)

Holding(R, fp) == {i \in DOMAIN R : R[i].fp = fp}
Newest(R, fp, times) ==
    /\ Len(times) = (IF Cardinality(Holding(R, fp)) < PageLimit THEN Cardinality(Holding(R, fp)) ELSE PageLimit)
    /\ \A n \in 1..Len(times) : times[n] \in Int /\ times[n] <= times[1]
    /\ Len(times) > 0 => /\ \A i \in Holding(R, fp) : R[i].at <= times[1]
                         /\ \E i \in Holding(R, fp) : R[i].at = times[1]

\* The records that hold a fingerprint are finite, each with its time.
LEMMA HoldingFinite ==
  ASSUME NEW R \in Seq(OccurrenceRecords), NEW fp
  PROVE  /\ IsFiniteSet(Holding(R, fp)) /\ Cardinality(Holding(R, fp)) \in Nat
         /\ \A i \in Holding(R, fp) : i \in Nat /\ R[i] \in OccurrenceRecords /\ R[i].at \in Int
<1>1. DOMAIN R = 1..Len(R) /\ Len(R) \in Nat /\ \A i \in DOMAIN R : R[i] \in OccurrenceRecords
  OBVIOUS
<1>2. IsFiniteSet(DOMAIN R) /\ Holding(R, fp) \subseteq DOMAIN R
  BY <1>1, FS_Interval DEF Holding
<1>3. IsFiniteSet(Holding(R, fp)) /\ Cardinality(Holding(R, fp)) \in Nat
  BY <1>2, FS_Subset, FS_CardinalityType
<1> QED BY <1>1, <1>2, <1>3 DEF OccurrenceRecords

\* Records are strictly ordered by their times, then their numbers.
LEMMA TimeOrder ==
  ASSUME NEW T \in SUBSET Nat, NEW w \in [T -> Int],
         NEW P, P = {p \in T \X T : w[p[1]] > w[p[2]] \/ (w[p[1]] = w[p[2]] /\ p[1] < p[2])}
  PROVE  /\ StrictOrder(P, T)
         /\ \A i, j \in T : <<j, i>> \in P <=> w[j] > w[i] \/ (w[j] = w[i] /\ j < i)
<1>1. \A i, j \in T : <<j, i>> \in P <=> w[j] > w[i] \/ (w[j] = w[i] /\ j < i)
  OBVIOUS
<1>2. ASSUME NEW x \in T, NEW y \in T, NEW z \in T, <<x, y>> \in P, <<y, z>> \in P
      PROVE  <<x, z>> \in P
  <2>1. w[x] > w[y] \/ (w[x] = w[y] /\ x < y)
    BY <1>2
  <2>2. w[y] > w[z] \/ (w[y] = w[z] /\ y < z)
    BY <1>2
  <2>3. w[x] \in Int /\ w[y] \in Int /\ w[z] \in Int /\ x \in Nat /\ y \in Nat /\ z \in Nat
    OBVIOUS
  <2>4. w[x] > w[z] \/ (w[x] = w[z] /\ x < z)
    BY <2>1, <2>2, <2>3
  <2> QED BY <1>1, <2>4
<1>3. ASSUME NEW x \in T PROVE <<x, x>> \notin P
  <2>1. w[x] \in Int /\ x \in Nat
    OBVIOUS
  <2> QED BY <1>1, <2>1
<1>4. ASSUME NEW x \in T, NEW y \in T, x # y PROVE <<x, y>> \in P \/ <<y, x>> \in P
  <2>1. w[x] \in Int /\ w[y] \in Int /\ x \in Nat /\ y \in Nat
    OBVIOUS
  <2>2. w[x] > w[y] \/ w[y] > w[x] \/ (w[x] = w[y] /\ (x < y \/ y < x))
    BY <1>4, <2>1
  <2> QED BY <1>1, <2>2
<1> QED BY <1>1, <1>2, <1>3, <1>4 DEF StrictOrder

\* Of records in this order there is one at every place, and none newer than the first.
LEMMA PlacedByTime ==
  ASSUME NEW T \in SUBSET Nat, IsFiniteSet(T), NEW w \in [T -> Int], NEW n \in 1..Cardinality(T),
         NEW x, x = CHOOSE i \in T : Cardinality({j \in T : w[j] > w[i] \/ (w[j] = w[i] /\ j < i)}) = n - 1
  PROVE  x \in T /\ (n = 1 => \A i \in T : w[i] <= w[x])
<1>1. PICK P : P = {p \in T \X T : w[p[1]] > w[p[2]] \/ (w[p[1]] = w[p[2]] /\ p[1] < p[2])}
  OBVIOUS
<1>2. /\ StrictOrder(P, T)
      /\ \A i, j \in T : <<j, i>> \in P <=> w[j] > w[i] \/ (w[j] = w[i] /\ j < i)
  BY <1>1, TimeOrder
<1>3. PICK f : f = PlacesIn(P, T)
  OBVIOUS
<1>4. /\ \A z \in T : f[z] \in 0..(Cardinality(T) - 1)
      /\ \A k \in 0..(Cardinality(T) - 1) : \E z \in T : f[z] = k
      /\ \A y, z \in T : <<y, z>> \in P <=> f[y] < f[z]
  <2>1. StrictOrder(P, T) /\ IsFiniteSet(T)
    BY <1>2
  <2>2. TakesAll(f, P, T)
    BY <1>3, <2>1, PlacesTaken
  <2> QED BY <2>2 DEF TakesAll
<1>5. \A i \in T : {y \in T : <<y, i>> \in P} = {j \in T : w[j] > w[i] \/ (w[j] = w[i] /\ j < i)}
  BY <1>2
<1>6. \A i \in T : f[i] = Cardinality({j \in T : w[j] > w[i] \/ (w[j] = w[i] /\ j < i)})
  BY <1>3, <1>5 DEF PlacesIn
<1>7. n - 1 \in 0..(Cardinality(T) - 1)
  BY FS_CardinalityType
<1>8. \E z \in T : f[z] = n - 1
  BY <1>4, <1>7
<1>9. x \in T /\ f[x] = n - 1
  BY <1>6, <1>8
<1>10. ASSUME n = 1, NEW i \in T PROVE w[i] <= w[x]
  <2>1. f[x] = 0 /\ f[i] \in Nat
    BY <1>4, <1>9, <1>10
  <2>2. <<i, x>> \notin P
    <3>1. ~(f[i] < f[x])
      BY <2>1
    <3> QED BY <1>4, <1>9, <3>1
  <2>3. ~(w[i] > w[x])
    BY <1>2, <1>9, <2>2
  <2>4. w[i] \in Int /\ w[x] \in Int
    BY <1>9
  <2> QED BY <2>3, <2>4
<1> QED BY <1>9, <1>10

\* What a page holds: no time later than its first, which is that of the newest record.
LEMMA PageIsNewest ==
  ASSUME records \in Seq(OccurrenceRecords), NEW fp
  PROVE  Newest(records, fp, OfFingerprint(fp))
<1>1. PICK T : T = Holding(records, fp)
  OBVIOUS
<1>2. /\ IsFiniteSet(T) /\ Cardinality(T) \in Nat /\ T \in SUBSET Nat
      /\ \A i \in T : records[i].at \in Int
  BY <1>1, HoldingFinite
<1>3. PICK w : w = [i \in T |-> records[i].at]
  OBVIOUS
<1>4. w \in [T -> Int]
  BY <1>2, <1>3
<1>5. PICK all : all = NewestFirst(T)
  OBVIOUS
<1>6. all = [n \in 1..Cardinality(T) |->
               CHOOSE i \in T : Cardinality({j \in T : records[j].at > records[i].at
                                              \/ (records[j].at = records[i].at /\ j < i)}) = n - 1]
  BY <1>5 DEF NewestFirst
<1>7. ASSUME NEW n \in 1..Cardinality(T)
      PROVE  /\ all[n] \in T
             /\ n = 1 => \A i \in T : w[i] <= w[all[n]]
  <2>1. \A i \in T : {j \in T : records[j].at > records[i].at \/ (records[j].at = records[i].at /\ j < i)}
                     = {j \in T : w[j] > w[i] \/ (w[j] = w[i] /\ j < i)}
    BY <1>3
  <2>2. all[n] = CHOOSE i \in T : Cardinality({j \in T : w[j] > w[i] \/ (w[j] = w[i] /\ j < i)}) = n - 1
    <3>1. all[n] = CHOOSE i \in T : Cardinality({j \in T : records[j].at > records[i].at
                                              \/ (records[j].at = records[i].at /\ j < i)}) = n - 1
      BY <1>6
    <3> QED BY <2>1, <3>1
  <2> QED BY <1>2, <1>4, <2>2, PlacedByTime
<1>8. PICK N \in Nat : N = Cardinality(T)
  BY <1>2
<1>9. Len(all) = N
  BY <1>6, <1>8
<1>10. PICK m : m = IF N < PageLimit THEN N ELSE PageLimit
  OBVIOUS
<1>11. m \in Nat /\ m <= N /\ (m > 0 <=> N > 0)
  BY <1>8, <1>10, RecurrenceAssumption
<1>12. PICK t : t = OfFingerprint(fp)
  OBVIOUS
<1>13. t = [n \in 1..m |-> records[all[n]].at]
  <2>1. t = Page(T, PageLimit)
    BY <1>1, <1>12 DEF OfFingerprint, Holding
  <2> QED BY <1>5, <1>9, <1>10, <2>1 DEF Page
<1>14. Len(t) = m
  BY <1>11, <1>13
<1>15. \A n \in 1..m : all[n] \in T /\ t[n] = w[all[n]]
  <2>1. \A n \in 1..m : n \in 1..Cardinality(T)
    BY <1>8, <1>11
  <2> QED BY <1>3, <1>7, <1>13, <2>1
<1>16. ASSUME m > 0 PROVE all[1] \in T /\ t[1] = w[all[1]] /\ \A i \in T : w[i] <= t[1]
  <2>1. 1 \in 1..m /\ 1 \in 1..Cardinality(T)
    BY <1>8, <1>11, <1>16
  <2>2. t[1] = w[all[1]] /\ all[1] \in T
    BY <1>15, <2>1
  <2>3. \A i \in T : w[i] <= w[all[1]]
    BY <1>7, <2>1
  <2> QED BY <2>2, <2>3
<1>17. ASSUME NEW n \in 1..m PROVE t[n] \in Int /\ t[n] <= t[1]
  <2>1. m > 0
    BY <1>11
  <2>2. t[n] = w[all[n]] /\ all[n] \in T
    BY <1>15
  <2> QED BY <1>4, <1>16, <2>1, <2>2
<1>18. \A i \in T : w[i] = records[i].at
  BY <1>3
<1> QED BY <1>1, <1>8, <1>10, <1>12, <1>14, <1>16, <1>17, <1>18 DEF Newest

\* So it is in every state.
LEMMA PageAlways ==
  records \in Seq(OccurrenceRecords) => \A fp : Newest(records, fp, OfFingerprint(fp))
BY PageIsNewest

\* Metrics that do not claim more than a page shows.
Measured(m, times) ==
    /\ m.count \in Nat /\ m.count <= Len(times)
    /\ m.count > 0 => m.first \in Int /\ m.last \in Int /\ m.first <= m.last /\ m.last <= times[1]

\* Those that were computed of the page itself do not.
LEMMA ComputedMeasured ==
  ASSUME NEW R \in Seq(OccurrenceRecords), NEW fp, NEW t, Newest(R, fp, t)
  PROVE  Measured(ComputeMetrics(t), t)
<1>1. Len(t) \in Nat
  BY HoldingFinite, RecurrenceAssumption DEF Newest
<1>2. CASE Len(t) = 0
  BY <1>1, <1>2 DEF ComputeMetrics, Measured
<1>3. CASE Len(t) # 0
  <2>1. PICK n : n = Len(t)
    OBVIOUS
  <2>2. n \in Nat /\ n > 0 /\ n \in 1..n /\ 1 \in 1..n
    BY <1>1, <1>3, <2>1
  <2>3. t[n] \in Int /\ t[1] \in Int /\ t[n] <= t[1]
    BY <2>1, <2>2 DEF Newest
  <2>4. PICK m : m = ComputeMetrics(t)
    OBVIOUS
  <2>5. m.count = n /\ m.first = t[n] /\ m.last = t[1]
    BY <2>1, <2>2, <2>4 DEF ComputeMetrics
  <2> QED BY <2>1, <2>2, <2>3, <2>4, <2>5 DEF Measured
<1> QED BY <1>2, <1>3

\* Nor do they of a later page, since records are only added.
LEMMA MeasuredStays ==
  ASSUME NEW R \in Seq(OccurrenceRecords), NEW x \in OccurrenceRecords, NEW Q, Q = Append(R, x),
         NEW fp, NEW t, Newest(R, fp, t), NEW u, Newest(Q, fp, u), NEW m, Measured(m, t)
  PROVE  Measured(m, u)
<1>1. /\ Q \in Seq(OccurrenceRecords) /\ DOMAIN R \subseteq DOMAIN Q /\ \A i \in DOMAIN R : Q[i] = R[i]
  OBVIOUS
<1>2. PICK T, U : T = Holding(R, fp) /\ U = Holding(Q, fp)
  OBVIOUS
<1>3. /\ T \subseteq U /\ IsFiniteSet(T) /\ IsFiniteSet(U)
      /\ Cardinality(T) \in Nat /\ Cardinality(U) \in Nat
      /\ \A i \in T : R[i] = Q[i]
      /\ \A i \in U : Q[i].at \in Int
  <2>1. IsFiniteSet(T) /\ Cardinality(T) \in Nat
    BY <1>2, HoldingFinite
  <2>2. IsFiniteSet(U) /\ Cardinality(U) \in Nat /\ \A i \in U : Q[i].at \in Int
    BY <1>1, <1>2, HoldingFinite
  <2>3. T \subseteq U /\ \A i \in T : R[i] = Q[i]
    BY <1>1, <1>2 DEF Holding
  <2> QED BY <2>1, <2>2, <2>3
<1>4. Cardinality(T) <= Cardinality(U)
  BY <1>3, FS_Subset
<1>5. /\ Len(t) = IF Cardinality(T) < PageLimit THEN Cardinality(T) ELSE PageLimit
      /\ Len(u) = IF Cardinality(U) < PageLimit THEN Cardinality(U) ELSE PageLimit
  BY <1>2 DEF Newest
<1>6. Len(t) \in Nat /\ Len(u) \in Nat /\ Len(t) <= Len(u)
  BY <1>3, <1>4, <1>5, RecurrenceAssumption
<1>7. ASSUME Len(t) > 0 PROVE t[1] \in Int /\ u[1] \in Int /\ t[1] <= u[1]
  <2>1. PICK i \in T : R[i].at = t[1]
    BY <1>2, <1>7 DEF Newest
  <2>2. 1 \in 1..Len(u) /\ Len(u) > 0
    BY <1>6, <1>7
  <2>3. u[1] \in Int /\ Q[i].at <= u[1]
    BY <1>2, <1>3, <2>1, <2>2 DEF Newest
  <2> QED BY <1>3, <2>1, <2>3
<1> QED BY <1>6, <1>7 DEF Measured

-----------------------------------------------------------------------------
(* Recurrence: the invariant of its steps. A transaction that looked for its *)
(* key saw all there is when it can still write.                             *)

Asking(w) ==
    /\ w.learning \in Recurring /\ w.fp \in {Fingerprint[l] : l \in Recurring} \cup {"given"}
    /\ w.key \in RetryKeys \cup {NoKey}
Looked(s) ==
    /\ Asking(s.ask) /\ s.at \in Int
    /\ IF s.ask.key = NoKey THEN s.basis = -1
       ELSE s.basis \in 0..Len(records) /\ \A i \in 1..s.basis : records[i].key # s.ask.key
Inserted(s) ==
    /\ s.id \in DOMAIN records
    /\ records[s.id].key = s.ask.key /\ records[s.id].learning = s.ask.learning
    /\ records[s.id].fp = s.ask.fp
    /\ \A x \in answers : x.new => x.id # s.id
Reviewing(s) == Measured(s.metrics, OfFingerprint(Fingerprint[s.learning]))
StateSound(s) ==
    /\ s.step = "lookup" => Asking(s)
    /\ s.step = "insert" => Looked(s)
    /\ s.step = "answer" => Inserted(s)
    /\ s.step = "review" => Reviewing(s)

OneByKey ==
    \A i, j \in DOMAIN records : records[i].key = records[j].key => i = j \/ records[i].key = NoKey
AnswerSound(x) ==
    /\ x.id \in DOMAIN records
    /\ x.ask.key = records[x.id].key
    /\ x.new => records[x.id].learning = x.ask.learning /\ records[x.id].fp = x.ask.fp
ShownSound(s) ==
    /\ Reviewing(s)
    /\ s.review => s.metrics.count = 0 \/ s.metrics.last < s.on - StaleAfter

ReportersAct == reporter = [r \in Reporters |-> reporter[r]]
OneAnswers ==
    \A r, q \in Reporters :
        /\ reporter[r].step = "answer" /\ reporter[q].step = "answer"
        /\ reporter[r].id = reporter[q].id
        => r = q

RecInv ==
    /\ records \in Seq(OccurrenceRecords) /\ today \in Int
    /\ ReportersAct
    /\ OneByKey
    /\ \A r \in Reporters : StateSound(reporter[r])
    /\ OneAnswers
    /\ \A x \in answers : AnswerSound(x)
    /\ \A x, y \in answers : x.new /\ y.new /\ x.id = y.id => x = y
    /\ \A s \in shown : ShownSound(s)

\* It gives what is promised of reports and of metrics.
LEMMA RecInvSound == RecInv => RetriesCountOnce /\ ShownTogetherAgrees
<1>1. SUFFICES ASSUME RecInv PROVE RetriesCountOnce /\ ShownTogetherAgrees
  OBVIOUS
<1>2. RetriesCountOnce
  BY <1>1 DEF RecInv, RetriesCountOnce, OneByKey, AnswerSound
<1>3. ASSUME NEW s \in shown, NEW still, still = OfFingerprint(Fingerprint[s.learning])
      PROVE  /\ s.metrics.count <= Len(still)
             /\ s.review => s.metrics.count = 0 \/ s.metrics.last < s.on - StaleAfter
             /\ s.metrics.count > 0 => s.metrics.first <= s.metrics.last /\ s.metrics.last <= still[1]
  BY <1>1, <1>3 DEF RecInv, ShownSound, Reviewing, Measured
<1>4. ShownTogetherAgrees
  BY <1>3 DEF ShownTogetherAgrees
<1> QED BY <1>2, <1>4

\* Recurrence begins so.
LEMMA RecInitInv == RecurrenceInit => RecInv
<1>1. SUFFICES ASSUME RecurrenceInit PROVE RecInv
  OBVIOUS
<1>2. records \in Seq(OccurrenceRecords) /\ OneByKey
  BY <1>1, RecurrenceAssumption DEF RecurrenceInit, OneByKey
<1>3. \A r \in Reporters : reporter[r].step = "idle"
  BY <1>1 DEF RecurrenceInit, NotReporting
<1>4. \A r \in Reporters : StateSound(reporter[r])
  BY <1>3 DEF StateSound
<1>5. today \in Int /\ ReportersAct /\ answers = {} /\ shown = {}
  BY <1>1 DEF RecurrenceInit, ReportersAct
<1>6. OneAnswers
  BY <1>3 DEF OneAnswers
<1> QED BY <1>2, <1>4, <1>5, <1>6 DEF RecInv

\* A step of one caller alone, to a state that is sound and not yet to be answered.
LEMMA ReporterMoves ==
  ASSUME RecInv, NEW r \in Reporters, NEW s, StateSound(s), s.step # "answer",
         reporter' = [reporter EXCEPT ![r] = s], UNCHANGED <<records, today, answers, shown>>
  PROVE  RecInv'
<1>1. /\ ReportersAct' /\ reporter'[r] = s
      /\ \A q \in Reporters : q # r => reporter'[q] = reporter[q]
  BY DEF RecInv, ReportersAct
<1>2. \A fp : OfFingerprint(fp)' = OfFingerprint(fp)
  BY DEF OfFingerprint, Page, NewestFirst
<1>3. ASSUME NEW q \in Reporters PROVE StateSound(reporter[q])'
  <2>1. PICK v : v = reporter'[q]
    OBVIOUS
  <2>2. StateSound(v)
    BY <1>1, <2>1 DEF RecInv
  <2> QED BY <1>2, <2>1, <2>2 DEF StateSound, Looked, Inserted, Reviewing
<1>4. OneAnswers'
  <2>1. \A q \in Reporters : reporter'[q].step = "answer" => reporter'[q] = reporter[q]
    BY <1>1
  <2>2. OneAnswers
    BY DEF RecInv
  <2> QED BY <2>1, <2>2 DEF OneAnswers
<1>5. \A v \in shown : ShownSound(v)'
  BY <1>2 DEF RecInv, ShownSound, Reviewing
<1>6. \A x \in answers : AnswerSound(x)'
  BY DEF RecInv, AnswerSound
<1> QED BY <1>1, <1>3, <1>4, <1>5, <1>6 DEF RecInv, OneByKey

\* A report begins, and looks for its key.
LEMMA LookupStep ==
  ASSUME RecInv, NEW r \in Reporters, Lookup(r)
  PROVE  RecInv'
<1>1. PICK ask : ask = reporter[r]
  OBVIOUS
<1>2. Asking(ask) /\ ask.step = "lookup"
  BY <1>1 DEF Lookup, RecInv, StateSound
<1>3. PICK old : old = IF ask.key = NoKey THEN 0 ELSE FindByKey(ask.key)
  OBVIOUS
<1>4. UNCHANGED <<records, today, shown>>
  BY DEF Lookup
<1>5. DOMAIN records = 1..Len(records) /\ Len(records) \in Nat
  BY DEF RecInv
<1>6. CASE old # 0
  <2>1. /\ reporter' = [reporter EXCEPT ![r] = NotReporting]
        /\ answers' = answers \cup {[id |-> old, new |-> FALSE, ask |-> ask]}
    BY <1>1, <1>3, <1>6 DEF Lookup, Became
  <2>2. old \in DOMAIN records /\ records[old].key = ask.key
    BY <1>3, <1>6 DEF FindByKey
  <2>3. PICK x : x = [id |-> old, new |-> FALSE, ask |-> ask]
    OBVIOUS
  <2>4. AnswerSound(x) /\ ~x.new
    BY <2>2, <2>3 DEF AnswerSound
  <2>5. /\ ReportersAct' /\ reporter'[r].step = "idle"
        /\ \A q \in Reporters : q # r => reporter'[q] = reporter[q]
    BY <2>1 DEF RecInv, ReportersAct, NotReporting
  <2>6. answers' = answers \cup {x}
    BY <2>1, <2>3
  <2>7. \A fp : OfFingerprint(fp)' = OfFingerprint(fp)
    BY <1>4 DEF OfFingerprint, Page, NewestFirst
  <2>8. ASSUME NEW q \in Reporters PROVE StateSound(reporter[q])'
    <3>1. CASE q = r
      BY <2>5, <3>1 DEF StateSound
    <3>2. CASE q # r
      <4>1. PICK v : v = reporter[q]
        OBVIOUS
      <4>2. StateSound(v) /\ reporter'[q] = v
        BY <2>5, <3>2, <4>1 DEF RecInv
      <4>3. Inserted(v) => Inserted(v)'
        BY <1>4, <2>4, <2>6 DEF Inserted
      <4>4. (Looked(v) => Looked(v)') /\ (Reviewing(v) => Reviewing(v)')
        BY <1>4, <2>7 DEF Looked, Reviewing
      <4>5. StateSound(v)'
        BY <4>2, <4>3, <4>4 DEF StateSound
      <4> QED BY <4>2, <4>5 DEF StateSound, Looked, Inserted, Reviewing
    <3> QED BY <3>1, <3>2
  <2>9. OneAnswers'
    BY <2>5 DEF RecInv, OneAnswers
  <2>10. \A y \in answers' : AnswerSound(y)'
    BY <1>4, <2>4, <2>6 DEF RecInv, AnswerSound
  <2>11. \A y, z \in answers' : y.new /\ z.new /\ y.id = z.id => y = z
    BY <2>4, <2>6 DEF RecInv
  <2>12. \A s \in shown' : ShownSound(s)'
    BY <1>4, <2>7 DEF RecInv, ShownSound, Reviewing
  <2> QED BY <1>4, <2>5, <2>8, <2>9, <2>10, <2>11, <2>12 DEF RecInv, OneByKey
<1>7. CASE old = 0
  <2>1. PICK s : s = [step |-> "insert", ask |-> ask, at |-> today,
                      basis |-> IF ask.key = NoKey THEN -1 ELSE Len(records)]
    OBVIOUS
  <2>2. reporter' = [reporter EXCEPT ![r] = s] /\ answers' = answers
    BY <1>1, <1>3, <1>7, <2>1 DEF Lookup, Became
  <2>3. ASSUME ask.key # NoKey, NEW i \in 1..Len(records) PROVE records[i].key # ask.key
    <3>1. SUFFICES ASSUME records[i].key = ask.key PROVE FALSE
      OBVIOUS
    <3>2. FindByKey(ask.key) \in DOMAIN records
      BY <1>5, <2>3, <3>1 DEF FindByKey
    <3> QED BY <1>3, <1>5, <1>7, <2>3, <3>2
  <2>4. Looked(s)
    BY <1>2, <1>5, <2>1, <2>3 DEF Looked, RecInv
  <2>5. StateSound(s) /\ s.step # "answer"
    BY <2>1, <2>4 DEF StateSound
  <2> QED BY <1>4, <2>2, <2>5, ReporterMoves
<1> QED BY <1>6, <1>7

\* A report is written, when nothing was since it looked.
LEMMA InsertStep ==
  ASSUME RecInv, NEW r \in Reporters, Insert(r)
  PROVE  RecInv'
<1>1. PICK old : old = reporter[r]
  OBVIOUS
<1>2. Looked(old) /\ old.step = "insert"
  BY <1>1 DEF Insert, RecInv, StateSound
<1>3. UNCHANGED <<today, answers, shown>>
  BY DEF Insert
<1>4. DOMAIN records = 1..Len(records) /\ Len(records) \in Nat
  BY DEF RecInv
<1>5. CASE Overtaken(r)
  <2>1. reporter' = [reporter EXCEPT ![r] = NotReporting] /\ records' = records
    BY <1>5 DEF Insert, Became
  <2>2. StateSound(NotReporting) /\ NotReporting.step # "answer"
    BY DEF StateSound, NotReporting
  <2> QED BY <1>3, <2>1, <2>2, ReporterMoves
<1>6. CASE ~Overtaken(r)
  <2>1. PICK x : x = [learning |-> old.ask.learning, fp |-> old.ask.fp, key |-> old.ask.key, at |-> old.at]
    OBVIOUS
  <2>2. PICK n, s : n = Len(records) + 1 /\ s = [step |-> "answer", ask |-> old.ask, id |-> n]
    OBVIOUS
  <2>3. records' = Append(records, x) /\ reporter' = [reporter EXCEPT ![r] = s]
    BY <1>1, <1>6, <2>1, <2>2 DEF Insert, Became
  <2>4. x \in OccurrenceRecords
    BY <1>2, <2>1 DEF Looked, Asking, OccurrenceRecords
  <2>5. /\ records' \in Seq(OccurrenceRecords) /\ DOMAIN records' = 1..n /\ n \notin DOMAIN records
        /\ Len(records') = n /\ n \in Nat
        /\ \A i \in DOMAIN records : i \in DOMAIN records' /\ records'[i] = records[i]
        /\ records'[n] = x
    BY <1>4, <2>2, <2>3, <2>4 DEF RecInv
  <2>6. OneByKey'
    <3>1. ASSUME NEW i \in DOMAIN records, x.key # NoKey PROVE records[i].key # x.key
      <4>1. old.basis = Len(records)
        BY <1>1, <1>2, <1>6, <2>1, <3>1 DEF Overtaken, Looked
      <4> QED BY <1>2, <1>4, <2>1, <3>1, <4>1 DEF Looked
    <3>2. SUFFICES ASSUME NEW i \in DOMAIN records', NEW j \in DOMAIN records',
                          records'[i].key = records'[j].key, records'[i].key # NoKey
                   PROVE  i = j
      BY DEF OneByKey
    <3>3. /\ i = n \/ (i \in DOMAIN records /\ records'[i] = records[i])
          /\ j = n \/ (j \in DOMAIN records /\ records'[j] = records[j])
      BY <1>4, <2>2, <2>5
    <3>4. CASE i = n /\ j # n
      BY <2>5, <3>1, <3>2, <3>3, <3>4
    <3>5. CASE i # n /\ j = n
      BY <2>5, <3>1, <3>2, <3>3, <3>5
    <3>6. CASE i # n /\ j # n
      BY <3>2, <3>3, <3>6 DEF RecInv, OneByKey
    <3> QED BY <3>4, <3>5, <3>6
  <2>7. /\ ReportersAct' /\ reporter'[r] = s
        /\ \A q \in Reporters : q # r => reporter'[q] = reporter[q]
    BY <2>3 DEF RecInv, ReportersAct
  <2>8. \A fp, m : Measured(m, OfFingerprint(fp)) => Measured(m, OfFingerprint(fp))'
    <3>1. (records \in Seq(OccurrenceRecords) => \A fp : Newest(records, fp, OfFingerprint(fp)))'
      BY PageAlways, PTL
    <3>2. SUFFICES ASSUME NEW fp, NEW m, Measured(m, OfFingerprint(fp))
                   PROVE  Measured(m, OfFingerprint(fp)')
      BY DEF Measured
    <3>3. PICK t, u : t = OfFingerprint(fp) /\ u = OfFingerprint(fp)'
      OBVIOUS
    <3>4. PICK R, Q : R = records /\ Q = records'
      OBVIOUS
    <3>5. Newest(R, fp, t)
      BY <3>3, <3>4, PageIsNewest DEF RecInv
    <3>6. Newest(Q, fp, u)
      BY <2>5, <3>1, <3>3, <3>4 DEF Newest, Holding
    <3>7. R \in Seq(OccurrenceRecords) /\ Q = Append(R, x)
      BY <2>3, <3>4 DEF RecInv
    <3>8. Measured(m, u)
      BY <2>4, <3>2, <3>3, <3>5, <3>6, <3>7, MeasuredStays
    <3> QED BY <3>3, <3>8
  <2>9. ASSUME NEW v PROVE /\ Looked(v) => Looked(v)'
                           /\ Inserted(v) => Inserted(v)'
                           /\ Reviewing(v) => Reviewing(v)'
    <3>1. Looked(v) => Looked(v)'
      BY <1>4, <2>2, <2>5 DEF Looked
    <3>2. Inserted(v) => Inserted(v)'
      BY <1>3, <2>5 DEF Inserted
    <3>3. Reviewing(v) => Reviewing(v)'
      BY <2>8 DEF Reviewing
    <3> QED BY <3>1, <3>2, <3>3
  <2>10. Inserted(s)'
    <3>1. \A y \in answers : y.id # n
      BY <2>5 DEF RecInv, AnswerSound
    <3> QED BY <1>3, <1>4, <2>1, <2>2, <2>5, <3>1 DEF Inserted
  <2>11. ASSUME NEW q \in Reporters PROVE StateSound(reporter[q])'
    <3>1. PICK v : v = reporter'[q]
      OBVIOUS
    <3>2. StateSound(v)'
      <4>1. CASE q = r
        BY <2>2, <2>7, <2>10, <3>1, <4>1 DEF StateSound
      <4>2. CASE q # r
        <5>1. StateSound(v)
          BY <2>7, <3>1, <4>2 DEF RecInv
        <5> QED BY <2>9, <5>1 DEF StateSound
      <4> QED BY <4>1, <4>2
    <3> QED BY <3>1, <3>2 DEF StateSound, Looked, Inserted, Reviewing
  <2>12. OneAnswers'
    <3>1. \A q \in Reporters : q # r /\ reporter'[q].step = "answer" => reporter'[q].id # n
      BY <2>5, <2>7 DEF RecInv, StateSound, Inserted
    <3>2. reporter'[r].id = n
      BY <2>2, <2>7
    <3> QED BY <2>7, <3>1, <3>2 DEF RecInv, OneAnswers
  <2>13. \A y \in answers : AnswerSound(y)'
    BY <2>5 DEF RecInv, AnswerSound
  <2>14. \A y \in shown : ShownSound(y)'
    BY <2>9 DEF RecInv, ShownSound
  <2> QED BY <1>3, <2>5, <2>6, <2>7, <2>11, <2>12, <2>13, <2>14 DEF RecInv
<1> QED BY <1>5, <1>6

\* The caller is answered with its own record.
LEMMA AcknowledgeStep ==
  ASSUME RecInv, NEW r \in Reporters, Acknowledge(r)
  PROVE  RecInv'
<1>1. PICK old : old = reporter[r]
  OBVIOUS
<1>2. PICK x : x = [id |-> old.id, new |-> TRUE, ask |-> old.ask]
  OBVIOUS
<1>3. /\ UNCHANGED <<records, today, shown>> /\ answers' = answers \cup {x}
      /\ reporter' = [reporter EXCEPT ![r] = NotReporting] /\ old.step = "answer"
  BY <1>1, <1>2 DEF Acknowledge, Became
<1>4. Inserted(old)
  BY <1>1, <1>3 DEF RecInv, StateSound
<1>5. AnswerSound(x) /\ \A y \in answers : y.new => y.id # x.id
  BY <1>2, <1>4 DEF Inserted, AnswerSound
<1>6. /\ ReportersAct' /\ reporter'[r].step = "idle"
      /\ \A q \in Reporters : q # r => reporter'[q] = reporter[q]
  BY <1>3 DEF RecInv, ReportersAct, NotReporting
<1>7. \A fp : OfFingerprint(fp)' = OfFingerprint(fp)
  BY <1>3 DEF OfFingerprint, Page, NewestFirst
<1>8. ASSUME NEW q \in Reporters PROVE StateSound(reporter[q])'
  <2>1. CASE q = r
    BY <1>6, <2>1 DEF StateSound
  <2>2. CASE q # r
    <3>1. PICK v : v = reporter[q]
      OBVIOUS
    <3>2. StateSound(v) /\ reporter'[q] = v
      BY <1>6, <2>2, <3>1 DEF RecInv
    <3>3. v.step = "answer" => v.id # x.id
      BY <1>1, <1>2, <1>3, <2>2, <3>1 DEF RecInv, OneAnswers
    <3>4. v.step = "answer" => Inserted(v)'
      BY <1>3, <3>2, <3>3 DEF StateSound, Inserted
    <3>5. (Looked(v) => Looked(v)') /\ (Reviewing(v) => Reviewing(v)')
      BY <1>3, <1>7 DEF Looked, Reviewing
    <3>6. StateSound(v)'
      BY <3>2, <3>4, <3>5 DEF StateSound
    <3> QED BY <3>2, <3>6 DEF StateSound, Looked, Inserted, Reviewing
  <2> QED BY <2>1, <2>2
<1>9. OneAnswers'
  BY <1>6 DEF RecInv, OneAnswers
<1>10. \A y \in answers' : AnswerSound(y)'
  BY <1>3, <1>5 DEF RecInv, AnswerSound
<1>11. \A y, z \in answers' : y.new /\ z.new /\ y.id = z.id => y = z
  BY <1>3, <1>5 DEF RecInv
<1>12. \A s \in shown' : ShownSound(s)'
  BY <1>3, <1>7 DEF RecInv, ShownSound, Reviewing
<1> QED BY <1>3, <1>6, <1>8, <1>9, <1>10, <1>11, <1>12 DEF RecInv, OneByKey

\* The metrics of a learning, and whether it needs a review, are shown.
LEMMA ReviewStep ==
  ASSUME RecInv, NEW r \in Reporters, Review(r)
  PROVE  RecInv'
<1>1. PICK old, t : old = reporter[r] /\ t = OfFingerprint(Fingerprint[old.learning])
  OBVIOUS
<1>2. PICK s : s = [learning |-> old.learning, metrics |-> old.metrics, on |-> today,
                    review |-> NeedsReview(t)]
  OBVIOUS
<1>3. /\ UNCHANGED <<records, today, answers>> /\ shown' = {s}
      /\ reporter' = [reporter EXCEPT ![r] = NotReporting] /\ old.step = "review"
  BY <1>1, <1>2 DEF Review, Became
<1>4. Reviewing(old)
  BY <1>1, <1>3 DEF RecInv, StateSound
<1>5. ShownSound(s)
  <2>1. Reviewing(s)
    BY <1>2, <1>4 DEF Reviewing
  <2>2. ASSUME s.review, s.metrics.count # 0 PROVE s.metrics.last < s.on - StaleAfter
    <3>1. Measured(s.metrics, t)
      BY <1>1, <1>2, <2>1 DEF Reviewing
    <3>2. s.metrics.last \in Int /\ s.metrics.last <= t[1]
      BY <2>2, <3>1 DEF Measured
    <3>3. t[1] < today - StaleAfter /\ Len(t) > 0 /\ s.on = today
      BY <1>2, <2>2 DEF NeedsReview
    <3>4. t[1] \in Int
      <4>1. Newest(records, Fingerprint[old.learning], t)
        BY <1>1, PageIsNewest DEF RecInv
      <4>2. Len(t) \in Nat
        BY <4>1, HoldingFinite, RecurrenceAssumption DEF Newest, RecInv
      <4>3. 1 \in 1..Len(t)
        BY <3>3, <4>2
      <4> QED BY <4>1, <4>3 DEF Newest
    <3>5. today \in Int /\ StaleAfter \in Nat
      BY RecurrenceAssumption DEF RecInv
    <3> QED BY <3>2, <3>3, <3>4, <3>5
  <2> QED BY <2>1, <2>2 DEF ShownSound
<1>6. /\ ReportersAct' /\ reporter'[r].step = "idle"
      /\ \A q \in Reporters : q # r => reporter'[q] = reporter[q]
  BY <1>3 DEF RecInv, ReportersAct, NotReporting
<1>7. \A fp : OfFingerprint(fp)' = OfFingerprint(fp)
  BY <1>3 DEF OfFingerprint, Page, NewestFirst
<1>8. ASSUME NEW q \in Reporters PROVE StateSound(reporter[q])'
  <2>1. CASE q = r
    BY <1>6, <2>1 DEF StateSound
  <2>2. CASE q # r
    <3>1. PICK v : v = reporter[q]
      OBVIOUS
    <3>2. StateSound(v) /\ reporter'[q] = v
      BY <1>6, <2>2, <3>1 DEF RecInv
    <3> QED BY <1>3, <1>7, <3>2 DEF StateSound, Looked, Inserted, Reviewing
  <2> QED BY <2>1, <2>2
<1>9. OneAnswers'
  BY <1>6 DEF RecInv, OneAnswers
<1>10. ShownSound(s)'
  BY <1>5, <1>7 DEF ShownSound, Reviewing
<1>11. \A y \in answers : AnswerSound(y)'
  BY <1>3 DEF RecInv, AnswerSound
<1> QED BY <1>3, <1>6, <1>8, <1>9, <1>10, <1>11 DEF RecInv, OneByKey

\* Every step of recurrence keeps the invariant.
LEMMA RecStep ==
  ASSUME RecInv, [RecurrenceNext]_recVars
  PROVE  RecInv'
<1>1. ASSUME NEW r \in Reporters, NEW l \in Recurring, Measure(r, l) PROVE RecInv'
  <2>1. PICK fp, t : fp = Fingerprint[l] /\ t = OfFingerprint(fp)
    OBVIOUS
  <2>2. PICK s : s = [step |-> "review", learning |-> l, metrics |-> ComputeMetrics(t)]
    OBVIOUS
  <2>3. reporter' = [reporter EXCEPT ![r] = s] /\ UNCHANGED <<records, today, answers, shown>>
    BY <1>1, <2>1, <2>2 DEF Measure, Became
  <2>4. Measured(ComputeMetrics(t), t)
    <3>1. PICK R : R = records
      OBVIOUS
    <3>2. R \in Seq(OccurrenceRecords) /\ Newest(R, fp, t)
      BY <2>1, <3>1, PageIsNewest DEF RecInv
    <3> QED BY <3>2, ComputedMeasured
  <2>5. StateSound(s) /\ s.step # "answer"
    BY <2>1, <2>2, <2>4 DEF StateSound, Reviewing
  <2> QED BY <2>3, <2>5, ReporterMoves
<1>2. ASSUME NEW r \in Reporters, NEW l \in Recurring, NEW key \in RetryKeys \cup {NoKey},
             NEW fp \in {Fingerprint[l], "given"}, Report(r, l, fp, key)
      PROVE  RecInv'
  <2>1. PICK s : s = [step |-> "lookup", learning |-> l, fp |-> fp, key |-> key]
    OBVIOUS
  <2>2. reporter' = [reporter EXCEPT ![r] = s] /\ UNCHANGED <<records, today, answers, shown>>
    BY <1>2, <2>1 DEF Report, Became
  <2>3. StateSound(s) /\ s.step # "answer"
    BY <2>1 DEF StateSound, Asking
  <2> QED BY <2>2, <2>3, ReporterMoves
<1>3. ASSUME NEW r \in Reporters, Lookup(r) \/ Insert(r) \/ Acknowledge(r) \/ Review(r) PROVE RecInv'
  BY <1>3, LookupStep, InsertStep, AcknowledgeStep, ReviewStep
<1>4. ASSUME NEW r \in Reporters, ReporterDies(r) PROVE RecInv'
  <2>1. /\ reporter' = [reporter EXCEPT ![r] = NotReporting]
        /\ UNCHANGED <<records, today, answers, shown>>
    BY <1>4 DEF ReporterDies, Became
  <2>2. StateSound(NotReporting) /\ NotReporting.step # "answer"
    BY DEF StateSound, NotReporting
  <2> QED BY <2>1, <2>2, ReporterMoves
<1>5. ASSUME today' \in Int, UNCHANGED <<records, reporter, answers, shown>> PROVE RecInv'
  <2>1. \A fp : OfFingerprint(fp)' = OfFingerprint(fp)
    BY <1>5 DEF OfFingerprint, Page, NewestFirst
  <2>2. \A q \in Reporters : StateSound(reporter[q])'
    BY <1>5, <2>1 DEF RecInv, StateSound, Looked, Inserted, Reviewing
  <2>3. \A y \in answers : AnswerSound(y)'
    BY <1>5 DEF RecInv, AnswerSound
  <2>4. \A s \in shown : ShownSound(s)'
    BY <1>5, <2>1 DEF RecInv, ShownSound, Reviewing
  <2> QED BY <1>5, <2>2, <2>3, <2>4 DEF RecInv, OneByKey, OneAnswers, ReportersAct
<1>6. CASE DayPasses
  BY <1>5, <1>6 DEF DayPasses, RecInv
<1>7. CASE UNCHANGED recVars
  BY <1>5, <1>7 DEF recVars, RecInv
<1> QED BY <1>1, <1>2, <1>3, <1>4, <1>6, <1>7 DEF RecurrenceNext

-----------------------------------------------------------------------------
(* Relations                                                               *)

RelationsSpec == RelationsInit /\ [][RelationsNext]_relVars

Ids == {x.id : x \in relations}
Auditing(c) == curator[c].step = "audit"

\* The rows, numbered as they were saved.
RowsNumbered ==
    /\ IsFiniteSet(relations)
    /\ \A x \in relations : x.id \in 1..Cardinality(relations)
    /\ \A x, y \in relations : x.id = y.id => x = y

\* A process about to record an audit event holds the id of a row that nobody
\* else answers for.
AuditsOwn ==
    /\ \A c \in Curators : Auditing(c) =>
          /\ curator[c] = [step |-> "audit", id |-> curator[c].id]
          /\ curator[c].id \in Ids
          /\ curator[c].id \notin audits \cup lost
    /\ \A c, d \in Curators : Auditing(c) /\ Auditing(d) /\ curator[c].id = curator[d].id => c = d

\* What the table's constraint keeps.
UniqueRows ==
    \A x, y \in relations :
        x.source = y.source /\ x.target = y.target /\ x.kind = y.kind => x = y

\* Every row is accounted for.
Accounted ==
    /\ audits \subseteq Ids /\ lost \subseteq Ids
    /\ told = audits
    /\ lost \cap told = {}
    /\ \A x \in relations :
          x.id \in audits \cup lost \/ \E c \in Curators : Auditing(c) /\ curator[c].id = x.id

Curates == curator = [c \in Curators |-> curator[c]]

RelInv == Curates /\ RowsNumbered /\ UniqueRows /\ AuditsOwn /\ Accounted

\* It holds of the empty table, before anybody relates anything.
LEMMA RelInvInit == RelationsInit => RelInv
<1> SUFFICES ASSUME RelationsInit PROVE RelInv
    OBVIOUS
<1>1. Curates
    BY DEF RelationsInit, Curates
<1>2. RowsNumbered
    BY FS_EmptySet DEF RelationsInit, RowsNumbered
<1>3. UniqueRows
    BY DEF RelationsInit, UniqueRows
<1>4. AuditsOwn
    BY DEF RelationsInit, AuditsOwn, Auditing, NotRelating
<1>5. Accounted
    BY DEF RelationsInit, Accounted, Ids
<1> QED BY <1>1, <1>2, <1>3, <1>4, <1>5 DEF RelInv

\* A step that leaves the table and its accounts alone, and takes a process to a
\* step other than the audit.
LEMMA QuietStep ==
    ASSUME RelInv, UNCHANGED <<relations, audits, told, lost>>,
           NEW c \in Curators, NEW state, state.step # "audit", ~Auditing(c),
           curator' = [curator EXCEPT ![c] = state]
    PROVE  RelInv'
<1>1. \A d \in Curators : Auditing(d)' <=> Auditing(d)
    BY DEF RelInv, Curates, Auditing
<1>2. \A d \in Curators : Auditing(d) => curator'[d] = curator[d]
    BY DEF RelInv, Curates
<1>3. Curates' /\ RowsNumbered' /\ UniqueRows'
    BY DEF RelInv, Curates, RowsNumbered, UniqueRows
<1>4. AuditsOwn'
    BY <1>1, <1>2 DEF RelInv, AuditsOwn, Ids, Auditing
<1>5. Accounted'
    BY <1>1, <1>2 DEF RelInv, Accounted, Ids, Auditing
<1> QED BY <1>3, <1>4, <1>5 DEF RelInv

\* The constraint refuses, or the row gets a number of its own.
LEMMA SaveStep ==
    ASSUME RelInv, NEW c \in Curators, SaveRelation(c)
    PROVE  RelInv'
<1> DEFINE ask == curator[c]
           new == Cardinality(relations) + 1
           row == [id |-> new, source |-> ask.source, target |-> ask.target, kind |-> ask.kind]
<1>1. ask.step = "save" /\ ~Auditing(c)
    BY DEF SaveRelation, Auditing
<1>2. CASE Violates(ask)
    <2>1. curator' = [curator EXCEPT ![c] = NotRelating] /\ UNCHANGED <<relations, audits, told, lost>>
        BY <1>2 DEF SaveRelation, Moves
    <2> QED BY <1>1, <2>1, QuietStep DEF NotRelating
<1>3. CASE ~Violates(ask)
    <2>1. /\ relations' = relations \cup {row}
          /\ curator' = [curator EXCEPT ![c] = [step |-> "audit", id |-> new]]
          /\ UNCHANGED <<audits, told, lost>>
        BY <1>3 DEF SaveRelation, Moves
    <2>2. IsFiniteSet(relations) /\ Cardinality(relations) \in Nat
        BY FS_CardinalityType DEF RelInv, RowsNumbered
    <2>3. \A x \in relations : x.id \in 1..Cardinality(relations)
        BY DEF RelInv, RowsNumbered
    <2>4. new \notin Ids /\ row \notin relations
        BY <2>2, <2>3 DEF Ids
    <2>5. IsFiniteSet(relations') /\ Cardinality(relations') = new
        BY <2>1, <2>2, <2>4, FS_AddElement
    <2>6. Ids' = Ids \cup {new}
        <3>1. row.id = new
            OBVIOUS
        <3>2. \A x \in relations' : x \in relations \/ x = row
            BY <2>1
        <3>3. row \in relations' /\ relations \subseteq relations'
            BY <2>1
        <3> HIDE DEF row, new
        <3> QED BY <3>1, <3>2, <3>3 DEF Ids
    <2>7. Curates'
        BY <2>1 DEF RelInv, Curates
    <2>8. RowsNumbered'
        <3>1. \A x \in relations' : x.id \in 1..new
            BY <2>1, <2>2, <2>3
        <3>2. \A x, y \in relations' : x.id = y.id => x = y
            BY <2>1, <2>4 DEF RelInv, RowsNumbered, Ids
        <3> QED BY <2>5, <3>1, <3>2 DEF RowsNumbered
    <2>9. UniqueRows'
        <3>1. \A x \in relations : ~(x.source = row.source /\ x.target = row.target /\ x.kind = row.kind)
            BY <1>3 DEF Violates, Existing
        <3> QED BY <2>1, <3>1 DEF RelInv, UniqueRows
    <2>10. \A d \in Curators : d # c => curator'[d] = curator[d]
        BY <2>1 DEF RelInv, Curates
    <2>11. curator'[c] = [step |-> "audit", id |-> new]
        BY <2>1 DEF RelInv, Curates
    <2>12. new \notin audits \cup lost
        BY <2>4 DEF RelInv, Accounted
    <2>13. \A d \in Curators \ {c} : Auditing(d)' => Auditing(d) /\ curator'[d].id # new
        BY <2>4, <2>10 DEF RelInv, AuditsOwn, Auditing
    <2>14. AuditsOwn'
        <3>1. \A d \in Curators : Auditing(d)' =>
                /\ curator'[d] = [step |-> "audit", id |-> curator'[d].id]
                /\ curator'[d].id \in Ids'
                /\ curator'[d].id \notin audits' \cup lost'
            BY <2>1, <2>6, <2>10, <2>11, <2>12, <2>13 DEF RelInv, AuditsOwn
        <3>2. \A d, e \in Curators :
                Auditing(d)' /\ Auditing(e)' /\ curator'[d].id = curator'[e].id => d = e
            BY <2>10, <2>11, <2>13 DEF RelInv, AuditsOwn
        <3> QED BY <3>1, <3>2 DEF AuditsOwn, Auditing
    <2>15. Accounted'
        <3>1. /\ audits' \subseteq Ids' /\ lost' \subseteq Ids' /\ told' = audits'
              /\ lost' \cap told' = {}
            BY <2>1, <2>6 DEF RelInv, Accounted
        <3>2. \A x \in relations : x.id \in audits' \cup lost' \/
                    \E d \in Curators : Auditing(d)' /\ curator'[d].id = x.id
            BY <1>1, <2>1, <2>10 DEF RelInv, Accounted, Auditing
        <3>3. Auditing(c)' /\ curator'[c].id = row.id
            BY <2>11 DEF Auditing
        <3> QED BY <2>1, <3>1, <3>2, <3>3 DEF Accounted, Auditing
    <2> QED BY <2>7, <2>8, <2>9, <2>14, <2>15 DEF RelInv
<1> QED BY <1>2, <1>3

\* The audit event of a process's own row, or its failure.
LEMMA EndStep ==
    ASSUME RelInv, NEW c \in Curators, Auditing(c), relations' = relations,
           curator' = [curator EXCEPT ![c] = NotRelating],
           \/ /\ audits' = audits \cup {curator[c].id} /\ told' = told \cup {curator[c].id}
              /\ lost' = lost
           \/ lost' = lost \cup {curator[c].id} /\ UNCHANGED <<audits, told>>
    PROVE  RelInv'
<1>1. Curates' /\ RowsNumbered' /\ UniqueRows' /\ Ids' = Ids
    BY DEF RelInv, Curates, RowsNumbered, UniqueRows, Ids
<1>2. \A d \in Curators \ {c} : curator'[d] = curator[d]
    BY DEF RelInv, Curates
<1>3. ~Auditing(c)'
    BY DEF RelInv, Curates, Auditing, NotRelating
<1>4. \A d \in Curators : Auditing(d)' => d # c /\ Auditing(d) /\ curator[d].id # curator[c].id
    BY <1>2, <1>3 DEF RelInv, AuditsOwn, Auditing
<1>5. curator[c].id \in Ids /\ curator[c].id \notin audits \cup lost
    BY DEF RelInv, AuditsOwn
<1>6. AuditsOwn'
    BY <1>1, <1>2, <1>4 DEF RelInv, AuditsOwn, Auditing
<1>7. Accounted'
    <2>1. /\ audits' \subseteq Ids' /\ lost' \subseteq Ids' /\ told' = audits'
          /\ lost' \cap told' = {}
        BY <1>1, <1>5 DEF RelInv, Accounted
    <2>2. \A x \in relations' : x.id \in audits' \cup lost' \/
                \E d \in Curators : Auditing(d)' /\ curator'[d].id = x.id
        BY <1>2 DEF RelInv, Accounted, Auditing
    <2> QED BY <2>1, <2>2 DEF Accounted, Auditing
<1> QED BY <1>1, <1>6, <1>7 DEF RelInv

\* Every transaction of Relate keeps it.
LEMMA RelInvStep == RelInv /\ [RelationsNext]_relVars => RelInv'
<1> SUFFICES ASSUME RelInv, [RelationsNext]_relVars PROVE RelInv'
    OBVIOUS
<1>1. CASE UNCHANGED relVars
    BY <1>1 DEF relVars, RelInv, Curates, RowsNumbered, UniqueRows, AuditsOwn, Accounted, Auditing, Ids
<1>2. ASSUME NEW c \in Curators, NEW s, NEW t, NEW k, Relate(c, s, t, k) PROVE RelInv'
    <2>1. ~Auditing(c) /\ UNCHANGED <<relations, audits, told, lost>>
        BY <1>2 DEF Relate, Auditing
    <2>2. curator' = [curator EXCEPT ![c] = [step |-> "check", source |-> s, target |-> t, kind |-> k]]
        BY <1>2 DEF Relate, Moves
    <2> QED BY <2>1, <2>2, QuietStep
<1>3. ASSUME NEW c \in Curators, CheckExisting(c) PROVE RelInv'
    <2>1. ~Auditing(c) /\ UNCHANGED <<relations, audits, told, lost>>
        BY <1>3 DEF CheckExisting, Auditing
    <2>2. PICK state : state.step # "audit" /\ curator' = [curator EXCEPT ![c] = state]
        <3>1. CASE Existing(curator[c].source, curator[c].target, curator[c].kind) # {}
            BY <1>3, <3>1 DEF CheckExisting, Moves, NotRelating
        <3>2. CASE Existing(curator[c].source, curator[c].target, curator[c].kind) = {}
            <4> DEFINE moved == [curator[c] EXCEPT !.step = "save"]
            <4>1. curator' = [curator EXCEPT ![c] = moved]
                BY <1>3, <3>2 DEF CheckExisting, Moves
            <4>2. moved.step # "audit"
                OBVIOUS
            <4> QED BY <4>1, <4>2
        <3> QED BY <3>1, <3>2
    <2> QED BY <2>1, <2>2, QuietStep
<1>4. ASSUME NEW c \in Curators, SaveRelation(c) PROVE RelInv'
    BY <1>4, SaveStep
<1>5. ASSUME NEW c \in Curators, RecordAudit(c) PROVE RelInv'
    BY <1>5, EndStep DEF RecordAudit, Moves, Auditing
<1>6. ASSUME NEW c \in Curators, RelateFails(c) PROVE RelInv'
    <2>1. CASE Auditing(c)
        BY <1>6, <2>1, EndStep DEF RelateFails, Moves, Auditing
    <2>2. CASE ~Auditing(c)
        <3>1. curator' = [curator EXCEPT ![c] = NotRelating] /\ UNCHANGED <<relations, audits, told, lost>>
            BY <1>6, <2>2 DEF RelateFails, Moves, Auditing
        <3> QED BY <2>2, <3>1, QuietStep DEF NotRelating
    <2> QED BY <2>1, <2>2
<1> QED BY <1>1, <1>2, <1>3, <1>4, <1>5, <1>6 DEF RelationsNext

\* It gives what is promised of relations.
LEMMA RelInvSound == RelInv => RelatedOnce
<1> SUFFICES ASSUME RelInv PROVE RelatedOnce
    OBVIOUS
<1>1. \A x \in relations :
        x.id \in audits \cup lost \/ \E c \in Curators : curator[c] = [step |-> "audit", id |-> x.id]
    BY DEF RelInv, Accounted, AuditsOwn
<1> QED BY <1>1 DEF RelInv, UniqueRows, Accounted, RelatedOnce, Ids

-----------------------------------------------------------------------------
(* Retrieval: the scores. *)

Shelved(M) ==
    /\ IsFiniteSet(M) /\ M \subseteq Books
    /\ \A x, y \in M : x.id = y.id => x = y

\* What the score of a learning is made of, in a pool of the learnings M.
BestIn(M) == Max({0} \cup {x.strength : x \in M})
ScoreIn(l, M, terms, query) ==
    50 * BM25(l, BestIn(M)) + 20 * RetrievalTerms(l, terms) + 15 * TitleExact(l, query)
    + 10 * EvidenceLevel(l) + 5 * Recency(l)

\* A finite set of numbers has a greatest one.
LEMMA MaxIn ==
  ASSUME NEW A, A \subseteq Nat, IsFiniteSet(A), A # {}
  PROVE  Max(A) \in A /\ \A y \in A : Max(A) >= y
<1>1. PICK R : R = {p \in A \X A : p[1] > p[2]}
  OBVIOUS
<1>2. \A x, y \in A : <<x, y>> \in R <=> x > y
  BY <1>1
<1>3. StrictOrder(R, A)
  BY <1>2 DEF StrictOrder
<1>4. PICK f : f = PlacesIn(R, A)
  OBVIOUS
<1>5. TakesAll(f, R, A)
  BY <1>3, <1>4, PlacesTaken
<1>6. Cardinality(A) \in Nat /\ Cardinality(A) # 0
  BY FS_CardinalityType, FS_EmptySet
<1>7. PICK x \in A : f[x] = 0
  <2>1. 0 \in 0..(Cardinality(A) - 1)
    BY <1>6
  <2> QED BY <1>5, <2>1 DEF TakesAll
<1>8. \A y \in A : x >= y
  <2>1. SUFFICES ASSUME NEW y \in A PROVE x >= y
    OBVIOUS
  <2>2. ~(f[y] < f[x])
    BY <1>5, <1>6, <1>7 DEF TakesAll
  <2>3. ~(y > x)
    BY <1>2, <1>5, <2>2 DEF TakesAll
  <2> QED BY <2>3
<1> QED BY <1>8 DEF Max

\* A score is a number.
LEMMA ScoreNumber ==
  ASSUME NEW M, Shelved(M), NEW l \in M, date \in Nat, NEW terms, NEW query
  PROVE  ScoreIn(l, M, terms, query) \in Int
<1>1. BestIn(M) \in Nat
  <2>1. PICK A : A = {x.strength : x \in M}
    OBVIOUS
  <2>2. A \subseteq Nat
    BY <2>1 DEF Shelved, Books
  <2>3. IsFiniteSet(A)
    <3>1. PICK f : f = [x \in M |-> x.strength]
      OBVIOUS
    <3>2. f \in Surjection(M, A)
      BY <2>1, <3>1 DEF Surjection
    <3> QED BY <3>2, FS_Surjection DEF Shelved
  <2>4. IsFiniteSet({0} \cup A) /\ {0} \cup A \subseteq Nat /\ {0} \cup A # {}
    <3>1. IsFiniteSet({0})
      BY FS_Singleton
    <3>2. IsFiniteSet({0} \cup A)
      BY <2>3, <3>1, FS_Union
    <3> QED BY <2>2, <3>2
  <2>5. Max({0} \cup A) \in {0} \cup A
    BY <2>4, MaxIn
  <2> QED BY <2>1, <2>2, <2>5 DEF BestIn
<1>2. l.strength \in Nat /\ l.born \in Nat
  BY DEF Shelved, Books
<1>3. PICK b \in Nat : b = BestIn(M)
  BY <1>1
<1>4. BM25(l, b) \in Int
  <2>1. CASE b = 0
    BY <2>1 DEF BM25
  <2>2. CASE b # 0
    <3>1. PICK n, d : n = 1000 * b /\ d = b + l.strength
      OBVIOUS
    <3>2. n \in Int /\ d \in Nat \ {0}
      BY <1>2, <2>2, <3>1
    <3>3. n \div d \in Int
      BY <3>2
    <3> QED BY <2>2, <3>1, <3>3 DEF BM25
  <2> QED BY <2>1, <2>2
<1>5. RetrievalTerms(l, terms) \in Int /\ TitleExact(l, query) \in Int /\ EvidenceLevel(l) \in Int
  BY DEF RetrievalTerms, TitleExact, EvidenceLevel
<1>6. Recency(l) \in Int
  <2>1. PICK days : days = date - l.born
    OBVIOUS
  <2>2. days \in Int
    BY <1>2, <2>1
  <2>3. PICK n : n = 1000 * (IF days < 365 THEN days ELSE 365)
    OBVIOUS
  <2>4. n \in Int
    BY <2>2, <2>3
  <2>5. n \div 365 \in Int
    BY <2>4
  <2> QED BY <2>1, <2>3, <2>5 DEF Recency
<1> QED BY <1>3, <1>4, <1>5, <1>6 DEF ScoreIn

\* Which learning comes before which, by what it scores.
HitOf(l, M, terms, query) == [learning |-> l, score |-> ScoreIn(l, M, terms, query)]
Ahead(M, terms, query) ==
    {p \in M \X M : Precedes(HitOf(p[1], M, terms, query), HitOf(p[2], M, terms, query))}

\* It is a strict order, since no two learnings have one id.
LEMMA AheadOrders ==
  ASSUME NEW M, Shelved(M), date \in Nat, NEW terms, NEW query
  PROVE  StrictOrder(Ahead(M, terms, query), M)
<1>1. PICK R : R = Ahead(M, terms, query)
  OBVIOUS
<1>2. PICK s : s = [x \in M |-> ScoreIn(x, M, terms, query)]
  OBVIOUS
<1>3. \A x \in M : s[x] \in Int /\ x.fp \in Nat /\ x.id \in Nat
  BY <1>2, ScoreNumber DEF Shelved, Books
<1>4. \A x, y \in M : <<x, y>> \in R <=>
          \/ s[x] > s[y]
          \/ s[x] = s[y] /\ x.fp < y.fp
          \/ s[x] = s[y] /\ x.fp = y.fp /\ x.id < y.id
  BY <1>1, <1>2 DEF Ahead, Precedes, HitOf
<1>5. ASSUME NEW x \in M PROVE <<x, x>> \notin R
  BY <1>3, <1>4
<1>6. ASSUME NEW x \in M, NEW y \in M, NEW z \in M, <<x, y>> \in R, <<y, z>> \in R
      PROVE  <<x, z>> \in R
  <2>1. \/ s[x] > s[y]
        \/ s[x] = s[y] /\ x.fp < y.fp
        \/ s[x] = s[y] /\ x.fp = y.fp /\ x.id < y.id
    BY <1>4, <1>6
  <2>2. \/ s[y] > s[z]
        \/ s[y] = s[z] /\ y.fp < z.fp
        \/ s[y] = s[z] /\ y.fp = z.fp /\ y.id < z.id
    BY <1>4, <1>6
  <2>3. \/ s[x] > s[z]
        \/ s[x] = s[z] /\ x.fp < z.fp
        \/ s[x] = s[z] /\ x.fp = z.fp /\ x.id < z.id
    BY <1>3, <2>1, <2>2
  <2> QED BY <1>4, <2>3
<1>7. ASSUME NEW x \in M, NEW y \in M, x # y PROVE <<x, y>> \in R \/ <<y, x>> \in R
  <2>1. x.id # y.id
    BY <1>7 DEF Shelved
  <2> QED BY <1>3, <1>4, <2>1
<1> QED BY <1>1, <1>5, <1>6, <1>7 DEF StrictOrder

-----------------------------------------------------------------------------
(* Retrieval: the page. *)

Ranked(M, terms, query) ==
    [n \in 1..Cardinality(M) |->
        HitOf(CHOOSE x \in M : PlacesIn(Ahead(M, terms, query), M)[x] = n - 1, M, terms, query)]

PoolOf(pool, M) ==
    /\ pool \in [1..Cardinality(M) -> M]
    /\ \A i, j \in 1..Cardinality(M) : pool[i] = pool[j] => i = j
    /\ \A x \in M : \E i \in 1..Cardinality(M) : pool[i] = x

\* The hits of a ranking: every learning has a place, and a better one an earlier place.
LEMMA RankedHits ==
  ASSUME NEW M, Shelved(M), date \in Nat, NEW terms, NEW query,
         NEW f, f = PlacesIn(Ahead(M, terms, query), M), NEW N, N = Cardinality(M),
         NEW r, r = Ranked(M, terms, query)
  PROVE  /\ N \in Nat /\ r = [n \in 1..N |-> r[n]]
         /\ TakesAll(f, Ahead(M, terms, query), M)
         /\ \A n \in 1..N : /\ r[n].learning \in M /\ f[r[n].learning] = n - 1
                            /\ r[n] = HitOf(r[n].learning, M, terms, query)
<1>1. PICK R : R = Ahead(M, terms, query)
  OBVIOUS
<1>2. StrictOrder(R, M) /\ IsFiniteSet(M) /\ N \in Nat
  BY <1>1, AheadOrders, FS_CardinalityType DEF Shelved
<1>3. TakesAll(f, R, M)
  BY <1>1, <1>2, PlacesTaken
<1>4. r = [n \in 1..N |-> HitOf(CHOOSE x \in M : f[x] = n - 1, M, terms, query)]
  BY DEF Ranked
<1>5. ASSUME NEW n \in 1..N
      PROVE  /\ r[n].learning \in M /\ f[r[n].learning] = n - 1
             /\ r[n] = HitOf(r[n].learning, M, terms, query)
  <2>1. PICK x : x = CHOOSE y \in M : f[y] = n - 1
    OBVIOUS
  <2>2. \E y \in M : f[y] = n - 1
    <3>1. n - 1 \in 0..(Cardinality(M) - 1)
      BY <1>2
    <3> QED BY <1>3, <3>1 DEF TakesAll
  <2>3. x \in M /\ f[x] = n - 1
    BY <2>1, <2>2
  <2>4. r[n] = HitOf(x, M, terms, query)
    BY <1>4, <2>1
  <2>5. r[n].learning = x
    BY <2>4 DEF HitOf
  <2> QED BY <2>3, <2>4, <2>5
<1>6. r = [n \in 1..N |-> r[n]]
  BY <1>4
<1> QED BY <1>1, <1>2, <1>3, <1>5, <1>6

\* Whatever the order of a pool, its hits are sorted to one ranking.
LEMMA OrderedRanked ==
  ASSUME NEW M, Shelved(M), date \in Nat, NEW terms, NEW query, NEW pool, PoolOf(pool, M)
  PROVE  Ordered(Scored(pool, terms, query)) = Ranked(M, terms, query)
<1>1. PICK N : N = Cardinality(M)
  OBVIOUS
<1>2. IsFiniteSet(M) /\ N \in Nat
  BY <1>1, FS_CardinalityType DEF Shelved
<1>3. PICK D : D = 1..N
  OBVIOUS
<1>4. /\ pool \in [D -> M] /\ \A i, j \in D : pool[i] = pool[j] => i = j
      /\ \A x \in M : \E i \in D : pool[i] = x
  BY <1>1, <1>3 DEF PoolOf
<1>5. ToSet(pool) = M
  BY <1>4 DEF ToSet
<1>6. PICK S : S = Scored(pool, terms, query)
  OBVIOUS
<1>7. S = [i \in D |-> HitOf(pool[i], M, terms, query)]
  <2>1. \A l : Score(l, pool, terms, query) = ScoreIn(l, M, terms, query)
    BY <1>5 DEF Score, ScoreIn, BestIn
  <2>2. DOMAIN pool = D
    BY <1>4
  <2> QED BY <1>6, <2>1, <2>2 DEF Scored, HitOf
<1>8. PICK R, f : R = Ahead(M, terms, query) /\ f = PlacesIn(R, M)
  OBVIOUS
<1>9. StrictOrder(R, M)
  BY <1>8, AheadOrders
<1>10. TakesAll(f, R, M)
  BY <1>2, <1>8, <1>9, PlacesTaken
<1>11. \A i, j \in D : Precedes(S[j], S[i]) <=> <<pool[j], pool[i]>> \in R
  BY <1>4, <1>7, <1>8 DEF Ahead
<1>12. ASSUME NEW i \in D PROVE Place(S, i) = f[pool[i]] + 1
  <2>1. PICK J : J = {j \in D : Precedes(S[j], S[i]) \/ (j < i /\ ~Precedes(S[i], S[j]))}
    OBVIOUS
  <2>2. J = {j \in D : <<pool[j], pool[i]>> \in R}
    <3>1. ASSUME NEW j \in D, j < i, <<pool[i], pool[j]>> \notin R PROVE <<pool[j], pool[i]>> \in R
      <4>1. pool[j] # pool[i]
        BY <1>3, <1>4, <3>1
      <4> QED BY <1>4, <1>9, <3>1, <4>1 DEF StrictOrder
    <3> QED BY <1>11, <2>1, <3>1
  <2>3. PICK K : K = {y \in M : <<y, pool[i]>> \in R}
    OBVIOUS
  <2>4. f[pool[i]] = Cardinality(K)
    BY <1>4, <1>8, <2>3 DEF PlacesIn
  <2>5. PICK g : g = [j \in J |-> pool[j]]
    OBVIOUS
  <2>6. g \in Surjection(J, K)
    BY <1>4, <2>2, <2>3, <2>5 DEF Surjection
  <2>7. g \in Injection(J, K)
    BY <1>4, <2>2, <2>3, <2>5 DEF Injection, IsInjective
  <2>8. IsFiniteSet(J)
    <3>1. IsFiniteSet(D) /\ J \in SUBSET D
      BY <1>2, <1>3, <2>2, FS_Interval
    <3> QED BY <3>1, FS_Subset
  <2>9. Cardinality(K) = Cardinality(J)
    BY <2>6, <2>7, <2>8, FS_Surjection
  <2>10. DOMAIN S = D
    BY <1>7
  <2> QED BY <2>1, <2>4, <2>9, <2>10 DEF Place
<1>13. PICK r : r = Ranked(M, terms, query)
  OBVIOUS
<1>14. /\ r = [n \in D |-> r[n]]
       /\ \A n \in D : /\ r[n].learning \in M /\ f[r[n].learning] = n - 1
                       /\ r[n] = HitOf(r[n].learning, M, terms, query)
  BY <1>1, <1>3, <1>8, <1>13, RankedHits
<1>15. ASSUME NEW n \in D PROVE S[CHOOSE i \in D : Place(S, i) = n] = r[n]
  <2>1. PICK j \in D : pool[j] = r[n].learning
    BY <1>4, <1>14
  <2>2. Place(S, j) = n
    BY <1>3, <1>12, <1>14, <2>1
  <2>3. PICK i \in D : i = (CHOOSE k \in D : Place(S, k) = n) /\ Place(S, i) = n
    BY <2>2
  <2>4. f[pool[i]] + 1 = n /\ f[pool[i]] \in Nat
    BY <1>4, <1>10, <1>12, <2>3 DEF TakesAll
  <2>5. f[pool[i]] = f[r[n].learning]
    BY <1>14, <2>4
  <2>6. pool[i] = r[n].learning
    BY <1>4, <1>10, <1>14, <2>5 DEF TakesAll
  <2>7. S[i] = r[n]
    BY <1>7, <1>14, <2>6
  <2> QED BY <2>3, <2>7
<1>16. Ordered(S) = [n \in D |-> S[CHOOSE i \in D : Place(S, i) = n]]
  <2>1. DOMAIN S = D
    BY <1>7
  <2> QED BY <2>1 DEF Ordered
<1>17. Ordered(S) = [n \in D |-> r[n]]
  BY <1>15, <1>16
<1> QED BY <1>6, <1>13, <1>14, <1>17

\* A pool holds some of what matches, each once, and all of it below the limit.
LEMMA PoolShape ==
  ASSUME NEW terms, NEW M, M = Matches(terms), Shelved(M), NEW limit \in Nat,
         NEW pool \in Pools(terms, limit)
  PROVE  \E T \in SUBSET M : /\ Shelved(T) /\ PoolOf(pool, T) /\ Len(pool) = Cardinality(T)
                             /\ Cardinality(M) <= limit => T = M
<1>1. PICK p \in Candidates(terms, limit) :
          pool = SubSeq(p, 1, IF Len(p) < limit THEN Len(p) ELSE limit)
  BY DEF Pools
<1>2. PICK N : N = Cardinality(M)
  OBVIOUS
<1>3. IsFiniteSet(M) /\ N \in Nat
  BY <1>2, FS_CardinalityType DEF Shelved
<1>4. p \in [1..N -> M] /\ \A i, j \in 1..N : i # j => p[i] # p[j]
  BY <1>1, <1>2 DEF Candidates, SetToSeqs
<1>5. Len(p) = N /\ p \in Seq(M)
  BY <1>3, <1>4
<1>6. PICK m : m = IF N < limit THEN N ELSE limit
  OBVIOUS
<1>7. m \in Nat /\ m <= N
  BY <1>3, <1>6
<1>8. pool \in Seq(M) /\ Len(pool) = m /\ \A i \in 1..m : pool[i] = p[i]
  <2>1. \A i \in 1..m : p[i] \in M
    BY <1>3, <1>4, <1>7
  <2>2. pool = SubSeq(p, 1, m)
    BY <1>1, <1>5, <1>6
  <2>3. /\ SubSeq(p, 1, m) \in Seq(M)
        /\ Len(SubSeq(p, 1, m)) = IF 1 <= m THEN m - 1 + 1 ELSE 0
        /\ \A i \in 1..(m - 1 + 1) : SubSeq(p, 1, m)[i] = p[1 + i - 1]
    BY <1>7, <2>1, SubSeqProperties
  <2> QED BY <1>7, <2>2, <2>3
<1>9. \A i, j \in 1..m : pool[i] = pool[j] => i = j
  BY <1>3, <1>4, <1>7, <1>8
<1>10. PICK T : T = {pool[i] : i \in 1..m}
  OBVIOUS
<1>11. T \subseteq M /\ pool \in [1..m -> T]
  BY <1>7, <1>8, <1>10
<1>12. Cardinality(T) = m
  <2>1. pool \in Surjection(1..m, T)
    BY <1>10, <1>11 DEF Surjection
  <2>2. pool \in Injection(1..m, T)
    BY <1>9, <1>11 DEF Injection, IsInjective
  <2>3. IsFiniteSet(1..m) /\ Cardinality(1..m) = m
    BY <1>7, FS_Interval
  <2> QED BY <2>1, <2>2, <2>3, FS_Surjection
<1>13. Shelved(T)
  BY <1>3, <1>11, FS_Subset DEF Shelved
<1>14. PoolOf(pool, T)
  BY <1>9, <1>10, <1>11, <1>12 DEF PoolOf
<1>15. Cardinality(M) <= limit => T = M
  <2>1. SUFFICES ASSUME N <= limit PROVE T = M
    BY <1>2
  <2>2. m = N
    BY <1>3, <1>6, <2>1
  <2> QED BY <1>2, <1>3, <1>11, <1>12, <2>2, FS_Subset
<1> QED BY <1>8, <1>11, <1>12, <1>13, <1>14, <1>15

\* Any sequence of a set holds all of it.
LEMMA SequenceOfSet ==
  ASSUME NEW M, IsFiniteSet(M)
  PROVE  ToSet(SetToSeq(M)) = M
<1>1. PICK n \in Nat : ExistsBijection(1..n, M)
  BY FS_NatBijection
<1>2. Cardinality(M) = n
  BY <1>1, FS_CountingElements
<1>3. \E f \in [1..n -> M] : IsInjective(f)
  BY <1>1 DEF ExistsBijection, Bijection, Injection, IsInjective
<1>4. PICK f : f = SetToSeq(M)
  OBVIOUS
<1>5. f \in [1..n -> M] /\ IsInjective(f)
  BY <1>2, <1>3, <1>4 DEF SetToSeq
<1>6. f \in Injection(1..n, M)
  BY <1>5 DEF Injection, IsInjective
<1>7. Cardinality(1..n) = n
  BY FS_Interval
<1>8. f \in Surjection(1..n, M)
  BY <1>2, <1>6, <1>7, FS_Injection
<1>9. \A x \in M : \E i \in 1..n : f[i] = x
  BY <1>8 DEF Surjection
<1>10. {f[i] : i \in DOMAIN f} = M
  BY <1>5, <1>9
<1> QED BY <1>4, <1>10 DEF ToSet

\* The size of a page is a page size.
LEMMA PageSizes ==
  ASSUME NEW limit \in Int
  PROVE  /\ PageSize(limit) \in Nat \ {0} /\ PageSize(PageSize(limit)) = PageSize(limit)
         /\ PageSize(limit) * overfetchMultiplier \in Nat
<1>1. DefaultLimit \in Nat \ {0} /\ MaxLimit \in Nat \ {0} /\ DefaultLimit <= MaxLimit
  BY RetrievalAssumption
<1>2. PageSize(limit) \in Nat \ {0} /\ PageSize(PageSize(limit)) = PageSize(limit)
  BY <1>1 DEF PageSize
<1>3. overfetchMultiplier \in Nat
  BY RetrievalAssumption
<1>4. \A x, y \in Nat : x * y \in Nat
  OBVIOUS
<1> QED BY <1>2, <1>3, <1>4

\* A page is the beginning of a ranking.
LEMMA PageRanked ==
  ASSUME NEW T, Shelved(T), date \in Nat, NEW terms, NEW query, NEW size \in Nat,
         NEW pool, PoolOf(pool, T), Len(pool) = Cardinality(T),
         NEW r, r = Ranked(T, terms, query), NEW N, N = Cardinality(T),
         NEW k, k = IF N < size THEN N ELSE size,
         NEW page, page = BestOf(pool, terms, query, size)
  PROVE  /\ N \in Nat /\ k \in 0..N
         /\ page = SubSeq(r, 1, k) /\ page = [n \in 1..k |-> r[n]] /\ Len(page) = k
<1>1. Ordered(Scored(pool, terms, query)) = r
  BY OrderedRanked
<1>2. page = SubSeq(r, 1, k)
  BY <1>1 DEF BestOf
<1>3. N \in Nat /\ r = [n \in 1..N |-> r[n]]
  BY RankedHits
<1>4. k \in 0..N
  BY <1>3
<1>5. PICK S : S = {r[n] : n \in 1..N}
  OBVIOUS
<1>6. r \in Seq(S) /\ Len(r) = N
  BY <1>3, <1>5
<1>7. \A i \in 1..k : r[i] \in S
  BY <1>3, <1>4, <1>5
<1>8. /\ SubSeq(r, 1, k) \in Seq(S)
      /\ Len(SubSeq(r, 1, k)) = IF 1 <= k THEN k - 1 + 1 ELSE 0
      /\ \A i \in 1..(k - 1 + 1) : SubSeq(r, 1, k)[i] = r[1 + i - 1]
  BY <1>4, <1>7, SubSeqProperties
<1>9. page \in Seq(S) /\ Len(page) = k /\ \A i \in 1..k : page[i] = r[i]
  <2>1. k \in Nat /\ k - 1 + 1 = k /\ (~(1 <= k) => k = 0)
    BY <1>3, <1>4
  <2>2. \A i \in 1..k : 1 + i - 1 = i
    BY <2>1
  <2> QED BY <1>2, <1>8, <2>1, <2>2
<1>10. page = [n \in 1..k |-> r[n]]
  BY <1>9
<1> QED BY <1>2, <1>3, <1>4, <1>9, <1>10

\* What SearchRepeats says of a page and the database it was asked of.
PageSound(page, query, size) ==
    LET terms == Sanitize(query)
        found == {h.learning : h \in ToSet(page)}
    IN /\ found \subseteq Matches(terms)
       /\ Cardinality(found) = Len(page)
       /\ Cardinality(Matches(terms)) <= size * overfetchMultiplier =>
             /\ Cardinality(Search(query, size)) = 1
             /\ Len(page) = Min({size, Cardinality(Matches(terms))})
             /\ \A i \in DOMAIN page, l \in Matches(terms) \ found :
                   Score(l, SetToSeq(Matches(terms)), terms, query) <= page[i].score

\* When the pool holds all that matches there is one page.
LEMMA OnePage ==
  ASSUME Shelved(library), date \in Nat, NEW query, NEW size \in Nat \ {0}, PageSize(size) = size,
         size * overfetchMultiplier \in Nat, NEW terms, terms = Sanitize(query),
         NEW M, M = Matches(terms), Cardinality(M) <= size * overfetchMultiplier,
         NEW page, page \in Search(query, size)
  PROVE  Search(query, size) = {page}
<1>1. Shelved(M)
  <2>1. M \subseteq library
    BY DEF Matches
  <2> QED BY <2>1, FS_Subset DEF Shelved
<1>2. PICK r, N, k : /\ r = Ranked(M, terms, query) /\ N = Cardinality(M)
                     /\ k = IF N < size THEN N ELSE size
  OBVIOUS
<1>3. PICK L \in Nat : L = size * overfetchMultiplier
  OBVIOUS
<1>4. ASSUME NEW x \in Search(query, size) PROVE x = SubSeq(r, 1, k)
  <2>1. PICK pool \in Pools(terms, L) : x = BestOf(pool, terms, query, size)
    BY <1>3 DEF Search
  <2>2. PoolOf(pool, M) /\ Len(pool) = Cardinality(M)
    BY <1>1, <1>3, <2>1, PoolShape
  <2>3. size \in Nat
    OBVIOUS
  <2> HIDE DEF PoolOf, Shelved
  <2> QED BY <1>1, <1>2, <2>1, <2>2, <2>3, PageRanked
<1> QED BY <1>4

LearningsOf(page) == {h.learning : h \in ToSet(page)}
FirstOf(r, k) == [n \in 1..k |-> r[n]]

\* What is found and how much of it.
LEMMA FoundOnce ==
  ASSUME NEW T, Shelved(T), date \in Nat, NEW terms, NEW query,
         NEW r, r = Ranked(T, terms, query), NEW k \in 0..Cardinality(T),
         NEW page, page = FirstOf(r, k), NEW found, found = LearningsOf(page)
  PROVE  /\ found \subseteq T /\ Cardinality(found) = k
         /\ \A n \in 1..k : r[n].learning \in found
<1>1. PICK f, N : f = PlacesIn(Ahead(T, terms, query), T) /\ N = Cardinality(T)
  OBVIOUS
<1>2. /\ N \in Nat
      /\ \A n \in 1..N : r[n].learning \in T /\ f[r[n].learning] = n - 1
  BY <1>1, RankedHits
<1>3. found = {r[n].learning : n \in 1..k}
  BY DEF ToSet, LearningsOf, FirstOf
<1>4. k \in Nat /\ \A n \in 1..k : n \in 1..N
  BY <1>1, <1>2
<1>5. PICK g : g = [n \in 1..k |-> r[n].learning]
  OBVIOUS
<1>6. g \in Surjection(1..k, found)
  BY <1>3, <1>5 DEF Surjection
<1>7. ASSUME NEW n \in 1..k, NEW m \in 1..k, g[n] = g[m] PROVE n = m
  <2>1. n - 1 = m - 1
    BY <1>2, <1>4, <1>5, <1>7
  <2> QED BY <1>4, <2>1
<1>8. g \in Injection(1..k, found)
  BY <1>6, <1>7 DEF Injection, IsInjective, Surjection
<1>9. IsFiniteSet(1..k) /\ Cardinality(1..k) = k
  BY <1>4, FS_Interval
<1>10. Cardinality(found) = k
  BY <1>6, <1>8, <1>9, FS_Surjection
<1> QED BY <1>2, <1>3, <1>4, <1>10

\* Whatever page the service answers with.
LEMMA SearchSound ==
  ASSUME Shelved(library), date \in Nat, NEW query, NEW limit \in Int, NEW page \in Search(query, limit)
  PROVE  PageSound(page, query, PageSize(limit))
<1>1. PICK size, terms, M : size = PageSize(limit) /\ terms = Sanitize(query) /\ M = Matches(terms)
  OBVIOUS
<1>2. size \in Nat \ {0} /\ PageSize(size) = size
  BY <1>1, PageSizes
<1>3. PICK L \in Nat : L = size * overfetchMultiplier
  BY <1>1, PageSizes
<1>4. Shelved(M)
  <2>1. M \subseteq library
    BY <1>1 DEF Matches
  <2> QED BY <2>1, FS_Subset DEF Shelved
<1>5. PICK pool \in Pools(terms, L) : page = BestOf(pool, terms, query, size)
  BY <1>1, <1>3 DEF Search
<1>6. PICK T \in SUBSET M : /\ Shelved(T) /\ PoolOf(pool, T) /\ Len(pool) = Cardinality(T)
                            /\ Cardinality(M) <= L => T = M
  BY <1>1, <1>4, PoolShape
<1>7. PICK r, N, k : /\ r = Ranked(T, terms, query) /\ N = Cardinality(T)
                     /\ k = IF N < size THEN N ELSE size
  OBVIOUS
<1>8. N \in Nat /\ k \in 0..N /\ page = [n \in 1..k |-> r[n]] /\ Len(page) = k
  <2>1. size \in Nat /\ Shelved(T) /\ PoolOf(pool, T) /\ Len(pool) = Cardinality(T)
    BY <1>2, <1>6
  <2> QED BY <1>5, <1>7, <2>1, PageRanked
<1>9. PICK found : found = {h.learning : h \in ToSet(page)}
  OBVIOUS
<1>10. found \subseteq T /\ Cardinality(found) = k /\ \A n \in 1..k : r[n].learning \in found
  <2>1. Shelved(T) /\ k \in 0..Cardinality(T)
    BY <1>6, <1>7, <1>8
  <2>2. page = FirstOf(r, k) /\ found = LearningsOf(page)
    BY <1>8, <1>9 DEF FirstOf, LearningsOf
  <2>3. r = Ranked(T, terms, query) /\ date \in Nat
    BY <1>7
  <2> QED BY <2>1, <2>2, <2>3, FoundOnce
<1>11. ASSUME Cardinality(M) <= L
       PROVE  /\ Cardinality(Search(query, size)) = 1
              /\ Len(page) = Min({size, Cardinality(M)})
              /\ \A i \in DOMAIN page, l \in M \ found :
                    Score(l, SetToSeq(M), terms, query) <= page[i].score
  <2>1. T = M
    BY <1>6, <1>11
  <2>2. Cardinality(Search(query, size)) = 1
    <3>1. page \in Search(query, size)
      BY <1>1, <1>2 DEF Search
    <3>2. Search(query, size) = {page}
      BY <1>1, <1>2, <1>3, <1>11, <3>1, OnePage
    <3> QED BY <3>2, FS_Singleton
  <2>3. Len(page) = Min({size, Cardinality(M)})
    <3>1. PICK A : A = {size, N}
      OBVIOUS
    <3>2. k \in A /\ \A y \in A : k <= y
      BY <1>2, <1>7, <1>8, <3>1
    <3>3. \A x \in A : (\A y \in A : x <= y) => x = k
      BY <1>2, <1>8, <3>1, <3>2
    <3>4. Min(A) = k
      BY <3>2, <3>3 DEF Min
    <3> QED BY <1>7, <1>8, <2>1, <3>1, <3>4
  <2>4. ASSUME NEW i \in DOMAIN page, NEW l \in M \ found
        PROVE  Score(l, SetToSeq(M), terms, query) <= page[i].score
    <3>1. PICK R, f : R = Ahead(M, terms, query) /\ f = PlacesIn(R, M)
      OBVIOUS
    <3>2. /\ TakesAll(f, R, M)
          /\ \A n \in 1..N : /\ r[n].learning \in M /\ f[r[n].learning] = n - 1
                             /\ r[n] = HitOf(r[n].learning, M, terms, query)
      BY <1>4, <1>7, <2>1, <3>1, RankedHits
    <3>3. i \in 1..k /\ i \in 1..N /\ page[i] = r[i]
      BY <1>8
    <3>4. PICK x : x = r[i].learning
      OBVIOUS
    <3>5. x \in M /\ f[x] = i - 1 /\ page[i] = HitOf(x, M, terms, query)
      BY <3>2, <3>3, <3>4
    <3>6. f[l] \in 0..(N - 1)
      BY <1>7, <2>1, <3>2 DEF TakesAll
    <3>7. f[l] >= k
      <4>1. SUFFICES ASSUME f[l] < k PROVE FALSE
        BY <1>8, <3>6
      <4>2. PICK n \in 1..k : n = f[l] + 1
        BY <1>8, <3>6, <4>1
      <4>3. r[n].learning \in M /\ f[r[n].learning] = f[l]
        BY <1>8, <3>2, <3>6, <4>2
      <4>4. r[n].learning = l
        BY <3>2, <4>3 DEF TakesAll
      <4> QED BY <1>10, <4>4
    <3>8. f[x] < f[l]
      BY <1>8, <3>3, <3>5, <3>6, <3>7
    <3>9. <<x, l>> \in R
      BY <3>2, <3>5, <3>8 DEF TakesAll
    <3>10. Precedes(HitOf(x, M, terms, query), HitOf(l, M, terms, query))
      BY <3>1, <3>5, <3>9 DEF Ahead
    <3>11. ScoreIn(x, M, terms, query) \in Int /\ ScoreIn(l, M, terms, query) \in Int
      BY <1>4, <3>5, ScoreNumber
    <3>12. ScoreIn(l, M, terms, query) <= ScoreIn(x, M, terms, query)
      BY <3>10, <3>11 DEF Precedes, HitOf
    <3>13. ToSet(SetToSeq(M)) = M
      BY <1>4, SequenceOfSet DEF Shelved
    <3>14. Score(l, SetToSeq(M), terms, query) = ScoreIn(l, M, terms, query)
      BY <3>13 DEF Score, ScoreIn, BestIn
    <3> QED BY <3>5, <3>12, <3>14 DEF HitOf
  <2> QED BY <2>2, <2>3, <2>4
<1>12. found \subseteq M /\ Cardinality(found) = Len(page)
  BY <1>8, <1>10
<1> QED BY <1>1, <1>3, <1>9, <1>11, <1>12 DEF PageSound

-----------------------------------------------------------------------------
(* Retrieval: the invariant of its steps. An answer stands until what it was *)
(* made of changes.                                                          *)

RetInv ==
    /\ Shelved(library) /\ date \in Nat
    /\ reply.to = "server" /\ ~reply.refused => PageSound(reply.hits, reply.query, reply.size)

\* It gives what is promised of a search.
LEMMA RetInvSound == RetInv => SearchRepeats
BY DEF RetInv, SearchRepeats, PageSound

\* Retrieval begins so.
LEMMA RetInitInv == RetrievalInit => RetInv
BY FS_EmptySet DEF RetrievalInit, RetInv, Unasked, Shelved

\* It depends on nothing but the learnings and the clock.
LEMMA SamePages ==
  ASSUME UNCHANGED <<library, date>>
  PROVE  \A page, query, size : PageSound(page, query, size) => PageSound(page, query, size)'
<1>1. \A terms : Matches(terms)' = Matches(terms)
  BY DEF Matches
<1>2. \A l, pool, terms, query : Score(l, pool, terms, query)' = Score(l, pool, terms, query)
  BY DEF Score, Recency
<1>3. \A pool, terms, query : Scored(pool, terms, query)' = Scored(pool, terms, query)
  BY <1>2 DEF Scored
<1>4. \A pool, terms, query, size : BestOf(pool, terms, query, size)' = BestOf(pool, terms, query, size)
  BY <1>3 DEF BestOf
<1>5. \A terms, limit : Pools(terms, limit)' = Pools(terms, limit)
  BY <1>1 DEF Pools, Candidates
<1>6. \A query, limit : Search(query, limit)' = Search(query, limit)
  BY <1>4, <1>5 DEF Search
<1> QED BY <1>1, <1>2, <1>6 DEF PageSound

\* Every step of retrieval keeps it.
LEMMA RetStep ==
  ASSUME RetInv, [RetrievalNext]_retVars
  PROVE  RetInv'
<1>1. ASSUME NEW l \in Shelf, Capture(l) PROVE RetInv'
  <2>1. PICK new : new = [l EXCEPT !.born = date]
    OBVIOUS
  <2>2. /\ library' = library \cup {new} /\ reply' = Unasked /\ date' = date
        /\ \A x \in library : x.id # l.id
    BY <1>1, <2>1 DEF Capture
  <2>3. new \in Books /\ new.id = l.id
    BY <2>1, RetrievalAssumption DEF Books, RetInv
  <2>4. Shelved(library')
    BY <2>2, <2>3, FS_AddElement DEF RetInv, Shelved
  <2> QED BY <2>2, <2>4 DEF RetInv, Shelved, Unasked
<1>2. CASE DaysPass
  BY <1>2 DEF DaysPass, RetInv, Shelved, Unasked
<1>3. ASSUME UNCHANGED <<library, date>>, Shelved(library), date \in Nat,
             reply'.to = "server" => reply'.refused
      PROVE  RetInv'
  BY <1>3 DEF RetInv, Shelved
<1>4. ASSUME NEW query, NEW to, TurnAway(to, query) PROVE RetInv'
  BY <1>3, <1>4 DEF TurnAway, RetInv
<1>5. ASSUME NEW query, NEW limit \in Limits, AskServer(query, limit) PROVE RetInv'
  <2>1. PICK page \in Search(query, limit) :
            reply' = [to |-> "server", refused |-> FALSE, query |-> query, size |-> PageSize(limit), hits |-> page]
    BY <1>5 DEF AskServer
  <2>2. library' = library /\ date' = date
    BY <1>5 DEF AskServer
  <2>3. limit \in Int
    BY RetrievalAssumption
  <2>4. PageSound(page, query, PageSize(limit))
    BY <2>1, <2>3, SearchSound DEF RetInv
  <2>5. PageSound(page, query, PageSize(limit))'
    BY <2>2, <2>4, SamePages
  <2>6. /\ reply'.hits = page /\ reply'.query = query /\ reply'.size = PageSize(limit)
    BY <2>1
  <2> QED BY <2>2, <2>5, <2>6 DEF RetInv, Shelved, PageSound
<1>6. ASSUME NEW query, NEW limit, NEW statuses, NEW remote, AskCommand(query, limit, statuses, remote)
      PROVE  RetInv'
  BY <1>3, <1>6 DEF AskCommand, RetInv
<1>7. CASE UNCHANGED retVars
  <2>1. UNCHANGED <<library, date>> /\ reply' = reply
    BY <1>7 DEF retVars
  <2>2. PICK p, q, n : p = reply.hits /\ q = reply.query /\ n = reply.size
    OBVIOUS
  <2>3. PageSound(p, q, n) => PageSound(p, q, n)'
    BY <2>1, SamePages
  <2> QED BY <2>1, <2>2, <2>3 DEF RetInv, Shelved, PageSound
<1> QED BY <1>1, <1>2, <1>4, <1>5, <1>6, <1>7 DEF RetrievalNext

-----------------------------------------------------------------------------
(* The stages together: a behaviour is one of a single stage, the others stay *)
(* as they began.                                                             *)

\* Mining, or nothing of it.
MiningInv == IF part = "mining" THEN MinInv ELSE Unmined
\* Scans, or none of them.
ScanningInv == IF part = "scan" THEN ScanInv ELSE Unscanned
StagesInv ==
    /\ ScanningInv
    /\ MiningInv /\ DetInv /\ RecInv /\ RelInv /\ RetInv

\* Every stage begins as it does alone.
LEMMA StagesBegin == StagesInit => StagesInv /\ ApprInit /\ DriftInit
  BY ScanInitInv, MinInitInv, DetInitInv, RecInitInv, RelInvInit, RetInitInv
     DEF StagesInit, StagesInv, MiningInv, ScanningInv

\* And every step is a step of each stage, or leaves it as it is.
LEMMA StagesParts ==
    [StagesNext]_stagesVars =>
        /\ part' = part
        /\ [ApprNext]_apprVars /\ [DriftNext]_driftVars
        /\ IF part = "scan" THEN [ScanNext]_scanVars ELSE UNCHANGED scanVars
        /\ IF part = "mining" THEN [MinNext]_minVars ELSE UNCHANGED minVars
        /\ [DetNext]_detVars /\ [RecurrenceNext]_recVars
        /\ [RelationsNext]_relVars /\ [RetrievalNext]_retVars
  BY DEF StagesNext, stagesVars, GateNext, gateVars

\* So that each keeps its invariant.
LEMMA StagesStep == StagesInv /\ [StagesNext]_stagesVars => StagesInv'
<1>1. SUFFICES ASSUME StagesInv, [StagesNext]_stagesVars PROVE StagesInv'
  OBVIOUS
<1>2. part' = part
  BY <1>1, StagesParts
<1>3. ScanningInv'
  <2>1. CASE part = "scan"
    BY <1>1, <1>2, <2>1, StagesParts, ScanStep DEF StagesInv, ScanningInv
  <2>2. CASE part # "scan"
    <3>1. Unscanned /\ UNCHANGED scanVars
      BY <1>1, <2>2, StagesParts DEF StagesInv, ScanningInv
    <3>2. Unscanned'
      BY <3>1 DEF Unscanned, scanVars
    <3> QED BY <1>2, <2>2, <3>2 DEF ScanningInv
  <2> QED BY <2>1, <2>2
<1>4. CASE part = "mining"
  <2>1. MinInv'
    BY <1>1, <1>4, StagesParts, MinStep DEF StagesInv, MiningInv
  <2> QED
    BY <1>1, <1>2, <1>3, <1>4, <2>1, StagesParts, DetStep, RecStep, RelInvStep, RetStep
       DEF StagesInv, MiningInv
<1>5. CASE part # "mining"
  <2>1. Unmined'
    BY <1>1, <1>5, StagesParts DEF StagesInv, MiningInv, Unmined, minVars
  <2> QED
    BY <1>1, <1>2, <1>3, <1>5, <2>1, StagesParts, DetStep, RecStep, RelInvStep, RetStep
       DEF StagesInv, MiningInv
<1> QED BY <1>4, <1>5

\* Where nothing was mined, there is no evidence to be lost.
LEMMA UnminedSound == Unmined => EvidenceSound
<1>1. SUFFICES ASSUME Unmined PROVE EvidenceSound
  OBVIOUS
<1>2. events = {} /\ mined = {} /\ saved = <<>> /\ IsFiniteSet({})
  BY <1>1, FS_EmptySet DEF Unmined
<1>3. GroupSound
  BY <1>2, GroupIsSound
<1>4. NoneLost
  BY <1>2, GroupOfNone DEF NoneLost
<1>5. DOMAIN saved = {}
  BY <1>2
<1>6. QualifiedJustified
  BY <1>5 DEF QualifiedJustified
<1> QED BY <1>3, <1>4, <1>6 DEF EvidenceSound

\* Where nothing was scanned, nothing is claimed of it.
LEMMA UnscannedSound == Unscanned => ShownIsStored /\ TraceTellsTruth /\ HashNotYounger /\ ~ \E s \in Scanners : Settled(s)
<1>1. SUFFICES ASSUME Unscanned
               PROVE  ShownIsStored /\ TraceTellsTruth /\ HashNotYounger /\ ~ \E s \in Scanners : Settled(s)
  OBVIOUS
<1>2. DOMAIN sessions = {} /\ \A s \in Scanners : scanner[s].phase = "idle"
  BY <1>1 DEF Unscanned, NoCommand
<1>3. ~ \E s \in Scanners : Settled(s)
  BY <1>2 DEF Settled
<1> QED BY <1>2, <1>3 DEF ShownIsStored, TraceTellsTruth, HashNotYounger

\* What a scan stores, in every behaviour of the stages.
LEMMA ScanningSound ==
    StagesInv => ShownIsStored /\ TraceTellsTruth /\ HashNotYounger /\ FinishedIsShown
  BY ShownInv, TraceInv, FinishedInv, UnscannedSound DEF StagesInv, ScanningInv, FinishedIsShown

LEMMA ScanningQuiet ==
    StagesInv /\ [StagesNext]_stagesVars =>
        [(\E s \in Scanners : Settled(s)) /\ Again => UNCHANGED <<turns, sessions>>]_scanVars
<1>1. SUFFICES ASSUME StagesInv, [StagesNext]_stagesVars, \E s \in Scanners : Settled(s), Again
               PROVE  UNCHANGED <<turns, sessions>>
  OBVIOUS
<1>2. part = "scan"
  BY <1>1, UnscannedSound DEF StagesInv, ScanningInv
<1> QED BY <1>1, <1>2, StagesParts, QuietScan DEF StagesInv, ScanningInv

\* What the invariant gives of every stage.
LEMMA StagesInvSound ==
    StagesInv => /\ DerivedSound
                 /\ part = "scan" => ScanTypeOK
                 /\ part = "mining" => MinTypeOK
<1>1. SUFFICES ASSUME StagesInv
               PROVE  /\ DerivedSound
                      /\ part = "scan" => ScanTypeOK
                      /\ part = "mining" => MinTypeOK
  OBVIOUS
<1>2. EvidenceSound
  BY <1>1, MinInvSound, UnminedSound DEF StagesInv, MiningInv
<1>3. RetryTrue /\ RetriesCountOnce /\ ShownTogetherAgrees /\ RelatedOnce /\ SearchRepeats
  BY <1>1, RecInvSound, RelInvSound, RetInvSound DEF StagesInv, DetInv
<1>4. part = "mining" => MinTypeOK
  BY <1>1, MinInvSound DEF StagesInv, MiningInv
<1>5. part = "scan" => ScanTypeOK
  BY <1>1 DEF StagesInv, ScanningInv, ScanInv
<1> QED BY <1>2, <1>3, <1>4, <1>5 DEF DerivedSound

-----------------------------------------------------------------------------
(* The theorems                                                             *)

\* Events are clustered into disjoint patterns of one kind and of bounded size; a
\* pattern up for review has the evidence; none is lost by a mining that ends
\* (experience/mining/cluster.go, service.go). For any events.
THEOREM EvidenceSoundCorrect == MinSpec => []EvidenceSound
<1>1. MinInv => EvidenceSound
  BY MinInvSound
<1>2. MinInv /\ [MinNext]_minVars => MinInv'
  BY MinStep
<1> QED BY <1>1, <1>2, MinInitInv, PTL DEF MinSpec

\* Learnings are related once by a kind, one caller is told so, and every row
\* has its audit event or an owner that failed (curate/relation.go:31).
THEOREM RelatedOnceCorrect == RelationsSpec => []RelatedOnce
<1> QED BY RelInvSound, RelInvInit, RelInvStep, PTL DEF RelationsSpec

\* What is derived from events and learnings is true of them, in every behaviour
\* of the stages: of the evidence of patterns, of retries, of metrics, of
\* relations and of the order of a search.
THEOREM DerivedSoundCorrect == StagesSpec => []DerivedSound
<1>1. StagesInv => DerivedSound
  BY StagesInvSound
<1>2. StagesInit => StagesInv
  BY StagesBegin
<1> QED BY <1>1, <1>2, StagesStep, PTL DEF StagesSpec

\* A command that ends over sources nobody wrote to has stored all that the healthy
\* ones show and says whether it passed one over; a trace into a log tells a text the
\* turn had, and no locator is younger than its text; and to scan again stores nothing
\* (runExperience*Scan, opencode/scan.go, resolve_trace.go). For any lines, layouts and commands.
THEOREM ScanSoundCorrect == StagesSpec => ScanSound
<1>1. StagesInit => StagesInv
  BY StagesBegin
<1>2. StagesInv => ShownIsStored /\ TraceTellsTruth /\ HashNotYounger
  BY ScanningSound
<1>3. StagesSpec => []StagesInv
  BY <1>1, StagesStep, PTL DEF StagesSpec
<1>4. StagesSpec => QuietRescan
  BY <1>3, ScanningQuiet, PTL DEF StagesSpec, QuietRescan
<1> QED BY <1>2, <1>3, <1>4, PTL DEF ScanSound

\* What a healthy source shows is every finished turn with all of its text
\* (claudecode/scan.go, codex/scan.go, opencode/scan.go): also of Codex, which builds
\* its turns line by line.
THEOREM FinishedIsShownCorrect == StagesSpec => []FinishedIsShown
<1>1. StagesInit => StagesInv
  BY StagesBegin
<1>2. StagesInv => FinishedIsShown
  BY ScanningSound
<1> QED BY <1>1, <1>2, StagesStep, PTL DEF StagesSpec

\* In the same behaviours the gate and the drift job keep what they promise.
THEOREM StagesGateCorrect == StagesSpec => []ApprovalDecides /\ DriftHonest
<1>1. StagesInit => ApprInit /\ DriftInit
  BY StagesBegin
<1>2. [StagesNext]_stagesVars => [ApprNext]_apprVars /\ [DriftNext]_driftVars
  BY StagesParts
<1>3. StagesSpec => /\ ApprInit /\ [][ApprNext]_apprVars
                    /\ DriftInit /\ [][DriftNext]_driftVars
  BY <1>1, <1>2, PTL DEF StagesSpec
<1>4. StagesSpec => []ApprovalDecides
  BY <1>3, ApprovalsCorrect, PTL DEF ApprSpec
<1>5. StagesSpec => DriftHonest
  BY <1>3, DriftHonestCorrect, PTL DEF DriftSpec
<1> QED BY <1>4, <1>5

\* The state of every stage keeps its shape.
THEOREM StagesTypeCorrect == StagesSpec => []StagesTypeOK
<1>1. StagesInit => StagesInv /\ ApprInit /\ DriftInit
  BY StagesBegin
<1>2. [StagesNext]_stagesVars => [ApprNext]_apprVars /\ [DriftNext]_driftVars
  BY StagesParts
<1>3. StagesSpec => /\ ApprInit /\ [][ApprNext]_apprVars
                    /\ DriftInit /\ [][DriftNext]_driftVars
  BY <1>1, <1>2, PTL DEF StagesSpec
<1>4. StagesSpec => []StagesInv
  BY <1>1, StagesStep, PTL DEF StagesSpec
<1>5. StagesSpec => []ApprTypeOK
  BY <1>3, ApprovalsCorrect, PTL DEF ApprSpec
<1>6. StagesSpec => []DriftTypeOK
  BY <1>3, DriftTypeCorrect, PTL DEF DriftSpec
<1>7. StagesInv /\ ApprTypeOK /\ DriftTypeOK => StagesTypeOK
  BY StagesInvSound DEF StagesTypeOK, GateTypeOK
<1> QED BY <1>4, <1>5, <1>6, <1>7, PTL
=============================================================================
