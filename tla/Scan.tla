-------------------------------- MODULE Scan --------------------------------
(***************************************************************************)
(* "experience scan": the command that reads what three agents leave behind *)
(* of their sessions and hands every finished turn to the ingestion         *)
(* (internal/experience/{claudecode,codex,opencode} and                     *)
(* cmd/royo-learn/experience*.go), and the trace from a stored session back *)
(* to its source.                                                          *)
(*                                                                         *)
(* Claude Code and Codex append lines to a file, which a scan reads as a   *)
(* whole; OpenCode writes rows to a database, which a scan reads in several *)
(* queries. The agents go on writing meanwhile, and nothing keeps two scans *)
(* apart. A text is a sequence of opaque pieces; the SHA-256 of a log is    *)
(* its number of writes. For a database that number dates its hash, which   *)
(* itself tells less: it is of the main file, and a write may be in the     *)
(* write-ahead log. Every command scans from the start: no caller passes a  *)
(* cursor, although the adapters return one.                                *)
(***************************************************************************)
EXTENDS Integers, SequencesExt, FiniteSetsExt

CONSTANTS
    Scanners,       \* processes that may run the command
    Files,          \* candidate sources of one project, in the order of their paths
    Lines,          \* Lines[agent]: the lines, or rows, an agent may write
    Layouts,        \* Layouts[agent]: where the candidates may lie
    Histories,      \* Histories[agent]: what the sources may hold at first
    MaxWrites,      \* bound: writes to all the sources together
    MaxCommands     \* bound: commands started

AgentKinds == {"claude_code", "codex", "opencode"}
\* "outside": a link that leads out of the project. "hidden": too deep,
\* or not where the agent keeps its sessions. "foreign": not a store of the agent.
Places == {"inside", "outside", "hidden", "foreign", "gone"}


\* A line of a log, or a row of a database; 0 for an identifier that is not there.
LogLine == [kind : STRING, session : Nat, turn : Nat, text : Seq(STRING), stop : BOOLEAN, long : BOOLEAN]
Message == [kind : {"row"}, session : Nat \ {0}, turn : Nat, text : Seq(STRING), revision : Nat,
            complete : BOOLEAN, at : Nat]
Shape(x) == IF x = "opencode" THEN Message ELSE LogLine
\* Claude Code names each line, and OpenCode each row, once in a source.
Identified(x, d) == \A i, j \in DOMAIN d :
    d[i].turn = d[j].turn => i = j \/ x = "codex" \/ (x = "claude_code" /\ d[i].turn = 0)

ASSUME ScanAssumption ==
    /\ Files \subseteq Nat \ {0} /\ IsFiniteSet(Files)
    /\ MaxWrites \in Nat /\ MaxCommands \in Nat
    /\ \A x \in AgentKinds :
        /\ Layouts[x] \subseteq [Files -> Places]
        /\ \A f \in Files : Lines[x][f] \subseteq Shape(x)
        /\ Histories[x] \subseteq [Files -> Seq(Shape(x))]
        /\ \A h \in Histories[x], f \in Files : Identified(x, h[f])

\* An agent keeps a session in one source.
SessionsOf(x, f) == {l.session : l \in Lines[x][f] \cup UNION {ToSet(h[f]) : h \in Histories[x]}} \ {0}
ASSUME SessionsAssumption ==
    \A x \in AgentKinds, f, g \in Files : f # g => SessionsOf(x, f) \cap SessionsOf(x, g) = {}

VARIABLES
    agent,          \* whose sessions are scanned
    place,          \* where a candidate lies: see Places
    data,           \* the lines, or the rows, of a source
    edition,        \* how often it was written to
    turns,          \* experience_turns, by session and turn: what is stored of a turn
    sessions,       \* experience_sessions: when a session was last active, and its locator
    scanner,        \* the commands at work
    commands        \* commands started so far
scanVars == <<agent, place, data, edition, turns, sessions, scanner, commands>>

Written == FoldSet(LAMBDA f, n : n + edition[f], 0, Files)

-----------------------------------------------------------------------------
(* What a source shows: an envelope is a finished turn, the revision its     *)
(* adapter gives it, when it happened, and the hash of the source it was     *)
(* read from. "said" is no part of it: the texts a later trace of it may     *)
(* tell.                                                                    *)

Envelope(session, turn, text, rev, at, f, hash, said) ==
    [key |-> <<session, turn>>, text |-> text, rev |-> rev, at |-> at,
     locator |-> [file |-> f, turn |-> turn, hash |-> hash, said |-> said]]

\* Claude Code: a line is a turn, finished by its stop_reason or by a later line
\* of the user in its session; a line without its identifiers is skipped. It has
\* no revision: the service seeds one from the content.
ClaudeLines(d) == {i \in DOMAIN d : d[i].kind # "bad" /\ d[i].turn # 0 /\ d[i].session # 0}
ClaudeFinished(d, i) ==
    \/ d[i].stop
    \/ \E j \in ClaudeLines(d) : j > i /\ d[j].session = d[i].session /\ d[j].kind = "user"
ClaudeEnvelope(l, i, f, hash) ==
    Envelope(l.session, l.turn, l.text, <<"seed", l.text>>, i, f, hash, {l.text})
ClaudeScan(d, f, hash) ==
    {ClaudeEnvelope(d[i], i, f, hash) :
        i \in {k \in ClaudeLines(d) : d[k].kind \in {"user", "assistant"} /\ ClaudeFinished(d, k)}}

\* Codex: lines build turns up. A line that names no turn belongs to the one that
\* appeared last, also to the nameless one a task_started without a turn opens.
\* It is complete with the line that says so, at 0 not yet.
FreshTurn == [started |-> FALSE, user |-> <<>>, answer |-> <<>>, at |-> 0]
Anchor(s, l) == IF l.turn # 0 \/ s.order = <<>> THEN l.turn ELSE Last(s.order)
WithTurn(s, t) ==
    IF t \in DOMAIN s.turns THEN s
    ELSE [s EXCEPT !.order = Append(@, t),
                   !.turns = [x \in DOMAIN @ \cup {t} |-> IF x = t THEN FreshTurn ELSE @[x]]]

\* Mutant: a turn_context that comes again keeps what the turn already has.
RestartKeeping(s, t) == WithTurn(s, t)
\* A turn_context starts its turn afresh.
Restart(s, t) == [WithTurn(s, t) EXCEPT !.turns[t] = FreshTurn]
CodexLine(s, l, i) ==
    LET t == Anchor(s, l) IN
    CASE l.kind = "context" /\ l.turn # 0 -> Restart(s, t)
      [] l.kind = "started" -> [WithTurn(s, l.turn) EXCEPT !.turns[l.turn].started = TRUE]
      [] l.kind = "user" /\ t # 0 ->
            [WithTurn(s, t) EXCEPT !.turns[t].user = @ \o l.text, !.turns[t].started = TRUE]
      [] l.kind = "complete" /\ t # 0 /\ t \in DOMAIN s.turns ->
            [s EXCEPT !.turns[t].answer = @ \o l.text, !.turns[t].at = i]
      [] l.kind = "item" /\ t # 0 -> WithTurn(s, t)
      [] OTHER -> s

CodexTurns(d) ==
    LET after[n \in 0..Len(d)] == IF n = 0 THEN [order |-> <<>>, turns |-> <<>>]
                                  ELSE CodexLine(after[n - 1], d[n], n)
    IN after[Len(d)].turns

\* The session is that of the first session_meta which has one.
CodexMetas(d) == {i \in DOMAIN d : d[i].kind = "meta" /\ d[i].session # 0}
\* The texts that lines naming turn t themselves hold.
CodexSaid(d, t) == {d[i].text : i \in {k \in DOMAIN d : d[k].turn = t /\ d[k].kind \in {"user", "item"}}}

\* The revision of a turn is the hash of the whole file.
CodexEnvelope(session, t, turn, f, hash, said) ==
    Envelope(session, t, turn.user \o turn.answer, <<"file", f, hash>>, turn.at, f, hash, said)
CodexScan(d, f, hash) ==
    LET T == CodexTurns(d) IN
    {CodexEnvelope(d[Min(CodexMetas(d))].session, t, T[t], f, hash, CodexSaid(d, t)) :
        t \in {x \in DOMAIN T : CodexMetas(d) # {} /\ T[x].started /\ T[x].at \in DOMAIN d}}

\* OpenCode: a row says itself whether it is complete. Without a revision of its
\* own it gets one that no edit changes. The session says when it was active.
OpencodeEnvelope(sess, r, f, hash) ==
    Envelope(sess.id, r.turn, r.text, IF r.revision = 0 THEN <<"row">> ELSE <<"revision", r.revision>>,
             sess.at, f, hash, {r.text})
OpencodeRows(d, sess, f, hash) ==
    {OpencodeEnvelope(sess, d[i], f, hash) :
        i \in {k \in DOMAIN d : d[k].session = sess.id /\ d[k].complete}}
OpencodeSessions(d) ==
    {[id |-> d[i].session, at |-> d[i].at] :
        i \in {k \in DOMAIN d : \A j \in DOMAIN d : d[j].session = d[k].session => d[j].at <= d[k].at}}

\* Envelopes are handed over by session and turn, sessions asked by their ids.
KeyBefore(a, b) == a[1] < b[1] \/ (a[1] = b[1] /\ a[2] < b[2])
FirstByKey(E) == {e \in E : \A o \in E : ~KeyBefore(o.key, e.key)}
FirstById(S) == {q \in S : \A o \in S : q.id <= o.id}

-----------------------------------------------------------------------------
(* The agents.                                                              *)

\* A line is appended. Claude Code gives each an identifier of its own.
AppendLine(f, l) ==
    /\ agent # "opencode"
    /\ agent = "claude_code" /\ l.turn # 0 => \A i \in 1..Len(data[f]) : data[f][i].turn # l.turn
    /\ data' = [data EXCEPT ![f] = Append(@, l)]

\* A row is inserted, or the one of the same message is updated.
WriteRow(f, r) ==
    LET row == [r EXCEPT !.at = edition[f] + 2]
        same == {i \in DOMAIN data[f] : data[f][i].turn = r.turn}
    IN
    /\ agent = "opencode"
    /\ \/ same = {} /\ data' = [data EXCEPT ![f] = Append(@, row)]
       \/ \E i \in same : data' = [data EXCEPT ![f][i] = row]

AgentWrites(f) ==
    /\ Written < MaxWrites /\ place[f] # "gone"
    /\ \E l \in Lines[agent][f] : AppendLine(f, l) \/ WriteRow(f, l)
    /\ edition' = [edition EXCEPT ![f] = @ + 1]
    /\ UNCHANGED <<agent, place, turns, sessions, scanner, commands>>

\* The user removes a session. Whoever has the file open goes on reading it.
SessionRemoved(f) ==
    /\ Written < MaxWrites /\ place[f] = "inside"
    /\ place' = [place EXCEPT ![f] = "gone"]
    /\ edition' = [edition EXCEPT ![f] = @ + 1]
    /\ UNCHANGED <<agent, data, turns, sessions, scanner, commands>>

-----------------------------------------------------------------------------
(* The command, one loop written three times: the sources found, each probed, *)
(* read and handed over envelope by envelope.                                *)

NoCommand == [phase |-> "idle", todo |-> {}, asked |-> {}, hash |-> 0, batch |-> {}, status |-> "ok",
         all |-> FALSE, since |-> <<>>, alone |-> FALSE]
Working(s) == scanner[s].phase \notin {"idle", "done", "failed"}
To(s, phase) == [scanner[s] EXCEPT !.phase = phase]
\* On to the next source, or to the report. The sources lie in the order of their paths.
NextSource(r) ==
    LET rest == r.todo \ {Min(r.todo)}
    IN [r EXCEPT !.phase = IF rest = {} THEN "done" ELSE "found", !.todo = rest, !.hash = 0]
Skipped(s) == NextSource([scanner[s] EXCEPT !.status = "degraded"])
\* Mutant: an empty batch ends the source, whatever is left to ask.
WithBatchAlone(r) == IF r.batch = {} THEN NextSource(r) ELSE r
WithBatch(r) == IF r.batch = {} /\ r.asked = {} THEN NextSource(r) ELSE r
Put(s, r) == scanner' = [scanner EXCEPT ![s] = r]
Source(s) == Min(scanner[s].todo)
SourcesKept == UNCHANGED <<agent, place, data, edition, commands>>
Kept == UNCHANGED <<turns, sessions>>

\* Discovery. A link out of the project spoils the whole discovery for Claude Code
\* and Codex; OpenCode passes over it. A fixture takes the place of discovery and
\* may be anywhere in the project.
Found == {f \in Files : place[f] \in {"inside", "foreign"}}
Escapes == agent # "opencode" /\ \E f \in Files : place[f] = "outside"
Begin(s, all, S, refused) ==
    /\ commands < MaxCommands /\ ~Working(s)
    /\ scanner' = [o \in Scanners |->
            IF o = s THEN [NoCommand EXCEPT !.phase = IF refused THEN "failed" ELSE IF S = {} THEN "done" ELSE "found",
                                       !.todo = S, !.all = all, !.since = edition,
                                       !.alone = \A x \in Scanners \ {s} : ~Working(x)]
            ELSE [scanner[o] EXCEPT !.alone = @ /\ ~Working(o)]]
    /\ commands' = commands + 1
    /\ UNCHANGED <<agent, place, data, edition, turns, sessions>>
Scan(s) == Begin(s, TRUE, Found, Escapes)
ScanFixture(s, f) == Begin(s, FALSE, {f}, place[f] \in {"outside", "gone"})

\* The probe reads one KiB of a file: a header line that fits, before anything that
\* is not JSON. A Codex header must be complete.
Proper(l) ==
    IF agent = "codex" THEN l.kind = "meta" ELSE l.session # 0 /\ l.turn # 0
Healthy(f) ==
    /\ place[f] \notin {"gone", "foreign"}
    /\ agent # "opencode" => \E i \in 1..Len(data[f]) :
            /\ Proper(data[f][i])
            /\ agent = "codex" => data[f][i].session # 0
            /\ \A j \in 1..i : data[f][j].kind # "bad" /\ ~data[f][j].long
            /\ \A j \in 1..(i - 1) : ~Proper(data[f][j])
\* bufio.Scanner gives up on a line above its buffer, read as one that is "huge".
TooLong(f) == \E i \in 1..Len(data[f]) : data[f][i].kind = "huge"

Health(s) ==
    /\ scanner[s].phase = "found"
    /\ Put(s, IF Healthy(Source(s)) THEN To(s, "healthy") ELSE Skipped(s))
    /\ SourcesKept /\ Kept

\* A file of lines is read once. What cannot be read ends the command.
LogScan(f) == IF agent = "codex" THEN CodexScan(data[f], f, edition[f])
              ELSE ClaudeScan(data[f], f, edition[f])
ReadLines(s) ==
    LET f == Source(s) IN
    /\ scanner[s].phase = "healthy" /\ agent # "opencode"
    /\ Put(s, IF place[f] = "gone" \/ TooLong(f) THEN To(s, "failed")
              ELSE WithBatch([To(s, "read") EXCEPT !.batch = LogScan(f)]))
    /\ SourcesKept /\ Kept

\* A database is hashed, asked for its sessions, then for the rows of each; only
\* one that vanished before it was opened is passed over.
HashDatabase(s) ==
    /\ scanner[s].phase = "healthy" /\ agent = "opencode"
    /\ Put(s, IF place[Source(s)] = "gone" THEN Skipped(s)
              ELSE [To(s, "hashed") EXCEPT !.hash = edition[Source(s)]])
    /\ SourcesKept /\ Kept
AskSessions(s) ==
    /\ scanner[s].phase = "hashed"
    /\ Put(s, IF place[Source(s)] = "gone" THEN Skipped(s)
              ELSE WithBatch([To(s, "read") EXCEPT !.asked = OpencodeSessions(data[Source(s)])]))
    /\ SourcesKept /\ Kept
AskRows(s) ==
    LET f == Source(s) IN
    /\ scanner[s].phase = "read"
    /\ \E q \in FirstById(scanner[s].asked) :
          Put(s, WithBatch([scanner[s] EXCEPT !.batch = @ \cup OpencodeRows(data[f], q, f, scanner[s].hash),
                                              !.asked = @ \ {q}]))
    /\ SourcesKept /\ Kept

\* One envelope, in a transaction of its own (service.go): the session moves on if
\* it was active since; the turn is a duplicate, or refused because the revision is
\* the stored one and the text is not, or stored. A refusal ends the command.
Conflict(e) == e.key \in DOMAIN turns /\ turns[e.key].rev = e.rev /\ turns[e.key].text # e.text
RefuseEnvelope(s, e) == Conflict(e) /\ Put(s, To(s, "failed")) /\ Kept
Entered(T, k, v) == [x \in DOMAIN T \cup {k} |-> IF x = k THEN v ELSE T[x]]
Older(e) == e.key[1] \in DOMAIN sessions /\ e.at <= sessions[e.key[1]].at
StoreEnvelope(s, e) ==
    /\ ~Conflict(e)
    /\ Put(s, WithBatch([scanner[s] EXCEPT !.batch = @ \ {e}]))
    /\ turns' = Entered(turns, e.key, [rev |-> e.rev, text |-> e.text])
    /\ sessions' = IF Older(e) THEN sessions
                   ELSE Entered(sessions, e.key[1], [at |-> e.at, locator |-> e.locator])
Ingest(s) ==
    /\ scanner[s].phase = "read" /\ scanner[s].asked = {}
    /\ \E e \in FirstByKey(scanner[s].batch) : RefuseEnvelope(s, e) \/ StoreEnvelope(s, e)
    /\ SourcesKept

-----------------------------------------------------------------------------
(* The trace from a locator back to its source. What it looks for: an        *)
(* OpenCode row by its message alone, a Codex line by the turn it names      *)
(* itself.                                                                  *)

SaidInCodex(l) == l.kind \in {"user", "item"} /\ l.text # <<>>
Named(l, loc) == l.turn = loc.turn /\ (agent = "codex" => SaidInCodex(l))
TurnHits(loc) == {i \in 1..Len(data[loc.file]) : data[loc.file][i].kind # "bad" /\ Named(data[loc.file][i], loc)}

\* The trace into a log, which is read once: nothing when it is gone or its hash is
\* not the locator's; otherwise the text of the turn. (OpenCode's is none of this:
\* it hashes the main file and opens the database later.)
ResolveTrace(loc) ==
    IF place[loc.file] = "gone" THEN [code |-> "not_found", told |-> <<>>]
    ELSE IF edition[loc.file] # loc.hash THEN [code |-> "changed", told |-> <<>>]
    ELSE IF TurnHits(loc) = {} THEN [code |-> "unavailable", told |-> <<>>]
    ELSE [code |-> "", told |-> data[loc.file][Min(TurnHits(loc))].text]

-----------------------------------------------------------------------------
ScanInit ==
    /\ agent \in AgentKinds
    /\ place \in Layouts[agent]
    /\ data \in Histories[agent]
    /\ edition = [f \in Files |-> 0]
    /\ turns = <<>> /\ sessions = <<>>
    /\ scanner = [s \in Scanners |-> NoCommand]
    /\ commands = 0

ScanNext ==
    \/ \E f \in Files : AgentWrites(f) \/ SessionRemoved(f)
    \/ \E s \in Scanners :
        \/ Scan(s)
        \/ \E f \in Files : ScanFixture(s, f)
        \/ Health(s) \/ ReadLines(s)
        \/ HashDatabase(s) \/ AskSessions(s) \/ AskRows(s)
        \/ Ingest(s)

ScanSpec == ScanInit /\ [][ScanNext]_scanVars

-----------------------------------------------------------------------------
(* Properties.                                                              *)

\* The shape of the state.
ScanTypeOK ==
    /\ agent \in AgentKinds
    /\ place \in [Files -> Places]
    /\ data \in [Files -> Seq(Shape(agent))]
    /\ edition \in [Files -> Nat]
    /\ \A s \in Scanners :
        /\ scanner[s].phase \in {"idle", "found", "healthy", "hashed", "read", "done", "failed"}
        /\ scanner[s].status \in {"ok", "degraded"}
        /\ scanner[s].todo \subseteq Files
    /\ commands \in 0..MaxCommands

\* What is finished in a source, said of its lines and not of a way through them.
\* A line of Codex opens the turn it names. One that names none belongs to the turn
\* that was opened last, but a task_started to none.
CodexOpens(l) == l.kind = "started" \/ (l.turn # 0 /\ l.kind \in {"context", "user", "item"})
CodexOpened(L, n) == {i \in 1..n : CodexOpens(L[i])}
CodexFirsts(L, n) == {i \in CodexOpened(L, n) : \A j \in CodexOpened(L, i - 1) : L[j].turn # L[i].turn}
CodexOf(L, i) ==
    IF L[i].turn # 0 \/ L[i].kind = "started" \/ CodexFirsts(L, i - 1) = {} THEN L[i].turn
    ELSE L[Max(CodexFirsts(L, i - 1))].turn

\* The lines of a kind that a turn has after n lines: they are its own, it was opened
\* by then, and no turn_context began it anew since.
CodexPart(L, kind, t, n) ==
    {i \in 1..n : /\ L[i].kind = kind /\ CodexOf(L, i) = t
                  /\ \E j \in CodexOpened(L, i) : L[j].turn = t
                  /\ \A j \in i..n : ~(L[j].kind = "context" /\ L[j].turn = t)}

\* The texts of lines, one after the other.
TextUpTo(L, S) ==
    LET text[n \in 0..Len(L)] == IF n = 0 THEN <<>>
                                 ELSE IF n \in S THEN text[n - 1] \o L[n].text ELSE text[n - 1]
    IN text

\* A turn is finished by a line that completes it, if it was started or asked for.
CodexFinished(L) ==
    LET N == Len(L)
        Part(kind, t) == CodexPart(L, kind, t, N)
        Text(kind, t) == TextUpTo(L, Part(kind, t))[N]
    IN IF CodexMetas(L) = {} THEN {}
       ELSE {[key |-> <<L[Min(CodexMetas(L))].session, t>>, text |-> Text("user", t) \o Text("complete", t)] :
                t \in {x \in {L[i].turn : i \in 1..N} \ {0} :
                        Part("complete", x) # {} /\ Part("user", x) \cup Part("started", x) # {}}}
Finished(f) ==
    IF agent = "codex" THEN CodexFinished(data[f])
    ELSE IF agent = "claude_code" THEN
        {[key |-> <<l.session, l.turn>>, text |-> l.text] :
            l \in {data[f][i] : i \in {k \in 1..Len(data[f]) :
                /\ data[f][k].kind \in {"user", "assistant"} /\ data[f][k].session # 0 /\ data[f][k].turn # 0
                /\ \/ data[f][k].stop
                   \/ \E j \in (k + 1)..Len(data[f]) :
                        data[f][j].kind = "user" /\ data[f][j].session = data[f][k].session /\ data[f][j].turn # 0}}}
    ELSE {[key |-> <<r.session, r.turn>>, text |-> r.text] : r \in {x \in ToSet(data[f]) : x.complete}}

\* What a source shows a scan.
Shows(f) ==
    IF agent = "opencode"
    THEN UNION {OpencodeRows(data[f], q, f, edition[f]) : q \in OpencodeSessions(data[f])}
    ELSE LogScan(f)

\* A command that ended, over sources nobody wrote to since it began and with no
\* other command beside it.
Settled(s) ==
    /\ scanner[s].phase = "done" /\ scanner[s].all /\ scanner[s].alone
    /\ scanner[s].since = edition

\* An envelope is stored when its turn is, as it is, and its session is not older.
InStore(e) ==
    /\ e.key \in DOMAIN turns /\ turns[e.key] = [rev |-> e.rev, text |-> e.text]
    /\ Older(e)

\* Whatever state its neighbours are in, a healthy source is stored whole: all that it
\* shows; and the command says "ok" only when it passed over no source it had
\* found (the loop of runExperience*Scan).
ShownIsStored ==
    \A s \in Scanners : Settled(s) =>
        /\ scanner[s].status = "ok" <=> \A f \in Found : Healthy(f)
        /\ \A f \in Found : Healthy(f) => \A e \in Shows(f) : InStore(e)

\* And what it shows is every finished turn with all of its text.
FinishedIsShown ==
    (\E s \in Scanners : Settled(s)) =>
        \A f \in Found : Healthy(f) => {[key |-> e.key, text |-> e.text] : e \in Shows(f)} = Finished(f)

\* A trace into a log of Claude Code or Codex that reports no change tells a text the
\* turn had when it was scanned: hash and text are of the same bytes, then and now.
TraceTellsTruth ==
    agent # "opencode" =>
        \A i \in DOMAIN sessions :
            LET r == ResolveTrace(sessions[i].locator) IN
            r.code = "" => r.told \in sessions[i].locator.said

\* A scan of OpenCode hashes before it asks (opencode/scan.go), session by session
\* and while rows are written: as long as the database is as it was hashed, the row
\* has the text that was stored of it. No locator is younger than its text.
HashNotYounger ==
    \A i \in DOMAIN sessions :
        LET loc == sessions[i].locator IN
        agent = "opencode" /\ edition[loc.file] = loc.hash /\ TurnHits(loc) # {}
            => data[loc.file][Min(TurnHits(loc))].text \in loc.said

\* Scanning again what was scanned and has not changed stores nothing: no turn is
\* revised and no session moves, whatever the order the turns come in.
Again == \A s \in Scanners : Working(s) => scanner[s].todo \subseteq Found
QuietRescan == [][(\E s \in Scanners : Settled(s)) /\ Again => UNCHANGED <<turns, sessions>>]_scanVars

\* A scan stores what there is, again and again the same, and leads back to it.
ScanSound == [](ShownIsStored /\ TraceTellsTruth /\ HashNotYounger) /\ QuietRescan
=============================================================================
