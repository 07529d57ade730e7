------------------------------ MODULE MCStages ------------------------------
(***************************************************************************)
(* Model checking of the stages around the core, each on its own: what is  *)
(* read of an agent's sessions (Scan), how a retry is noticed (Detectors), *)
(* how events become patterns (Mining), what is asked before a publication *)
(* and what is reported after it (MCGate), how learnings are reported to   *)
(* recur (Recurrence), related (Relations) and found again (Retrieval).    *)
(* They share no state; a behaviour is one of a single stage.              *)
(***************************************************************************)
EXTENDS MCGate, Scan, Mining, Detectors, Recurrence, Relations, Retrieval

-----------------------------------------------------------------------------
(* Scan: two sources of each agent. *)

Line(kind, session, turn, said) ==
    [kind |-> kind, session |-> session, turn |-> turn, text |-> said,
     stop |-> kind = "answer", long |-> kind = "huge"]
DataRow(session, turn, said, revision, complete) ==
    [kind |-> "row", session |-> session, turn |-> turn, text |-> said, revision |-> revision,
     complete |-> complete, at |-> 1]
User(f) == Line("user", f, 1, <<"a">>)
Reply(f) == Line("assistant", f, 2, <<"b">>)
Bad == Line("bad", 0, 0, <<>>)
Meta(f) == Line("meta", f, 0, <<>>)
Context(t) == Line("context", 0, t, <<>>)
Ask(t) == Line("user", 0, t, <<"a">>)
Answer == Line("complete", 0, 0, <<"b">>)

MCLines == [x \in AgentKinds |-> [f \in Files |->
    CASE x = "claude_code" ->
            {Line("user", f, 3, <<"c">>)}
            \cup IF f = 1 THEN {Reply(f), Bad, Line("huge", f, 4, <<>>)} ELSE {}
      [] x = "codex" ->
            {Answer} \cup IF f = 1 THEN {Context(1), Ask(0), Line("started", 0, 0, <<>>)} ELSE {}
      [] OTHER ->
            IF f = 1 THEN {DataRow(1, 1, <<"b">>, 0, TRUE), DataRow(3, 2, <<"b">>, 1, TRUE)} ELSE {}]]

\* Among them a Codex turn whose context comes twice, and one that never ends.
MCHistories == [x \in AgentKinds |->
    CASE x = "claude_code" ->
            {[f \in Files |-> <<>>], [f \in Files |-> IF f = 1 THEN <<Reply(1), User(1)>> ELSE <<Bad>>]}
      [] x = "codex" ->
            {[f \in Files |-> IF f = 1 THEN <<Meta(1), Context(1), Ask(1), Context(1)>>
                              ELSE <<Meta(2), Ask(1)>>],
             [f \in Files |-> IF f = 1 THEN <<Meta(1), Context(1), Ask(1), Line("item", 0, 2, <<"i">>), Answer>>
                              ELSE <<Ask(1)>>]}
      [] OTHER ->
            {[f \in Files |-> IF f = 1 THEN <<DataRow(1, 1, <<"a">>, 0, TRUE), DataRow(1, 4, <<"d">>, 0, FALSE),
                                              DataRow(3, 2, <<"c">>, 0, TRUE)>>
                              ELSE <<>>]}]
MCLayouts == [x \in AgentKinds |->
    IF x = "opencode" THEN {[f \in Files |-> IF f = 1 THEN "inside" ELSE "foreign"]}
    ELSE {[f \in Files |-> "inside"],
          [f \in Files |-> IF f = 1 THEN "inside" ELSE IF x = "codex" THEN "hidden" ELSE "outside"]}]

-----------------------------------------------------------------------------
(* Mining: events of one fingerprint above the cap, of another that overlaps *)
(* it, and of a third that overlaps it by half.                              *)

Event(id, kind, what, terms, result, session, day) ==
    [id |-> id, kind |-> kind, text |-> what, terms |-> terms, result |-> result,
     session |-> session, day |-> day]
MCEvents ==
    {Event(1, "failure", "A", {"t1", "t2"}, "success", 1, 1),
     Event(2, "failure", "A", {"t1", "t2"}, "success", 2, 1),
     Event(3, "failure", "B", {"t1", "t2", "uuid"}, "corrected", 1, 1),
     Event(4, "failure", "C", {"t2"}, "fail", 3, 2),
     Event(5, "failure", "A", {"t1", "t2"}, "success", 1, 2),
     Event(6, "failure", "A", {"t1", "t2"}, "success", 0, 1)}
MCRank(fp) == CASE fp[2] = "A" -> 2 [] fp[2] = "B" -> 1 [] OTHER -> 3

-----------------------------------------------------------------------------
(* Recurrence and Retrieval: two learnings that say the same thing; and two *)
(* that differ in their ids alone next to one that matches better.          *)

MCFingerprint == [l \in Recurring |-> "same"]
Occurred(l, at) == [learning |-> l, fp |-> "same", key |-> NoKey, at |-> at]
MCPasts == {<<Occurred("l1", -1), Occurred("l2", -4), Occurred("l1", -2)>>}

Book(id, fp, strength, evidence, title) ==
    [id |-> id, fp |-> fp, words |-> {"go", "AND", "uuid"} \cup ToSet(title), title |-> title,
     terms |-> {"go", "uuid"}, strength |-> strength, evidence |-> evidence, born |-> 0,
     status |-> IF id = 2 THEN "approved" ELSE "captured"]
MCShelf ==
    {Book(1, 7, 1, "strong", <<"go">>), Book(2, 7, 1, "strong", <<"go">>),
     Book(3, 5, 4, "weak", <<"go">>), Book(4, 6, 2, "moderate", <<"AND", "tip">>)}
MCQueries ==
    {<<>>, <<"go">>, <<"go", "go", "huge">>, <<"..">>, <<"AND", "tip">>, <<"uuid">>,
     <<"go", "AND", "uuid", "tip">>}
MCStatuses == {{"captured", "approved"}, {"approved"}}
MCEngram == {<<>>, <<"memory">>}

-----------------------------------------------------------------------------
\* A stage that is not the part begins empty and stays so.
Unscanned ==
    /\ agent = "codex" /\ place = <<>> /\ data = <<>> /\ edition = <<>>
    /\ turns = <<>> /\ sessions = <<>> /\ commands = 0
    /\ scanner = [s \in Scanners |-> NoCommand]
Unmined == events = {} /\ queue = {} /\ mined = {} /\ saved = <<>> /\ rounds = 0

StagesInit ==
    /\ part \in {"approvals", "drift", "scan", "mining", "detect", "recur", "relate", "search"}
    /\ ApprInit /\ DriftInit /\ choice = [l \in Lessons |-> <<"skill", 1>>]
    /\ IF part = "scan" THEN ScanInit ELSE Unscanned
    /\ IF part = "mining" THEN MinInit ELSE Unmined
    /\ DetInit /\ RecurrenceInit /\ RelationsInit /\ RetrievalInit

StagesNext ==
    \/ GateNext /\ UNCHANGED <<scanVars, minVars, detVars, recVars, relVars, retVars>>
    \/ /\ part' = part /\ UNCHANGED <<apprVars, driftVars>>
       /\ \/ part = "scan" /\ ScanNext /\ UNCHANGED <<minVars, detVars, recVars, relVars, retVars>>
          \/ part = "mining" /\ MinNext /\ UNCHANGED <<scanVars, detVars, recVars, relVars, retVars>>
          \/ part = "detect" /\ DetNext /\ UNCHANGED <<scanVars, minVars, recVars, relVars, retVars>>
          \/ part = "recur" /\ RecurrenceNext /\ UNCHANGED <<scanVars, minVars, detVars, relVars, retVars>>
          \/ part = "relate" /\ RelationsNext /\ UNCHANGED <<scanVars, minVars, detVars, recVars, retVars>>
          \/ part = "search" /\ RetrievalNext /\ UNCHANGED <<scanVars, minVars, detVars, recVars, relVars>>

stagesVars == <<gateVars, scanVars, minVars, detVars, recVars, relVars, retVars>>
StagesSpec == StagesInit /\ [][StagesNext]_stagesVars
SearchAlone == StagesInit /\ part = "search" /\ [][StagesNext]_stagesVars

\* Every stage keeps the shape of what it stands for.
StagesTypeOK ==
    /\ GateTypeOK
    /\ part = "scan" => ScanTypeOK
    /\ part = "mining" => MinTypeOK

\* What is derived from events and learnings is true of them: Mining's
\* EvidenceSound, Detectors' RetryTrue, Recurrence's RetriesCountOnce and
\* ShownTogetherAgrees, Relations' RelatedOnce and Retrieval's SearchRepeats.
DerivedSound ==
    /\ EvidenceSound /\ RetryTrue /\ RetriesCountOnce /\ ShownTogetherAgrees
    /\ RelatedOnce /\ SearchRepeats
=============================================================================
