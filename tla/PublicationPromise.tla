------------------------ MODULE PublicationPromise ------------------------
(***************************************************************************)
(* What publishing and rolling back promise to someone who looks only at   *)
(* the project tree and at SQLite, without invocations, lock or journal:   *)
(* text enters and leaves the targets of a learning one file at a time and *)
(* only under a publication row of that learning that is not undone, a     *)
(* publication is done only when the text is in every target, and the      *)
(* learning turns published, and back, in the same step as the row.        *)
(***************************************************************************)
CONSTANTS Pubs, Files, Learnings, Dest

VARIABLES
    stage,      \* of each publication: none, open, done, held or undone
    owner,      \* the learning each publication is of
    published,  \* the learnings SQLite calls published
    text        \* the files that hold the text of each learning

vars == <<stage, owner, published, text>>

Init ==
    /\ stage = [p \in Pubs |-> "none"]
    /\ owner \in [Pubs -> Learnings]
    /\ published = {}
    /\ text = [l \in Learnings |-> {}]

Move(p, from, to) == stage[p] \in from /\ stage' = [stage EXCEPT ![p] = to]

Open(p, l) ==
    /\ Move(p, {"none"}, "open")
    /\ owner' = [owner EXCEPT ![p] = l]
    /\ UNCHANGED <<published, text>>

\* Text is written only into the targets, and only by an open publication.
Write(p, f) ==
    /\ stage[p] = "open" /\ f \in Dest[owner[p]]
    /\ text' = [text EXCEPT ![owner[p]] = @ \cup {f}]
    /\ UNCHANGED <<stage, owner, published>>

\* Text is removed only on behalf of a publication that is not undone yet.
Remove(p, f) ==
    /\ stage[p] \in {"open", "done", "held"}
    /\ text' = [text EXCEPT ![owner[p]] = @ \ {f}]
    /\ UNCHANGED <<stage, owner, published>>

Complete(p) ==
    /\ Dest[owner[p]] \subseteq text[owner[p]]
    /\ Move(p, {"open"}, "done")
    /\ published' = published \cup {owner[p]}
    /\ UNCHANGED <<owner, text>>

\* A compensation or a rollback ended; in "held" it may have met a conflict.
Hold(p) ==
    /\ Move(p, {"open", "done", "held"}, "held")
    /\ UNCHANGED <<owner, published, text>>

Undo(p) ==
    /\ Move(p, {"open", "done", "held"}, "undone")
    /\ published' = published \ {owner[p]}
    /\ UNCHANGED <<owner, text>>

Next == \E p \in Pubs :
    \/ \E l \in Learnings : Open(p, l)
    \/ \E f \in Files : Write(p, f) \/ Remove(p, f)
    \/ Complete(p) \/ Hold(p) \/ Undo(p)

Spec == Init /\ [][Next]_vars
=============================================================================
