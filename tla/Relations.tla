------------------------------ MODULE Relations ------------------------------
(***************************************************************************)
(* Relations between learnings: curate.Service.Relate, which looks both    *)
(* learnings up, looks for the relation, saves it and records its audit    *)
(* event, each in a transaction of its own (curate/relation.go).           *)
(***************************************************************************)
EXTENDS Naturals, FiniteSets

CONSTANTS
    Curators,       \* processes that relate learnings
    Related,        \* learnings; none is ever deleted
    Unknown,        \* an id that is no learning
    Kinds,          \* relation types
    MaxRelations    \* bound: relations saved

VARIABLES
    relations,      \* learning_relations: [id, source, target, kind]
    curator,        \* what each process is in the middle of
    audits,         \* the ids whose audit event was recorded
    told,           \* the ids whose Relate returned success
    lost            \* the ids whose Relate failed or died after it was saved

relVars == <<relations, curator, audits, told, lost>>

NotRelating == [step |-> "idle"]

RelationsInit ==
    /\ relations = {} /\ audits = {} /\ told = {} /\ lost = {}
    /\ curator = [c \in Curators |-> NotRelating]

Moves(c, state) == curator' = [curator EXCEPT ![c] = state]

\* In one direction: that the target has the relation to the source is not looked at.
Existing(source, target, kind) ==
    {x \in relations : x.source = source /\ x.target = target /\ x.kind = kind}

\* No learning is related to itself, and both are looked up.
Relate(c, source, target, kind) ==
    /\ curator[c].step = "idle"
    /\ source # target
    /\ {source, target} \subseteq Related
    /\ Moves(c, [step |-> "check", source |-> source, target |-> target, kind |-> kind])
    /\ UNCHANGED <<relations, audits, told, lost>>

CheckExisting(c) ==
    LET ask == curator[c]
    IN /\ ask.step = "check"
       /\ IF Existing(ask.source, ask.target, ask.kind) # {}
          THEN Moves(c, NotRelating)
          ELSE Moves(c, [ask EXCEPT !.step = "save"])
       /\ UNCHANGED <<relations, audits, told, lost>>

\* UNIQUE(source_learning_id, target_learning_id, relation).
Violates(ask) == Existing(ask.source, ask.target, ask.kind) # {}

SaveRelation(c) ==
    LET ask == curator[c]
        new == Cardinality(relations) + 1
    IN /\ ask.step = "save"
       /\ IF Violates(ask)
          THEN Moves(c, NotRelating) /\ UNCHANGED relations
          ELSE /\ new <= MaxRelations
               /\ relations' = relations \cup
                     {[id |-> new, source |-> ask.source, target |-> ask.target, kind |-> ask.kind]}
               /\ Moves(c, [step |-> "audit", id |-> new])
       /\ UNCHANGED <<audits, told, lost>>

RecordAudit(c) ==
    /\ curator[c].step = "audit"
    /\ audits' = audits \cup {curator[c].id}
    /\ told' = told \cup {curator[c].id}
    /\ Moves(c, NotRelating)
    /\ UNCHANGED <<relations, lost>>

\* The process dies, or a statement fails, which ends Relate with an error. The
\* relation stays when it was saved.
RelateFails(c) ==
    /\ curator[c].step # "idle"
    /\ lost' = IF curator[c].step = "audit" THEN lost \cup {curator[c].id} ELSE lost
    /\ Moves(c, NotRelating)
    /\ UNCHANGED <<relations, audits, told>>

RelationsNext ==
    \E c \in Curators :
        \/ \E source, target \in Related \cup {Unknown}, kind \in Kinds : Relate(c, source, target, kind)
        \/ CheckExisting(c) \/ SaveRelation(c) \/ RecordAudit(c) \/ RelateFails(c)

\* However processes race between the check and the save, learnings are related
\* once by a kind and one caller is told so; a relation has its audit event
\* unless the call that saved it failed or died, or is still under way.
RelatedOnce ==
    /\ \A x, y \in relations :
          x.source = y.source /\ x.target = y.target /\ x.kind = y.kind => x = y
    /\ audits \subseteq {x.id : x \in relations}
    /\ told = audits
    /\ \A x \in relations :
          x.id \in audits \cup lost \/ \E c \in Curators : curator[c] = [step |-> "audit", id |-> x.id]
    /\ lost \cap told = {}
=============================================================================
