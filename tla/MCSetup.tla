------------------------------- MODULE MCSetup -------------------------------
(***************************************************************************)
(* Model checking of what royo-learn does to the machine it is installed   *)
(* on: its binary, the configuration and the skills of agents, and the     *)
(* schema of its database. The four share no state; a behaviour is one of  *)
(* any of them, the other three staying at rest.                           *)
(***************************************************************************)
EXTENDS SelfUpdate, AgentSkills, AgentConfig, Migrations, TLC

VARIABLE part

MCAgents == <<"claude-code", "codex">>
\* The second version of the skill has a file more and one less.
MCShips == << {0, 1}, {1, 2} >>
\* k1 and k2 share a wrapper and, with k3, a process; k4 is another build, which
\* has another second migration and one more.
MCWrapper == [c \in Callers |->
    CASE c = "k3" -> "d2" [] c = "k4" -> "d3" [] OTHER -> "d1"]
MCProcess == [d \in {"d1", "d2", "d3"} |-> IF d = "d3" THEN "p2" ELSE "p1"]
MCKnown == [p \in {"p1", "p2"} |->
    IF p = "p1" THEN <<"a", "b">> ELSE <<"a", "x", "c">>]

setupVars == <<part, updVars, skillVars, configVars, migVars>>

SetupInit ==
    /\ part \in {"update", "skills", "config", "migrate"}
    /\ UpdateInit /\ SkillInit /\ ConfigInit /\ MigInit
    /\ part # "update" => windows = FALSE /\ target = File(1, Shipped)
    /\ own = [a \in Agents |-> {}]

SetupNext ==
    /\ part' = part
    /\ \/ part = "update" /\ UpdateNext /\ UNCHANGED <<skillVars, configVars, migVars>>
       \/ part = "skills" /\ SkillNext /\ UNCHANGED <<updVars, configVars, migVars>>
       \/ part = "config" /\ ConfigNext /\ UNCHANGED <<updVars, skillVars, migVars>>
       \/ part = "migrate" /\ MigNext /\ UNCHANGED <<updVars, skillVars, configVars>>

SetupSpec == SetupInit /\ [][SetupNext]_setupVars /\ MigFairness
SkillsAlone == SetupInit /\ part = "skills" /\ [][SetupNext]_setupVars

\* Every part keeps the shape of what it stands for.
SetupTypeOK == UpdateTypeOK /\ SkillTypeOK /\ ConfigTypeOK /\ MigTypeOK
=============================================================================
