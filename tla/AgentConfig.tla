----------------------------- MODULE AgentConfig -----------------------------
(***************************************************************************)
(* `setup install` and `setup uninstall`: the entry of royo-learn in the   *)
(* MCP configuration of each coding agent (cmd/royo-learn/setup.go and the *)
(* agents of internal/setup). A configuration is somebody else's file: it  *)
(* holds the servers of the user, and is read, changed, written beside     *)
(* itself and renamed into place.                                          *)
(***************************************************************************)
EXTENDS Naturals, Sequences, FiniteSets

CONSTANTS
    Commands,   \* invocations of setup
    AllAgents,  \* sequence of the agents, in the order they are served
    ByCLI,      \* the agents that are configured through their own command
    OwnServers, \* servers that the user registers
    Overlap     \* whether commands and the user may act at the same time

ASSUME ConfigAssumption ==
    /\ AllAgents \in Seq(STRING) /\ AllAgents # <<>> /\ Overlap \in BOOLEAN
    \* dedupeAgents
    /\ \A i, j \in DOMAIN AllAgents : AllAgents[i] = AllAgents[j] => i = j
    /\ "royo-learn" \notin OwnServers /\ "user" \notin Commands

VARIABLES
    config,    \* agent -> the inode of its configuration
    temp,      \* agent -> the inode of path + ".tmp"
    data,      \* inode -> what it holds
    backups,   \* agent -> what the backups beside the configuration hold
    own,       \* agent -> what the user has put in the configuration (history)
    command    \* invocation -> its step

configVars == <<config, temp, data, backups, own, command>>

Agents == {AllAgents[i] : i \in DOMAIN AllAgents}
NoInode == <<"none">>
UserInode(a) == <<"user", a>>
Inodes == {UserInode(a) : a \in Agents} \cup (Commands \X Agents)

\* A JSON document stands for the set of its servers. A file of no bytes is read
\* as a document without any.
Empty == [kind |-> "empty"]
Torn == [kind |-> "torn"]
Doc(servers) == [kind |-> "doc", servers |-> servers]
Documents == {Empty, Torn} \cup {Doc(s) : s \in SUBSET (OwnServers \cup {"royo-learn"})}

Nothing == Doc({})
TextOf(inode) == IF inode = NoInode THEN Nothing ELSE data[inode]
\* loadOrInitJSONConfig
Parses(inode) == TextOf(inode) # Torn
Servers(inode) == IF TextOf(inode) \in {Empty, Torn} THEN {} ELSE TextOf(inode).servers
\* VerifyMCP, and what `setup status` prints.
Registered(a) == "royo-learn" \in Servers(config[a])

Unstarted == [step |-> "idle"]
Ended(c) == command[c].step \in {"idle", "done", "dead"}

ConfigInit ==
    /\ own \in [Agents -> SUBSET OwnServers]
    /\ config \in [Agents -> {NoInode} \cup {UserInode(a) : a \in Agents}]
    /\ \A a \in Agents : config[a] = IF own[a] = {} THEN NoInode ELSE UserInode(a)
    /\ temp = [a \in Agents |-> NoInode]
    /\ data = [inode \in Inodes |->
                  IF inode[1] = "user" THEN Doc(own[inode[2]]) ELSE Empty]
    /\ backups = [a \in Agents |-> {}]
    /\ command = [c \in Commands |-> Unstarted]

AgentOf(c) == AllAgents[command[c].at]
At(c, step) == command[c].step = step
GoTo(c, step) == command' = [command EXCEPT ![c].step = step]

\* Each agent is served whatever became of the one before it.
NextAgent(c, result) ==
    command' = [command EXCEPT
        ![c].step = IF command[c].at = Len(AllAgents) THEN "done" ELSE "backup",
        ![c].at = IF @ = Len(AllAgents) THEN @ ELSE @ + 1,
        ![c].unsaved = FALSE,
        ![c].results = Append(@, result)]

Start(c, job) ==
    /\ At(c, "idle")
    /\ Overlap \/ \A other \in Commands : Ended(other)
    /\ command' = [command EXCEPT ![c] =
           [step |-> "backup", job |-> job, at |-> 1, unsaved |-> FALSE,
            servers |-> {}, inode |-> NoInode, results |-> <<>>]]
    /\ UNCHANGED <<config, temp, data, backups, own>>

\* Mutant: a failed backup goes unreported.
BackupQuietly(c) ==
    /\ At(c, "backup")
    /\ backups' \in {backups, [backups EXCEPT ![AgentOf(c)] = @ \cup {TextOf(config[AgentOf(c)])}]}
    /\ GoTo(c, "load")
    /\ UNCHANGED <<config, temp, data, own>>

\* BackupMCPConfig. A backup that fails is an error in the report of an install,
\* nothing at all in that of an uninstall, and no reason to stop.
BackupConfig(c) ==
    /\ At(c, "backup")
    /\ IF config[AgentOf(c)] = NoInode
       THEN backups' = backups /\ GoTo(c, "load")
       ELSE \/ /\ backups' = [backups EXCEPT ![AgentOf(c)] =
                      @ \cup {TextOf(config[AgentOf(c)])}]
               /\ GoTo(c, "load")
            \/ /\ backups' = backups
               /\ command' = [command EXCEPT ![c].step = "load", ![c].unsaved = TRUE]
    /\ UNCHANGED <<config, temp, data, own>>

\* The backup of a second takes the place of one of the same second.
SameSecond(c) ==
    /\ At(c, "backup") /\ config[AgentOf(c)] # NoInode
    /\ \E lost \in backups[AgentOf(c)] :
          backups' = [backups EXCEPT ![AgentOf(c)] =
              (@ \ {lost}) \cup {TextOf(config[AgentOf(c)])}]
    /\ GoTo(c, "load")
    /\ UNCHANGED <<config, temp, data, own>>

Wanted(c, servers) ==
    IF command[c].job = "install" THEN servers \cup {"royo-learn"}
    ELSE servers \ {"royo-learn"}

\* RegisterMCP and UnregisterMCP up to the write.
LoadConfig(c) ==
    LET inode == config[AgentOf(c)] IN
    /\ At(c, "load") /\ AgentOf(c) \notin ByCLI
    /\ IF ~Parses(inode) THEN NextAgent(c, "error")
       ELSE IF Wanted(c, Servers(inode)) = Servers(inode) THEN NextAgent(c, "skipped")
       ELSE command' = [command EXCEPT ![c].step = "open",
                                       ![c].servers = Wanted(c, Servers(inode))]
    /\ UNCHANGED <<config, temp, data, backups, own>>

\* The agent's own command changes its file in one step, or fails; an entry that
\* is there (or, to remove, is not) counts as success.
RunAgentCLI(c) ==
    LET a == AgentOf(c)
        servers == Servers(config[a]) IN
    /\ At(c, "load") /\ a \in ByCLI
    /\ \/ NextAgent(c, "error") /\ UNCHANGED <<config, data>>
       \/ /\ Wanted(c, servers) = servers
          /\ NextAgent(c, "skipped") /\ UNCHANGED <<config, data>>
       \/ /\ Wanted(c, servers) # servers
          /\ config' = [config EXCEPT ![a] = <<c, a>>]
          /\ data' = [data EXCEPT ![<<c, a>>] = Doc(Wanted(c, servers))]
          /\ NextAgent(c, "changed")
    /\ UNCHANGED <<temp, backups, own>>

\* writeFileAtomic: path + ".tmp" is created or, when there is one, emptied.
OpenTemp(c) ==
    LET a == AgentOf(c)
        inode == IF temp[a] = NoInode THEN <<c, a>> ELSE temp[a] IN
    /\ At(c, "open")
    /\ temp' = [temp EXCEPT ![a] = inode]
    /\ data' = [data EXCEPT ![inode] = Empty]
    /\ command' = [command EXCEPT ![c].step = "write", ![c].inode = inode]
    /\ UNCHANGED <<config, backups, own>>

\* Bytes over bytes that somebody else wrote through another handle: what is
\* left depends on which of the two is longer.
WriteTemp(c) ==
    LET inode == command[c].inode
        mine == Doc(command[c].servers) IN
    /\ At(c, "write")
    /\ \E result \in {mine} \cup IF data[inode] \in {Empty, mine} THEN {} ELSE {Torn} :
          data' = [data EXCEPT ![inode] = result]
    /\ GoTo(c, "rename")
    /\ UNCHANGED <<config, temp, backups, own>>

RenameTemp(c) ==
    LET a == AgentOf(c) IN
    /\ At(c, "rename")
    /\ IF temp[a] = NoInode
       THEN NextAgent(c, "error") /\ UNCHANGED <<config, temp>>
       ELSE /\ config' = [config EXCEPT ![a] = temp[a]]
            /\ temp' = [temp EXCEPT ![a] = NoInode]
            /\ NextAgent(c, "changed")
    /\ UNCHANGED <<data, backups, own>>

\* The write fails and leaves path + ".tmp"; the rename fails and removes it.
FailToWrite(c) ==
    LET a == AgentOf(c) IN
    /\ \/ /\ At(c, "write") /\ temp' = temp
          /\ \E torn \in {Empty, Torn} : data' = [data EXCEPT ![command[c].inode] = torn]
       \/ At(c, "rename") /\ temp' = [temp EXCEPT ![a] = NoInode] /\ data' = data
    /\ NextAgent(c, "error")
    /\ UNCHANGED <<config, backups, own>>

Die(c) ==
    /\ ~Ended(c)
    /\ IF At(c, "write")
       THEN \E torn \in {data[command[c].inode], Torn} :
               data' = [data EXCEPT ![command[c].inode] = torn]
       ELSE data' = data
    /\ GoTo(c, "dead")
    /\ UNCHANGED <<config, temp, backups, own>>

\* The user, or the agent on his behalf, rewrites the configuration.
UserEdits(a, servers) ==
    /\ Overlap \/ \A c \in Commands : Ended(c)
    /\ servers # own[a]
    /\ Parses(config[a])
    /\ own' = [own EXCEPT ![a] = servers]
    /\ config' = [config EXCEPT ![a] = UserInode(a)]
    /\ data' = [data EXCEPT ![UserInode(a)] =
           Doc(servers \cup (Servers(config[a]) \ OwnServers))]
    /\ UNCHANGED <<temp, backups, command>>

ConfigNext ==
    \/ \E c \in Commands, job \in {"install", "uninstall"} : Start(c, job)
    \/ \E c \in Commands :
          \/ BackupConfig(c) \/ SameSecond(c) \/ LoadConfig(c) \/ RunAgentCLI(c)
          \/ OpenTemp(c) \/ WriteTemp(c) \/ RenameTemp(c) \/ FailToWrite(c) \/ Die(c)
    \/ \E a \in Agents, servers \in SUBSET OwnServers : UserEdits(a, servers)

ConfigSpec == ConfigInit /\ [][ConfigNext]_configVars

------------------------------------------------------------------------------
(* Properties *)

ConfigTypeOK ==
    /\ config \in [Agents -> Inodes \cup {NoInode}]
    /\ temp \in [Agents -> Inodes \cup {NoInode}]
    /\ data \in [Inodes -> Documents]
    /\ backups \in [Agents -> SUBSET Documents]
    /\ own \in [Agents -> SUBSET OwnServers]
    /\ \A c \in Commands :
          \/ command[c] = Unstarted
          \/ /\ command[c].step \in {"backup", "load", "open", "write", "rename",
                                     "done", "dead"}
             /\ command[c].at \in DOMAIN AllAgents
             /\ command[c].inode \in Inodes \cup {NoInode}

\* Commands that come one after the other, and die or fail where they may, leave
\* every configuration whole, with exactly the servers that the user put in it
\* besides the entry of royo-learn.
OwnServersKept ==
    \A a \in Agents :
        /\ TextOf(config[a]).kind = "doc"
        /\ Servers(config[a]) \ {"royo-learn"} = own[a]

\* setup.go: "Backup before mutation". What a command takes away from the user
\* is in a backup, unless the backup failed: it goes on all the same.
ReplacedIsSaved ==
    [][\A c \in Commands :
          At(c, "rename") /\ config' # config =>
              \/ command[c].unsaved
              \/ config[AgentOf(c)] = NoInode
              \/ TextOf(config[AgentOf(c)]) \in backups[AgentOf(c)]]_configVars

\* A command that reports success for an agent leaves it configured as asked,
\* whatever a dead command had left beside the configuration.
SuccessMeansDone ==
    [][\A c \in Commands, a \in Agents :
          /\ ~Ended(c) /\ a = AgentOf(c)
          /\ Len(command'[c].results) > Len(command[c].results)
          /\ command'[c].results[Len(command'[c].results)] # "error"
          => Registered(a)' = (command[c].job = "install")]_configVars

\* A configuration is saved before it is replaced, keeps what is not ours, and
\* shows what the command reported.
ConfigSafe == []OwnServersKept /\ ReplacedIsSaved /\ SuccessMeansDone
=============================================================================
