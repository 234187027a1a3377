------------------------------- MODULE Install -------------------------------
(***************************************************************************)
(* `mcp-vault install` (orchestrate.cjs --install): the entry is read, a   *)
(* child `verify --entry` reads the database again and judges it, the      *)
(* standing context budget is checked, and the pinned launch is written    *)
(* into a host's config: read, backed up, written, with nothing held in    *)
(* between.  Several installs may overlap, and a pull or a `verify         *)
(* --update` may move the database under them.                             *)
(***************************************************************************)
EXTENDS HostConfig

CONSTANTS
    Installers,     \* processes that run `install`
    Entries,        \* names of vault entries
    Targets,        \* (host, scope) pairs asked for
    EntryStates,    \* what the database may say of an entry
    FirstConfig,    \* what the configs may hold at first
    Ceiling,        \* the policy's maxContextTokens with contextBudget "fail", or Null
    MaxInstalls,    \* bound on the installs started
    MaxMoves        \* bound on the changes of the database

(* What a config may hold at first: for each host a file, or none. *)
IsDoc(file) == file = [mcpServers |-> file.mcpServers, servers |-> file.servers]
IsConfig(c) ==
    DOMAIN c = Locations /\ \A l \in Locations : c[l] \in {Null, Broken} \/ IsDoc(c[l])

ASSUME InstallConstants == \A c \in FirstConfig : IsConfig(c)

(* An entry's command names its package plainly, and what it runs is a      *)
(* word.                                                                    *)
PlainEntry(s) ==
    /\ IsCommand(s.cmd)
    /\ s.cmd.runner # "docker" =>
          /\ PlainlyNamed(s.cmd)
          /\ \A i \in DOMAIN ParseLaunch(s.cmd).bin : IsWord(ParseLaunch(s.cmd).bin[i])

VARIABLES
    vault,      \* tools_database.json: entry |-> [cmd, version, tools]
    config,     \* location |-> the host's file
    backups,    \* copies made beside the configs: <<location, file>>
    install,    \* process |-> what it holds
    installs, moves     \* how many so far (bounds)
installVars == <<vault, config, backups, install, installs, moves>>

AtRest == [pc |-> "idle"]

(* What the server's tools cost, or Null: 350 tokens a tool, by its entry.  *)
(* A measured payload outranks the entry's count; both are one number here. *)
EstimateServer(entry) == IF entry = Null THEN Null ELSE vault[entry].tools

(***************************************************************************)
(* Does the set with this server cost more than the ceiling?  A server of  *)
(* the same name is replaced in the sum, and what cannot be measured is    *)
(* not in it.                                                              *)
(***************************************************************************)
WouldExceed(servers, adding, tokens) ==
    LET others == {s \in servers : s.name # adding}
        cost(s) == EstimateServer(MatchLaunch(vault, s.cmd).entry)
        known == {s \in others : cost(s) # Null}
    IN  Ceiling # Null /\ FoldSet(LAMBDA s, n : n + cost(s), tokens, known) > Ceiling

InstallInit ==
    /\ vault \in [Entries -> EntryStates]
    /\ config \in FirstConfig
    /\ backups = {}
    /\ install = [p \in Installers |-> AtRest]
    /\ installs = 0 /\ moves = 0

(* main: the entry as the database has it when the command starts. *)
StartInstall(p) ==
    /\ install[p].pc = "idle" /\ installs < MaxInstalls
    /\ \E e \in Entries, t \in Targets, unpinned \in BOOLEAN, over \in BOOLEAN :
          install' = [install EXCEPT ![p] =
              [pc |-> "gate", entry |-> e, tool |-> vault[e], judged |-> Null, target |-> t,
               allowUnpinned |-> unpinned, allowOverBudget |-> over]]
    /\ installs' = installs + 1
    /\ UNCHANGED <<vault, config, backups, moves>>

Give_up(p) == install' = [install EXCEPT ![p] = AtRest]

(* verify --entry: the child judges the entry the database has by then.     *)
(* Its exit code is all that is used: `judged` is for the properties.       *)
RunGate(p) ==
    /\ install[p].pc = "gate"
    /\ \/ Give_up(p)
       \/ install' = [install EXCEPT ![p].pc = "cleared", ![p].judged = vault[install[p].entry]]
    /\ UNCHANGED <<vault, config, backups, installs, moves>>

(***************************************************************************)
(* The budget, read from the database and the configs of this moment; then *)
(* the launch to write: pinned, or refused unless --allow-unpinned.  A     *)
(* TOML host gets a snippet to paste and nothing is written.               *)
(***************************************************************************)
BuildServerEntry(i) == PinInstallCmd(i.tool.cmd, i.tool.version)

Prepare(p) ==
    /\ install[p].pc = "cleared"
    /\ LET i == install[p]
           over == WouldExceed(ReadInstalledServers(config), i.entry, i.tool.tools)
           pin == BuildServerEntry(i)
           at == ResolveTarget(i.target[1], i.target[2])
       IN  IF \/ over /\ ~i.allowOverBudget
              \/ ~pin.pinned /\ ~i.allowUnpinned
              \/ at = Null \/ i.target[1] = "codex"
           THEN Give_up(p)
           ELSE install' = [install EXCEPT ![p] =
                    [pc |-> "read", entry |-> i.entry, judged |-> i.judged, at |-> at,
                     pinned |-> pin.pinned,
                     spec |-> [cmd |-> pin.cmd, movedByEnv |-> FALSE]]]
    /\ UNCHANGED <<vault, config, backups, installs, moves>>

(* writeServerEntry: a file that does not parse is never replaced.  What    *)
(* was copied is only for the properties.                                   *)
ReadTarget(p) ==
    /\ install[p].pc = "read"
    /\ LET file == config[install[p].at] IN
          IF file = Broken THEN Give_up(p)
          ELSE install' = [install EXCEPT ![p] =
                    [pc |-> IF file = Null THEN "write" ELSE "copy", entry |-> @.entry,
                     judged |-> @.judged, at |-> @.at, pinned |-> @.pinned, spec |-> @.spec,
                     doc |-> IF file = Null THEN EmptyDoc ELSE file, copied |-> Null]]
    /\ UNCHANGED <<vault, config, backups, installs, moves>>

(* Mutant: one backup of a file is enough. *)
CopyTargetOnce(p) ==
    /\ install[p].pc = "copy"
    /\ LET l == install[p].at IN
          backups' = IF \E b \in backups : b[1] = l THEN backups ELSE backups \cup {<<l, config[l]>>}
    /\ install' = [install EXCEPT ![p].pc = "write", ![p].copied = config[install[p].at]]
    /\ UNCHANGED <<vault, config, installs, moves>>

CopyTarget(p) ==
    /\ install[p].pc = "copy"
    /\ backups' = backups \cup {<<install[p].at, config[install[p].at]>>}
    /\ install' = [install EXCEPT ![p].pc = "write", ![p].copied = config[install[p].at]]
    /\ UNCHANGED <<vault, config, installs, moves>>

WriteTarget(p) ==
    /\ install[p].pc = "write"
    /\ LET i == install[p] IN
          config' = [config EXCEPT ![i.at] = Entered(i.doc, TargetKey(i.at[1]), i.entry, i.spec)]
    /\ Give_up(p)
    /\ UNCHANGED <<vault, backups, installs, moves>>

(* A pull, or `verify --update`: an entry says something else from now on. *)
MoveVault ==
    /\ moves < MaxMoves
    /\ \E e \in Entries, s \in EntryStates :
          vault[e] # s /\ vault' = [vault EXCEPT ![e] = s]
    /\ moves' = moves + 1
    /\ UNCHANGED <<config, backups, install, installs>>

InstallNext ==
    \/ \E p \in Installers :
          StartInstall(p) \/ RunGate(p) \/ Prepare(p) \/ ReadTarget(p)
              \/ CopyTarget(p) \/ WriteTarget(p)
    \/ MoveVault

InstallSpec == InstallInit /\ [][InstallNext]_installVars

-----------------------------------------------------------------------------
Lists(file) == IF file \in {Null, Broken} THEN EmptyDoc ELSE file
Servers(file) ==
    UNION {LET list == Lists(file)[k] IN
              IF IsTable(list) THEN {<<k, n, list[n]>> : n \in DOMAIN list} ELSE {} :
           k \in {"mcpServers", "servers"}}

Writes(p, l) == install[p].pc = "write" /\ install'[p].pc = "idle" /\ install[p].at = l

(* The file is what this install read, and what it made its backup of. *)
Unmoved(p, l) == install[p].doc = Lists(config[l]) /\ install[p].copied = config[l]

(***************************************************************************)
(* An install that finds the file as it read and copied it loses nobody's  *)
(* server: the others stay where they were, and the one it replaces is in  *)
(* a backup.  (lib/hosts.cjs writeServerEntry.  Two installs that overlap  *)
(* in one file may lose a server: the later write is of the older document,*)
(* and its backup of the newer.)                                           *)
(***************************************************************************)
NothingLost ==
    [][\A p \in Installers, l \in Locations :
          Writes(p, l) /\ Unmoved(p, l) =>
             \A s \in Servers(config[l]) \ Servers(config'[l]) :
                /\ s[2] = install[p].entry
                /\ \E b \in backups : b[1] = l /\ s \in Servers(b[2])]_installVars

(***************************************************************************)
(* What an install writes is what every command then reads there: the same *)
(* artifact, under that name - if a VS Code file has no `mcpServers` beside *)
(* the `servers` VS Code reads, for the reader would look only at that.    *)
(* Where the file has an array for a list the server is not kept, though   *)
(* install says `updated` (WrittenIsThere); then the file is one that no   *)
(* reader takes for a setup with no servers.                               *)
(***************************************************************************)
ReadBack(p, l) ==
    \E s \in ReadInstalledServers(config') :
        /\ <<s.host, s.scope>> = l /\ s.name = install[p].entry
        /\ Artifact(s.cmd) = Artifact(ToInstallCmd(install[p].spec))
        /\ install[p].pinned => IsExactVersion(Artifact(s.cmd).version)

WritesWhatIsRead(p, l) ==
    Writes(p, l) /\ (l[1] = "vscode" => install[p].doc.mcpServers = Null)

WrittenIsReadBack ==
    [][\A p \in Installers, l \in Locations :
          WritesWhatIsRead(p, l) =>
             IF install[p].doc[TargetKey(l[1])] = Array
             THEN Unreadable(config'[l]) ELSE ReadBack(p, l)]_installVars

(***************************************************************************)
(* The same of every list: what install reports as written is there.       *)
(* (lib/hosts.cjs: "Add or replace one server in a host's config".  It is  *)
(* not there when the list was an array.)                                  *)
(***************************************************************************)
WrittenIsThere ==
    [][\A p \in Installers, l \in Locations :
          WritesWhatIsRead(p, l) => ReadBack(p, l)]_installVars

(***************************************************************************)
(* What an install writes pinned is what the gate judged.  (orchestrate    *)
(* --install: "the thing that runs is not the thing the gate checked" is   *)
(* why it refuses an unpinned launch.)                                     *)
(***************************************************************************)
InstalledWasJudged ==
    \A p \in Installers :
       (install[p].pc = "write" /\ install[p].pinned) =>
           Artifact(install[p].spec.cmd) = EntryArtifact(install[p].judged)
=============================================================================
