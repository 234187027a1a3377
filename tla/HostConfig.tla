----------------------------- MODULE HostConfig -----------------------------
(***************************************************************************)
(* The server lists MCP hosts keep, as lib/hosts.cjs writes them and       *)
(* lib/installed.cjs reads them, and lib/entry_match.cjs: which entry of   *)
(* the vault a configured launch is.                                       *)
(*                                                                         *)
(* A file is Null when it is missing, Broken when it does not parse, and   *)
(* otherwise a document with the two keys a server list may stand under.   *)
(* A list maps names to specs: what is launched and whether the            *)
(* environment moves the package source, or Remote when no registry        *)
(* package is launched.  A list or a spec of the wrong type is Odd; a list *)
(* written as an array is apart, since a write keeps it.                   *)
(***************************************************************************)
EXTENDS Launch, FiniteSets, TLC

CONSTANTS
    Broken,     \* a file that is there and does not parse
    Odd,        \* a list or a spec that is not an object
    Array,      \* a list that is an array
    Remote      \* a server reached by URL, or a local command

ASSUME HostConfigConstants == Null \notin {Broken, Array}

HostScopes ==
    [h \in {"claude-code", "claude-desktop", "cursor", "vscode", "codex"} |->
        CASE h \in {"claude-code", "cursor"} -> {"project", "user"}
          [] h = "vscode" -> {"project"}
          [] OTHER -> {"user"}]

(* The order readInstalledServers visits the files in. *)
HostConfigPaths ==
    <<<<"claude-code", "project">>, <<"claude-code", "user">>, <<"claude-desktop", "user">>,
      <<"cursor", "project">>, <<"cursor", "user">>, <<"vscode", "project">>, <<"codex", "user">>>>
Locations == {HostConfigPaths[i] : i \in DOMAIN HostConfigPaths}

TargetKey(host) == IF host = "vscode" THEN "servers" ELSE "mcpServers"

ResolveTarget(host, scope) ==
    IF host \in DOMAIN HostScopes /\ scope \in HostScopes[host] THEN <<host, scope>> ELSE Null

EmptyDoc == [mcpServers |-> Null, servers |-> Null]
IsTable(list) == list \notin {Null, Odd, Array}

TableOf(list) == IF IsTable(list) THEN list ELSE <<>>

(* Mutant: what the file says of the name stays in force. *)
EnteredUnder(doc, key, name, spec) ==
    LET was == TableOf(doc[key])
    IN  IF doc[key] = Array THEN doc
        ELSE [doc EXCEPT ![key] = [n \in DOMAIN was \cup {name} |->
                                IF n \in DOMAIN was THEN was[n] ELSE spec]]

(***************************************************************************)
(* One server added or replaced in a document; the other key is left alone. *)
(* A list that is no object is begun anew, but an array is kept: the server *)
(* is set on it as a property, and the file is written without it.          *)
(***************************************************************************)
Entered(doc, key, name, spec) ==
    LET was == TableOf(doc[key])
    IN  IF doc[key] = Array THEN doc
        ELSE [doc EXCEPT ![key] = [n \in DOMAIN was \cup {name} |->
                                IF n = name THEN spec ELSE was[n]]]

-----------------------------------------------------------------------------
(* The list a document is read from: `servers` only without `mcpServers`. *)
ListOf(doc) == IF doc.mcpServers # Null THEN doc.mcpServers ELSE doc.servers

(* The servers read from one file, and whether all of it could be read. *)
ParseConfig(file) ==
    IF file = Null THEN <<>>
    ELSE IF file = Broken \/ ~IsTable(ListOf(file)) THEN <<>>
    ELSE LET list == ListOf(file)
         IN  [n \in {x \in DOMAIN list : list[x] # Odd} |-> list[n]]

Unreadable(file) ==
    /\ file # Null
    /\ \/ file = Broken
       \/ ListOf(file) \in {Odd, Array}
       \/ IsTable(ListOf(file)) /\ \E n \in DOMAIN ListOf(file) : ListOf(file)[n] = Odd

(***************************************************************************)
(* The command of a configured server in the shape the gate reads, or Null *)
(* when there is no package to look up.  An environment that moves the     *)
(* package source becomes the option it stands for, and a launch that      *)
(* cannot be read keeps its words, so that nobody takes it for clean.      *)
(***************************************************************************)
ToInstallCmd(spec) ==
    IF spec \in {Remote, Odd} THEN Null
    ELSE LET cmd == spec.cmd
             l == ParseLaunch(cmd)
         IN  CASE cmd.runner = "docker" -> cmd
               [] cmd.runner # "docker" /\ spec.movedByEnv ->
                    [cmd EXCEPT !.argv = <<Flag("source", TRUE)>> \o @]
               [] OTHER -> IF l.error THEN cmd ELSE CanonicalInstallCmd(cmd.runner, l)

(* Every configured server, in the order the files are visited. *)
ReadInstalledServers(config) ==
    UNION {LET read == ParseConfig(config[l])
           IN  {[host |-> l[1], scope |-> l[2], name |-> n, cmd |-> ToInstallCmd(read[n])] :
                    n \in DOMAIN read} : l \in Locations}

-----------------------------------------------------------------------------
(* What a command runs: the package it names, and at which version. *)
LaunchedArtifact(l) ==
    [package |-> PackageRead(l), version |-> IF l.error THEN Null ELSE l.version]
ImageArtifact(image) ==
    IF image = <<>> THEN [package |-> Null, version |-> Null]
    ELSE [package |-> image[1].name, version |-> image[1].version]
Artifact(cmd) ==
    IF cmd = Null THEN [package |-> Null, version |-> Null]
    ELSE IF cmd.runner = "docker" THEN ImageArtifact(DockerImage(cmd.argv))
    ELSE LaunchedArtifact(ParseLaunch(cmd))

(* An entry's artifact: the verified version outranks the one in its command. *)
EntryArtifact(entry) ==
    LET a == Artifact(entry.cmd)
    IN  IF entry.cmd.runner = "docker" \/ entry.version = Null THEN a
        ELSE [a EXCEPT !.version = entry.version]

(* An entry names one artifact: its command and its verified version do not *)
(* disagree, and one of them gives a version.                               *)
NamesOne(entry) ==
    LET asked == Artifact(entry.cmd).version
    IN  entry.cmd.runner # "docker" =>
            /\ asked # Null \/ entry.version # Null
            /\ Null \in {asked, entry.version} \/ asked = entry.version

SameArtifact(a, entry) ==
    /\ a.package # Null /\ IsExactVersion(a.version)
    /\ NamesOne(entry) /\ a = EntryArtifact(entry)

(***************************************************************************)
(* The entry that a launch runs, by package and never by the name it is    *)
(* configured under; of several, the one pinning the launched version.     *)
(* "unknown": the entry itself does not name one artifact.                 *)
(***************************************************************************)
MatchLaunch(vault, cmd) ==
    LET a == Artifact(cmd)
        alike == {e \in DOMAIN vault : EntryArtifact(vault[e]).package = a.package}
        exact == {e \in alike : SameArtifact(a, vault[e])}
        some(S) == CHOOSE e \in S : TRUE
    IN  IF a.package = Null \/ alike = {} THEN [entry |-> Null, version |-> "none"]
        ELSE IF exact # {} THEN [entry |-> some(exact), version |-> "same"]
        ELSE [entry |-> some(alike),
              version |-> IF NamesOne(vault[some(alike)]) THEN "different" ELSE "unknown"]

(* A registry launch that was read and asks for no exact version: of the    *)
(* server's own package, or of one (`only`) of several it installs.         *)
UnpinnedLaunch(spec, only) ==
    /\ spec \notin {Remote, Odd}
    /\ spec.cmd.runner # "docker"
    /\ LET l == ParseLaunch(spec.cmd)
           pick == SelectSeq(l.packages, LAMBDA w : w.name = only)
       IN  /\ ~l.error
           /\ IF only = Null THEN ~IsExactVersion(l.version)
              ELSE pick # <<>> /\ ~IsExactVersion(Head(pick).version)
=============================================================================
