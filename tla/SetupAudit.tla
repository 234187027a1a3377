----------------------------- MODULE SetupAudit -----------------------------
(***************************************************************************)
(* `mcp-vault audit` (audit_setup.cjs) and `mcp-vault status` (status.cjs) *)
(* over the same host configs: what each says of every configured server,  *)
(* of the set, and which exit code the Decision gives.  Both are one pure  *)
(* reading of a setup, a record:                                           *)
(*   config    location |-> the host's file                                *)
(*   vault     entry |-> [cmd, version, tools, trust, category, gone,      *)
(*             stale, surface, measured]                                   *)
(*   settings  .claude/settings.json: Null, Broken, or [enabled, allowed]  *)
(*   policy    [strict, toxicFlows, toolShadowing, broken]                 *)
(*   plain     a plain-text secret stands in some host config              *)
(*   vouched   the names given with --allow-lookalike                      *)
(*   scoped    the servers whose own arguments narrow their tools          *)
(*   failing   a required check of the environment fails                   *)
(***************************************************************************)
EXTENDS HostConfig

CONSTANTS
    Shaped,     \* <<package, entry>>: names shaped like an entry's package
    MinNear,    \* shortest tool name compared (Flows)
    HeavyThreshold

F == INSTANCE Flows
L == INSTANCE Lookalike WITH Letters <- {"o"}, Publishers <- {}, MinCore <- 1

ProjectFile == <<"claude-code", "project">>
GlobalFile == <<"claude-code", "user">>
ProjectScoped == {"vcs", "pm"}

(***************************************************************************)
(* The servers of one file.  A missing file has none; anything else that   *)
(* gives none is a question left open.  Only `mcpServers` is looked at; an *)
(* entry that is not an object stays, and is one more open question.       *)
(***************************************************************************)
ServersFrom(file) ==
    IF file \in {Null, Broken} \/ ~IsTable(file.mcpServers) THEN <<>> ELSE file.mcpServers

(* Mutant: a file that does not parse is a file with no servers. *)
AuditUnreadableLenient(s) ==
    {l \in {ProjectFile, GlobalFile} :
        LET file == s.config[l] IN
        file \notin {Null, Broken} /\ file.mcpServers \in {Odd, Array}}

AuditUnreadable(s) ==
    {l \in {ProjectFile, GlobalFile} :
        LET file == s.config[l] IN
        /\ file # Null
        /\ \/ file = Broken \/ file.mcpServers \in {Odd, Array}
           \/ IsTable(file.mcpServers) /\ \E n \in DOMAIN file.mcpServers : file.mcpServers[n] = Odd}
    \cup (IF s.settings = Broken THEN {<<"claude-code", "settings">>} ELSE {})

Settings(s) ==
    IF s.settings \in {Null, Broken} THEN [enabled |-> Null, allowed |-> {}] ELSE s.settings

(* The first word of a command that carries a version, read as it stands. *)
TokenVersion(cmd) ==
    LET shown(w) == /\ w.kind = "spec" /\ w.version # Null
                    /\ cmd.runner = "uvx" => w.version # "range"
                    /\ cmd.runner = "docker" => IsExactVersion(w.version)
        some == SelectSeq(cmd.argv, shown)
    IN  IF some = <<>> THEN Null ELSE Head(some).version

(* What the names say of a server that runs the package of entry `known`   *)
(* (lib/lookalike.cjs, the comparison itself left to Shaped).              *)
PackageCheck(package, known) ==
    IF package = Null THEN Null
    ELSE [known |-> known,
          matches |-> IF known # Null THEN {}
                      ELSE {<<p[2], "shaped">> : p \in {x \in Shaped : x[1] = package}}]

LookalikeOf(vault, name, cmd, known) ==
    L!CheckServer(PackageCheck(Artifact(cmd).package, known), cmd # Null,
                  [known |-> IF name \in DOMAIN vault THEN name ELSE Null, matches |-> {}],
                  IF known = name THEN known ELSE Null, DOMAIN vault)

(***************************************************************************)
(* Does the entry's server show more tools than anyone bounded?  A count   *)
(* measured by a passing eval only ever raises the entry's own; an entry   *)
(* without one is heavy, and a first page is never small enough.           *)
(***************************************************************************)
IsHeavy(entry) ==
    \/ entry.tools = Null
    \/ entry.measured # Null
         /\ (entry.measured.truncated \/ entry.measured.count > HeavyThreshold)
    \/ entry.tools > HeavyThreshold

Bounded(s, name) ==
    \/ name \in s.scoped
    \/ name \in Settings(s).allowed
    \/ Settings(s).enabled # Null /\ name \notin Settings(s).enabled

(* The user vouched for the server's key, or for the package it launches. *)
Vouched(s, name, cmd) ==
    name \in s.vouched \/ (cmd # Null /\ Artifact(cmd).package \in s.vouched)

(* What is told of a server that runs the entry `match` names. *)
EntryCategories(s, l, name, spec, match) ==
    LET entry == s.vault[match.entry]
        pinned == TokenVersion(entry.cmd)
        here == TokenVersion(spec.cmd)
    IN  {x \in {"drift", "version-unknown", "untrusted", "heavy-unbounded", "scope"} :
            CASE x = "drift" -> pinned # Null /\ here # Null /\ match.version # "same" /\ pinned # here
              [] x = "version-unknown" -> pinned # Null /\ here = Null
              [] x = "untrusted" -> entry.trust = "candidate"
              [] x = "heavy-unbounded" -> IsHeavy(entry) /\ ~Bounded(s, name)
              [] OTHER -> l = GlobalFile /\ entry.category \in ProjectScoped}

ServerCategories(s, l, name, spec, cmd, match) ==
    IF LookalikeOf(s.vault, name, cmd, match.entry) # Null
    THEN {IF Vouched(s, name, cmd) THEN "lookalike-allowed" ELSE "lookalike"}
    ELSE IF match.entry = Null THEN {"unknown"} ELSE EntryCategories(s, l, name, spec, match)

(* The rows of one server: <<category, server, location>>. *)
AuditServer(s, l, name) ==
    LET spec == ServersFrom(s.config[l])[name]
        cmd == ToInstallCmd(spec)
    IN  {<<c, name, l>> : c \in ServerCategories(s, l, name, spec, cmd, MatchLaunch(s.vault, cmd))}

(* The project's servers first; a name met there is not looked at again. *)
Audited(s) ==
    LET project == DOMAIN ServersFrom(s.config[ProjectFile])
    IN  {<<ProjectFile, n>> : n \in project}
        \cup {<<GlobalFile, n>> : n \in (DOMAIN ServersFrom(s.config[GlobalFile])) \ project}
Audit(s) == UNION {AuditServer(s, p[1], p[2]) : p \in Audited(s)}

-----------------------------------------------------------------------------
(* One server of a set, as lib/flows.cjs takes it, by the entry it runs. *)
MemberOf(vault, name, e) ==
    [name |-> name, entry |-> e, category |-> IF e = Null THEN "none" ELSE vault[e].category,
     measured |-> e # Null /\ vault[e].surface # {},
     tools |-> IF e = Null THEN {} ELSE vault[e].surface, found |-> {}]
MemberFrom(vault, name, cmd) == MemberOf(vault, name, MatchLaunch(vault, cmd).entry)

(* What decide() makes of the analysis of one set, by the policy's words. *)
JudgeAnalysis(policy, a) ==
    {F!SetJudged(policy.toxicFlows, f.confidence) : f \in a.flows}
    \cup {F!SetJudged(policy.toolShadowing, c.confidence) : c \in a.shadowing}
JudgeSet(s, members) == JudgeAnalysis(s.policy, F!AnalyseSet(SetToSeq(members)))

(* The session: what the audit reads, minus project servers switched off. *)
SessionMembers(s) ==
    LET loaded == {p \in Audited(s) :
                    /\ ServersFrom(s.config[p[1]])[p[2]] # Odd
                    /\ ~(p[1] = ProjectFile /\ Settings(s).enabled # Null /\ p[2] \notin Settings(s).enabled)}
    IN  {MemberFrom(s.vault, p[2], ToInstallCmd(ServersFrom(s.config[p[1]])[p[2]])) : p \in loaded}

(***************************************************************************)
(* The exit code of a decision in mode "setup": a deny fails, a warning or *)
(* an unknown fails under --strict, a question left open is 2 when nothing *)
(* fails.  `effects` are those of every row a threshold can reach.         *)
(***************************************************************************)
SetupExit(s, effects, open) ==
    IF "fail" \in effects \/ (s.policy.strict /\ effects \cap {"warn", "unknown"} # {}) THEN 1
    ELSE IF open THEN 2 ELSE 0

RowEffect(category) ==
    CASE category \in {"drift", "untrusted", "heavy-unbounded", "lookalike"} -> "warn"
      [] category = "unknown" -> "unknown"
      [] OTHER -> "allow"

AuditExit(s) ==
    SetupExit(s, {RowEffect(r[1]) : r \in Audit(s)} \cup JudgeSet(s, SessionMembers(s))
                 \cup (IF s.plain THEN {"fail"} ELSE {})
                 \cup (IF s.policy.broken THEN {"warn"} ELSE {}),
              AuditUnreadable(s) # {})

-----------------------------------------------------------------------------
(* status: what every host launches, and what the vault knows of that.  An *)
(* entry that names no one artifact leaves the question open: the vault is *)
(* at fault, not the setup.                                                *)
InstalledAs(s, i, m) ==
    [name |-> i.name, host |-> i.host, cmd |-> i.cmd, entry |-> m.entry, version |-> m.version,
     finding |-> IF m.entry = Null THEN "not-in-vault"
                 ELSE IF m.version = "unknown" THEN "unanswered"
                 ELSE IF s.vault[m.entry].gone THEN "deprecated"
                 ELSE IF m.version # "same" THEN "drift"
                 ELSE IF s.vault[m.entry].stale THEN "stale" ELSE "none"]
Installed(s) == {InstalledAs(s, i, MatchLaunch(s.vault, i.cmd)) : i \in ReadInstalledServers(s.config)}
StatusUnreadable(s) == {l \in Locations : Unreadable(s.config[l])}

(* Per host, since that is what shares a context; switched off or not. *)
HostMembers(s, host) ==
    {MemberFrom(s.vault, r.name, r.cmd) : r \in {x \in Installed(s) : x.host = host}}

(* Mutant: one category of the audit was left off the list. *)
LegacyRowsShort(s) ==
    {r \in Audit(s) :
        /\ r[1] \in {"lookalike", "lookalike-allowed", "drift", "heavy-unbounded"}
        /\ r[1] = "drift" => \A i \in Installed(s) : i.name = r[2] => i.version = "same"}

(* The audit's rows that status shows, less the drift it already told. *)
LegacyRows(s) ==
    {r \in Audit(s) :
        /\ r[1] \in {"lookalike", "lookalike-allowed", "drift", "untrusted", "heavy-unbounded"}
        /\ r[1] = "drift" => \A i \in Installed(s) : i.name = r[2] => i.version = "same"}

StatusEffect(finding) ==
    CASE finding = "deprecated" -> "fail"
      [] finding = "not-in-vault" -> "unknown"
      [] finding \in {"drift", "stale"} -> "warn"
      [] OTHER -> "allow"

StatusExit(s) ==
    SetupExit(s, {StatusEffect(i.finding) : i \in Installed(s)}
                 \cup {RowEffect(IF r[1] = "lookalike-allowed" THEN "lookalike" ELSE r[1]) : r \in LegacyRows(s)}
                 \cup (UNION {JudgeSet(s, HostMembers(s, h)) : h \in DOMAIN HostScopes})
                 \cup (IF s.plain \/ s.failing THEN {"fail"} ELSE {})
                 \cup (IF s.policy.broken THEN {"warn"} ELSE {}),
              \/ StatusUnreadable(s) # {} \/ AuditUnreadable(s) # {}
              \/ \E i \in Installed(s) : i.finding = "unanswered")

-----------------------------------------------------------------------------
(***************************************************************************)
(* A strict audit that passes has read every file, and each server it read *)
(* runs an entry of the vault that is no candidate - or is one the user    *)
(* vouched for.  A version it launches is the vault's, unless the vault's  *)
(* command names none, the two commands are spelled with the same one, or  *)
(* the audit said that it cannot tell.  (audit_setup.cjs: "a config we     *)
(* could not read is still not a clean config".)                           *)
(***************************************************************************)
StrictAuditIsEarned(s) ==
    (s.policy.strict /\ AuditExit(s) = 0) =>
        /\ \A l \in {ProjectFile, GlobalFile} : s.config[l] # Broken /\ ~s.plain
        /\ \A p \in Audited(s) :
              LET spec == ServersFrom(s.config[p[1]])[p[2]]
                  cmd == ToInstallCmd(spec)
                  m == MatchLaunch(s.vault, cmd)
                  pinned == TokenVersion(s.vault[m.entry].cmd)
              IN  /\ spec # Odd
                  /\ \/ Vouched(s, p[2], cmd)
                     \/ /\ m.entry # Null /\ s.vault[m.entry].trust # "candidate"
                        /\ (Artifact(cmd).version # Null /\ IsExactVersion(pinned)) =>
                              \/ m.version = "same" \/ TokenVersion(spec.cmd) = pinned
                              \/ <<"version-unknown", p[2], p[1]>> \in Audit(s)

(***************************************************************************)
(* `status` composes the audit: where the audit of a setup does not exit   *)
(* clean, neither does status, though it drops rows of the audit it has    *)
(* told itself and reads the files by another reader.  (status.cjs         *)
(* statusModel: one decide() call answers for all of them.)                *)
(***************************************************************************)
StatusAgreesWithAudit(s) == StatusExit(s) = 0 => AuditExit(s) = 0
=============================================================================
