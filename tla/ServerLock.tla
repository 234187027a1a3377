----------------------------- MODULE ServerLock -----------------------------
(***************************************************************************)
(* `mcp-vault lock` (lock.cjs, lib/lockfile.cjs, lib/deps.cjs): the trees  *)
(* the configured servers resolve to, written to mcp.lock.json, checked    *)
(* against it later, and installed from it.  A root is a package at a      *)
(* version; its tree is a set of packages [name, version, integrity,       *)
(* hook], and what npm resolves it to changes while nobody looks.  The     *)
(* approvals in the same file are the subject of ToolApproval.             *)
(***************************************************************************)
EXTENDS Naturals, Sequences, FiniteSets, SequencesExt

CONSTANTS
    Nothing,        \* no file, no tree, no digest, no exit code
    Garbled,        \* a file that is there and does not parse
    Roots,          \* npm packages at an exact version
    Treeless,       \* exact launches of which no tree is resolved: PyPI, images
    Trees,          \* what a root may resolve to
    Digests,        \* digests of a server's tool list, and Nothing
    Setups,         \* what the project may configure: sequences of targets
    MaxRuns, MaxTurns   \* bounds on the commands run and on outside changes

(* Every launch some setup configures: [name, root]. *)
Launches == UNION {Range(c) : c \in Setups \ {Garbled}}
Servers_ == {s.name : s \in Launches}

ASSUME ServerLockAssumption ==
    /\ Nothing \notin {0, 1, 2}           \* an exit code is not Nothing
    /\ Setups \subseteq Seq(Launches) \cup {Garbled}

(* A tree has its root in it, and a package at a version once: npm gives    *)
(* every copy the same bytes ("the second would be a corrupt lock, not a    *)
(* finding", lib/lockfile.cjs).                                             *)
ASSUME TreesAssumption ==
    /\ Nothing \notin Trees /\ Roots \cap Treeless = {}
    /\ \A t \in Trees :
          /\ t # {}
          /\ \A p, q \in t : (p.name = q.name /\ p.version = q.version) => p = q

VARIABLES
    configured,     \* the project's launches, in the order they are read
    registry,       \* root |-> what npm resolves it to; Nothing: it cannot
    surface,        \* server |-> the digest the stored eval has, or Nothing
    lockFile,       \* Nothing, Garbled (torn), or [servers: name |-> record]
    vendored,       \* server |-> the packages under .mcp-vault/, or Nothing
    cmd,            \* the command that runs
    written,        \* <<server, tree>> every lock that was completed (history)
    runs, turns
lockVars == <<configured, registry, surface, lockFile, vendored, cmd, written, runs, turns>>

Idle_ == [pc |-> "idle", exit |-> Nothing]

LockInit ==
    /\ configured \in Setups
    /\ registry \in [Roots -> Trees]
    /\ surface \in [Servers_ -> Digests]
    /\ lockFile = Nothing
    /\ vendored = [n \in Servers_ |-> Nothing]
    /\ cmd = Idle_ /\ written = {} /\ runs = 0 /\ turns = 0

Ended(code) == [Idle_ EXCEPT !.exit = code]

(***************************************************************************)
(* main: the targets, the surfaces the last eval measured and the lock are *)
(* read; what cannot be read ends it.                                      *)
(***************************************************************************)
StartCommand(mode) ==
    /\ cmd.pc = "idle" /\ runs < MaxRuns
    /\ runs' = runs + 1
    /\ cmd' = IF \/ configured \in {Garbled, <<>>} \/ lockFile = Garbled
                 \/ mode # "write" /\ lockFile = Nothing
              THEN Ended(2)
              ELSE [pc |-> IF mode = "vendor" THEN "vendor" ELSE "resolve", mode |-> mode,
                    targets |-> configured, left |-> configured, observed |-> surface,
                    found |-> lockFile, fresh |-> <<>>, errors |-> {}]
    /\ UNCHANGED <<configured, registry, surface, lockFile, vendored, written, turns>>

HasHook(tree) == {<<p.name, p.version>> : p \in {q \in tree : q.hook}}

(***************************************************************************)
(* lockOne: a launch without a version, or a tree that would not resolve,  *)
(* is an error and still a record, without a tree.  A server met again     *)
(* under the same name replaces the first.                                 *)
(***************************************************************************)
LockEntry(t, tree) == [root |-> t.root, tree |-> tree, surface |-> cmd.observed[t.name]]

LockOne ==
    /\ cmd.pc = "resolve" /\ cmd.left # <<>>
    /\ LET t == Head(cmd.left)
           tree == IF t.root \in Roots THEN registry[t.root] ELSE Nothing
           record == LockEntry(t, tree)
       IN  cmd' = [cmd EXCEPT !.left = Tail(@),
                     !.errors = IF tree = Nothing /\ t.root \notin Treeless THEN @ \cup {t.name} ELSE @,
                     !.fresh = [n \in DOMAIN @ \cup {t.name} |-> IF n = t.name THEN record ELSE @[n]]]
    /\ UNCHANGED <<configured, registry, surface, lockFile, vendored, written, runs, turns>>

(***************************************************************************)
(* diffLock: what differs between two records of a server.  A tree is      *)
(* compared by name, then by the versions it has of each, then by the      *)
(* integrity of each version when both sides know it.                      *)
(***************************************************************************)
TreeOf(record) == IF record.tree = Nothing THEN {} ELSE record.tree
TreeIndex(record, name) == {p.version : p \in {q \in TreeOf(record) : q.name = name}}
Integrity(record, name, version) ==
    LET some == {p \in TreeOf(record) : p.name = name /\ p.version = version}
    IN  (CHOOSE p \in some : TRUE).integrity

(* Mutant: hooks are looked for in the packages the tree gained only. *)
DiffServerOfNew(was, now) ==
    LET names(r) == {p.name : p \in TreeOf(r)}
        both == names(was) \cap names(now)
        moved(n) == TreeIndex(was, n) # TreeIndex(now, n)
        swapped(n) == \E v \in TreeIndex(was, n) \cap TreeIndex(now, n) :
                         LET a == Integrity(was, n, v)
                             b == Integrity(now, n, v) IN a # Nothing /\ b # Nothing /\ a # b
    IN  {k \in {"artifact", "tree-added", "tree-removed", "tree-version", "tree-integrity",
                "install-script", "surface-unobserved", "surface"} :
            CASE k = "artifact" -> was.root # now.root
              [] k = "tree-added" -> names(now) \ names(was) # {}
              [] k = "tree-removed" -> names(was) \ names(now) # {}
              [] k = "tree-version" -> \E n \in both : moved(n)
              [] k = "tree-integrity" -> \E n \in both : swapped(n)
              [] k = "install-script" -> \E h \in HasHook(TreeOf(now)) : h[1] \notin names(was)
              [] k = "surface-unobserved" -> was.surface # Nothing /\ now.surface = Nothing
              [] OTHER -> was.surface # Nothing /\ now.surface # Nothing /\ was.surface # now.surface}

DiffServer(was, now) ==
    LET names(r) == {p.name : p \in TreeOf(r)}
        both == names(was) \cap names(now)
        moved(n) == TreeIndex(was, n) # TreeIndex(now, n)
        swapped(n) == \E v \in TreeIndex(was, n) \cap TreeIndex(now, n) :
                         LET a == Integrity(was, n, v)
                             b == Integrity(now, n, v) IN a # Nothing /\ b # Nothing /\ a # b
    IN  {k \in {"artifact", "tree-added", "tree-removed", "tree-version", "tree-integrity",
                "install-script", "surface-unobserved", "surface"} :
            CASE k = "artifact" -> was.root # now.root
              [] k = "tree-added" -> names(now) \ names(was) # {}
              [] k = "tree-removed" -> names(was) \ names(now) # {}
              [] k = "tree-version" -> \E n \in both : moved(n)
              [] k = "tree-integrity" -> \E n \in both : swapped(n)
              [] k = "install-script" -> HasHook(TreeOf(now)) \ HasHook(TreeOf(was)) # {}
              [] k = "surface-unobserved" -> was.surface # Nothing /\ now.surface = Nothing
              [] OTHER -> was.surface # Nothing /\ now.surface # Nothing /\ was.surface # now.surface}

DiffLock(before, after) ==
    {n \in DOMAIN before \cup DOMAIN after :
        \/ n \notin DOMAIN before \cap DOMAIN after
        \/ DiffServer(before[n], after[n]) # {}}

(* --check: any difference, and any server that could not be resolved. *)
EndCheck ==
    /\ cmd.pc = "resolve" /\ cmd.left = <<>> /\ cmd.mode = "check"
    /\ cmd' = Ended(IF DiffLock(cmd.found.servers, cmd.fresh) = {} /\ cmd.errors = {} THEN 0 ELSE 1)
    /\ UNCHANGED <<configured, registry, surface, lockFile, vendored, written, runs, turns>>

(* writeLock truncates the file before it writes: killed between, it is torn. *)
Truncate ==
    /\ cmd.pc = "resolve" /\ cmd.left = <<>> /\ cmd.mode = "write"
    /\ lockFile' = Garbled
    /\ cmd' = [cmd EXCEPT !.pc = "writing"]
    /\ UNCHANGED <<configured, registry, surface, vendored, written, runs, turns>>

WriteLock ==
    /\ cmd.pc = "writing"
    /\ lockFile' = [servers |-> cmd.fresh]
    /\ written' = written \cup {<<n, cmd.fresh[n].tree>> : n \in DOMAIN cmd.fresh}
    /\ cmd' = Ended(0)
    /\ UNCHANGED <<configured, registry, surface, vendored, runs, turns>>

(***************************************************************************)
(* --vendor: `npm ci` of the stored tree of each target, never a resolve.  *)
(* A target that is not locked, or not with a tree, is reported.  npm      *)
(* empties what is installed and puts the packages there one at a time;    *)
(* where it fails (other bytes than the recorded ones, a timeout) or is    *)
(* killed, the packages it got to stay, and vendorOne removes nothing.     *)
(***************************************************************************)
(* Mutant: the locked root is resolved again. *)
VendorFilesResolving(n) ==
    IF n \notin DOMAIN cmd.found.servers THEN Nothing
    ELSE LET record == cmd.found.servers[n] IN
         IF record.root \in Roots /\ record.tree # Nothing THEN registry[record.root] ELSE record.tree

VendorFiles(n) == IF n \in DOMAIN cmd.found.servers THEN cmd.found.servers[n].tree ELSE Nothing

NotVendored(n) == [cmd EXCEPT !.pc = "vendor", !.left = Tail(@), !.errors = @ \cup {n}]

VendorOne ==
    /\ cmd.pc = "vendor" /\ cmd.left # <<>>
    /\ LET n == Head(cmd.left).name IN
          \/ cmd' = NotVendored(n) /\ UNCHANGED vendored
          \/ /\ VendorFiles(n) # Nothing
             /\ vendored' = [vendored EXCEPT ![n] = {}]
             /\ cmd' = [cmd EXCEPT !.pc = "installing"]
    /\ UNCHANGED <<configured, registry, surface, lockFile, written, runs, turns>>

InstallPackage ==
    /\ cmd.pc = "installing"
    /\ LET n == Head(cmd.left).name IN
          \E p \in VendorFiles(n) \ vendored[n] : vendored' = [vendored EXCEPT ![n] = @ \cup {p}]
    /\ UNCHANGED <<configured, registry, surface, lockFile, cmd, written, runs, turns>>

EndInstall ==
    /\ cmd.pc = "installing"
    /\ LET n == Head(cmd.left).name IN
          \/ cmd' = NotVendored(n)
          \/ /\ vendored[n] = VendorFiles(n)
             /\ cmd' = [cmd EXCEPT !.pc = "vendor", !.left = Tail(@)]
    /\ UNCHANGED <<configured, registry, surface, lockFile, vendored, written, runs, turns>>

EndVendor ==
    /\ cmd.pc = "vendor" /\ cmd.left = <<>>
    /\ cmd' = Ended(IF cmd.errors = {} THEN 0 ELSE 1)
    /\ UNCHANGED <<configured, registry, surface, lockFile, vendored, written, runs, turns>>

(* The process is killed: what it held is gone, what it wrote stays. *)
Kill ==
    /\ cmd.pc # "idle"
    /\ cmd' = Idle_
    /\ UNCHANGED <<configured, registry, surface, lockFile, vendored, written, runs, turns>>

(* A dependency is published or withdrawn, bytes change, npm cannot answer. *)
Publish ==
    \E r \in Roots, t \in Trees \cup {Nothing} :
        registry[r] # t /\ registry' = [registry EXCEPT ![r] = t]
        /\ UNCHANGED <<configured, surface, lockFile>>
EditSetup ==
    \E c \in Setups : configured # c /\ configured' = c
        /\ UNCHANGED <<registry, surface, lockFile>>
Measure ==
    \E n \in Servers_, d \in Digests : surface[n] # d /\ surface' = [surface EXCEPT ![n] = d]
        /\ UNCHANGED <<configured, registry, lockFile>>
(* Somebody deletes a lock file that no command would read. *)
RemoveTorn ==
    /\ lockFile = Garbled /\ cmd.pc = "idle" /\ lockFile' = Nothing
    /\ UNCHANGED <<configured, registry, surface>>
Outside ==
    /\ turns < MaxTurns
    /\ turns' = turns + 1
    /\ Publish \/ EditSetup \/ Measure \/ RemoveTorn
    /\ UNCHANGED <<vendored, cmd, written, runs>>

LockNext ==
    \/ \E mode \in {"write", "check", "vendor"} : StartCommand(mode)
    \/ LockOne \/ EndCheck \/ Truncate \/ WriteLock \/ VendorOne
    \/ InstallPackage \/ EndInstall \/ EndVendor \/ Kill \/ Outside

LockSpec == LockInit /\ [][LockNext]_lockVars

-----------------------------------------------------------------------------
(* Two trees with the same packages: none gained a hook, none other bytes. *)
SameTree(was, now) ==
    /\ {<<p.name, p.version>> : p \in was} = {<<p.name, p.version>> : p \in now}
    /\ \A p \in was, q \in now :
          (p.name = q.name /\ p.version = q.version) =>
              /\ p.integrity = q.integrity \/ Nothing \in {p.integrity, q.integrity}
              /\ q.hook => p.hook

(* The check under way ends well. *)
Passes(mode) ==
    /\ cmd.pc # "idle" /\ cmd.mode = mode
    /\ cmd'.pc = "idle" /\ cmd'.exit = 0

(***************************************************************************)
(* A check that passes has resolved every npm server it read, and each of  *)
(* them is locked with that tree; nothing else is locked.  (lock.cjs: "we  *)
(* don't know" is not a yes.  Of two launches under one name only the last *)
(* was compared: see ConfiguredIsChecked.)                                 *)
(***************************************************************************)
CheckedIsLocked ==
    [][Passes("check") =>
          LET last(i) == \A j \in DOMAIN cmd.targets :
                            cmd.targets[j].name = cmd.targets[i].name => j <= i
              locked == cmd.found.servers
          IN  /\ DOMAIN locked = {cmd.targets[i].name : i \in DOMAIN cmd.targets}
              /\ \A i \in DOMAIN cmd.targets :
                    LET n == cmd.targets[i].name IN
                    /\ cmd.targets[i].root \in Roots \cup Treeless
                    /\ last(i) =>
                          /\ locked[n].root = cmd.targets[i].root
                          /\ locked[n].root \in Roots =>
                                /\ locked[n].tree # Nothing
                                /\ SameTree(locked[n].tree, cmd.fresh[n].tree)]_lockVars

(***************************************************************************)
(* What is vendored are packages of a tree that some `lock` recorded for   *)
(* that server, whatever was published, edited or killed since; and a      *)
(* --vendor that ends well has installed the whole tree of the lock it     *)
(* read, for every target.  (lock.cjs vendorOne: a vendor step that        *)
(* re-resolves is just a slower `npx`.)                                    *)
(***************************************************************************)
WasLocked(n, packages, locked) ==
    \E w \in locked : w[1] = n /\ w[2] # Nothing /\ packages \subseteq w[2]

VendoredWasLocked ==
    [][/\ \A n \in Servers_ : vendored'[n] # Nothing => WasLocked(n, vendored'[n], written')
       /\ Passes("vendor") =>
             \A i \in DOMAIN cmd.targets :
                LET n == cmd.targets[i].name IN
                vendored[n] # Nothing /\ vendored[n] = cmd.found.servers[n].tree]_lockVars

(***************************************************************************)
(* Every launch the project configures is the locked one when the check    *)
(* passes.  (lock.cjs: "write mcp.lock.json for the servers this project   *)
(* configures", "exit 1 on any difference".)                               *)
(***************************************************************************)
ConfiguredIsChecked ==
    [][Passes("check") =>
          \A i \in DOMAIN cmd.targets :
              cmd.found.servers[cmd.targets[i].name].root = cmd.targets[i].root]_lockVars
=============================================================================
