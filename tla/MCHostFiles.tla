----------------------------- MODULE MCHostFiles -----------------------------
(***************************************************************************)
(* The two commands that write a file other programs read: `install`, the  *)
(* hosts' configs, and `lock`, mcp.lock.json and the trees under           *)
(* .mcp-vault/.  They share no file, so a behaviour is about one of them.  *)
(***************************************************************************)
EXTENDS Install, ServerLock

VARIABLE part   \* which of the two a behaviour is about

vars == <<part, installVars, lockVars>>

Npx(name, version) == [runner |-> "npx", argv |-> <<Flag("bool", FALSE), Spec_(name, version)>>]
Image(name, version) == [runner |-> "docker", argv |-> <<Flag("bool", FALSE), Spec_(name, version)>>]
Launched(line) == [cmd |-> line, movedByEnv |-> FALSE]

(* An entry, a later version of it, and one that cannot be pinned. *)
MCEntryStates ==
    {[cmd |-> Npx("p", Null), version |-> "1.0.0", tools |-> 1],
     [cmd |-> Npx("p", "1.0.0"), version |-> "2.0.0", tools |-> 2],
     [cmd |-> Image("q", "1.0.0"), version |-> Null, tools |-> 1]}

(* The entries are written as those of the vault are.                       *)
ASSUME EntriesArePlain == \A s \in EntryStates : PlainEntry(s)

MCTargets == {<<"claude-code", "project">>, <<"vscode", "project">>, <<"codex", "user">>, <<"codex", "project">>}

(* A config of one's own and an older launch of the entry; both keys used. *)
Own == [EmptyDoc EXCEPT !.mcpServers = "own" :> Launched(Npx("q", "1.0.0")) @@ "gh" :> Launched(Npx("p", "latest"))]
MCFirstConfig ==
    {[l \in Locations |-> CASE l = <<"claude-code", "project">> -> a
                            [] l = <<"vscode", "project">> -> b [] OTHER -> Null] :
        a \in {Null, Broken, Own, [EmptyDoc EXCEPT !.mcpServers = Odd], [EmptyDoc EXCEPT !.mcpServers = Array]},
        b \in {Null, [mcpServers |-> "own" :> Remote, servers |-> "gh" :> Remote], [EmptyDoc EXCEPT !.servers = Array]}}

(* A dependency at one version, with other bytes, with a hook, twice. *)
Package(version, integrity, hook) ==
    [name |-> "lib", version |-> version, integrity |-> integrity, hook |-> hook]
MCTrees ==
    {{Package(1, "x", FALSE)}, {Package(1, "y", FALSE)}, {Package(1, Nothing, TRUE)},
     {Package(2, "x", FALSE), Package(1, "x", FALSE)}}
Server(name, root) == [name |-> name, root |-> root]
MCSetups ==
    {<<Server("a", "p1")>>, <<Server("a", "p1"), Server("b", "img")>>, <<Server("a", "p1"), Server("a", "q1")>>,
     <<Server("a", "unpinned")>>, Garbled}

Init ==
    /\ InstallInit /\ LockInit
    /\ part \in {"install", "lock"}
    /\ part = "lock" =>
          vault = CHOOSE v \in [Entries -> EntryStates] : TRUE
    /\ part = "lock" => config = [l \in Locations |-> Null]
    /\ part = "install" => configured = Garbled
    /\ registry = CHOOSE r \in [Roots -> Trees] : TRUE
    /\ surface = [n \in Servers_ |-> Nothing]

Installing == part = "install" /\ InstallNext /\ UNCHANGED <<part, lockVars>>
Locking == part = "lock" /\ LockNext /\ UNCHANGED <<part, installVars>>
Next == Installing \/ Locking

Spec == Init /\ [][Next]_vars
=============================================================================
