----------------------------- MODULE MCReadings -----------------------------
(***************************************************************************)
(* The inputs the readings are checked on, kind by kind.                   *)
(***************************************************************************)
EXTENDS Readings

MCLicenseClass ==
    [l \in {"MIT", "Apache-2.0", "BSL-1.1", "none"} |->
        CASE l \in {"MIT", "Apache-2.0"} -> "osi" [] l = "BSL-1.1" -> "restrictive" [] OTHER -> "unknown"]

UpTo(S, from, n) == UNION {[1 .. k -> S] : k \in from .. n}

-----------------------------------------------------------------------------
(* Versions: what differs in one place or two. *)
NpmVersions ==
    {Npm(<<1, x, 0>>, pre) : x \in {0, 9, 10}, pre \in {<<>>, <<N(1)>>, <<W(1)>>, <<W(1), N(2)>>, <<W(1), N(10)>>}}
    \cup {Odd}
PyVersions ==
    {Py(<<1>>, pre, post, dev) : pre \in {Null, <<0, 1>>, <<2, 1>>}, post \in {Null, 1}, dev \in {Null, 1}}
    \cup {Py(<<1, 0>>, Null, Null, Null), Py(<<1, 10>>, Null, Null, 1), Odd,
          [Py(<<1>>, Null, Null, Null) EXCEPT !.local = "l"], [Py(<<0, 9>>, Null, Null, Null) EXCEPT !.epoch = 1]}

-----------------------------------------------------------------------------
(* Sets of two and three servers; pairs of servers with two tools each. *)
Tool(words) == [words |-> words, hints |-> {}, norm |-> <<"a", "b">>, style |-> "snake", mentions |-> {}]
Shapes ==
    [category : {"browser", "database", "utility", "none"}, measured : {TRUE}, found : {{}, {"fs_read"}, {"shell"}},
     tools : {{}, {Tool({"get", "issue"})}, {Tool({"delete", "file"})},
              {[Tool({"get", "secret"}) EXCEPT !.hints = {"openWorld"}]}}]
Member(n, shape) == [name |-> n, entry |-> Null] @@ shape
Sets ==
    {<<Member("s1", x), Member("s2", y)>> : x \in Shapes, y \in Shapes}
    \cup {<<Member("s1", x), Member("s2", y), Member("s3", z)>> :
              x \in Shapes, y \in Shapes, z \in {s \in Shapes : s.tools = {} /\ s.category # "utility"}}

Named(norm, style) == [Tool({"get"}) EXCEPT !.norm = norm, !.style = style]
ToolPairs ==
    {<<[tools |-> {Named(a, "snake"), Named(b, "snake")}], [tools |-> {Named(x, "camel"), Named(y, "snake")}]>> :
        a \in UpTo({"a", "b"}, 0, 3), b \in {<<"a", "b">>, <<"a", "b", "a">>},
        x \in UpTo({"a", "b"}, 0, 3), y \in {<<"a", "b">>, <<"b", "a">>}}

-----------------------------------------------------------------------------
(* Names near those of three entries: two npm packages and an image. *)
Listed(db, kind, scope, base) == [db |-> db, kind |-> kind, registry |-> Null, scope |-> scope, base |-> base]
Index ==
    <<Listed("e1", "name", Null, <<"a">>), Listed("e1", "npm", Null, <<"mcp", "a", "o">>),
      Listed("e2", "name", Null, <<"o", "a">>), Listed("e2", "npm", <<"a", "a">>, <<"o", "a", "a">>),
      Listed("e3", "name", Null, <<"o", "o">>), Listed("e3", "oci", <<"a">>, <<"o", "a">>)>>
Bases(n) == UpTo({"a", "o", "0", "-", "mcp"}, 1, n)
Name(registry, scope, base) == [registry |-> registry, scope |-> scope, base |-> base]
Packages ==
    {<<Name(Null, s, b), "npm">> : s \in {Null, <<"a", "a">>, <<"a", "o">>}, b \in Bases(3)}
    \cup {<<Name(r, <<"a">>, b), "oci">> : r \in {Null, "ghcr"}, b \in Bases(3)}

-----------------------------------------------------------------------------
(* Setups: two files of one host, two entries, three policies. *)
MCShaped == {<<"r", "s1">>}
Npx(name, version) == [runner |-> "npx", argv |-> <<Flag("bool", FALSE), Spec_(name, version)>>]
Launched(name, version) == [cmd |-> Npx(name, version), movedByEnv |-> FALSE]
(* The version inside an option's word, or after an image's name. *)
Inside(name, version) ==
    [cmd |-> [runner |-> "npx", argv |-> <<Word("package", TRUE, name, version), Spec_(name, Null)>>],
     movedByEnv |-> FALSE]
Image(name, tag) == [cmd |-> [runner |-> "docker", argv |-> <<Spec_(name, tag)>>], movedByEnv |-> FALSE]
Entry(cmd, trust, category) ==
    [cmd |-> cmd, version |-> "1.0.0", tools |-> 3, trust |-> trust, category |-> category,
     gone |-> FALSE, stale |-> FALSE, surface |-> {}, measured |-> Null]
Vaults ==
    {[e \in {"s1", "s2"} |->
        CASE e = "s1" -> Entry(Npx("p", "1.0.0"), "verified", "database")
          [] e = "s2" -> [Entry(Npx("q", "1.0.0"), trust, category) EXCEPT !.gone = gone, !.surface = tools]] :
     trust \in {"verified", "candidate"}, category \in {"vcs", "browser"}, gone \in BOOLEAN,
     tools \in {{}, {Tool({"get", "secret"})}}}
Table(servers) == [mcpServers |-> servers, servers |-> Null]
Files ==
    {Null, Broken, Table(Odd), Table(Array), [mcpServers |-> Null, servers |-> "s1" :> Launched("p", "2.0.0")]}
    \cup {Table(n :> x) : n \in {"s1", "x"},
             x \in {Launched("p", "2.0.0"), Launched("q", "1.0.0"), Launched("q", Null), Launched("r", "1.0.0"), Odd}}
    \cup {Table("s1" :> x) : x \in {Inside("p", "2.0.0"), Image("p", "latest")}}
    \cup {Table("s1" :> Launched("p", "1.0.0") @@ "s2" :> Launched("q", "1.0.0")), Table("x" :> Remote)}
Setups ==
    [config : {[l \in Locations |-> CASE l = ProjectFile -> a [] l = GlobalFile -> b [] OTHER -> Null] :
                  a \in Files, b \in Files},
     vault : Vaults, settings : {Null, Broken, [enabled |-> {"s1"}, allowed |-> {}]},
     policy : {[strict |-> s, toxicFlows |-> "warn", toolShadowing |-> "fail", broken |-> FALSE] : s \in BOOLEAN},
     plain : {FALSE}, vouched : {{}, {"x"}}, scoped : {{}}, failing : {FALSE}]
(* Entries that name no one artifact, and one with many tools. *)
Unsettled ==
    {[e \in {"s1", "s2"} |->
        CASE e = "s1" -> [Entry(Npx("p", "1.0.0"), "verified", "database") EXCEPT !.tools = 20]
          [] e = "s2" -> [Entry(Npx("q", asked), "verified", "vcs") EXCEPT !.version = verified]] :
     asked \in {"1.0.0", Null}, verified \in {"2.0.0", Null}}
UnsettledSetups ==
    [config : {[l \in Locations |-> CASE l = ProjectFile -> a [] l = GlobalFile -> b [] OTHER -> Null] :
                  a \in Files, b \in {Null, Table("s2" :> Launched("q", "1.0.0")), Table("s1" :> Launched("p", "1.0.0"))}},
     vault : Unsettled, settings : {Null},
     policy : {[strict |-> s, toxicFlows |-> "warn", toolShadowing |-> "fail", broken |-> FALSE] : s \in BOOLEAN},
     plain : {FALSE}, vouched : {{}}, scoped : {{}, {"s1"}}, failing : {FALSE}]

-----------------------------------------------------------------------------
(* What a service may say of an entry to each observer. *)
MissAll == [answered |-> FALSE]
Answers ==
    [command \in {"availability", "identity", "posture", "capabilities", "upgrade", "docker-drift", "license-drift"} |->
        CASE command = "availability" ->
                [answered : BOOLEAN, verdict : {"present", "deprecated", "version-gone"}, moved : BOOLEAN,
                 repos : {TRUE}, github : {"same", "failed", "moved", "absent"}]
                \cup [answered : BOOLEAN, verdict : {"present", "yanked"}, moved : BOOLEAN, repos : {FALSE}, github : {"moved"}]
          [] command = "identity" ->
                [answered : {TRUE}, claims : {1, 2},
                 record : [status : {"active", "deleted"}, otherRepo : BOOLEAN, otherOwner : {FALSE}]]
                \cup {MissAll, [answered |-> TRUE, claims |-> 0, record |-> Null]}
          [] command = "posture" ->
                [answered : {TRUE}, scores : SUBSET {-1, 6, 7} \cup {Null}] \cup {MissAll}
          [] command = "capabilities" ->
                [answered : {TRUE}, npm : {TRUE}, version : {Npm(<<1, 9, 0>>, <<>>), Npm(<<1, 10, 0>>, <<>>)}, found : SUBSET {"shell", "net"},
                 history : {<<>>, Npm(<<1, 10, 0>>, <<>>) :> {"shell"} @@ Npm(<<1, 0, 0>>, <<>>) :> {"net"}}]
                \cup [answered : {FALSE}, npm : BOOLEAN]
          [] command = "upgrade" ->
                [answered : {TRUE}, asked : {TRUE}, state : {"clear", "upgrade", "no-fix"}]
                \cup [answered : {FALSE}, asked : BOOLEAN]
          [] command = "docker-drift" ->
                [answered : BOOLEAN, pinned : BOOLEAN, same : BOOLEAN, writable : BOOLEAN]
          [] command = "license-drift" ->
                [answered : BOOLEAN, settled : BOOLEAN, old : {"MIT", "none"}, new : {"MIT", "Apache-2.0", "BSL-1.1", "none"}]]
RowsOf(command) ==
    {{a, b} : a \in Answers[command], b \in Answers[command]}
    \cup {{a, b, c} : a \in Answers[command], b \in {x \in Answers[command] : x.answered}, c \in {x \in Answers[command] : ~x.answered}}

-----------------------------------------------------------------------------
Inputs ==
    \/ \E command \in DOMAIN Answers : \E rows \in RowsOf(command), strict, write \in BOOLEAN :
        /\ write => command = "docker-drift"
        /\ input = <<"observe", command, rows, strict, write>>
    \/ input \in {<<"setup", s>> : s \in Setups \cup UnsettledSetups}
    \/ input \in {<<"launch", c>> : c \in Commands(3)}
    \/ input \in {<<"versions", e, abc>> : e \in {"npm"}, abc \in NpmVersions \X NpmVersions \X NpmVersions}
    \/ input \in {<<"versions", e, abc>> : e \in {"pypi"}, abc \in PyVersions \X PyVersions \X PyVersions}
    \/ input \in {<<"chain", "npm", NpmChain>>, <<"chain", "pypi", PyChain>>}
    \/ input \in {<<"set", s>> : s \in Sets}
    \/ input \in {<<"tools", p[1], p[2]>> : p \in ToolPairs}
    \/ input \in {<<"edit", a, b>> : a \in UpTo({"a", "o"}, 0, 4), b \in UpTo({"a", "o"}, 0, 4)}
    \/ input \in {<<"name", p[1], p[2], Name(Null, Null, key), Index>> : p \in Packages, key \in Bases(2)}

Init == Inputs /\ Assert(IsReading(input), input)

Spec == Init /\ [][Read]_input
=============================================================================
