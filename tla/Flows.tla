-------------------------------- MODULE Flows --------------------------------
(***************************************************************************)
(* lib/flows.cjs: what a set of MCP servers can do together that none of   *)
(* them was vetted for.  Every server is labelled with the legs it offers  *)
(* (untrusted content, private data, an outward sink, destruction) and the *)
(* evidence for each; a flow is a set of servers that holds every leg of a *)
(* kind.  Shadowing compares the names of the tools of every two servers.  *)
(***************************************************************************)
EXTENDS Naturals, Sequences, FiniteSets, FiniteSetsExt, SequencesExt

CONSTANTS
    Null,       \* nothing there
    MinNear     \* the shortest name compared for a near match

(***************************************************************************)
(* A word of a tool's name stands for all the words that lie in the same   *)
(* tables of the code.                                                     *)
(***************************************************************************)
ReadVerbs   == {"get", "fetch", "open", "scrape"}
WriteVerbs  == {"create", "open"}
OutVerbs    == {"send", "post", "email"}
Destructive == {"delete"}
ExecVerbs   == {"run"}
ExecNouns   == {"command", "sql", "shell", "browser"}
External    == {"url", "web", "issue", "email", "post"}
Ingest      == {"scrape", "navigate"}
PrivateNouns  == {"file", "sql", "secret"}
AlwaysPrivate == {"sql", "secret"}
PublicNouns   == {"issue", "email", "post", "webhook"}
UrlTokens     == {"url", "navigate"}
RequestTokens == {"request", "webhook"}
NameWords ==
    UNION {ReadVerbs, WriteVerbs, OutVerbs, Destructive, ExecVerbs, ExecNouns, External, Ingest,
           PrivateNouns, PublicNouns, UrlTokens, RequestTokens, {"price"}}

Categories == {"browser", "search", "vcs", "pm", "cms", "database", "utility", "none"}
CategoryLabels(c) ==
    CASE c = "browser" -> {"untrusted", "sink"}
      [] c = "search" -> {"untrusted"}
      [] c = "vcs" -> {"untrusted", "private", "sink"}
      [] c = "pm" -> {"untrusted", "private"}
      [] c = "cms" -> {"private", "sink"}
      [] c = "database" -> {"private"}
      [] OTHER -> {}

CapabilityLabels ==
    [shell |-> "destructive", fs_write |-> "destructive",
     fs_read |-> "private", credential_paths |-> "private"]

Has(words, table) == words \cap table # {}

(* `fetch` alone or beside a web noun: a long name with it is an API call. *)
WebFetch(words, short) == "fetch" \in words /\ (short \/ Has(words, External))

(***************************************************************************)
(* The labels a tool earns by its name and by the hints of its server, as  *)
(* <<label, source>>; a name outranks a hint.  `short`: two words at most. *)
(***************************************************************************)
ToolLabels(words, short, hints) ==
    LET reads == Has(words, ReadVerbs)
        readsOther == Has(words, ReadVerbs \ {"fetch", "open"})
        byName ==
            {l \in {"untrusted", "private", "sink", "destructive"} :
                CASE l = "untrusted" -> \/ Has(words, Ingest) \/ WebFetch(words, short)
                                        \/ reads /\ Has(words, External)
                  [] l = "private" -> \/ Has(words, AlwaysPrivate)
                                      \/ reads /\ Has(words, PrivateNouns)
                  [] l = "sink" -> \/ Has(words, OutVerbs) /\ ~reads
                                   \/ Has(words, WriteVerbs) /\ Has(words, PublicNouns)
                                   \/ WebFetch(words, short)
                                   \/ Has(words, UrlTokens)
                                   \/ Has(words, RequestTokens) /\ ~readsOther
                  [] OTHER -> \/ Has(words, Destructive)
                              \/ Has(words, ExecVerbs) /\ Has(words, ExecNouns)
                              \/ "shell" \in words}
        byHint ==
            {l \in {"untrusted", "sink", "destructive"} :
                CASE l = "untrusted" -> "openWorld" \in hints
                  [] l = "sink" -> "openWorld" \in hints /\ "readOnly" \notin hints
                  [] OTHER -> "destructive" \in hints}
    IN  {<<l, "tool-name">> : l \in byName} \cup {<<l, "annotation">> : l \in byHint \ byName}

(***************************************************************************)
(* One configured server.  A member is its name, the vault entry it runs   *)
(* and that entry's category (Null, "none"), the tools of the stored       *)
(* surface (with `measured` FALSE when no eval stored one) and what the    *)
(* scan of its package found.                                              *)
(***************************************************************************)
LabelServer(m) ==
    [name |-> m.name, entry |-> m.entry,
     known |-> m.category # "none" \/ m.measured,
     tools |-> m.tools,
     evidence |->
        {<<l, "category">> : l \in CategoryLabels(m.category)}
        \cup (UNION {ToolLabels(t.words, Cardinality(t.words) <= 2, t.hints) : t \in m.tools})
        \cup {<<CapabilityLabels[c], "capability">> : c \in m.found}]

Holds(s, label) == \E e \in s.evidence : e[1] = label
Strong(s, label) == \E e \in s.evidence : e[1] = label /\ e[2] # "capability"

FlowKinds ==
    [trifecta |-> {"untrusted", "private", "sink"},
     destructive |-> {"untrusted", "destructive"}]

ConfidenceOf(servers, needed) ==
    IF \A l \in needed : \E s \in servers : Strong(s, l) THEN "high" ELSE "low"

(* Mutant: a server that holds every leg, on whatever evidence, speaks for *)
(* the set.                                                                *)
FindFlowsOfOne(labelled) ==
    UNION {LET needed == FlowKinds[kind]
               singles == {s \in labelled : \A l \in needed : Holds(s, l)}
               groups == IF singles # {} THEN {{s} : s \in singles} ELSE {labelled}
           IN  IF \E l \in needed : \A s \in labelled : ~Holds(s, l) THEN {}
               ELSE {[kind |-> kind, confidence |-> ConfidenceOf(g, needed),
                      single |-> singles # {},
                      servers |-> {s.name : s \in {x \in g : \E l \in needed : Holds(x, l)}}] : g \in groups} :
           kind \in DOMAIN FlowKinds}

(***************************************************************************)
(* A server alone holds every leg on evidence as strong as the set's: then *)
(* there is one flow for each such server, and none for the set.           *)
(***************************************************************************)
FindFlows(labelled) ==
    UNION {LET needed == FlowKinds[kind]
               singles == {s \in labelled : /\ \A l \in needed : Holds(s, l)
                                            /\ ConfidenceOf({s}, needed) = ConfidenceOf(labelled, needed)}
               groups == IF singles # {} THEN {{s} : s \in singles} ELSE {labelled}
           IN  IF \E l \in needed : \A s \in labelled : ~Holds(s, l) THEN {}
               ELSE {[kind |-> kind, confidence |-> ConfidenceOf(g, needed),
                      single |-> singles # {},
                      servers |-> {s.name : s \in {x \in g : \E l \in needed : Holds(x, l)}}] : g \in groups} :
           kind \in DOMAIN FlowKinds}

-----------------------------------------------------------------------------
(***************************************************************************)
(* Levenshtein distance, row by row, given up once a whole row is past     *)
(* `max`.                                                                  *)
(***************************************************************************)
EditDistance(a, b, max) ==
    LET least(S) == CHOOSE x \in S : \A y \in S : x <= y
        d[p \in (0 .. Len(a)) \X (0 .. Len(b))] ==
            LET i == p[1]
                j == p[2]
            IN  IF i = 0 THEN j ELSE IF j = 0 THEN i
                ELSE least({d[<<i - 1, j>>] + 1, d[<<i, j - 1>>] + 1,
                            d[<<i - 1, j - 1>>] + (IF a[i] = b[j] THEN 0 ELSE 1)})
        passed(i) == \A j \in 0 .. Len(b) : d[<<i, j>>] > max
        apart == IF Len(a) > Len(b) THEN Len(a) - Len(b) ELSE Len(b) - Len(a)
    IN  IF apart > max \/ \E i \in 1 .. Len(a) : passed(i) THEN max + 1
        ELSE d[<<Len(a), Len(b)>>]

(***************************************************************************)
(* Names two servers share or nearly share.  A tool is [norm, style, ...]: *)
(* its name without case and separators, and how it is spelled.  A name    *)
(* matched exactly is not compared for near matches as well.               *)
(***************************************************************************)
FindShadowing(a, b) ==
    LET same == {p \in a.tools \X b.tools : p[1].norm = p[2].norm}
        near == {p \in a.tools \X b.tools :
                    /\ Len(p[1].norm) >= MinNear /\ Len(p[2].norm) >= MinNear
                    /\ p[1].norm \notin {t.norm : t \in b.tools}
                    /\ \A q \in same : q[2] # p[2]
                    /\ EditDistance(p[1].norm, p[2].norm, 1) = 1}
    IN  {[kind |-> IF p[1].style = p[2].style THEN "exact" ELSE "normalized",
          confidence |-> "high", tools |-> p] : p \in same}
        \cup {[kind |-> "near", confidence |-> "low", tools |-> p] : p \in near}

(* A description of `a` that names a tool of `b`, `b` itself or the entry it *)
(* runs - and no tool of `a`.  A server's name is one word.                 *)
FindMentions(a, b) ==
    LET named(t) == t.mentions \ {o.norm : o \in a.tools}
        told(t, tool) == [kind |-> "mention", confidence |-> "high", tools |-> <<t, tool>>]
    IN  {told(p[1], p[2]) : p \in {q \in a.tools \X {u.norm : u \in b.tools} : q[2] \in named(q[1])}}
        \cup {told(t, Null) : t \in {o \in a.tools : {<<b.name>>, <<b.entry>>} \cap named(o) # {}}}

(***************************************************************************)
(* The set: flows, collisions of every two servers, mentions either way,   *)
(* and the servers nobody could see into.                                  *)
(***************************************************************************)
AnalyseSet(members) ==
    LET labelled == [i \in DOMAIN members |-> LabelServer(members[i])]
        pairs == {p \in (DOMAIN members) \X (DOMAIN members) : p[1] < p[2]}
    IN  [flows |-> FindFlows({labelled[i] : i \in DOMAIN labelled}),
         shadowing |-> UNION {FindShadowing(labelled[p[1]], labelled[p[2]])
                              \cup FindMentions(labelled[p[1]], labelled[p[2]])
                              \cup FindMentions(labelled[p[2]], labelled[p[1]]) : p \in pairs},
         noData |-> {labelled[i].name : i \in {k \in DOMAIN labelled : ~labelled[k].known}}]

(* What a policy word does to a conclusion: a low confidence never blocks. *)
SetJudged(word, confidence) ==
    IF confidence = "low" THEN "allow" ELSE IF word = Null THEN "warn" ELSE word

-----------------------------------------------------------------------------
(***************************************************************************)
(* Every leg of a kind that some server of the session offers on more than *)
(* a guess is told as one flow of high confidence that names such servers, *)
(* and a flow that rests on a capability alone is never called sure.       *)
(* Adding a server never hides the flow.  (flows.cjs: each server is fine  *)
(* and the combination is not.)                                            *)
(***************************************************************************)
FlowsAreTold(members) ==
    LET sees(ms) == AnalyseSet(ms).flows
        labelled == {LabelServer(members[i]) : i \in DOMAIN members}
        named(f) == {s \in labelled : s.name \in f.servers}
    IN  \A kind \in DOMAIN FlowKinds :
           LET of == {f \in sees(members) : f.kind = kind}
               sure == \A l \in FlowKinds[kind] : \E s \in labelled : Strong(s, l)
           IN  /\ sure => of # {}
               /\ \A f \in of :
                     /\ f.confidence = "high" <=> sure
                     /\ \A l \in FlowKinds[kind] :
                           \E s \in named(f) : Holds(s, l) /\ (sure => Strong(s, l))
               /\ \A f \in sees(Front(members)) :
                     (f.kind = kind /\ f.confidence = "high") => sure

(***************************************************************************)
(* Two servers with names that are equal but for case and separators, or   *)
(* one edit apart, are told about - in whichever order they are listed.    *)
(* (flows.cjs editDistance gives up early; findShadowing skips the names   *)
(* that matched.)                                                          *)
(***************************************************************************)
OneEdit(a, b) ==
    LET cut(s, i) == RemoveAt(s, i)
    IN  \/ Len(a) = Len(b) /\ Cardinality({i \in DOMAIN a : a[i] # b[i]}) = 1
        \/ Len(a) = Len(b) + 1 /\ \E i \in DOMAIN a : cut(a, i) = b
        \/ Len(b) = Len(a) + 1 /\ \E i \in DOMAIN b : cut(b, i) = a

CollisionsAreTold(a, b) ==
    LET told == FindShadowing(a, b)
        touches(c, t) == c.tools[1].norm = t.norm \/ c.tools[2].norm = t.norm
    IN  /\ \A t \in a.tools, u \in b.tools :
              /\ t.norm = u.norm => \E c \in told : c.kind # "near" /\ c.tools = <<t, u>>
              /\ (OneEdit(t.norm, u.norm) /\ Len(t.norm) >= MinNear /\ Len(u.norm) >= MinNear)
                    => \E c \in told : touches(c, t) \/ touches(c, u)
        /\ \A c \in told : c.kind = "near" =>
              OneEdit(c.tools[1].norm, c.tools[2].norm)
        /\ {c.tools : c \in told} = {<<c.tools[2], c.tools[1]>> : c \in FindShadowing(b, a)}
=============================================================================
