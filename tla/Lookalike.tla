------------------------------ MODULE Lookalike ------------------------------
(***************************************************************************)
(* lib/lookalike.cjs: names shaped like one of the vault's.  A name is a   *)
(* scope (or none) and a base; a base is a short sequence of letters, of   *)
(* the separators "-" and "_", and of the piece "mcp" a squatter bolts on  *)
(* (it stands for every affix, with the separator that goes with it).  The *)
(* letter "0" is confusable with "o".  Case and runs of separators are     *)
(* left out, and the length thresholds are scaled down with the names.     *)
(***************************************************************************)
EXTENDS Naturals, Sequences, FiniteSets, SequencesExt

CONSTANTS
    Null,           \* nothing there
    Letters,        \* plain letters, with "o" among them
    Publishers,     \* unscoped npm bases the publisher of a known scope owns
    MinCore         \* a core shorter than this carries no identity

Separators == {"-", "_"}
Characters == Letters \cup Separators \cup {"0", "mcp"}

(* The prefix "scope-typo+" of an edit under a scope that resembles the     *)
(* entry's is left out: no property tells it apart.                         *)
Techniques ==
    {"vault-name-reused", "separator", "homoglyph", "registry-swap", "scope-typo", "scope-dropped",
     "scope-added", "foreign-scope", "doubled-letter", "extra-letter", "missing-letter",
     "transposition", "substitution", "edit-distance-2", "affix", "vault-name-on-other-package"}

(* What is compared: a name with its registry, its scope and its base. *)
IsName(n) == n.base \in Seq(Characters) /\ (n.scope = Null \/ n.scope \in Seq(Characters))

Norm(s) == [i \in DOMAIN s |-> IF s[i] = "_" THEN "-" ELSE s[i]]
Flat(s) ==
    LET kept == {i \in DOMAIN s : s[i] \notin Separators}
        place(k) == CHOOSE i \in kept : Cardinality({j \in kept : j <= i}) = k
    IN  [k \in 1 .. Cardinality(kept) |-> s[place(k)]]
Skeleton(s) == LET f == Flat(s) IN [i \in DOMAIN f |-> IF f[i] = "0" THEN "o" ELSE f[i]]

(* Affixes off at both ends, until nothing more comes off. *)
Core(s) ==
    LET own == {i \in DOMAIN s : s[i] # "mcp"}
        first == CHOOSE i \in own : \A j \in own : i <= j
        last == CHOOSE i \in own : \A j \in own : i >= j
    IN  IF own = {} THEN <<>> ELSE Norm(SubSeq(s, first, last))
IsGeneric(s) == Len(Flat(Core(s))) < MinCore

Threshold(length) == IF length <= 1 THEN 0 ELSE IF length <= 3 THEN 1 ELSE 2

-----------------------------------------------------------------------------
(* Insert, delete, substitute, swap two neighbours; no substring twice. *)
DamerauLevenshtein(a, b) ==
    LET least(S) == CHOOSE x \in S : \A y \in S : x <= y
        d[p \in (0 .. Len(a)) \X (0 .. Len(b))] ==
            LET i == p[1]
                j == p[2]
                swap == i > 1 /\ j > 1 /\ a[i] = b[j - 1] /\ a[i - 1] = b[j]
            IN  IF i = 0 THEN j ELSE IF j = 0 THEN i
                ELSE least({d[<<i - 1, j>>] + 1, d[<<i, j - 1>>] + 1,
                            d[<<i - 1, j - 1>>] + (IF a[i] = b[j] THEN 0 ELSE 1)}
                           \cup (IF swap THEN {d[<<i - 2, j - 2>>] + 1} ELSE {}))
    IN  d[<<Len(a), Len(b)>>]

(* The single edit that turns `target` into `cand`. *)
OneEditTechnique(cand, target) ==
    LET cut == {i \in DOMAIN cand : RemoveAt(cand, i) = target}
        first == CHOOSE i \in cut : \A j \in cut : i <= j
        beside(i) == (i > 1 /\ cand[i] = cand[i - 1]) \/ (i < Len(cand) /\ cand[i] = cand[i + 1])
        off == {i \in 1 .. Len(cand) - 1 : cand[i] # target[i]}
        at == CHOOSE i \in off : \A j \in off : i <= j
        swapped == /\ off # {} /\ at + 1 <= Len(target)
                   /\ cand[at] = target[at + 1] /\ cand[at + 1] = target[at]
                   /\ SubSeq(cand, at + 2, Len(cand)) = SubSeq(target, at + 2, Len(target))
    IN  IF Len(cand) = Len(target) + 1
        THEN IF cut # {} /\ beside(first) THEN "doubled-letter" ELSE "extra-letter"
        ELSE IF Len(cand) + 1 = Len(target) THEN "missing-letter"
        ELSE IF swapped THEN "transposition" ELSE "substitution"

(***************************************************************************)
(* Edits that fit the name: when both carry the same affixes every edit is *)
(* in the core, and its length decides; otherwise the whole name's does.   *)
(* Null when there are more.                                               *)
(***************************************************************************)
FuzzyDistance(c, t) ==
    LET d == DamerauLevenshtein(Skeleton(c), Skeleton(t))
        lead(s) == CHOOSE k \in 0 .. Len(s) :
                      /\ \A i \in 1 .. k : s[i] = "mcp"
                      /\ k < Len(s) => s[k + 1] # "mcp"
        shell(s) == <<lead(s), Len(s) - lead(s) - Len(Core(s))>>
        sameShell == Core(c) # <<>> /\ Core(t) # <<>> /\ shell(c) = shell(t)
        room == Threshold(Len(Flat(IF sameShell THEN Core(t) ELSE t)))
    IN  IF d = 0 \/ d > room THEN Null ELSE d

(***************************************************************************)
(* One candidate against one identity of the vault: [db, kind, registry,   *)
(* scope, base], of kind "name" for the name an entry is shown under.  A   *)
(* server key gets the narrow version: people nickname their servers.      *)
(* Null, or the technique.                                                 *)
(***************************************************************************)
Compare(cand, kind, t) ==
    LET isKey == kind = "name"
        sameScope == cand.scope = t.scope
        sameBase == Skeleton(cand.base) = Skeleton(t.base)
        full(n) == <<n.registry, n.scope, n.base>>
        like(f(_)) == /\ cand.registry = t.registry /\ f(cand.base) = f(t.base)
                      /\ (cand.scope = Null) = (t.scope = Null)
                      /\ cand.scope # Null => f(cand.scope) = f(t.scope)
        scopeLike == /\ cand.scope # Null /\ t.scope # Null /\ ~sameScope
                     /\ DamerauLevenshtein(Skeleton(cand.scope), Skeleton(t.scope)) <= Threshold(Len(t.scope))
        fuzzy == FuzzyDistance(cand.base, t.base)
        bolted == /\ Len(Flat(Core(cand.base))) >= MinCore /\ Core(t.base) # <<>>
                  /\ Skeleton(Core(cand.base)) = Skeleton(Core(t.base))
                  /\ Norm(cand.base) # Norm(t.base)
        elsewhere ==
            IF scopeLike THEN "scope-typo"
            ELSE IF isKey \/ IsGeneric(t.base) THEN Null
            ELSE IF cand.scope = Null THEN "scope-dropped"
            ELSE IF t.scope = Null THEN "scope-added" ELSE "foreign-scope"
        edited ==
            IF fuzzy = 1 THEN OneEditTechnique(Flat(cand.base), Flat(t.base)) ELSE "edit-distance-2"
    IN  IF ~isKey /\ t.kind = "name" /\ full(cand) = full(t) THEN "vault-name-reused"
        ELSE IF like(Flat) THEN IF full(cand) = full(t) THEN Null ELSE "separator"
        ELSE IF like(Skeleton) THEN "homoglyph"
        ELSE IF kind = "oci" /\ t.kind = "oci" /\ sameScope /\ sameBase THEN "registry-swap"
        ELSE IF ~sameScope /\ sameBase THEN elsewhere
        ELSE IF ~sameScope /\ ~scopeLike THEN Null
        ELSE IF ~IsGeneric(t.base) /\ fuzzy # Null THEN edited
        ELSE IF ~isKey /\ bolted THEN "affix" ELSE Null

(* The form under which two values of a kind are the same thing. *)
SameKey(n, kind) ==
    <<n.registry, n.scope, IF kind \in {"pypi", "name"} THEN Norm(n.base) ELSE n.base>>

(* Mutant: a package spelled like an entry's shown name is the entry's. *)
CheckNameAnyKind(n, kind, index) ==
    LET is(t) == SameKey(n, kind) = SameKey(t, kind)
        exact == {i \in DOMAIN index : is(index[i])}
        first == CHOOSE i \in exact : \A j \in exact : i <= j
        own == kind = "npm" /\ n.scope = Null /\ n.base \in Publishers
    IN  [known |-> IF exact = {} THEN Null ELSE index[first].db,
         matches |-> IF exact # {} \/ own THEN {}
                     ELSE {<<t.db, Compare(n, kind, t)>> :
                            t \in {u \in Range(index) : Compare(n, kind, u) # Null}}]

(***************************************************************************)
(* Is it one of the vault's names, shaped like one, or neither?  A package *)
(* is known only as a package of the same registry; a key by either.  The  *)
(* publisher's own unscoped package resembles nothing.                     *)
(***************************************************************************)
CheckName(n, kind, index) ==
    LET is(t) == IF kind = "name" THEN SameKey(n, "name") = SameKey(t, "name")
                 ELSE t.kind = kind /\ SameKey(n, kind) = SameKey(t, kind)
        exact == {i \in DOMAIN index : is(index[i])}
        first == CHOOSE i \in exact : \A j \in exact : i <= j
        own == kind = "npm" /\ n.scope = Null /\ n.base \in Publishers
    IN  [known |-> IF exact = {} THEN Null ELSE index[first].db,
         matches |-> IF exact # {} \/ own THEN {}
                     ELSE {<<t.db, Compare(n, kind, t)>> :
                            t \in {u \in Range(index) : Compare(n, kind, u) # Null}}]

(***************************************************************************)
(* One configured server, from what the names say: `pkg` is CheckName of   *)
(* the package it launches, Null when none could be read; `launcher`: the  *)
(* command is npx, uvx or docker; `key` is CheckName of its name; `dbName` *)
(* the entry its key was already matched to; `installing`: the entries     *)
(* that install a package.  Null, or the entries it resembles.             *)
(***************************************************************************)
CheckServer(pkg, launcher, key, dbName, installing) ==
    LET keyEntry == IF dbName # Null THEN dbName ELSE key.known
        claims == keyEntry # Null /\ keyEntry \in installing
        impersonation == {<<keyEntry, "vault-name-on-other-package">>}
        byKey == IF keyEntry = Null /\ key.matches # {} THEN key.matches ELSE Null
    IN  IF pkg # Null /\ pkg.matches # {} THEN pkg.matches
        ELSE IF pkg # Null /\ pkg.known # Null /\ keyEntry \in {Null, pkg.known} THEN Null
        ELSE IF pkg # Null /\ claims THEN impersonation
        ELSE IF pkg # Null /\ pkg.known # Null THEN Null
        ELSE IF pkg = Null /\ keyEntry # Null /\ launcher THEN IF claims THEN impersonation ELSE Null
        ELSE byKey

-----------------------------------------------------------------------------
(***************************************************************************)
(* The distance of one is one edit of the four kinds, and the edit is      *)
(* called by its name.  (lookalike.cjs damerauLevenshtein,                 *)
(* oneEditTechnique: the distance and its name are computed apart.)        *)
(***************************************************************************)
EditsAreNamed(c, t) ==
    LET longer == \E i \in DOMAIN c : RemoveAt(c, i) = t
        shorter == \E i \in DOMAIN t : RemoveAt(t, i) = c
        differ == {i \in DOMAIN c : Len(c) = Len(t) /\ c[i] # t[i]}
        swapped == \E i \in DOMAIN c :
                      /\ differ = {i, i + 1} /\ c[i] = t[i + 1] /\ c[i + 1] = t[i]
        changed == Cardinality(differ) = 1
        name == OneEditTechnique(c, t)
    IN  /\ DamerauLevenshtein(c, t) = 1 <=> longer \/ shorter \/ swapped \/ changed
        /\ longer => name \in {"extra-letter", "doubled-letter"}
        /\ shorter => name = "missing-letter"
        /\ swapped => name = "transposition"
        /\ changed => name = "substitution"

(***************************************************************************)
(* A package one edit, a confusable letter or a separator away from an     *)
(* entry's, in the same scope, is told about; so is a key of the vault on  *)
(* a launch that runs anything but that entry's package; and an entry's    *)
(* own package is not, under its own name or one that says nothing.  Being *)
(* called what an entry is shown as does not make a package its own.       *)
(* (lookalike.cjs: "is this the package you meant?")                       *)
(***************************************************************************)
ImpersonationIsTold(n, kind, key, index) ==
    LET installing == {t.db : t \in {u \in Range(index) : u.kind # "name"}}
        close(t) == /\ t.kind = kind /\ t.scope = n.scope /\ t.registry = n.registry
                    /\ DamerauLevenshtein(Skeleton(n.base), Skeleton(t.base)) <= 1
                    /\ Len(Flat(Core(t.base))) >= 2 /\ ~IsGeneric(t.base)
        own == kind = "npm" /\ n.scope = Null /\ n.base \in Publishers
        its(t) == t.kind = kind /\ SameKey(t, kind) = SameKey(n, kind)
        shown(t) == t.kind = "name" /\ <<t.registry, t.scope, t.base>> = <<n.registry, n.scope, n.base>>
    IN  \A pkg \in {CheckName(n, kind, index)}, k \in {CheckName(key, "name", index)} :
        \A told \in {CheckServer(pkg, TRUE, k, Null, installing)} :
           /\ (/\ ~own /\ \A i \in DOMAIN index : ~its(index[i])
               /\ \E i \in DOMAIN index : close(index[i]) \/ shown(index[i])) => told # Null
           /\ (k.known # Null /\ pkg.known # k.known) => told # Null
           /\ (pkg.known # Null /\ k.known \in {Null, pkg.known}) => told = Null
=============================================================================
