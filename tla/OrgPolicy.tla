----------------------------- MODULE OrgPolicy ------------------------------
(***************************************************************************)
(* Policy files and how they combine (scripts/lib/policy.cjs,              *)
(* lib/org_policy.cjs): what one file says once it has been normalised,    *)
(* and mergeStricter, which puts a layer on top of a policy and keeps the  *)
(* stricter of the two per key.                                            *)
(*                                                                         *)
(* A policy is a function on Keys.  A file is a kind and, when it holds a  *)
(* JSON object, the values it wrote; Malformed stands for any value the    *)
(* key's own check refuses, "unknown" for any key that is none.  `extends` *)
(* is read while the files are located and is not part of the policy.      *)
(* Lists of rules are sets of layers: their order decides nothing.         *)
(***************************************************************************)
EXTENDS Tier

CONSTANTS
    Null,           \* JSON null: the key puts no bound
    Malformed,      \* a value its key refuses
    Files,          \* the policy files of this machine
    Project,        \* the one a search upwards from the project finds
    Rules,          \* allow and deny rules
    Licenses, Capabilities, Entries

ASSUME OrgPolicyConstants ==
    /\ Project \in Files
    /\ Null \notin Files

-----------------------------------------------------------------------------
(* The words a file may write under each ranked key, weakest first; the     *)
(* table's `bound` (provenance) and fail_on come from flags only.           *)

Rank ==
    [unverified           |-> [warn |-> 0, fail |-> 1],
     installHooks         |-> [allow |-> 0, warn |-> 1, fail |-> 2],
     dependencyHooks      |-> [allow |-> 0, warn |-> 1, fail |-> 2],
     dependencyAdvisories |-> [allow |-> 0, warn |-> 1, fail |-> 2],
     signatures           |-> [prefer |-> 0, require |-> 1],
     provenance           |-> [prefer |-> 0, require |-> 1],
     docker               |-> [tag |-> 0, digest |-> 1],
     contextBudget        |-> [warn |-> 0, fail |-> 1],
     default              |-> [allow |-> 0, deny |-> 1],
     toolApproval         |-> [off |-> 0, require |-> 1],
     toxicFlows           |-> [allow |-> 0, warn |-> 1, fail |-> 2],
     toolShadowing        |-> [allow |-> 0, warn |-> 1, fail |-> 2],
     unpinnedLaunch       |-> [allow |-> 0, warn |-> 1, fail |-> 2]]

RankedKeys  == DOMAIN Rank
HigherKeys  == {"minHealthScore"}
LowerKeys   == {"maxContextTokens", "maxContextPercent", "maxEvidenceAgeDays"}
SwitchKeys  == {"deep", "deps"}
LayeredKeys == {"allow", "deny", "denyCapabilities", "capabilityExceptions"}
Keys ==
    RankedKeys \cup HigherKeys \cup LowerKeys \cup SwitchKeys
        \cup LayeredKeys \cup {"minTier", "trust", "licenses", "requireEvidence"}

Defaults ==
    [key \in Keys |->
        CASE key \in {"unverified", "installHooks", "dependencyHooks",
                      "dependencyAdvisories", "contextBudget", "toxicFlows",
                      "toolShadowing", "unpinnedLaunch"}    -> "warn"
          [] key \in {"signatures", "provenance"}           -> "prefer"
          [] key = "docker"                                 -> "digest"
          [] key = "default"                                -> "allow"
          [] key = "toolApproval"                           -> "off"
          [] key \in SwitchKeys                             -> FALSE
          [] OTHER                                          -> Null]

(* What each key may hold.  A denied license list that is not there denies  *)
(* nothing; one that is allowed and not there allows all.                   *)
FloorTiers == {"Core", "Recommended", "Experimental"}
LicenseLists == [allow : (SUBSET Licenses) \cup {Null}, deny : SUBSET Licenses]
LayersOf(values) == [source : Files, says : values]

IsRequirement(value) ==
    /\ value = [dim \in DOMAIN value |-> value[dim]]
    /\ DOMAIN value \subseteq AllDimensions
    /\ \A dim \in DOMAIN value : value[dim] \in Nat \cup {Null}

IsBound(key, value) ==
    CASE key \in RankedKeys                 -> value \in DOMAIN Rank[key]
      [] key \in HigherKeys \cup LowerKeys  -> value \in Nat
      [] key \in SwitchKeys                 -> value \in BOOLEAN
      [] key = "minTier"                    -> value \in FloorTiers
      [] key = "trust"                      -> value \subseteq TrustWords
      [] key = "licenses"                   -> value \in LicenseLists
      [] key = "requireEvidence"            -> IsRequirement(value)
      [] key \in {"allow", "deny"} ->
            value \subseteq LayersOf(SUBSET Rules)
      [] key = "denyCapabilities" ->
            value \subseteq LayersOf(SUBSET Capabilities)
      [] key = "capabilityExceptions" ->
            value \subseteq LayersOf(SUBSET (Entries \X Capabilities))

Nullable(key) == key \notin RankedKeys \cup SwitchKeys

IsValue(key, value) == (value = Null /\ Nullable(key)) \/ IsBound(key, value)

IsPolicy(policy) ==
    /\ policy = [key \in Keys |-> policy[key]]
    /\ \A key \in Keys : IsValue(key, policy[key])

-----------------------------------------------------------------------------
(* One file. *)

FileKinds == {"missing", "unparsable", "array", "object"}
Parses(file) == file.kind \in {"array", "object"}
Wrote(file, key) == key \in DOMAIN file.says
WroteWell(file, key) == Wrote(file, key) /\ file.says[key] # Malformed

(* A list of rules becomes a layer that carries the file it came from. *)
Layered(source, key, value) ==
    IF key \in LayeredKeys /\ value # Null
    THEN {[source |-> source, says |-> value]} ELSE value

(* Mutant of Value: what the check refuses is taken as it stands.           *)
ValueUnchecked(source, file, key) ==
    IF Wrote(file, key) THEN Layered(source, key, file.says[key])
    ELSE Defaults[key]

Value(source, file, key) ==
    IF WroteWell(file, key) THEN Layered(source, key, file.says[key])
    ELSE Defaults[key]

(* An allow list means "only these". *)
ImpliedDefault(allow, default) == IF allow # Null THEN "deny" ELSE default

Normalised(source, file) ==
    [key \in Keys |->
        IF key = "default"
        THEN ImpliedDefault(Value(source, file, "allow"),
                            Value(source, file, "default"))
        ELSE Value(source, file, key)]

(* Mutant of Explicit: only what was typed counts as written.               *)
ExplicitTyped(source, file) == DOMAIN file.says \cap Keys

Explicit(source, file) ==
    (DOMAIN file.says \cap Keys)
        \cup (IF Normalised(source, file)["default"] # "allow"
              THEN {"default"} ELSE {})

Extends(file) == IF WroteWell(file, "extends") THEN file.says["extends"] ELSE Null

HasErrors(source, file) ==
    \/ file.kind # "object"
    \/ \E key \in DOMAIN file.says :
        key = "unknown" \/ file.says[key] = Malformed
    \/ /\ Value(source, file, "allow") # Null
       /\ Wrote(file, "default") /\ file.says["default"] = "allow"

-----------------------------------------------------------------------------
(* Two layers. *)

Limit(requirement, dim) ==
    IF requirement[dim] = Null THEN DefaultMaxAge[dim] ELSE requirement[dim]

Unbounded(list) == list = Null

(* `a` holds everything `b` holds, key by key, both of them bounds.         *)
AtLeast(key, a, b) ==
    CASE key \in RankedKeys -> Rank[key][a] >= Rank[key][b]
      [] key \in HigherKeys -> a >= b
      [] key \in LowerKeys  -> a <= b
      [] key \in SwitchKeys -> b => a
      [] key = "minTier"    -> TierOrder[a] <= TierOrder[b]
      [] key = "trust"      -> a \subseteq b
      [] key = "licenses"   ->
            /\ Unbounded(b.allow) \/ (~Unbounded(a.allow) /\ a.allow \subseteq b.allow)
            /\ b.deny \subseteq a.deny
      [] key = "requireEvidence" ->
            /\ DOMAIN b \subseteq DOMAIN a
            /\ \A dim \in DOMAIN b : Limit(a, dim) <= Limit(b, dim)
      [] key \in LayeredKeys -> b \subseteq a

(* What the merge keeps of two bounds: the stricter scalar, what both       *)
(* accept, what either requires or refuses.                                 *)
Join(key, b, o) ==
    CASE key = "trust"    -> b \cap o
      [] key = "licenses" ->
            [allow |-> IF Unbounded(o.allow) THEN b.allow
                       ELSE IF Unbounded(b.allow) THEN o.allow
                       ELSE b.allow \cap o.allow,
             deny  |-> b.deny \cup o.deny]
      [] key = "requireEvidence" ->
            [dim \in DOMAIN b \cup DOMAIN o |->
                IF dim \notin DOMAIN b THEN o[dim]
                ELSE IF dim \in DOMAIN o /\ Limit(o, dim) <= Limit(b, dim)
                THEN o[dim] ELSE b[dim]]
      [] key \in LayeredKeys -> b \cup o
      [] OTHER -> IF AtLeast(key, o, b) THEN o ELSE b

Kept(key, b, o) ==
    IF b = Null THEN o ELSE IF o = Null THEN b ELSE Join(key, b, o)

Merge(base, layer) ==
    [key \in Keys |->
        IF key \in layer.explicit
        THEN Kept(key, base[key], layer.policy[key]) ELSE base[key]]

Denies(policy) ==
    IF policy["denyCapabilities"] = Null THEN {}
    ELSE UNION {layer.says : layer \in policy["denyCapabilities"]}

(* What the merge reports: the layer wrote something looser.  The license   *)
(* deny lists and the layered ones only ever unite.                         *)
Loosens(key, base, over) ==
    LET b == base[key]
        o == over[key]
    IN  \/ b # Null /\ o = Null
        \/ /\ key = "capabilityExceptions" /\ o # Null
           /\ \E layer \in o : \E excused \in layer.says :
                excused[2] \in Denies(base)
        \/ /\ b # Null /\ o # Null
           /\ CASE key = "licenses" ->
                    /\ ~Unbounded(o.allow) /\ ~Unbounded(b.allow)
                    /\ ~(o.allow \subseteq b.allow)
                [] key = "requireEvidence" ->
                    \E dim \in DOMAIN b \cap DOMAIN o :
                        Limit(o, dim) > Limit(b, dim)
                [] key \in LayeredKeys -> FALSE
                [] OTHER -> ~AtLeast(key, o, b)

(* Mutant of Conflicts: a key is only checked when both files wrote it.     *)
ConflictsBothWrote(base, layer) ==
    \E key \in layer.explicit :
        base[key] # Defaults[key] /\ Loosens(key, base, layer.policy)

Conflicts(base, layer) ==
    \E key \in layer.explicit : Loosens(key, base, layer.policy)

-----------------------------------------------------------------------------
(* loadPolicy: the policy in force.  The organisation's layers are the file *)
(* the environment points at and the one the project extends; the project's *)
(* own file comes last.                                                     *)

None == Null

Found(files) == files[Project].kind # "missing"

Managed(files, env) == IF env = Project /\ Found(files) THEN Null ELSE env

Extended(files, env) ==
    LET target == Extends(files[Project])
    IN  IF ~Found(files) \/ target \in {env, Project} THEN Null ELSE target

OrgFiles(files, env) == {Managed(files, env), Extended(files, env)} \ {Null}

LayerOf(files, f) ==
    IF f = Null THEN None
    ELSE IF ~Parses(files[f]) THEN None
    ELSE [source |-> f, policy |-> Normalised(f, files[f]),
          explicit |-> Explicit(f, files[f])]

Over(base, layer) ==
    IF layer = None THEN base
    ELSE IF base = None THEN layer.policy
    ELSE Merge(base, layer)

Clashes(base, layer) ==
    base # None /\ layer # None /\ Conflicts(base, layer)

(* A project file that does not parse is that file's problem, and nothing   *)
(* else is read.                                                            *)
NothingRead(files, env) ==
    IF Found(files) THEN files[Project].kind = "unparsable" ELSE env = Null

Layers(files, env) ==
    IF NothingRead(files, env) THEN <<None, None, None>>
    ELSE <<LayerOf(files, Managed(files, env)),
           LayerOf(files, Extended(files, env)),
           LayerOf(files, Project)>>

Bottom(files, env) == Over(None, Layers(files, env)[1])
Organisation(files, env) == Over(Bottom(files, env), Layers(files, env)[2])
Merged(files, env) == Over(Organisation(files, env), Layers(files, env)[3])

InForce(files, env) ==
    IF Merged(files, env) = None THEN Defaults ELSE Merged(files, env)

LoadedOk(files, env) ==
    IF NothingRead(files, env) THEN ~Found(files)
    ELSE /\ \A f \in OrgFiles(files, env) :
                /\ ~HasErrors(f, files[f])
                /\ ~(Wrote(files[f], "extends") /\ files[f].says["extends"] # Null)
         /\ Found(files) => ~HasErrors(Project, files[Project])
         /\ ~Clashes(Bottom(files, env), Layers(files, env)[2])
         /\ ~Clashes(Organisation(files, env), Layers(files, env)[3])
=============================================================================
