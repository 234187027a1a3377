--------------------------- MODULE PolicyInForce ----------------------------
(***************************************************************************)
(* The policy files of a machine as people edit them, and the policy every *)
(* command loads from them: a managed file the environment points at, an   *)
(* organisation's file the project extends, and the project's own.         *)
(*                                                                         *)
(* A command reads the files once and decides; the state is therefore only *)
(* what the files say, and the properties ask what is in force in it.      *)
(***************************************************************************)
EXTENDS Decision

CONSTANTS
    Writes,     \* what a person may write under a key: <<key, value>>
    Subjects,   \* the entries judged
    Days,       \* the instants they are judged at
    MaxEdits    \* bound on the number of edits

VARIABLES
    files,      \* [Files -> what the file holds]
    env,        \* MCP_VAULT_ORG_POLICY: a file, or Null
    edits       \* how often somebody edited a file (bound only)

policyVars == <<files, env, edits>>

MayWrite(key, value) ==
    \/ value = Malformed \/ key = "unknown"
    \/ key = "extends" /\ value \in Files \cup {Null}
    \/ key \in Keys /\ IsValue(key, Layered(Project, key, value))

(* What the database says of an entry, and its health where it is known.    *)
IsSubject(s) ==
    /\ {"evidence", "health"} \subseteq DOMAIN s
    /\ s.evidence \in EvidenceRecords
    /\ s.health # Null => s.health \in Nat

ASSUME PolicyInForceConstants ==
    /\ \A w \in Writes : MayWrite(w[1], w[2])
    /\ \A s \in Subjects : IsSubject(s)
    /\ Days \subseteq Nat /\ MaxEdits \in Nat

Empty(kind) == [kind |-> kind, says |-> [key \in {} |-> Null]]

(* The project may already sit on an organisation's file. *)
Extending(target) ==
    [kind |-> "object", says |-> [key \in {"extends"} |-> target]]

PolicyInit ==
    /\ files \in {[f \in Files |-> IF f = Project THEN p ELSE Empty("object")] :
                    p \in {Extending(target) : target \in (Files \ {Project}) \cup {Null}}}
    /\ env \in Files \cup {Null}
    /\ edits = 0

Edit(f, content) ==
    /\ edits < MaxEdits
    /\ edits' = edits + 1
    /\ files' = [files EXCEPT ![f] = content]
    /\ UNCHANGED env

Write(f, key, value) ==
    /\ files[f].kind = "object"
    /\ Edit(f, [kind |-> "object",
                says |-> [k \in DOMAIN files[f].says \cup {key} |->
                            IF k = key THEN value ELSE files[f].says[k]]])

Erase(f, key) ==
    /\ Wrote(files[f], key)
    /\ Edit(f, [kind |-> "object",
                says |-> [k \in DOMAIN files[f].says \ {key} |->
                            files[f].says[k]]])

Replace(f, kind) ==
    /\ files[f].kind # kind
    /\ Edit(f, Empty(kind))

PolicyNext ==
    \E f \in Files :
        \/ \E w \in Writes : Write(f, w[1], w[2])
        \/ \E key \in DOMAIN files[f].says : Erase(f, key)
        \/ \E kind \in FileKinds : Replace(f, kind)

PolicySpec == PolicyInit /\ [][PolicyNext]_policyVars

-----------------------------------------------------------------------------
IsFile(file) ==
    /\ file = [kind |-> file.kind, says |-> file.says]
    /\ file.kind \in FileKinds
    /\ file.kind # "object" => DOMAIN file.says = {}
    /\ file.says = [key \in DOMAIN file.says |-> file.says[key]]
    /\ \A key \in DOMAIN file.says :
        /\ MayWrite(key, file.says[key])

(* The policy in force is one, whatever the files hold, and where it lists  *)
(* what is allowed, the rest is denied.                                     *)
PolicyTypeOK ==
    /\ files = [f \in Files |-> files[f]]
    /\ \A f \in Files : IsFile(files[f])
    /\ env \in Files \cup {Null}
    /\ edits \in Nat
    /\ IsPolicy(InForce(files, env))

LayersRead == {Layers(files, env)[i] : i \in 1 .. 3} \ {None}

(* What a layer says and nothing more: a key its file did not write asks    *)
(* for nothing.                                                             *)
Lenient(key) ==
    CASE key \in RankedKeys ->
            CHOOSE word \in DOMAIN Rank[key] : Rank[key][word] = 0
      [] key \in SwitchKeys -> FALSE
      [] OTHER              -> Null

Spoken(layer) ==
    [key \in Keys |-> IF key \in layer.explicit
                      THEN layer.policy[key] ELSE Lenient(key)]

(* A layer that denies by default names what it allows: the exception is    *)
(* ProjectOnlyTightens below.                                               *)
NamesWhatItAllows(policy) ==
    policy["default"] = "deny" => policy["allow"] # Null

(* What any file that was read refuses, whichever row it refuses it by, the *)
(* policy in force refuses, errors or not, under every flag and on every    *)
(* day; and an allow list means "only these", in whichever file it stands.  *)
(* (mergeStricter: "nothing is enforced weaker in the meantime"; decision 1 *)
(* of lib/org_policy.cjs.)                                                  *)
EveryLayerHolds ==
    LET policy == InForce(files, env) IN
    /\ PolicyTypeOK
    /\ policy["allow"] # Null => policy["default"] = "deny"
    /\ \A layer \in LayersRead : NamesWhatItAllows(layer.policy) =>
          \A subject \in Subjects, flag \in Flags, asOf \in Days :
              Fails(Spoken(layer), flag, subject, asOf)
                  => Fails(policy, flag, subject, asOf)

(* A policy that loads without an error enforces what the project's file    *)
(* says, key by key, and not something stricter in its place.               *)
(* (lib/org_policy.cjs: "a file that says one thing and enforces another is *)
(* the bug".)                                                               *)
EnforcedAsWritten(key, value, enforced) ==
    IF value = Null THEN enforced = Null
    ELSE CASE key = "licenses" ->
                /\ enforced # Null
                /\ Unbounded(value.allow) \/ enforced.allow = value.allow
                /\ value.deny \subseteq enforced.deny
           [] key = "requireEvidence" ->
                \A dim \in DOMAIN value :
                    /\ dim \in DOMAIN enforced
                    /\ Limit(enforced, dim) = Limit(value, dim)
           [] key \in LayeredKeys -> value \subseteq enforced
           [] OTHER -> enforced = value

WrittenIsEnforced ==
    LoadedOk(files, env) /\ Found(files) =>
        \A key \in Keys : Wrote(files[Project], key) =>
            EnforcedAsWritten(key, Value(Project, files[Project], key),
                              InForce(files, env)[key])

(* "A project can only tighten": what the organisation's files refuse, the  *)
(* project's file, where the whole loads without an error, still refuses.   *)
(* (lib/org_policy.cjs, decision 4.)                                        *)
ProjectOnlyTightens ==
    LoadedOk(files, env) /\ Organisation(files, env) # None =>
        \A subject \in Subjects, flag \in Flags, asOf \in Days :
            Fails(Organisation(files, env), flag, subject, asOf)
                => Fails(InForce(files, env), flag, subject, asOf)
=============================================================================
