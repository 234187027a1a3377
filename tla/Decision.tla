------------------------------ MODULE Decision ------------------------------
(***************************************************************************)
(* decide() over the rule table (scripts/lib/finding.cjs,                  *)
(* lib/policy_rules.cjs) for one entry of the vault judged from its stored *)
(* record: the question `explain` asks, and the part of it every command   *)
(* that judges a server shares.                                            *)
(*                                                                         *)
(* Only what can fail a run is kept.  A `deny` of a gate row always does;  *)
(* `unknown` and `warn` do where the row is thresholded and fail_on        *)
(* reaches them, which leaves the two generic rows over stored evidence.   *)
(* Rows shown as context (tool scan, flows, behaviour, budget) and the     *)
(* unthresholded `warn` and `unknown` of the policy rows decide nothing.   *)
(* toolApproval's own row is ToolApproval.tla: here a subject is approved  *)
(* or it is not.                                                           *)
(***************************************************************************)
EXTENDS OrgPolicy

(* A rule names one selector and a value; an artifact rule may name bytes.  *)
(* A subject's `vault` says that its launch was matched to its entry: the   *)
(* entry's claims count for that launch only.                               *)

Matches(rule, subject, forAllow) ==
    LET claim(d, status) == d \in Dims /\ subject.evidence.dims[d].status = status
    IN  \/ rule.match = "entry" /\ subject.vault /\ rule.value = subject.name
        \/ rule.match = "npmScope" /\ rule.value = subject.scope
        \/ /\ rule.match = "githubOwner" /\ subject.vault
           /\ rule.value = subject.owner
           /\ forAllow => claim("source_binding", "verified")
        \/ /\ rule.match = "registryNamespace" /\ subject.vault
           /\ rule.value = subject.namespace
           /\ forAllow => claim("registry", "listed")
        \/ /\ rule.match = "artifact"
           /\ rule.value = subject.id
           /\ \/ rule.integrity = Null
              \/ subject.bytes = Null /\ ~forAllow
              \/ subject.bytes = rule.integrity

Hits(layer, subject, forAllow) ==
    \E rule \in layer.says : Matches(rule, subject, forAllow)

LayersIn(policy, key) == IF policy[key] = Null THEN {} ELSE policy[key]

(* What the vault knows, as it may be used for this artifact: evidence that *)
(* names another release is not its evidence.                               *)
StoredFor(subject) ==
    IF \/ subject.evidence.artifact_id = NoId \/ subject.id = NoId
       \/ subject.evidence.artifact_id = subject.id
    THEN subject.evidence ELSE NoEvidence

Answer(subject, d) ==
    IF d \in Dims THEN StoredFor(subject).dims[d] ELSE NotExamined

-----------------------------------------------------------------------------
(* The organisation's rows. *)

DeniedByList(policy, subject) ==
    \E layer \in LayersIn(policy, "deny") : Hits(layer, subject, FALSE)

NotAllowed(policy, subject) ==
    \/ policy["default"] = "deny" /\ LayersIn(policy, "allow") = {}
    \/ \E layer \in LayersIn(policy, "allow") : ~Hits(layer, subject, TRUE)

BelowTier(policy, subject, asOf) ==
    /\ policy["minTier"] # Null
    /\ subject.vault =>
        TierOrder[TierOf(subject.id, subject.ecosystem, subject.evidence,
                         subject.ran, asOf)] > TierOrder[policy["minTier"]]

EvidenceShort(policy, subject, asOf) ==
    /\ policy["requireEvidence"] # Null
    /\ \E d \in DOMAIN policy["requireEvidence"] :
        LET answer == Answer(subject, d)
        IN  \/ ~IsPositive(d, answer.status)
            \/ asOf - AgeFrom(answer) > Limit(policy["requireEvidence"], d)

(* Mutant of Excused: an exception in any file excuses.                     *)
ExcusedAnywhere(policy, layer, subject, cap) ==
    \E x \in LayersIn(policy, "capabilityExceptions") :
        subject.vault /\ <<subject.name, cap>> \in x.says

(* An exception excuses what its own file denies, and nothing else.         *)
Excused(policy, layer, subject, cap) ==
    \E x \in LayersIn(policy, "capabilityExceptions") :
        /\ x.source = layer.source
        /\ subject.vault /\ <<subject.name, cap>> \in x.says

CapabilityDenied(policy, subject) ==
    \E layer \in LayersIn(policy, "denyCapabilities") :
        \E cap \in layer.says \cap subject.found :
            ~Excused(policy, layer, subject, cap)

Unapproved(policy, subject) ==
    policy["toolApproval"] = "require" /\ ~subject.approved

(* The policy file's own rows, read over stored evidence: what is required  *)
(* and not on record is refused; a status the row cannot judge is unknown.  *)

Refuted(subject, d, bad) ==
    Answer(subject, d).status \in bad \cup {NoStatus}

RequirementUnmet(policy, subject) ==
    \/ /\ policy["dependencyHooks"] = "fail"
       /\ Refuted(subject, "dependencies", {"hooks"})
    \/ /\ policy["dependencyAdvisories"] = "fail"
       /\ Refuted(subject, "dependencies", {"advisories-present"})
    \/ /\ policy["unverified"] = "fail"
       /\ Refuted(subject, "artifact", {"unverified", "mismatch"})
    \/ /\ subject.launch = "npx" /\ policy["signatures"] = "require"
       /\ Refuted(subject, "signature", {"absent", "mismatch"})
    \/ /\ subject.launch = "npx" /\ policy["provenance"] = "require"
       /\ Refuted(subject, "provenance", {"absent", "unreadable", "mismatch"})
    \/ policy["docker"] = "digest" /\ subject.launch = "docker by tag"

LicenseRefused(policy, subject) ==
    /\ policy["licenses"] # Null /\ subject.license # Null
    /\ \/ subject.license \in policy["licenses"].deny
       \/ /\ ~Unbounded(policy["licenses"].allow)
          /\ subject.license \notin policy["licenses"].allow

HealthLow(policy, subject) ==
    /\ policy["minHealthScore"] # Null /\ subject.health # Null
    /\ subject.health < policy["minHealthScore"]

WordRefused(policy, subject) ==
    policy["trust"] # Null /\ subject.trust \notin policy["trust"]

(* What the record found.  A problem that was found does not age.           *)
FoundStatuses == {"mismatch", "fail", "contradicted", "withdrawn"}

Blocked(subject) ==
    \E d \in Dims : Blocks(d, Answer(subject, d).status)

Denied(policy, subject, asOf) ==
    \/ DeniedByList(policy, subject)
    \/ NotAllowed(policy, subject)
    \/ BelowTier(policy, subject, asOf)
    \/ EvidenceShort(policy, subject, asOf)
    \/ CapabilityDenied(policy, subject)
    \/ Unapproved(policy, subject)
    \/ RequirementUnmet(policy, subject)
    \/ LicenseRefused(policy, subject)
    \/ HealthLow(policy, subject)
    \/ WordRefused(policy, subject)
    \/ Blocked(subject)

-----------------------------------------------------------------------------
(* The exit. *)

(* A policy's maxEvidenceAgeDays caps every shelf life. *)
ShelfLife(policy, d) ==
    IF policy["maxEvidenceAgeDays"] = Null THEN DefaultMaxAge[d]
    ELSE MaxAgeForPolicy(policy["maxEvidenceAgeDays"])[d]

Warned(subject) ==
    \E d \in Dims :
        /\ Answer(subject, d).status \in FoundStatuses
        /\ ~Blocks(d, Answer(subject, d).status)

FoundProblem(d, status) == status \in FoundStatuses \/ Blocks(d, status)

Unanswered(policy, subject, asOf) ==
    \/ \E d \in Dims :
        LET answer == Answer(subject, d)
        IN  /\ Examined(answer) /\ ~FoundProblem(d, answer.status)
            /\ asOf - AgeFrom(answer) > ShelfLife(policy, d)
    \/ /\ StoredFor(subject) # NoEvidence
       /\ \E d \in RequiredFor(subject.ecosystem) : ~Examined(Answer(subject, d))

(* --strict implies --fail-unverified.                                      *)
Flags == {"none", "fail-unverified", "strict"}

FailsOnUnknown(policy, flag) == flag # "none" \/ policy["unverified"] = "fail"

(* The database is read as it stood at asOf. *)
AsOf(subject, asOf) ==
    [subject EXCEPT !.evidence = EvidenceAsOf(subject.evidence, asOf)]

Fails(policy, flag, entry, asOf) ==
    LET subject == AsOf(entry, asOf)
    IN  \/ Denied(policy, subject, asOf)
        \/ FailsOnUnknown(policy, flag) /\ Unanswered(policy, subject, asOf)
        \/ flag = "strict" /\ Warned(subject)
=============================================================================
