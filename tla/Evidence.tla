------------------------------ MODULE Evidence ------------------------------
(***************************************************************************)
(* Trust as dated evidence (scripts/lib/evidence.cjs): what one check run  *)
(* records, how a record is merged over the stored one, which answers are  *)
(* too old, the one-word trust derived from the rest, and the record as it *)
(* stood on an earlier day.                                                *)
(*                                                                         *)
(* Dates are day numbers (the grain `checked_at` is written at).  A        *)
(* dimension nobody examined is an absent key in the JSON; here it is the  *)
(* answer NotExamined, so that a record is a total function.               *)
(***************************************************************************)
EXTENDS Integers, FiniteSets

CONSTANTS
    Dims,       \* the dimensions this instance follows
    MaxAge,     \* [Dims -> Nat]: the shelf lives in force, in days
    Ids,        \* artifact ids (ecosystem:package@version)
    NoId        \* the id of an artifact nothing identifies (null)

AllDimensions ==
    {"availability", "artifact", "signature", "provenance", "source_binding",
     "registry", "repository_posture", "license", "advisories",
     "dependencies", "smoke", "tool_descriptions"}

(* The shelf lives that hold when no policy file says otherwise. *)
DefaultMaxAge ==
    [d \in AllDimensions |->
        CASE d \in {"availability", "advisories"}                     -> 7
          [] d = "dependencies"                                       -> 14
          [] d \in {"registry", "license", "smoke", "tool_descriptions"} -> 30
          [] d \in {"source_binding", "repository_posture"}           -> 60
          [] d \in {"artifact", "signature", "provenance"}            -> 90]

(* A policy's maxEvidenceAgeDays caps every dimension and extends none. *)
MaxAgeForPolicy(cap) ==
    [d \in AllDimensions |->
        IF cap < DefaultMaxAge[d] THEN cap ELSE DefaultMaxAge[d]]

ASSUME EvidenceConstants ==
    /\ Dims \subseteq AllDimensions
    /\ MaxAge \in [Dims -> Nat]
    /\ NoId \notin Ids

-----------------------------------------------------------------------------
(* The vocabulary the checks emit. *)

PositiveStatuses ==
    {"verified", "clean", "claimed", "bound", "present", "listed", "pass",
     "hooks", "advisories-present", "osi"}

BadStatuses ==
    {"mismatch", "vulnerable", "fail", "gone", "version-gone", "yanked"}

NeutralStatuses ==
    {"unverified", "absent", "unreadable", "deprecated", "unlisted",
     "withdrawn", "contradicted", "weak", "skipped", "suspicious",
     "high-risk", "incomplete"}

Statuses == PositiveStatuses \cup BadStatuses \cup NeutralStatuses

(* Which positive words satisfy which dimension. *)
PositiveByDimension ==
    [d \in AllDimensions |->
        CASE d = "availability"                              -> {"present"}
          [] d \in {"artifact", "signature", "source_binding"} -> {"verified"}
          [] d = "provenance"                                -> {"bound", "claimed"}
          [] d = "registry"                                  -> {"listed"}
          [] d = "advisories"                -> {"clean", "advisories-present"}
          [] d = "dependencies"     -> {"clean", "hooks", "advisories-present"}
          [] d = "license"                                   -> {"osi"}
          [] d = "smoke"                                     -> {"pass"}
          [] d \in {"repository_posture", "tool_descriptions"} -> {"clean"}]

IsPositive(d, status) == status \in PositiveByDimension[d]

Never == -1                              \* a date that is not there
NoStatus == "not-examined"

Answers ==
    [status : Statuses \cup {NoStatus},
     checked_at : Nat \cup {Never}, verified_at : Nat \cup {Never}]

NotExamined ==
    [status |-> NoStatus, checked_at |-> Never, verified_at |-> Never]

Examined(answer) == answer.status # NoStatus

EvidenceRecords ==
    [artifact_id : Ids \cup {NoId}, dims : [Dims -> Answers]]

NoEvidence ==
    [artifact_id |-> NoId, dims |-> [d \in Dims |-> NotExamined]]

-----------------------------------------------------------------------------
(* One run's typed check results as dated evidence.  `checked_at` is when   *)
(* we looked, `verified_at` when it last checked out: a look that confirms  *)
(* nothing gets no `verified_at`.                                           *)

BuildEvidence(checks, now, id) ==
    [artifact_id |-> id,
     dims |-> [d \in Dims |->
        IF checks[d] = NoStatus THEN NotExamined
        ELSE [status |-> checks[d], checked_at |-> now,
              verified_at |-> IF checks[d] \in PositiveStatuses
                              THEN now ELSE Never]]]

(* The behavioural stream: neither smokeEvidence nor mcp_eval's             *)
(* toolDescriptionEvidence writes a verified_at of its own.                 *)
SmokeEvidence(checks, now, id) ==
    [artifact_id |-> id,
     dims |-> [d \in Dims |->
        IF checks[d] = NoStatus THEN NotExamined
        ELSE [status |-> checks[d], checked_at |-> now, verified_at |-> Never]]]

(* When the answer last checked out; records older than `verified_at` only *)
(* have the date of a positive look.                                       *)
LastConfirmed(answer) ==
    IF answer.verified_at # Never THEN answer.verified_at
    ELSE IF answer.status \in PositiveStatuses THEN answer.checked_at
    ELSE Never

(* Mutants of MergeAnswer: the date of the last confirmation is dropped;    *)
(* the order of the dates is not looked at.                                 *)
MergeAnswerForgetting(prev, value) ==
    IF ~Examined(value) THEN prev
    ELSE IF Examined(prev) /\ value.checked_at < prev.checked_at THEN prev
    ELSE value

MergeAnswerLastWrite(prev, value) ==
    IF ~Examined(value) THEN prev
    ELSE [value EXCEPT !.verified_at =
             IF value.verified_at # Never THEN value.verified_at
             ELSE LastConfirmed(prev)]

(* Newest wins, equal dates prefer the fresh answer, and the date of the   *)
(* last confirmation is carried forward.                                   *)
MergeAnswer(prev, value) ==
    IF ~Examined(value) THEN prev
    ELSE IF Examined(prev) /\ value.checked_at < prev.checked_at THEN prev
    ELSE [value EXCEPT !.verified_at =
             IF value.verified_at # Never THEN value.verified_at
             ELSE LastConfirmed(prev)]

SameArtifact(existing, fresh) ==
    existing.artifact_id = fresh.artifact_id

(* Mutant of MergeEvidence: a missing id counts as "probably the same".     *)
MergeEvidenceInheriting(existing, fresh) ==
    LET base == IF existing.artifact_id = NoId \/ fresh.artifact_id = NoId
                   \/ SameArtifact(existing, fresh)
                THEN existing.dims ELSE NoEvidence.dims
    IN  [artifact_id |-> IF fresh.artifact_id # NoId
                         THEN fresh.artifact_id ELSE existing.artifact_id,
         dims |-> [d \in Dims |-> MergeAnswer(base[d], fresh.dims[d])]]

MergeEvidence(existing, fresh) ==
    LET base == IF SameArtifact(existing, fresh)
                THEN existing.dims ELSE NoEvidence.dims
    IN  [artifact_id |-> IF fresh.artifact_id # NoId
                         THEN fresh.artifact_id ELSE existing.artifact_id,
         dims |-> [d \in Dims |-> MergeAnswer(base[d], fresh.dims[d])]]

-----------------------------------------------------------------------------
(* Reading a record at an instant. *)

(* Age is measured from the last confirmation, not from the last look. *)
AgeFrom(answer) ==
    IF answer.verified_at # Never THEN answer.verified_at
    ELSE answer.checked_at

(* Mutant of StaleDimensions: one day too lenient.                          *)
StaleDimensionsLate(evidence, now) ==
    {d \in Dims : /\ Examined(evidence.dims[d])
                  /\ now - AgeFrom(evidence.dims[d]) > MaxAge[d] + 1}

StaleDimensions(evidence, now) ==
    {d \in Dims : /\ Examined(evidence.dims[d])
                  /\ now - AgeFrom(evidence.dims[d]) > MaxAge[d]}

Ecosystems == {"npm", "pypi", "oci", "git", "unknown"}

RequiredFor(ecosystem) ==
    CASE ecosystem \in {"npm", "pypi"} -> {"artifact", "advisories"}
      [] ecosystem = "git"             -> {}
      [] OTHER                         -> {"artifact"}

TrustWords == {"verified", "candidate", "unverified"}

DeriveTrust(evidence, now, required) ==
    IF \E d \in Dims : evidence.dims[d].status \in BadStatuses
    THEN "unverified"
    ELSE IF /\ \A d \in required : /\ d \in Dims
                                   /\ IsPositive(d, evidence.dims[d].status)
            /\ StaleDimensions(evidence, now)
                 \cap (required \cup {"advisories"}) = {}
            /\ required # {}
    THEN "verified"
    ELSE "candidate"

(* Mutant of EvidenceAsOf: staleness is trusted to say it (a negative age   *)
(* is fresh).                                                               *)
EvidenceAsOfWhole(evidence, asOf) == evidence

(* The record without the looks dated after asOf. *)
EvidenceAsOf(evidence, asOf) ==
    [evidence EXCEPT !.dims =
        [d \in Dims |-> IF evidence.dims[d].checked_at > asOf
                        THEN NotExamined ELSE evidence.dims[d]]]
=============================================================================
