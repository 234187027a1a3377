-------------------------------- MODULE Tier --------------------------------
(***************************************************************************)
(* The tier of an entry (scripts/lib/tiers.cjs), computed from its record  *)
(* at an instant: whether the evidence is about what the entry installs    *)
(* now, what it establishes, and whether that very artifact was seen to    *)
(* run.  Ids are compared as comparableId compares them: two spellings of  *)
(* one release are one id.                                                 *)
(***************************************************************************)
EXTENDS Evidence

CONSTANT PackageOf      \* [Ids -> packages]: an id without its version

Tiers == {"Core", "Recommended", "Experimental", "Deprecated"}

TierOrder ==
    [Core |-> 0, Recommended |-> 1, Experimental |-> 2, Deprecated |-> 3]

(* Which statuses refuse an install, dimension by dimension. *)
Blocks(dim, status) ==
    \/ dim = "artifact" /\ status = "mismatch"
    \/ dim = "advisories" /\ status = "vulnerable"
    \/ dim = "availability" /\ status \in {"gone", "version-gone", "yanked"}
    \/ dim = "tool_descriptions" /\ status = "high-risk"

(* The one status that is about the name, whatever the version. *)
NameGone(pin, evidence) ==
    /\ "availability" \in Dims
    /\ evidence.dims["availability"].status = "gone"
    /\ pin # NoId /\ evidence.artifact_id # NoId
    /\ PackageOf[evidence.artifact_id] = PackageOf[pin]

NothingRecorded(evidence) == \A d \in Dims : ~Examined(evidence.dims[d])

(* Mutant of AboutThis: another release of the package is the same thing.   *)
AboutThisPackage(pin, evidence) ==
    /\ pin # NoId /\ evidence.artifact_id # NoId
    /\ PackageOf[pin] = PackageOf[evidence.artifact_id]

AboutThis(pin, evidence) == pin # NoId /\ evidence.artifact_id = pin

(* The evidence names another artifact, or says something and names none.   *)
NotAboutThis(pin, evidence) ==
    /\ ~AboutThis(pin, evidence)
    /\ \/ pin # NoId /\ evidence.artifact_id # NoId
       \/ ~NothingRecorded(evidence)

(* `ran` is the artifact whose eval started and listed tools, or NoId.      *)
TierOf(pin, ecosystem, evidence, ran, now) ==
    IF NameGone(pin, evidence) THEN "Deprecated"
    ELSE IF NotAboutThis(pin, evidence) THEN "Experimental"
    ELSE IF \E d \in Dims : Blocks(d, evidence.dims[d].status) THEN "Deprecated"
    ELSE IF DeriveTrust(evidence, now, RequiredFor(ecosystem)) # "verified"
    THEN "Experimental"
    ELSE IF ran # NoId /\ ran = pin THEN "Core" ELSE "Recommended"
=============================================================================
