------------------------------ MODULE MCVaultDb -----------------------------
(* A small database: one entry, two releases it may pin, two processes.     *)
EXTENDS VaultDb

MCDims == {"artifact", "advisories", "availability", "smoke", "registry"}

MCMaxAge == [d \in MCDims |-> 1]

MCPackageOf == [id \in Ids |-> "pkg"]

MCEcosystemOf == [p \in Pins |-> IF p = NoId THEN "unknown" ELSE "npm"]

Only(d, s)          == [e \in MCDims |-> IF e = d THEN s ELSE NoStatus]
Full(artifact, adv) == [Only("artifact", artifact) EXCEPT !["advisories"] = adv]
None                == [d \in MCDims |-> NoStatus]

MCVerifyChecks ==
    {Full("verified", "clean"), Only("artifact", "verified"),
     Only("artifact", "unverified"), Full("verified", "vulnerable"),
     Full("mismatch", "clean")}

MCAvailabilityChecks == {Only("availability", s) : s \in {"present", "gone"}}

MCEvalChecks == {Only("smoke", s) : s \in {"pass", "fail", "skipped"}}

MCSurveyChecks == {Only("registry", s) : s \in {"listed", "contradicted"}}
=============================================================================
