--------------------------- MODULE MCPolicyInForce ---------------------------
(* Three files, fifteen keys that people write, and one entry in the        *)
(* variations that tell the rows apart.                                     *)
EXTENDS PolicyInForce

MCDims == {"artifact", "advisories", "signature", "source_binding"}
MCMaxAge == [d \in MCDims |-> DefaultMaxAge[d]]
MCPackageOf == [id \in Ids |-> "pkg"]

ByOwner == [match |-> "githubOwner", value |-> "acme", integrity |-> Null]
ByName  == [match |-> "entry", value |-> "server", integrity |-> Null]
ByBytes == [match |-> "artifact", value |-> "pkg@1", integrity |-> "sha"]
MCRules == {ByOwner, ByName, ByBytes}

MCWrites ==
    {<<"unverified", "fail">>, <<"signatures", "require">>,
     <<"docker", "tag">>, <<"default", "deny">>, <<"default", "allow">>,
     <<"toolApproval", "require">>, <<"minHealthScore", 50>>,
     <<"minHealthScore", 70>>, <<"maxEvidenceAgeDays", 10>>,
     <<"deep", TRUE>>, <<"minTier", "Core">>, <<"minTier", "Recommended">>,
     <<"trust", {"verified", "candidate"}>>, <<"trust", {"verified"}>>,
     <<"trust", Null>>,
     <<"licenses", [allow |-> {"MIT"}, deny |-> {}]>>,
     <<"licenses", [allow |-> Null, deny |-> {"GPL"}]>>,
     <<"requireEvidence", [d \in {"signature"} |-> Null]>>,
     <<"requireEvidence", [d \in {"signature", "artifact"} |-> 10]>>,
     <<"allow", {ByOwner}>>, <<"allow", {ByName}>>, <<"allow", {}>>,
     <<"deny", {ByBytes}>>, <<"denyCapabilities", {"shell"}>>,
     <<"capabilityExceptions", {<<"server", "shell">>}>>,
     <<"unknown", Null>>, <<"minTier", Malformed>>}

Said(status, day) == [status |-> status, checked_at |-> day, verified_at |-> day]

Good ==
    [name |-> "server", vault |-> TRUE, id |-> "pkg@1", ecosystem |-> "npm",
     launch |-> "npx", scope |-> "@acme", owner |-> "acme",
     namespace |-> "io.acme", bytes |-> "sha", license |-> "MIT",
     health |-> 80, trust |-> "verified", ran |-> "pkg@1", approved |-> TRUE,
     found |-> {},
     evidence |-> [artifact_id |-> "pkg@1",
                   dims |-> [artifact       |-> Said("verified", 0),
                             advisories     |-> Said("clean", 5),
                             signature      |-> Said("verified", 0),
                             source_binding |-> Said("verified", 0)]]]

MCSubjects ==
    {Good,
     [Good EXCEPT !.evidence.dims["source_binding"] = Said("mismatch", 0),
                  !.license = "GPL", !.bytes = Null],
     [Good EXCEPT !.evidence.dims["signature"] = NotExamined,
                  !.found = {"shell"}],
     [Good EXCEPT !.evidence.artifact_id = "pkg@0", !.name = "other",
                  !.health = 60],
     [Good EXCEPT !.ran = NoId, !.approved = FALSE, !.trust = "candidate"],
     [Good EXCEPT !.vault = FALSE, !.launch = "docker by tag",
                  !.ecosystem = "oci"]}

MCDays == {12}
=============================================================================
