------------------------------ MODULE MCAdvice ------------------------------
(***************************************************************************)
(* One run of `upgrade` over everything the feed and the registry may say, *)
(* and the drafts a maintainer builds from it while the database, the feed *)
(* and the calendar move.  A behaviour is about one of the two; both ask   *)
(* the same services about releases of one npm package.                    *)
(***************************************************************************)
EXTENDS FindingReports

VARIABLE part   \* which of the two a behaviour is about

vars == <<part, reportVars>>

Release(major, minor, pre) == [core |-> <<major, minor, 0>>, pre |-> pre]
Beta == <<[word |-> TRUE, rank |-> 1]>>
v1 == Release(1, 0, <<>>)
v2 == Release(1, 9, <<>>)
v3beta == Release(1, 10, Beta)
v3 == Release(1, 10, <<>>)
v4 == Release(2, 0, <<>>)

MCReleases == {v1, v2, v3beta, v3, v4, Odd}

(* Advisory a and b name their fix, c none, d one that cannot be read. *)
MCFixes == [a |-> {v3}, b |-> {v2}, c |-> {}, d |-> {Odd}]
Applies(a, b, c, d) == [a |-> a, b |-> b, c |-> c, d |-> d]
Clean == Applies({}, {}, {}, {})
FixedInV2 == Applies({}, {v1}, {}, {})
MCFeeds ==
    {Clean, FixedInV2,
     Applies({}, {v1}, {v2}, {}),                    \* the fix has an advisory of its own
     Applies({v1, v2}, {v1}, {}, {}),                \* two fixes, the later one decides
     Applies({v1, v2}, {v1}, {v3}, {}),              \* and the latest release is clean
     Applies({}, {v1}, {v1, v3, v4}, {}),            \* so is none
     Applies({}, {v1}, {v1}, {v1})}

ReportFeeds == {Clean, FixedInV2, Applies({}, {v1}, {v2}, {})}
ReportReleases == {{v1, v2, v3}, {v2, v3}, {}}
MCPublished ==
    {{v1, v2, v3beta}, {v1, v2, v3beta, v3, v4}, {v1, v4, Odd}} \cup ReportReleases

(* An entry beside it: a release withdrawn from the registry long ago. *)
MCOthers ==
    [z |-> [pin |-> v1, drift |-> Null, repo |-> TRUE,
            evidence |-> [of |-> v1, dims |-> [availability |-> [status |-> "yanked", on |-> 1]]]]]
MCMaxAge == [d \in {"advisories", "availability", "smoke"} |-> 1]

Init ==
    /\ ReportsInit
    /\ part \in {"upgrade", "reports"}
    /\ part = "reports" => pin = v1 /\ feed = FixedInV2 /\ published \in ReportReleases

Advising == part = "upgrade" /\ UpgradeNext /\ UNCHANGED <<part, stored, dir, run, runs, turns>>
Reporting ==
    /\ part = "reports" /\ ReportsNext
    /\ feed' \in ReportFeeds /\ published' \in ReportReleases
    /\ UNCHANGED part
Next == Advising \/ Reporting

Spec == Init /\ [][Next]_vars
=============================================================================
