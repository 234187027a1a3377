------------------------------- MODULE MCGate -------------------------------
(* Runs over one or two servers.  One server is taken through every switch; *)
(* two are taken together where one's answers could be read for the other.  *)
EXTENDS Gate

Npm(pkg) == [how |-> "npx", pkg |-> pkg, exact |-> TRUE, pinned |-> TRUE,
             aged |-> FALSE, agrees |-> TRUE, served |-> TRUE]

Foreign  == [Npm("a") EXCEPT !.pinned = FALSE]
Floating == [Foreign EXCEPT !.exact = FALSE]
Old      == [Npm("a") EXCEPT !.aged = TRUE]
Pypi     == [Npm("a") EXCEPT !.how = "uvx"]
Image    == [Npm("i") EXCEPT !.how = "digest"]
Split    == [Image EXCEPT !.agrees = FALSE]
Private  == [Image EXCEPT !.served = FALSE]
Tagged   == [Image EXCEPT !.how = "tag"]
Local    == [Npm("l") EXCEPT !.how = "unroutable"]

Run(servers, flags, policy, audit) ==
    [servers |-> servers, flags |-> flags, policy |-> policy, audit |-> audit,
     snyk |-> "deep" \notin flags]

FlagSets == {{}, {"failUnverified"}, {"strict"}, {"requireSignatures"},
             {"requireProvenance"}, {"requireProvenanceBinding", "deps"},
             {"deep", "failUnverified"}, {"deps", "failDepAdvisories"},
             {"deps", "deep", "strict"}}

PolicySets == {{"unverified"}, {"signatures", "provenance"}, {"bound"},
               {"dependencyAdvisories"}, {"dependencyHooks", "installHooks", "docker"}}

OneServer ==
    {Run(<<s>>, flags, {}, TRUE) :
        s \in {Npm("a"), Foreign, Floating, Old, Pypi, Image, Split, Private, Tagged, Local},
        flags \in FlagSets}
    \cup {Run(<<s>>, {}, policy, TRUE) :
        s \in {Npm("a"), Floating, Pypi, Tagged}, policy \in PolicySets}
    \cup {Run(<<s>>, flags, {}, FALSE) :
        s \in {Npm("a"), Pypi}, flags \in {{"failUnverified"}, {"deep"}}}

TwoServers ==
    {Run(pair, flags, {}, TRUE) :
        pair \in {<<Npm("a"), Npm("b")>>, <<Npm("a"), Pypi>>, <<Npm("b"), Floating>>, <<Old, Image>>},
        flags \in {{}, {"failUnverified"}}}

MCInvocations == OneServer \cup TwoServers

(* Two hosts run two releases of one package.                               *)
TwoReleases == {Run(<<Npm("a"), Npm("a")>>, {}, {}, TRUE)}
=============================================================================
