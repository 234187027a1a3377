------------------------------ MODULE Readings ------------------------------
(***************************************************************************)
(* What the program reads off a text without doing anything: a launch      *)
(* command, two versions, the tools of a set of servers, a name, a whole   *)
(* setup, the answers of a service.  A behaviour is one input, which says  *)
(* what is read and holds its parts; each question is asked of every input *)
(* of its kind.                                                            *)
(***************************************************************************)
EXTENDS SetupAudit

CONSTANTS
    Letters, Publishers, MinCore,   \* Lookalike's
    LicenseClass, HighRisk          \* Observers'

V == INSTANCE Versions
O == INSTANCE Observers
LK == INSTANCE Lookalike

VARIABLE input      \* <<what is read, its parts>>

-----------------------------------------------------------------------------
(* The standards' chains of versions. *)
W(r) == [word |-> TRUE, rank |-> r]
N(r) == [word |-> FALSE, rank |-> r]
Npm(core, pre) == [core |-> core, pre |-> pre]
Py(release, pre, post, dev) ==
    [epoch |-> 0, release |-> release, pre |-> pre, post |-> post, dev |-> dev, local |-> Null]

(* semver.org, item 11. *)
NpmChain ==
    [i \in 1 .. 8 |-> Npm(<<1, 0, 0>>,
        <<<<W(1)>>, <<W(1), N(1)>>, <<W(1), W(2)>>, <<W(2)>>, <<W(2), N(2)>>, <<W(2), N(11)>>, <<W(3)>>, <<>>>>[i])]
(* PEP 440, "Summary of permitted suffixes and relative ordering". *)
PyChain ==
    LET a == <<0, 1>>
        b == <<1, 1>>
        rc == <<2, 1>>
    IN  <<Py(<<1>>, Null, Null, 1), Py(<<1>>, a, Null, 1), Py(<<1>>, a, Null, Null), Py(<<1>>, a, 1, 1),
          Py(<<1>>, a, 1, Null), Py(<<1>>, b, Null, Null), Py(<<1>>, rc, Null, Null), Py(<<1>>, Null, Null, Null),
          Py(<<1, 0>>, Null, 1, 1), Py(<<1>>, Null, 1, Null), Py(<<1, 1>>, Null, Null, 1)>>

(* What is not there is no value, and what is not read no version.          *)
ASSUME ReadingsConstants ==
    /\ Null \notin Int \cup LK!Techniques \cup (Nat \X Nat)
    /\ Null # Odd
    /\ \A i \in 1 .. 8 : NpmChain[i] \notin {Null, Odd}
    /\ \A i \in 1 .. 11 : PyChain[i] \notin {Null, Odd}

-----------------------------------------------------------------------------
(* What may be read, kind by kind.                                          *)
(* A sequence of whatever. *)
IsListOf(list) == Len(list) \in Nat /\ list = [i \in 1 .. Len(list) |-> list[i]]

(* A list of servers in a host's file, if it is one. *)
IsList(list) == IsTable(list) => IsFiniteSet(DOMAIN list)

(* Each entry that has a name in the index installs a package of it.        *)
IsIndex(index) ==
    /\ \A i \in DOMAIN index : LK!IsName(index[i]) /\ index[i].db # Null
    /\ \A i \in DOMAIN index : \E j \in DOMAIN index :
          index[j].db = index[i].db /\ index[j].kind # "name"

(* What the index answers about a name is not the absence of an answer.     *)
IsAnswered(n, kind, index) ==
    LET pkg == LK!CheckName(n, kind, index)
    IN  /\ pkg # Null /\ pkg.matches # Null
        /\ \A i \in DOMAIN index : {<<index[i].db, "vault-name-on-other-package">>} # Null

(* What an observer's service may say of an entry. *)
IsAnswer(command, a) ==
    /\ a.answered \in BOOLEAN
    /\ command = "availability" =>
          /\ a.verdict \in {"present", "deprecated", "version-gone", "gone", "yanked"}
          /\ a.github \in {"same", "failed", "moved", "absent", "archived"}

IsReading(r) ==
    /\ r[1] = "launch" => IsCommand(r[2])
    /\ r[1] = "versions" =>
          /\ r[2] \in {"npm", "pypi"}
          /\ \A i \in 1 .. 3 : r[3][i] = Odd \/ V!IsVersion(r[2], r[3][i])
    /\ r[1] = "chain" => r = <<"chain", "npm", NpmChain>> \/ r = <<"chain", "pypi", PyChain>>
    /\ r[1] = "set" => IsListOf(r[2])
    /\ r[1] = "tools" => \A t \in r[2].tools \cup r[3].tools : t.norm \in Seq(Letters)
    /\ r[1] = "edit" => r[2] \in Seq(Letters) /\ r[3] \in Seq(Letters)
    /\ r[1] = "name" =>
          /\ LK!IsName(r[2]) /\ r[3] \in {"npm", "pypi", "oci"}
          /\ IsListOf(r[5]) /\ IsIndex(r[5])
          /\ IsAnswered(r[2], r[3], r[5])
    /\ r[1] = "setup" => \A l \in Locations : r[2].config[l] \notin {Null, Broken} =>
          IsList(r[2].config[l].mcpServers) /\ IsList(r[2].config[l].servers)
    /\ r[1] = "observe" =>
          /\ r[2] \in O!Commands /\ r[3] # {} /\ \A a \in r[3] : IsAnswer(r[2], a)
          /\ r[4] \in BOOLEAN /\ r[5] \in BOOLEAN

(* Reading changes nothing. *)
Read == UNCHANGED input
ReadingsSpec == IsReading(input) /\ [][Read]_input

-----------------------------------------------------------------------------
(* A launch called pinned is read back as the pin; one written back runs    *)
(* what was written down (Launch).                                          *)
LaunchIsKept == input[1] = "launch" => CanonicalRunsTheSame(input[2]) /\ \A v \in Versions : PinnedIsThePin(input[2], v)

(* Versions are in a total order, and in the standards' (Versions). *)
VersionsInOrder ==
    /\ input[1] = "versions" => V!VersionsAreOrdered(input[2], input[3][1], input[3][2], input[3][3])
    /\ input[1] = "chain" => V!OrderedLike(input[2], input[3])

(* Flows and colliding names of a set are told (Flows). *)
SetIsTold ==
    /\ input[1] = "set" => F!FlowsAreTold(input[2])
    /\ input[1] = "tools" => F!CollisionsAreTold(input[2], input[3])

(* Names one step from an entry's are told, and by what step (Lookalike). *)
LookalikeIsTold ==
    /\ input[1] = "edit" => LK!EditsAreNamed(input[2], input[3])
    /\ input[1] = "name" => LK!ImpersonationIsTold(input[2], input[3], input[4], input[5])

(* A strict audit that passes earned it, and status fails where the audit   *)
(* does (SetupAudit); an observer's exit is what its answers say            *)
(* (Observers).                                                             *)
ExitIsEarned ==
    /\ input[1] = "setup" => StrictAuditIsEarned(input[2]) /\ StatusAgreesWithAudit(input[2])
    /\ input[1] = "observe" => O!ObserverExitIsEarned(input[2], input[3], input[4], input[5])

(* An `upgrade` whose source answered for none of the entries it was asked  *)
(* about does not exit 0 (Observers).                                       *)
OutageIsNotClean ==
    (input[1] = "observe" /\ input[2] = "upgrade") =>
        O!UnansweredIsNotClean(input[2], input[3], input[4], input[5])
=============================================================================
