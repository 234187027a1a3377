---------------------------- MODULE Availability ----------------------------
(***************************************************************************)
(* scripts/check_availability.cjs: is a pinned release still published?    *)
(* checkNpm and checkPypi ask for the version's document and, only when    *)
(* that is a 404, for the package's, through the cache of lib/http.cjs.    *)
(***************************************************************************)
EXTENDS Http

CONSTANTS
    MaxLooks,   \* bound on the number of looks
    MaxChanges  \* bound on what the registry does meanwhile

VARIABLES
    look,       \* [Procs -> the look a process has under way or finished]
    looks,      \* number of looks started (bound only)
    changes     \* number of changes at the registry (bound only)

vars == <<now, doc, last, cache, req, look, looks, changes>>

ASSUME AvailabilityConstants ==
    /\ Urls = {"version", "package"}
    /\ {"present"} \subseteq Bodies
    /\ Bodies \subseteq {"present", "deprecated", "yanked"}
    /\ MaxLooks \in Nat /\ MaxChanges \in Nat

NoLook == [step |-> "none"]

(* What a release's document says of it. *)
VerdictOf(body) == body

(* A package document that is there shows that only the version is gone.    *)
Init ==
    /\ HttpInit
    /\ doc["package"] # Absent \/ doc["version"] = Absent
    /\ doc["package"] \in {"present", Absent}
    /\ look = [p \in Procs |-> NoLook]
    /\ looks = 0 /\ changes = 0

(* The registry publishes, deprecates, yanks or removes; a package that is  *)
(* removed takes its versions along (external).                             *)
RegistryChanges ==
    /\ changes < MaxChanges
    /\ changes' = changes + 1
    /\ \E version \in Contents, package \in {"present", Absent} :
        /\ package = Absent => version = Absent
        /\ ServerSets([u \in Urls |->
                IF u = "version" THEN version ELSE package])
    /\ UNCHANGED <<look, looks>>

StartLook(p) ==
    /\ look[p].step \in {"none", "decided"}
    /\ looks < MaxLooks
    /\ looks' = looks + 1
    /\ look' = [look EXCEPT ![p] =
            [step |-> "version", started |-> now, stale |-> FALSE]]
    /\ Request(p, "version")
    /\ UNCHANGED changes

Decide(p, verdict, stale) ==
    /\ look' = [look EXCEPT ![p] =
            [step |-> "decided", started |-> @.started,
             stale |-> stale, verdict |-> verdict]]
    /\ req' = [req EXCEPT ![p] = NoRequest]
    /\ UNCHANGED <<now, doc, last, cache>>

Stale(result) == result.ok /\ result.stale

(* The version's document answered, whatever `stale` says of it.            *)
VersionFound(p) ==
    LET result == req[p].result
    IN  /\ result.ok
        /\ Decide(p, VerdictOf(result.body), Stale(result))

(* A transport failure is not an answer. *)
VersionUnknown(p) ==
    LET result == req[p].result
    IN  /\ ~result.ok
        /\ result.status # "absent"
        /\ Decide(p, "unknown", FALSE)

(* 404 on the version: is the package itself still there? *)
VersionAbsent(p) ==
    LET result == req[p].result
    IN  /\ ~result.ok
        /\ result.status = "absent"
        /\ look' = [look EXCEPT ![p].step = "package"]
        /\ Request(p, "package")

AskedVersion(p) ==
    /\ look[p].step = "version"
    /\ req[p].phase = "done"
    /\ VersionFound(p) \/ VersionUnknown(p) \/ VersionAbsent(p)
    /\ UNCHANGED <<looks, changes>>

(* Mutant of PackageVerdict: a lookup that failed is taken for a 404.       *)
PackageVerdictHasty(result) ==
    IF result.ok THEN "version-gone" ELSE "gone"

PackageVerdict(result) ==
    IF result.ok THEN "version-gone"
    ELSE IF result.status = "absent" THEN "gone"
    ELSE "unknown"

AskedPackage(p) ==
    /\ look[p].step = "package"
    /\ req[p].phase = "done"
    /\ Decide(p, PackageVerdict(req[p].result), Stale(req[p].result))
    /\ UNCHANGED <<looks, changes>>

Exchange(p) ==
    /\ Respond(p) \/ CutShort(p) \/ Receive(p)
    /\ UNCHANGED <<look, looks, changes>>

Clock == Tick /\ UNCHANGED <<look, looks, changes>>

Next ==
    \/ Clock
    \/ RegistryChanges
    \/ \E p \in Procs :
        StartLook(p) \/ Exchange(p) \/ AskedVersion(p) \/ AskedPackage(p)

(* Each exchange ends (an answer, an error, the time limit, or the cut),    *)
(* and the event loop runs each continuation.                               *)
Fairness ==
    \A p \in Procs : /\ WF_vars(Exchange(p))
                     /\ WF_vars(AskedVersion(p))
                     /\ WF_vars(AskedPackage(p))

Spec == Init /\ [][Next]_vars /\ Fairness

-----------------------------------------------------------------------------
Verdicts == Bodies \cup {"gone", "version-gone", "unknown"}

TypeOK ==
    /\ HttpTypeOK
    /\ look \in [Procs ->
            {NoLook} \cup
            [step : {"version", "package"}, started : Nat, stale : {FALSE}] \cup
            [step : {"decided"}, started : Nat, stale : BOOLEAN,
             verdict : Verdicts]]
    /\ looks \in 0 .. MaxLooks /\ changes \in 0 .. MaxChanges

Decided(p, verdicts) ==
    look[p].step = "decided" /\ look[p].verdict \in verdicts

(* An outage never reads as an unpublished release: `gone` means that the   *)
(* version and the package were both absent while we looked, `version-gone` *)
(* that the version was; and a release found published, deprecated or       *)
(* yanked was so within one shelf life of the cache before the look, when   *)
(* no stale answer was leant on.  (checkNpm, checkPypi: "A transport        *)
(* failure is not an answer".)                                              *)
VerdictIsEarned ==
    /\ TypeOK
    /\ \A p \in Procs :
          /\ Decided(p, {"gone", "version-gone"}) =>
                  ServedSince("version", Absent, look[p].started)
          /\ Decided(p, {"gone"}) =>
                  ServedSince("package", Absent, look[p].started)
          /\ Decided(p, Bodies) /\ ~look[p].stale =>
                  ServedSince("version", look[p].verdict, look[p].started - Ttl + 1)

(* Every look comes to a verdict, unless its response was cut short.        *)
LookEnds ==
    \A p \in Procs :
        look[p].step \in {"version", "package"} ~>
            (look[p].step = "decided" \/ req[p].phase = "hung")

(* "Short enough that a weekly job sees today's registry"                   *)
(* (check_availability.cjs): a release reported published was published     *)
(* within one shelf life of the cache before the look.                      *)
PublishedIsCurrent ==
    \A p \in Procs :
        Decided(p, {"present"}) =>
            ServedSince("version", "present", look[p].started - Ttl + 1)
=============================================================================
