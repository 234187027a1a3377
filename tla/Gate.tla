-------------------------------- MODULE Gate --------------------------------
(***************************************************************************)
(* One live run of the integrity gate (scripts/verify_integrity.cjs,       *)
(* without --offline and --update): the feeds are asked, the registries    *)
(* give manifests and tarballs, the processors write report lines and      *)
(* count failures, and decide() judges the same lines by the rule table.   *)
(*                                                                         *)
(* The requests of one stage are awaited together and read only when all   *)
(* have answered, by question and not by arrival; the model takes them in  *)
(* the order of asking.  What goes wrong in a run is bounded by MaxTrouble:*)
(* answers that are not the good one, over all servers of the run.         *)
(***************************************************************************)
EXTENDS Integers, FiniteSets

CONSTANTS
    Invocations,    \* the runs: servers, flags, policy and which feeds are on
    MaxTrouble      \* bound: unwelcome answers in one run

(* A server is launched by npx, uvx, docker by digest or by tag, or by      *)
(* something no registry serves.  `exact`: the launch names its version     *)
(* (a database entry always does).  `pinned`: a hash is stored for it.      *)
(* `aged`: its stored evidence has a dimension past its shelf life that     *)
(* this run does not look at.  For an image, `agrees`: the digest in the    *)
(* command is the one stored; `served`: its registry is on the allow list.  *)
Hows  == {"npx", "uvx", "digest", "tag", "unroutable"}
FlagNames == {"strict", "failUnverified", "requireSignatures", "requireProvenance",
              "requireProvenanceBinding", "failDepAdvisories", "deep", "deps"}

(* The policy file's keys that are at their refusing value.                 *)
Demands == {"unverified", "installHooks", "dependencyHooks", "dependencyAdvisories",
            "signatures", "provenance", "bound", "docker"}

ASSUME GateConstants ==
    /\ MaxTrouble \in Nat
    /\ \A inv \in Invocations :
        /\ IsFiniteSet(DOMAIN inv.servers) /\ DOMAIN inv.servers \subseteq Nat \ {0}
        /\ \A i \in DOMAIN inv.servers :
            LET s == inv.servers[i]
            IN  /\ s.how \in Hows /\ (~s.exact => ~s.pinned)
                /\ {s.exact, s.pinned, s.aged, s.agrees, s.served} \subseteq BOOLEAN
        /\ inv.flags \subseteq FlagNames /\ inv.policy \subseteq Demands
        /\ {"provenance", "bound"} \notin SUBSET inv.policy
        /\ inv.audit \in BOOLEAN /\ inv.snyk \in BOOLEAN

VARIABLES
    run,        \* the invocation
    todo,       \* the questions and steps still ahead
    heard,      \* [servers -> the answers about each]
    results,    \* [servers -> the report entry, or Open]
    fails,      \* [servers -> whether its decision fails the run]
    trouble     \* bound only: how many answers were unwelcome

vars == <<run, todo, heard, results, fails, trouble>>

Server(i) == run.servers[i]
All       == DOMAIN run.servers
By(how)   == {i \in All : Server(i).how = how}
Packages  == By("npx") \cup By("uvx")

Newest(I) == CHOOSE i \in I : \A j \in I : j <= i

-----------------------------------------------------------------------------
(* effectivePolicy: flags and the policy file raise the same switches.      *)

Flag(f)   == f \in run.flags
Wants(k)  == k \in run.policy

Strict             == Flag("strict")
FailUnverified     == Strict \/ Flag("failUnverified") \/ Wants("unverified")
RequireSignatures  == Flag("requireSignatures") \/ Wants("signatures")
RequireBinding     == Flag("requireProvenanceBinding") \/ Wants("bound")
RequireProvenance  == Flag("requireProvenance") \/ RequireBinding \/ Wants("provenance")
FailDepAdvisories  == Flag("failDepAdvisories") \/ Wants("dependencyAdvisories")
Deep               == Flag("deep")
Deps               == Flag("deps") \/ Wants("dependencyHooks") \/ Wants("dependencyAdvisories")

-----------------------------------------------------------------------------
(* What the outside may answer. *)

Feeds == {"npm", "osv", "ghsa", "snyk"}

(* A version's manifest as the registry serves it, with what hangs on it:   *)
(* its hash against the stored pin ("none": no sdist), its repository, its  *)
(* signature, its attestation, its hooks, and the tarball's bytes against   *)
(* the manifest's hash (against the pin where the manifest has none).       *)
Manifests ==
    [came : {"ok", "gone", "failed"}, integrity : {"same", "other", "none"},
     repo : {"same", "other", "none"}, signature : {"ok", "fail", "unverified"},
     provenance : {"bound", "claimed", "mismatch", "unreadable", "absent"},
     hooks : {"no", "yes"}, license : {"named", "none"},
     tarball : {"same", "other", "unread"}]

Welcome == [came |-> "ok", integrity |-> "same", repo |-> "same", signature |-> "ok",
            provenance |-> "bound", hooks |-> "no", license |-> "named", tarball |-> "same"]

Unwelcome(m) == Cardinality({k \in DOMAIN Welcome : m[k] # Welcome[k]})

Trees == [came : {"ok", "failed"}, hooks : {"no", "yes"}, silent : BOOLEAN,
          hits : SUBSET {"mild", "hard", "unread"}]

GoodTree == [came |-> "ok", hooks |-> "no", silent |-> FALSE, hits |-> {}]

TreeTrouble(t) ==
    Cardinality({k \in {"came", "hooks", "silent"} : t[k] # GoodTree[k]})
        + Cardinality(t.hits)

(* Everything else being well where the manifest or the tree did not come.  *)
ManifestsWithin == [k \in 0..MaxTrouble |->
    {m \in Manifests : Unwelcome(m) <= k /\ (m.came # "ok" => Unwelcome(m) = 1)}]
TreesWithin == [k \in 0..MaxTrouble |->
    {t \in Trees : TreeTrouble(t) <= k /\ (t.came # "ok" => TreeTrouble(t) = 1)}]

Unheard == [npm |-> "unasked", osv |-> "unasked", ghsa |-> "unasked",
            snyk |-> "unasked", manifest |-> Welcome, tree |-> GoodTree]

-----------------------------------------------------------------------------
(* The questions and steps of a run, in the order main() awaits them, each  *)
(* about one server or, as 0, about all it concerns.                        *)

Turn == [npm |-> 1, osvNpm |-> 2, osvPypi |-> 3, ghsa |-> 4, snyk |-> 5, detail |-> 6,
         manifest |-> 7, tree |-> 8, process |-> 9, judge |-> 10]

SubjectsOf(inv) ==
    LET of(hows)  == {i \in DOMAIN inv.servers : inv.servers[i].how \in hows}
        once(I)   == {0 : i \in I}
        asked(I)  == IF inv.audit THEN I ELSE {}
        packages  == of({"npx", "uvx"})
    IN  [npm |-> asked(once(of({"npx"}))), osvNpm |-> asked(once(of({"npx"}))),
         osvPypi |-> asked(once(of({"uvx"}))), ghsa |-> asked(packages),
         snyk |-> IF inv.snyk THEN asked(packages) ELSE {}, detail |-> asked(packages),
         manifest |-> of({"npx", "uvx", "digest"}), tree |-> of({"npx"}),
         process |-> DOMAIN inv.servers, judge |-> {0}]

Agenda(inv) == UNION {{step} \X SubjectsOf(inv)[step] : step \in DOMAIN Turn}

Before(s, t) == Turn[s[1]] < Turn[t[1]] \/ (s[1] = t[1] /\ s[2] < t[2])

(* Before it is asked a feed is pending; one that will not be asked never   *)
(* is.                                                                      *)
Expected(inv, i) ==
    LET s    == inv.servers[i]
        asks(f) == /\ inv.audit /\ s.how \in {"npx", "uvx"}
                   /\ f = "npm" => s.how = "npx"
                   /\ f = "snyk" => inv.snyk
    IN  [k \in DOMAIN Unheard |->
            IF k \in Feeds /\ asks(k) THEN "pending" ELSE Unheard[k]]

(* A report entry; Open is one not written yet.                            *)
Result(status, lines, failed, artifact, advisories) ==
    [status |-> status, lines |-> lines, failed |-> failed,
     artifact |-> artifact, advisories |-> advisories]

Open == Result("open", {}, FALSE, "open", "open")

Init ==
    /\ run \in Invocations
    /\ todo = Agenda(run)
    /\ heard = [i \in All |-> Expected(run, i)]
    /\ results = [i \in All |-> Open]
    /\ fails = [i \in All |-> FALSE]
    /\ trouble = 0

Take(step) ==
    /\ step \in todo /\ \A t \in todo \ {step} : Before(step, t)
    /\ todo' = todo \ {step}

Hear(asked, feed, answer, cost) ==
    /\ trouble' = trouble + cost /\ trouble' <= MaxTrouble
    /\ heard' = [i \in All |-> IF i \in asked THEN [heard[i] EXCEPT ![feed] = answer[i]]
                              ELSE heard[i]]
    /\ UNCHANGED <<run, results, fails>>

(* A request that fails (no answer, a refusal, a stale cached copy) leaves  *)
(* everything it asked about silent.                                        *)
Ask(feed, asked, words) ==
    \/ Hear(asked, feed, [i \in asked |-> "silent"], 1)
    \/ \E answer \in [asked -> words] :
        Hear(asked, feed, answer, Cardinality({i \in asked : answer[i] # "none"}))

(* One request for all npm packages that name a version; where several      *)
(* servers run one package, the version asked about is the last one's.      *)
FetchNpmAdvisories ==
    /\ Take(<<"npm", 0>>)
    /\ \/ Hear(By("npx"), "npm", [i \in By("npx") |-> "silent"], 1)
       \/ \E answer \in [By("npx") -> {"none", "mild", "hard"}] :
            /\ \A i \in By("npx") : ~Server(i).exact => answer[i] = "none"
            /\ Hear(By("npx"), "npm", answer,
                      Cardinality({i \in By("npx") : answer[i] # "none"}))

(* One batch per ecosystem; a hit is a stub that carries no severity.       *)
FetchOsvAdvisories(how) ==
    /\ Take(<<IF how = "npx" THEN "osvNpm" ELSE "osvPypi", 0>>)
    /\ Ask("osv", By(how), {"none", "stub"})

FetchGhsaAdvisories(i) == Take(<<"ghsa", i>>) /\ Ask("ghsa", {i}, {"none", "mild", "hard"})

FetchSnykAdvisories(i) == Take(<<"snyk", i>>) /\ Ask("snyk", {i}, {"none", "mild", "hard"})

(* The full record of a stub, where the severity lives; one that cannot be  *)
(* fetched leaves the severity unread.  `mild` is all that is not high or   *)
(* critical: a record without a severity that can be scored is read, counts *)
(* for nothing (osvSeverity's UNKNOWN), and has the line of a low one.      *)
EnrichOsvVulns(i) ==
    /\ Take(<<"detail", i>>)
    /\ \/ /\ heard[i].osv = "stub"
          /\ \E severity \in {"mild", "hard", "unread"} :
                Hear({i}, "osv", [j \in {i} |-> severity],
                       IF severity = "unread" THEN 1 ELSE 0)
       \/ heard[i].osv # "stub" /\ UNCHANGED <<run, heard, results, fails, trouble>>

(* The version's own document, and what is fetched because of it.  An image *)
(* has none; with --deep its manifest stands for the tarball.               *)
FetchManifest(i) ==
    /\ Take(<<"manifest", i>>)
    /\ \E m \in ManifestsWithin[MaxTrouble - trouble] :
        /\ m.tarball # "same" => Deep /\ Server(i).served
        /\ Server(i).how # "npx" =>
            m.signature = "ok" /\ m.provenance = "bound" /\ m.hooks = "no"
        /\ Server(i).how = "uvx" => m.came # "gone"
        /\ Server(i).how = "digest" => m = [Welcome EXCEPT !.tarball = m.tarball]
        /\ Hear({i}, "manifest", [j \in {i} |-> m], Unwelcome(m))

(* The tree, and OSV about everything in it; a tree's packages may be in    *)
(* several batches, of which some are silent.  --no-audit does not stop it. *)
ResolveTree(i) ==
    /\ Take(<<"tree", i>>)
    /\ \E t \in TreesWithin[MaxTrouble - trouble] :
        /\ Deps \/ t = GoodTree
        /\ Hear({i}, "tree", [j \in {i} |-> t], TreeTrouble(t))

-----------------------------------------------------------------------------
(* What a processor reads back.  GHSA's and Snyk's answers are kept by      *)
(* package and npm's by package, OSV's by position: of several servers of   *)
(* one package the last one's answer is read by all.                        *)

SamePackage(i) == {j \in All : Server(j).how = Server(i).how /\ Server(j).pkg = Server(i).pkg}

Read(i, feed) ==
    LET asked == IF feed = "npm" THEN {j \in SamePackage(i) : Server(j).exact}
                 ELSE SamePackage(i)
    IN  IF feed = "osv" \/ asked = {} THEN heard[i][feed] ELSE heard[Newest(asked)][feed]

(* withOsvDetail and unifyAdvisories: one advisory per id, GHSA's being     *)
(* OSV's, with the worst severity any feed gave it; an unread severity      *)
(* stays marked.                                                            *)
IdOf == [npm |-> "npm's", osv |-> "shared", ghsa |-> "shared", snyk |-> "snyk's"]

SeverityRank == [unread |-> 0, mild |-> 1, hard |-> 2]

(* Mutant of UnifyAdvisories: an id keeps what OSV said of it, and what     *)
(* another feed reports under the same id is dropped as a duplicate.        *)
UnifyAdvisoriesFirst(i) ==
    LET reported == {f \in Feeds : Read(i, f) \in DOMAIN SeverityRank}
        kept     == IF "osv" \in reported THEN reported \ {"ghsa"} ELSE reported
    IN  {[hard |-> SeverityRank[Read(i, f)] = 2, unresolved |-> Read(i, f) = "unread"] : f \in kept}

UnifyAdvisories(i) ==
    LET reported == {f \in Feeds : Read(i, f) \in DOMAIN SeverityRank}
        of(id)   == {f \in reported : IdOf[f] = id}
    IN  {[hard       |-> \E f \in of(id) : SeverityRank[Read(i, f)] = 2,
          unresolved |-> \E f \in of(id) : Read(i, f) = "unread"]
            : id \in {IdOf[f] : f \in reported}}

(* Mutant of DegradedFeedsFor: the health of the batch feeds only.          *)
DegradedBatchFeeds(i) == {f \in {"npm", "osv"} : Read(i, f) = "silent"}

DegradedFeedsFor(i) == {f \in Feeds : Read(i, f) = "silent"}
-----------------------------------------------------------------------------
(* Report lines.  A line has its tag, the finding the tag stands for (or    *)
(* the one the processor typed) and whether the processor counted it as a   *)
(* failure.                                                                 *)

Finding(rule, severity, state) == [rule |-> rule, severity |-> severity, state |-> state]

TagModel ==
    [FAIL       |-> Finding("verify/check-failed", "high", "observed"),
     CVE        |-> Finding("advisories/known-vulnerability", "high", "observed"),
     UNVERIFIED |-> Finding("verify/unverified", "medium", "not-run"),
     WARN       |-> Finding("metadata/mismatch", "medium", "observed"),
     HOOK       |-> Finding("install/hook", "medium", "observed"),
     DIGEST     |-> Finding("oci/unpinned-image", "medium", "observed"),
     SIG        |-> Finding("signature/verified", "info", "observed"),
     PROV       |-> Finding("provenance/claimed", "info", "observed"),
     PROVBOUND  |-> Finding("provenance/bound", "info", "observed"),
     DEPHOOK    |-> Finding("dependencies/install-hook", "low", "observed"),
     DEPCVE     |-> Finding("dependencies/advisory", "low", "observed"),
     NOTE       |-> Finding("verify/note", "info", "observed")]

Line(tag, counted) == [tag |-> tag, finding |-> TagModel[tag], counted |-> counted]

Typed(line, finding) == [line EXCEPT !.finding = finding]

Refusal    == Line("FAIL", TRUE)
Unverified == Line("UNVERIFIED", FailUnverified)
PinMissing == Typed(Unverified, Finding("pin/missing", "medium", "no-data"))

Only(b, line) == IF b THEN {line} ELSE {}

Manifest(i) == heard[i].manifest

(* Against the stored pin.  A release of wheels alone has no sdist to hash. *)
NoSdist(i) == Server(i).how = "uvx" /\ Manifest(i).integrity = "none"

IntegrityLines(i) ==
    Only(~Server(i).pinned, PinMissing)
    \cup Only(NoSdist(i), Unverified)
    \cup Only(/\ Server(i).pinned /\ ~NoSdist(i)
              /\ Manifest(i).integrity # "same", Refusal)

RepositoryLines(i) ==
    Only(Manifest(i).repo = "other", Line("WARN", Strict))
    \cup Only(Server(i).how = "npx" /\ ~Server(i).exact, Unverified)

SignatureLines(i) ==
    CASE Manifest(i).signature = "ok"   -> {Line("SIG", FALSE)}
      [] Manifest(i).signature = "fail" -> {Refusal}
      [] OTHER -> Only(RequireSignatures, Refusal)

ProvenanceLines(i) ==
    CASE Manifest(i).provenance = "bound" -> {Line("PROVBOUND", FALSE)}
      [] Manifest(i).provenance = "claimed" -> {Line("PROV", FALSE)} \cup Only(RequireBinding, Refusal)
      [] Manifest(i).provenance = "mismatch" ->
            {Typed(Line("WARN", Strict \/ RequireProvenance),
                   Finding("provenance/mismatch", "medium", "observed"))}
      [] OTHER -> Only(RequireProvenance, Refusal)

(* deepCheckArtifact: the bytes against the registry's own hash, then       *)
(* against the pin; bytes that could not be read are unverified.            *)
DeepCheckArtifact(i) ==
    LET m == Manifest(i)
    IN  IF NoSdist(i) \/ m.tarball = "unread" THEN "unverified"
        ELSE IF \/ m.tarball = "other" /\ (m.integrity # "none" \/ Server(i).pinned)
                \/ m.tarball = "same" /\ Server(i).pinned /\ m.integrity = "other"
             THEN "fail" ELSE "ok"

DeepLines(i) ==
    CASE ~Deep -> {}
      [] Deep /\ DeepCheckArtifact(i) = "fail" -> {Refusal}
      [] Deep /\ DeepCheckArtifact(i) = "unverified" -> {Unverified}
      [] OTHER -> {}

TreeLines(i) ==
    LET t == heard[i].tree
        high == Finding("dependencies/high-advisory", "low", "observed")
    IN  IF ~Deps \/ Server(i).how # "npx" THEN {}
        ELSE IF t.came = "failed" THEN {Unverified}
        ELSE Only(t.hooks = "yes", Line("DEPHOOK", FALSE))
             \cup Only(t.silent \/ "unread" \in t.hits, Unverified)
             \cup Only("hard" \in t.hits, Typed(Line("DEPCVE", FailDepAdvisories), high))
             \cup Only(t.hits # {} /\ "hard" \notin t.hits, Line("DEPCVE", FALSE))

(* A registry that names no licence where the entry does is a note, typed   *)
(* medium: the processor counts nothing.                                    *)
HookAndLicenseLines(i) ==
    Only(Manifest(i).hooks = "yes", Line("HOOK", Strict))
    \cup Only(Manifest(i).license = "none",
              Typed(Line("NOTE", FALSE), Finding("license/undeclared", "medium", "observed")))

AdvisoryLines(i) ==
    LET advisories == UnifyAdvisories(i)
        mild == Finding("advisories/known-vulnerability", "low", "observed")
        dark == Finding("advisories/feed-unreachable", "medium", "not-run")
    IN  Only(\E a \in advisories : a.hard, Line("CVE", TRUE))
        \cup Only(\E a \in advisories : ~a.hard, Typed(Line("CVE", FALSE), mild))
        \cup Only(\E a \in advisories : a.unresolved, Unverified)
        \cup Only(DegradedFeedsFor(i) # {}, Typed(Unverified, dark))

(* Mutant of AdvisoryState: an outage first, as it once was.                *)
AdvisoryStateOutageFirst(i) ==
    LET advisories == UnifyAdvisories(i)
    IN  IF DegradedFeedsFor(i) # {} \/ \E a \in advisories : a.unresolved THEN "unverified"
        ELSE IF \E a \in advisories : a.hard THEN "vulnerable"
        ELSE IF advisories # {} THEN "advisories-present"
        ELSE "clean"

(* The order matters: a feed that confirmed a high advisory has said        *)
(* something definite, and another being down does not unsay it.            *)
AdvisoryState(i) ==
    LET advisories == UnifyAdvisories(i)
    IN  IF \E a \in advisories : a.hard THEN "vulnerable"
        ELSE IF DegradedFeedsFor(i) # {} \/ \E a \in advisories : a.unresolved THEN "unverified"
        ELSE IF advisories # {} THEN "advisories-present"
        ELSE "clean"

ArtifactState(i) ==
    IF Deep THEN CASE DeepCheckArtifact(i) = "ok"   -> "verified"
                   [] DeepCheckArtifact(i) = "fail" -> "mismatch"
                   [] OTHER -> "unverified"
    ELSE IF ~Server(i).pinned \/ NoSdist(i) THEN "unverified"
    ELSE IF Manifest(i).integrity = "same" THEN "verified"
    ELSE "mismatch"
-----------------------------------------------------------------------------
(* The processors' results. *)

VerdictFor(lines) ==
    IF \E l \in lines : l.counted THEN "FAIL"
    ELSE IF \E l \in lines : l.tag = "UNVERIFIED" THEN "UNVERIFIED"
    ELSE "OK"

Judged(lines, artifact, advisories) ==
    Result(VerdictFor(lines), lines, \E l \in lines : l.counted, artifact, advisories)

(* Mutant of Unchecked: the method recorded as the state.                   *)
UncheckedByMethod == Result("UNVERIFIED", {}, FailUnverified, "registry-404", "nothing")

(* An early return is a result of its own, without a line.                  *)
Unchecked == Result("UNVERIFIED", {}, FailUnverified, "unverified", "nothing")

PackageLines(i) ==
    IntegrityLines(i) \cup RepositoryLines(i)
        \cup (IF Server(i).how = "npx" THEN SignatureLines(i) \cup ProvenanceLines(i) ELSE {})
        \cup DeepLines(i) \cup TreeLines(i) \cup HookAndLicenseLines(i) \cup AdvisoryLines(i)

ProcessPackage(i) ==
    IF Manifest(i).came # "ok" THEN Unchecked
    ELSE Judged(PackageLines(i), ArtifactState(i),
                IF run.audit THEN AdvisoryState(i) ELSE "nothing")

(* A digest is a claim until the manifest has been hashed (--deep).         *)
ProcessDigest(i) ==
    LET s       == Server(i)
        fetched == Deep /\ s.served /\ Manifest(i).tarball # "unread"
        hashes  == fetched /\ Manifest(i).tarball = "same"
        lines   == Only(~s.agrees \/ (fetched /\ ~hashes), Refusal)
                   \cup Only(Deep /\ ~fetched, Unverified)
    IN  Judged(lines,
               IF ~s.agrees \/ (fetched /\ ~hashes) THEN "mismatch"
               ELSE IF hashes THEN "verified" ELSE "unverified",
               "nothing")

ProcessTag ==
    Result(IF Strict THEN "FAIL" ELSE "WARN", {Line("DIGEST", Strict)}, Strict,
           "unverified", "nothing")

Processed(i) ==
    CASE Server(i).how \in {"npx", "uvx"} -> ProcessPackage(i)
      [] Server(i).how = "digest" -> ProcessDigest(i)
      [] Server(i).how = "tag" -> ProcessTag
      [] OTHER -> Unchecked

Process(i) ==
    /\ Take(<<"process", i>>)
    /\ results' = [results EXCEPT ![i] = Processed(i)]
    /\ UNCHANGED <<run, heard, fails, trouble>>

-----------------------------------------------------------------------------
(* The judgement: stored evidence that has aged out, the decision over the  *)
(* lines, and the counters brought in line with it.                         *)

AgedLine == Typed(Unverified, Finding("evidence/stale", "medium", "stale"))

Aged(i, r) ==
    IF ~Server(i).aged THEN r
    ELSE [r EXCEPT !.lines = @ \cup {AgedLine},
                   !.failed = @ \/ FailUnverified,
                   !.status = IF FailUnverified THEN "FAIL"
                              ELSE IF @ = "OK" THEN "UNVERIFIED" ELSE @]

(* A result without lines speaks by its status.                             *)
FindingsOf(r) ==
    {l.finding : l \in r.lines}
        \cup Only(r.lines = {} /\ r.status = "UNVERIFIED", TagModel["UNVERIFIED"])

(* The policy file's rows, in gate mode.                                    *)
PolicyDenies(i, r) ==
    LET rules == {f.rule : f \in FindingsOf(r)}
        npx   == Server(i).how = "npx"
    IN  \/ Wants("installHooks") /\ "install/hook" \in rules
        \/ Wants("dependencyHooks") /\ "dependencies/install-hook" \in rules
        \/ /\ Wants("dependencyAdvisories")
           /\ rules \cap {"dependencies/advisory", "dependencies/high-advisory"} # {}
        \/ Wants("signatures") /\ npx /\ "signature/verified" \notin rules
        \/ Wants("provenance") /\ npx /\ "provenance/claimed" \notin rules
        \/ Wants("docker") /\ "oci/unpinned-image" \in rules
        \/ Wants("unverified") /\ r.status = "UNVERIFIED"

(* Mutant of GateDenies: no row for an attestation of something else.       *)
GateDeniesWithoutProvenance(r) ==
    LET found == FindingsOf(r)
    IN  \/ \E f \in found : f.state = "observed" /\ f.severity = "high"
        \/ FailDepAdvisories /\ \E f \in found : f.rule = "dependencies/high-advisory"

GateDenies(r) ==
    LET found == FindingsOf(r)
    IN  \/ \E f \in found : f.state = "observed" /\ f.severity = "high"
        \/ RequireProvenance /\ \E f \in found : f.rule = "provenance/mismatch"
        \/ FailDepAdvisories /\ \E f \in found : f.rule = "dependencies/high-advisory"

Unknown(r) == \E f \in FindingsOf(r) : f.state # "observed"

HasMedium(r) == \E f \in FindingsOf(r) : f.state = "observed" /\ f.severity = "medium"

DecisionFails(i, r) ==
    \/ PolicyDenies(i, r) \/ GateDenies(r)
    \/ FailUnverified /\ Unknown(r)
    \/ Strict /\ HasMedium(r)

(* A row that refuses is printed and counted; an entry whose decision fails *)
(* and that nothing counted is counted here.                                *)
Settled(i, r) ==
    [r EXCEPT !.failed = @ \/ DecisionFails(i, r),
              !.status = IF \/ PolicyDenies(i, r)
                            \/ DecisionFails(i, r) /\ ~r.failed THEN "FAIL" ELSE @]

Judge ==
    /\ Take(<<"judge", 0>>)
    /\ fails' = [i \in All |-> DecisionFails(i, Aged(i, results[i]))]
    /\ results' = [i \in All |-> Settled(i, Aged(i, results[i]))]
    /\ UNCHANGED <<run, heard, trouble>>

Next ==
    \/ FetchNpmAdvisories
    \/ \E how \in {"npx", "uvx"} : FetchOsvAdvisories(how)
    \/ \E i \in All :
        \/ FetchGhsaAdvisories(i) \/ FetchSnykAdvisories(i) \/ EnrichOsvVulns(i)
        \/ FetchManifest(i) \/ ResolveTree(i) \/ Process(i)
    \/ Judge

Spec == Init /\ [][Next]_vars

(* exitFor: the decisions' code and the counters', the worse of the two.    *)
Done        == todo = {}
ModelCode   == IF \E i \in All : fails[i] THEN 1 ELSE 0
CounterCode == IF \E i \in All : results[i].failed THEN 1 ELSE 0
Exit        == IF ModelCode = 1 \/ CounterCode = 1 THEN 1 ELSE 0
-----------------------------------------------------------------------------
(* Properties. *)

TypeOK ==
    /\ run \in Invocations
    /\ DOMAIN heard = All /\ DOMAIN results = All /\ fails \in [All -> BOOLEAN]
    /\ trouble \in 0..MaxTrouble
    /\ \A i \in All :
        /\ heard[i].manifest \in Manifests /\ heard[i].tree \in Trees
        /\ results[i] # Open =>
            /\ results[i].status \in {"OK", "WARN", "UNVERIFIED", "FAIL"}
            /\ results[i].artifact \in {"verified", "mismatch", "unverified"}
            /\ results[i].failed \in BOOLEAN

(* Everything this run had to see of the server was seen and was good: the  *)
(* release and its stored hash, every feed that was asked and every         *)
(* severity, the bytes under --deep, the whole tree under --deps.           *)
Answered(i) ==
    LET s == Server(i)
        m == heard[i].manifest
        t == heard[i].tree
    IN  /\ ~s.aged
        /\ \/ /\ s.how \in {"npx", "uvx"}
              /\ s.exact /\ s.pinned /\ m.came = "ok" /\ m.integrity = "same"
              /\ m.signature # "fail"
              /\ \A f \in Feeds : heard[i][f] \in {"unasked", "none", "mild"}
              /\ Deep => m.tarball = "same"
              /\ Deps /\ s.how = "npx" =>
                    t.came = "ok" /\ ~t.silent /\ "unread" \notin t.hits
           \/ /\ s.how = "digest" /\ s.agrees
              /\ Deep => s.served /\ m.tarball = "same"

(* A registry that cannot be reached is UNVERIFIED, never OK: an entry that *)
(* reads OK, or one let through by a run that fails on what it could not    *)
(* check, was seen and was good in every respect the run asks about (the    *)
(* header of verify_integrity.cjs; an image by tag is a warning).           *)
PassIsEarned ==
    /\ TypeOK
    /\ Done => \A i \in All :
          (results[i].status = "OK" \/ (FailUnverified /\ Exit = 0 /\ Server(i).how # "tag"))
              => Answered(i)

(* A feed that confirmed a high advisory against the release has told us    *)
(* something definite: the entry fails and is recorded vulnerable, whatever *)
(* the other feeds said or failed to say (processNpm, unifyAdvisories), and *)
(* the counters the processors keep and the decision over their lines give  *)
(* one answer (the internal disagreement exitFor reports never happens).    *)
KnownIsRefused ==
    Done =>
        /\ ModelCode = CounterCode
        /\ \A i \in Packages :
              heard[i].manifest.came = "ok" /\ (\E f \in Feeds : heard[i][f] = "hard")
                  => /\ results[i].advisories = "vulnerable"
                     /\ results[i].status = "FAIL" /\ Exit = 1

(* Every server's advisories are judged as AdvisoryLook promises: each step *)
(* of a run is, for every server, a step of the look at its advisories.     *)
Look(i) == INSTANCE AdvisoryLook WITH
    told    <- [f \in Feeds |-> IF heard[i][f] = "stub" THEN "pending" ELSE heard[i][f]],
    verdict <- results[i].advisories

ImplementsLook ==
    /\ \A i \in All : Look(i)!Init
    /\ [][\A i \in All : Look(i)!Next \/ UNCHANGED Look(i)!vars]_vars
=============================================================================
