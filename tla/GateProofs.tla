----------------------------- MODULE GateProofs -----------------------------
(***************************************************************************)
(* The gate and the policy it is judged by (Gate, PolicyInForce), for      *)
(* every set of runs, every bound on what goes wrong in one, every set of  *)
(* files and entries, and whatever people write.                           *)
(*                                                                         *)
(* A run is a straight line with everything interesting in its data, so    *)
(* the inductive invariant has two halves: the agenda is worked off in     *)
(* order, and a server's report is open until it is processed, sound of    *)
(* what was heard from then on, and final when it has been judged.  That   *)
(* Processed makes a sound report is a statement about the lines of one    *)
(* server, proved apart from the order of the run.                         *)
(*                                                                         *)
(* Feeds are keyed by package, so everything here is about runs in which   *)
(* no two servers run one package (Apart): with two, KnownIsRefused is     *)
(* false (Gate_two_releases.cfg).                                          *)
(*                                                                         *)
(* Of policies: the merge of layers is at least as strict as each          *)
(* (MergeIsStricter), a row that refuses under one policy refuses under a  *)
(* stricter one (RefusalsHold), and so what any file refuses is refused by *)
(* the policy in force; and what a sound file says is what is enforced.    *)
(***************************************************************************)
EXTENDS Gate, PolicyInForce, FiniteSetTheorems, TLAPS

Apart ==
    \A inv \in Invocations : \A i, j \in DOMAIN inv.servers :
        /\ inv.servers[i].how \in {"npx", "uvx"}
        /\ inv.servers[i].how = inv.servers[j].how
        /\ inv.servers[i].pkg = inv.servers[j].pkg
        => i = j

Words == {"unasked", "pending", "silent", "none", "mild", "hard", "stub", "unread"}

Hearings == [npm : Words, osv : Words, ghsa : Words, snyk : Words,
             manifest : Manifests, tree : Trees]

(* Does the run ask the feed about the server, and by which question?       *)
IsAsked(i, f) == Expected(run, i)[f] = "pending"

QuestionOf(i, f) ==
    CASE f = "npm"  -> <<"npm", 0>>
      [] f = "osv"  -> <<IF Server(i).how = "npx" THEN "osvNpm" ELSE "osvPypi", 0>>
      [] f = "ghsa" -> <<"ghsa", i>>
      [] f = "snyk" -> <<"snyk", i>>

Ordered == \A s \in Agenda(run) \ todo, t \in todo : Before(s, t)

HeardInv ==
    \A i \in All :
        /\ \A f \in Feeds :
            /\ IF IsAsked(i, f)
               THEN /\ heard[i][f] # "unasked"
                    /\ (heard[i][f] = "pending") = (QuestionOf(i, f) \in todo)
               ELSE heard[i][f] = "unasked"
            /\ heard[i][f] = "stub" => f = "osv" /\ <<"detail", i>> \in todo
        /\ Server(i).how # "npx" => heard[i].manifest.signature = "ok"

(* What the report of a processed server says of what was heard.            *)
SeenGood(i) ==
    LET s == Server(i)
        m == heard[i].manifest
        t == heard[i].tree
    IN  \/ /\ s.how \in {"npx", "uvx"}
           /\ s.exact /\ s.pinned /\ m.came = "ok" /\ m.integrity = "same"
           /\ m.signature # "fail"
           /\ \A f \in Feeds : heard[i][f] \in {"unasked", "none", "mild"}
           /\ Deep => m.tarball = "same"
           /\ Deps /\ s.how = "npx" =>
                 t.came = "ok" /\ ~t.silent /\ "unread" \notin t.hits
        \/ /\ s.how = "digest" /\ s.agrees
           /\ Deep => s.served /\ m.tarball = "same"

Known(i) ==
    /\ i \in Packages /\ heard[i].manifest.came = "ok"
    /\ \E f \in Feeds : heard[i][f] = "hard"

(* The gate's own rows, for one finding. *)
Refuses(f) ==
    \/ f.state = "observed" /\ f.severity = "high"
    \/ RequireProvenance /\ f.rule = "provenance/mismatch"
    \/ FailDepAdvisories /\ f.rule = "dependencies/high-advisory"
    \/ FailUnverified /\ f.state # "observed"
    \/ Strict /\ f.state = "observed" /\ f.severity = "medium"

IsReport(r) ==
    /\ r = Result(r.status, r.lines, r.failed, r.artifact, r.advisories)
    /\ r.status \in {"OK", "WARN", "UNVERIFIED", "FAIL"}
    /\ r.artifact \in {"verified", "mismatch", "unverified"}
    /\ r.failed \in BOOLEAN

Passes(i, r) ==
    r.status = "OK" \/ (FailUnverified /\ ~r.failed /\ Server(i).how # "tag")

IsKnown(r) == r.advisories = "vulnerable" /\ r.status = "FAIL" /\ r.failed

Sound(i, r) ==
    /\ IsReport(r)
    /\ Passes(i, r) => SeenGood(i)
    /\ r.failed => \E f \in FindingsOf(r) : Refuses(f)
    /\ Known(i) => IsKnown(r)

Final(i, r, fails_i) ==
    /\ IsReport(r)
    /\ Passes(i, r) => Answered(i)
    /\ fails_i = r.failed
    /\ Known(i) => IsKnown(r)

ReportInv ==
    \A i \in All :
        /\ <<"process", i>> \in todo => results[i] = Open
        /\ <<"process", i>> \notin todo /\ <<"judge", 0>> \in todo => Sound(i, results[i])
        /\ <<"judge", 0>> \notin todo => Final(i, results[i], fails[i])

RunTypeOK ==
    /\ run \in Invocations
    /\ todo \subseteq Agenda(run)
    /\ heard \in [All -> Hearings]
    /\ DOMAIN results = All
    /\ fails \in [All -> BOOLEAN]
    /\ trouble \in 0 .. MaxTrouble

IInv == RunTypeOK /\ Ordered /\ HeardInv /\ ReportInv

-----------------------------------------------------------------------------
(* The run and its servers. *)

LEMMA ServerTyped ==
    ASSUME run \in Invocations, NEW i \in All
    PROVE  /\ Server(i).how \in Hows
           /\ ~Server(i).exact => ~Server(i).pinned
           /\ Server(i).exact \in BOOLEAN /\ Server(i).pinned \in BOOLEAN
           /\ Server(i).aged \in BOOLEAN /\ Server(i).agrees \in BOOLEAN
           /\ Server(i).served \in BOOLEAN
           /\ i \in Nat \ {0}
<1> DEFINE s == Server(i)
<1>1. /\ s.how \in Hows /\ (~s.exact => ~s.pinned)
      /\ {s.exact, s.pinned, s.aged, s.agrees, s.served} \subseteq BOOLEAN
      /\ i \in Nat \ {0}
  BY GateConstants DEF Server, All
<1> QED
  BY <1>1

LEMMA AllFinite == run \in Invocations => IsFiniteSet(All) /\ All \subseteq Nat \ {0}
  BY GateConstants DEF All

LEMMA SwitchesTyped ==
    /\ Strict \in BOOLEAN /\ FailUnverified \in BOOLEAN /\ Deep \in BOOLEAN
    /\ Deps \in BOOLEAN /\ RequireProvenance \in BOOLEAN
    /\ FailDepAdvisories \in BOOLEAN /\ RequireSignatures \in BOOLEAN
    /\ RequireBinding \in BOOLEAN
    /\ RequireBinding => RequireProvenance
  BY DEF Strict, FailUnverified, Deep, Deps, RequireProvenance, FailDepAdvisories,
         RequireSignatures, RequireBinding, Flag, Wants

(* Of a package that only one server runs, that server's answer is read.    *)
LEMMA ReadsItsOwn ==
    ASSUME Apart, run \in Invocations, NEW i \in Packages, NEW f
    PROVE  Read(i, f) = heard[i][f]
<1>1. i \in All /\ Server(i).how \in {"npx", "uvx"}
  BY DEF Packages, By
<1>2. SamePackage(i) = {i}
  BY <1>1 DEF SamePackage, Apart, Server, All
<1>3. ASSUME NEW I, I = {i} PROVE Newest(I) = i
  <2>1. i \in I /\ (\A j \in I : j <= i)
    BY <1>1, <1>3, ServerTyped
  <2>2. \A x \in I : x = i
    BY <1>3
  <2> QED
    BY <2>1, <2>2 DEF Newest
<1>4. \A I : I \subseteq {i} => I = {} \/ I = {i}
  OBVIOUS
<1> DEFINE asked == IF f = "npm" THEN {j \in SamePackage(i) : Server(j).exact}
                    ELSE SamePackage(i)
<1>5. asked \subseteq {i}
  BY <1>2
<1>6. Read(i, f) = IF f = "osv" \/ asked = {} THEN heard[i][f] ELSE heard[Newest(asked)][f]
  BY DEF Read
<1> HIDE DEF asked
<1> QED
  BY <1>3, <1>4, <1>5, <1>6

-----------------------------------------------------------------------------
(* The advisories of one package. *)

Settles(i) == \A f \in Feeds : heard[i][f] \in
                 {"unasked", "silent", "none", "mild", "hard", "unread"}

LEMMA HardIsUnified ==
    ASSUME Apart, run \in Invocations, NEW i \in Packages, NEW f \in Feeds
    PROVE  /\ heard[i][f] = "hard" => \E a \in UnifyAdvisories(i) : a.hard
           /\ heard[i][f] = "unread" => \E a \in UnifyAdvisories(i) : a.unresolved
           /\ heard[i][f] = "mild" => UnifyAdvisories(i) # {}
           /\ heard[i][f] = "silent" => DegradedFeedsFor(i) # {}
<1> DEFINE reported == {g \in Feeds : Read(i, g) \in DOMAIN SeverityRank}
           of(id)   == {g \in reported : IdOf[g] = id}
           ids      == {IdOf[g] : g \in reported}
           about(id) == [hard       |-> \E g \in of(id) : SeverityRank[Read(i, g)] = 2,
                         unresolved |-> \E g \in of(id) : Read(i, g) = "unread"]
<1>1. UnifyAdvisories(i) = {about(id) : id \in ids}
  BY DEF UnifyAdvisories
<1>2. Read(i, f) = heard[i][f]
  BY ReadsItsOwn
<1>3. DOMAIN SeverityRank = {"unread", "mild", "hard"} /\ SeverityRank["hard"] = 2
  BY DEF SeverityRank
<1>4. ASSUME heard[i][f] \in {"unread", "mild", "hard"}
      PROVE  f \in of(IdOf[f]) /\ about(IdOf[f]) \in UnifyAdvisories(i)
  <2>1. f \in reported
    BY <1>2, <1>3, <1>4
  <2>2. f \in of(IdOf[f]) /\ IdOf[f] \in ids
    BY <2>1
  <2> HIDE DEF about, of, ids
  <2> QED
    BY <1>1, <2>2
<1>5. heard[i][f] = "hard" => about(IdOf[f]).hard
  BY <1>2, <1>3, <1>4
<1>6. heard[i][f] = "unread" => about(IdOf[f]).unresolved
  BY <1>2, <1>4
<1>7. heard[i][f] = "silent" => f \in DegradedFeedsFor(i)
  BY <1>2 DEF DegradedFeedsFor
<1> HIDE DEF of, about
<1> QED
  BY <1>4, <1>5, <1>6, <1>7

LEMMA UnifiedIsHeard ==
    ASSUME Apart, run \in Invocations, NEW i \in Packages
    PROVE  /\ \A a \in UnifyAdvisories(i) :
                 /\ a.hard => \E f \in Feeds : heard[i][f] = "hard"
                 /\ a.unresolved => \E f \in Feeds : heard[i][f] = "unread"
                 /\ ~a.hard /\ ~a.unresolved => \E f \in Feeds : heard[i][f] = "mild"
           /\ DegradedFeedsFor(i) # {} => \E f \in Feeds : heard[i][f] = "silent"
<1> DEFINE reported == {g \in Feeds : Read(i, g) \in DOMAIN SeverityRank}
           of(id)   == {g \in reported : IdOf[g] = id}
           ids      == {IdOf[g] : g \in reported}
           about(id) == [hard       |-> \E g \in of(id) : SeverityRank[Read(i, g)] = 2,
                         unresolved |-> \E g \in of(id) : Read(i, g) = "unread"]
<1>1. UnifyAdvisories(i) = {about(id) : id \in ids}
  BY DEF UnifyAdvisories
<1>2. \A f \in Feeds : Read(i, f) = heard[i][f]
  BY ReadsItsOwn
<1>3. DOMAIN SeverityRank = {"unread", "mild", "hard"} /\ SeverityRank["hard"] = 2
      /\ SeverityRank["unread"] = 0 /\ SeverityRank["mild"] = 1
  BY DEF SeverityRank
<1>4. ASSUME NEW a \in UnifyAdvisories(i)
      PROVE  /\ a.hard => \E f \in Feeds : heard[i][f] = "hard"
             /\ a.unresolved => \E f \in Feeds : heard[i][f] = "unread"
             /\ ~a.hard /\ ~a.unresolved => \E f \in Feeds : heard[i][f] = "mild"
  <2>1. PICK g \in reported : a = about(IdOf[g])
    BY <1>1, <1>4
  <2>2. /\ a.hard = \E h \in of(IdOf[g]) : SeverityRank[Read(i, h)] = 2
        /\ a.unresolved = \E h \in of(IdOf[g]) : Read(i, h) = "unread"
        /\ g \in of(IdOf[g])
    BY <2>1
  <2>3. \A h \in of(IdOf[g]) : h \in Feeds /\ Read(i, h) \in {"unread", "mild", "hard"}
    BY <1>3
  <2> HIDE DEF of
  <2>4. ASSUME a.hard PROVE \E f \in Feeds : heard[i][f] = "hard"
    <3>1. PICK h \in of(IdOf[g]) : SeverityRank[Read(i, h)] = 2
      BY <2>2, <2>4
    <3>2. Read(i, h) = "hard"
      BY <1>3, <2>3, <3>1
    <3> QED
      BY <1>2, <2>3, <3>2
  <2>5. a.unresolved => \E f \in Feeds : heard[i][f] = "unread"
    BY <1>2, <2>2, <2>3
  <2>6. ~a.hard /\ ~a.unresolved => heard[i][g] = "mild"
    BY <1>2, <1>3, <2>2, <2>3
  <2> QED
    BY <2>4, <2>5, <2>6
<1>5. DegradedFeedsFor(i) # {} => \E f \in Feeds : heard[i][f] = "silent"
  BY <1>2 DEF DegradedFeedsFor
<1> QED
  BY <1>4, <1>5

-----------------------------------------------------------------------------
(* The lines. *)

LEMMA TheLines ==
    /\ Refusal = [tag |-> "FAIL", counted |-> TRUE,
                  finding |-> Finding("verify/check-failed", "high", "observed")]
    /\ Unverified = [tag |-> "UNVERIFIED", counted |-> FailUnverified,
                     finding |-> Finding("verify/unverified", "medium", "not-run")]
    /\ PinMissing = [tag |-> "UNVERIFIED", counted |-> FailUnverified,
                     finding |-> Finding("pin/missing", "medium", "no-data")]
    /\ AgedLine = [tag |-> "UNVERIFIED", counted |-> FailUnverified,
                   finding |-> Finding("evidence/stale", "medium", "stale")]
  BY DEF Refusal, Unverified, PinMissing, AgedLine, Typed, Line, TagModel

LEMMA LineParts ==
    ASSUME NEW tag, NEW counted, NEW finding
    PROVE  /\ Line(tag, counted).tag = tag /\ Line(tag, counted).counted = counted
           /\ Line(tag, counted).finding = TagModel[tag]
           /\ Typed(Line(tag, counted), finding) =
                 [tag |-> tag, finding |-> finding, counted |-> counted]
           /\ Typed(Unverified, finding) =
                 [tag |-> "UNVERIFIED", finding |-> finding, counted |-> FailUnverified]
  BY TheLines DEF Line, Typed

LEMMA TheFindings ==
    /\ TagModel["WARN"] = Finding("metadata/mismatch", "medium", "observed")
    /\ TagModel["CVE"] = Finding("advisories/known-vulnerability", "high", "observed")
    /\ TagModel["HOOK"] = Finding("install/hook", "medium", "observed")
    /\ TagModel["DIGEST"] = Finding("oci/unpinned-image", "medium", "observed")
    /\ TagModel["UNVERIFIED"] = Finding("verify/unverified", "medium", "not-run")
  BY DEF TagModel

LEMMA FindingParts ==
    ASSUME NEW rule, NEW severity, NEW state
    PROVE  /\ Finding(rule, severity, state).rule = rule
           /\ Finding(rule, severity, state).severity = severity
           /\ Finding(rule, severity, state).state = state
  BY DEF Finding

(* Whatever a processor counts, the rows refuse. *)
Agrees(l) == l.counted => Refuses(l.finding)

LEMMA AgreesIf ==
    ASSUME NEW tag, NEW counted \in BOOLEAN, NEW finding,
           counted => Refuses(finding)
    PROVE  /\ Agrees(Typed(Line(tag, counted), finding))
           /\ TagModel[tag] = finding => Agrees(Line(tag, counted))
<1>1. Typed(Line(tag, counted), finding).counted = counted
      /\ Typed(Line(tag, counted), finding).finding = finding
  BY DEF Typed, Line
<1>2. Line(tag, counted).counted = counted /\ Line(tag, counted).finding = TagModel[tag]
  BY DEF Line
<1> QED
  BY <1>1, <1>2 DEF Agrees

LEMMA NamedLinesAgree ==
    /\ Agrees(Refusal) /\ Agrees(Unverified) /\ Agrees(PinMissing) /\ Agrees(AgedLine)
    /\ Agrees(Line("WARN", Strict)) /\ Agrees(Line("HOOK", Strict))
    /\ Agrees(Line("DIGEST", Strict)) /\ Agrees(Line("CVE", TRUE))
    /\ \A tag, finding : Agrees(Line(tag, FALSE)) /\ Agrees(Typed(Line(tag, FALSE), finding))
    /\ Agrees(Typed(Line("WARN", Strict \/ RequireProvenance),
                    Finding("provenance/mismatch", "medium", "observed")))
    /\ Agrees(Typed(Line("DEPCVE", FailDepAdvisories),
                    Finding("dependencies/high-advisory", "low", "observed")))
    /\ Agrees(Typed(Unverified,
                    Finding("advisories/feed-unreachable", "medium", "not-run")))
<1>1. Agrees(Refusal) /\ Agrees(Unverified) /\ Agrees(PinMissing) /\ Agrees(AgedLine)
  BY TheLines DEF Agrees, Refuses, Finding
<1>2. Agrees(Line("WARN", Strict)) /\ Agrees(Line("HOOK", Strict))
      /\ Agrees(Line("DIGEST", Strict))
  <2>1. \A rule : Strict => Refuses(Finding(rule, "medium", "observed"))
    BY FindingParts DEF Refuses
  <2> QED
    BY <2>1, AgreesIf, TheFindings, SwitchesTyped
<1>3. Agrees(Line("CVE", TRUE))
  <2>1. Refuses(TagModel["CVE"])
    BY TheFindings, FindingParts DEF Refuses
  <2> QED
    BY <2>1, AgreesIf
<1>4. ASSUME NEW tag, NEW finding
      PROVE  Agrees(Line(tag, FALSE)) /\ Agrees(Typed(Line(tag, FALSE), finding))
  BY AgreesIf
<1>5. Agrees(Typed(Line("WARN", Strict \/ RequireProvenance),
                   Finding("provenance/mismatch", "medium", "observed")))
  <2>1. Strict \/ RequireProvenance =>
            Refuses(Finding("provenance/mismatch", "medium", "observed"))
    BY FindingParts DEF Refuses
  <2>2. (Strict \/ RequireProvenance) \in BOOLEAN
    OBVIOUS
  <2> QED
    BY <2>1, <2>2, AgreesIf
<1>6. Agrees(Typed(Line("DEPCVE", FailDepAdvisories),
                   Finding("dependencies/high-advisory", "low", "observed")))
  <2>1. FailDepAdvisories =>
            Refuses(Finding("dependencies/high-advisory", "low", "observed"))
    BY FindingParts DEF Refuses
  <2> QED
    BY <2>1, SwitchesTyped, AgreesIf
<1>7. Agrees(Typed(Unverified, Finding("advisories/feed-unreachable", "medium", "not-run")))
  <2>1. FailUnverified =>
            Refuses(Finding("advisories/feed-unreachable", "medium", "not-run"))
    BY FindingParts DEF Refuses
  <2> QED
    BY <2>1, SwitchesTyped, AgreesIf DEF Unverified
<1> QED
  BY <1>1, <1>2, <1>3, <1>4, <1>5, <1>6, <1>7

LEMMA PackageLinesAgree ==
    ASSUME NEW i, NEW l \in PackageLines(i)
    PROVE  Agrees(l)
<1>1. ASSUME l \in IntegrityLines(i) PROVE Agrees(l)
  BY <1>1, NamedLinesAgree DEF IntegrityLines, Only
<1>2. ASSUME l \in RepositoryLines(i) PROVE Agrees(l)
  BY <1>2, NamedLinesAgree DEF RepositoryLines, Only
<1>3. ASSUME l \in SignatureLines(i) PROVE Agrees(l)
  BY <1>3, NamedLinesAgree DEF SignatureLines, Only
<1>4. ASSUME l \in ProvenanceLines(i) PROVE Agrees(l)
  BY <1>4, NamedLinesAgree DEF ProvenanceLines, Only
<1>5. ASSUME l \in DeepLines(i) PROVE Agrees(l)
  BY <1>5, NamedLinesAgree DEF DeepLines
<1>6. ASSUME l \in TreeLines(i) PROVE Agrees(l)
  BY <1>6, NamedLinesAgree DEF TreeLines, Only
<1>7. ASSUME l \in HookAndLicenseLines(i) PROVE Agrees(l)
  BY <1>7, NamedLinesAgree DEF HookAndLicenseLines, Only
<1>8. ASSUME l \in AdvisoryLines(i) PROVE Agrees(l)
  BY <1>8, NamedLinesAgree DEF AdvisoryLines, Only
<1> QED
  BY <1>1, <1>2, <1>3, <1>4, <1>5, <1>6, <1>7, <1>8 DEF PackageLines

-----------------------------------------------------------------------------
(* The report of a server is sound. *)

(* What has been heard of a server when it is processed.                    *)
Complete(i) ==
    /\ heard[i] \in Hearings
    /\ Settles(i)
    /\ Server(i).how # "npx" => heard[i].manifest.signature = "ok"
    /\ \A f \in Feeds : heard[i][f] # "unasked" => run.audit

Counts(lines) == \E l \in lines : l.counted

(* Neither a failure nor, where it would not be one, an open question.      *)
Quiet(lines) ==
    /\ ~Counts(lines)
    /\ FailUnverified \/ ~\E l \in lines : l.tag = "UNVERIFIED"

LEMMA QuietLacks ==
    ASSUME NEW lines, Quiet(lines)
    PROVE  /\ Refusal \notin lines /\ Unverified \notin lines /\ PinMissing \notin lines
           /\ Line("CVE", TRUE) \notin lines
           /\ Typed(Unverified, Finding("advisories/feed-unreachable", "medium", "not-run"))
                 \notin lines
<1>1. Refusal.counted = TRUE /\ Line("CVE", TRUE).counted = TRUE
  BY TheLines, LineParts
<1>2. Refusal \notin lines /\ Line("CVE", TRUE) \notin lines
  BY <1>1 DEF Quiet, Counts
<1>3. ASSUME NEW l, l.counted = FailUnverified, l.tag = "UNVERIFIED"
      PROVE  l \notin lines
  BY <1>3 DEF Quiet, Counts
<1>4. Unverified \notin lines /\ PinMissing \notin lines
  BY <1>3, TheLines
<1>5. Typed(Unverified, Finding("advisories/feed-unreachable", "medium", "not-run"))
         \notin lines
  BY <1>3, LineParts
<1> QED
  BY <1>2, <1>4, <1>5

LEMMA QuietPackageIsGood ==
    ASSUME Apart, run \in Invocations, NEW i \in Packages, Complete(i),
           heard[i].manifest.came = "ok", Quiet(PackageLines(i))
    PROVE  SeenGood(i)
<1> DEFINE m == heard[i].manifest
           t == heard[i].tree
           s == Server(i)
           L == PackageLines(i)
<1>1. i \in All /\ s.how \in {"npx", "uvx"}
  BY DEF Packages, By
<1>2. /\ m.integrity \in {"same", "other", "none"}
      /\ m.signature \in {"ok", "fail", "unverified"}
      /\ m.tarball \in {"same", "other", "unread"}
      /\ t.came \in {"ok", "failed"} /\ t.silent \in BOOLEAN
  BY DEF Complete, Hearings, Manifests, Trees
<1>3. /\ Refusal \notin L /\ Unverified \notin L /\ PinMissing \notin L
      /\ Line("CVE", TRUE) \notin L
      /\ Typed(Unverified, Finding("advisories/feed-unreachable", "medium", "not-run"))
            \notin L
  BY QuietLacks
<1>4. /\ IntegrityLines(i) \subseteq L /\ DeepLines(i) \subseteq L
      /\ TreeLines(i) \subseteq L /\ AdvisoryLines(i) \subseteq L
      /\ s.how = "npx" => SignatureLines(i) \subseteq L
  BY DEF PackageLines
<1> HIDE DEF L
<1>5. s.pinned /\ ~NoSdist(i) /\ m.integrity = "same"
  <2>1. PinMissing \notin IntegrityLines(i) /\ Unverified \notin IntegrityLines(i)
        /\ Refusal \notin IntegrityLines(i)
    BY <1>3, <1>4
  <2>2. s.pinned
    BY <2>1 DEF IntegrityLines, Only
  <2>3. ~NoSdist(i)
    BY <2>1 DEF IntegrityLines, Only
  <2> QED
    BY <2>1, <2>2, <2>3 DEF IntegrityLines, Only, Manifest
<1>6. s.exact
  BY <1>1, <1>5, ServerTyped
<1>7. m.signature # "fail"
  <2>1. CASE s.how = "npx"
    <3>1. Refusal \notin SignatureLines(i)
      BY <1>3, <1>4, <2>1
    <3> QED
      BY <3>1 DEF SignatureLines, Manifest
  <2>2. CASE s.how # "npx"
    BY <2>2 DEF Complete
  <2> QED
    BY <2>1, <2>2
<1>8. Deep => m.tarball = "same"
  <2>1. Refusal \notin DeepLines(i) /\ Unverified \notin DeepLines(i)
    BY <1>3, <1>4
  <2>2. Deep => DeepCheckArtifact(i) \notin {"fail", "unverified"}
    BY <2>1 DEF DeepLines
  <2> QED
    BY <1>2, <1>5, <2>2 DEF DeepCheckArtifact, Manifest
<1>9. Deps /\ s.how = "npx" => t.came = "ok" /\ ~t.silent /\ "unread" \notin t.hits
  <2>1. Unverified \notin TreeLines(i)
    BY <1>3, <1>4
  <2> QED
    BY <1>2, <2>1 DEF TreeLines, Only
<1>10. \A f \in Feeds : heard[i][f] \in {"unasked", "none", "mild"}
  <2>1. /\ Line("CVE", TRUE) \notin AdvisoryLines(i) /\ Unverified \notin AdvisoryLines(i)
        /\ Typed(Unverified, Finding("advisories/feed-unreachable", "medium", "not-run"))
              \notin AdvisoryLines(i)
    BY <1>3, <1>4
  <2>2. ~\E a \in UnifyAdvisories(i) : a.hard
    BY <2>1 DEF AdvisoryLines, Only
  <2>3. ~\E a \in UnifyAdvisories(i) : a.unresolved
    BY <2>1 DEF AdvisoryLines, Only
  <2>4. DegradedFeedsFor(i) = {}
    BY <2>1 DEF AdvisoryLines, Only
  <2>5. \A f \in Feeds : heard[i][f] \notin {"hard", "unread", "silent"}
    BY <2>2, <2>3, <2>4, HardIsUnified
  <2> QED
    BY <2>5 DEF Complete, Settles
<1> QED
  BY <1>1, <1>5, <1>6, <1>7, <1>8, <1>9, <1>10 DEF SeenGood

LEMMA ReportParts ==
    ASSUME NEW status, NEW lines, NEW failed, NEW artifact, NEW advisories
    PROVE  /\ Result(status, lines, failed, artifact, advisories).status = status
           /\ Result(status, lines, failed, artifact, advisories).lines = lines
           /\ Result(status, lines, failed, artifact, advisories).failed = failed
           /\ Result(status, lines, failed, artifact, advisories).artifact = artifact
           /\ Result(status, lines, failed, artifact, advisories).advisories = advisories
  BY DEF Result

LEMMA JudgedIsReport ==
    ASSUME NEW lines, NEW artifact \in {"verified", "mismatch", "unverified"},
           NEW advisories, NEW r, r = Judged(lines, artifact, advisories)
    PROVE  /\ IsReport(r)
           /\ r.lines = lines /\ r.advisories = advisories
           /\ r.failed = Counts(lines)
           /\ r.status = VerdictFor(lines)
<1> DEFINE counted == Counts(lines)
<1>1. VerdictFor(lines) \in {"OK", "WARN", "UNVERIFIED", "FAIL"}
  BY DEF VerdictFor
<1>2. r = Result(VerdictFor(lines), lines, counted, artifact, advisories)
  BY DEF Judged, Counts
<1>3. counted \in BOOLEAN
  BY DEF Counts
<1> HIDE DEF counted
<1>4. /\ r.lines = lines /\ r.advisories = advisories /\ r.artifact = artifact
      /\ r.failed = counted /\ r.status = VerdictFor(lines)
  BY <1>2, ReportParts
<1>5. IsReport(r)
  BY <1>1, <1>2, <1>3, <1>4 DEF IsReport
<1> QED
  BY <1>4, <1>5 DEF counted

LEMMA JudgedRefuses ==
    ASSUME NEW lines, \A l \in lines : Agrees(l), NEW r, r.lines = lines,
           Counts(lines)
    PROVE  \E f \in FindingsOf(r) : Refuses(f)
  BY DEF Agrees, FindingsOf, Counts

LEMMA UncheckedSound ==
    ASSUME NEW i, ~Known(i)
    PROVE  Sound(i, Unchecked)
<1>1. PICK r : r = Unchecked
  OBVIOUS
<1>2. /\ r = Result("UNVERIFIED", {}, FailUnverified, "unverified", "nothing")
      /\ r.status = "UNVERIFIED" /\ r.lines = {} /\ r.failed = FailUnverified
      /\ r.artifact = "unverified" /\ r.advisories = "nothing"
  BY <1>1, ReportParts DEF Unchecked
<1>3. IsReport(r)
  BY <1>2, SwitchesTyped DEF IsReport
<1>4. ~Passes(i, r)
  BY <1>2 DEF Passes
<1>5. ASSUME r.failed PROVE \E f \in FindingsOf(r) : Refuses(f)
  <2>1. TagModel["UNVERIFIED"] \in FindingsOf(r)
    BY <1>2 DEF FindingsOf, Only
  <2>2. Refuses(TagModel["UNVERIFIED"])
    BY <1>2, <1>5, TheFindings, FindingParts DEF Refuses
  <2> QED
    BY <2>1, <2>2
<1> QED
  BY <1>1, <1>3, <1>4, <1>5 DEF Sound

LEMMA PackageSound ==
    ASSUME Apart, run \in Invocations, NEW i \in Packages, Complete(i)
    PROVE  Sound(i, ProcessPackage(i))
<1>1. CASE heard[i].manifest.came # "ok"
  <2>1. ~Known(i) /\ ProcessPackage(i) = Unchecked
    BY <1>1 DEF Known, ProcessPackage, Manifest
  <2> QED
    BY <2>1, UncheckedSound
<1>2. CASE heard[i].manifest.came = "ok"
  <2> DEFINE L == PackageLines(i)
             advisories == IF run.audit THEN AdvisoryState(i) ELSE "nothing"
  <2>1. PICK r : r = ProcessPackage(i)
    OBVIOUS
  <2>2. r = Judged(L, ArtifactState(i), advisories)
    BY <1>2, <2>1 DEF ProcessPackage, Manifest
  <2>3. ArtifactState(i) \in {"verified", "mismatch", "unverified"}
    BY DEF ArtifactState
  <2>4. \A l \in L : Agrees(l)
    BY PackageLinesAgree
  <2> HIDE DEF L, advisories
  <2>5. /\ IsReport(r) /\ r.lines = L /\ r.advisories = advisories
        /\ r.failed = Counts(L)
        /\ r.status = VerdictFor(L)
    BY <2>2, <2>3, JudgedIsReport
  <2>6. Passes(i, r) => Quiet(L)
    BY <2>5 DEF Passes, Quiet, VerdictFor, Counts
  <2>7. Quiet(L) => SeenGood(i)
    BY <1>2, QuietPackageIsGood DEF L
  <2>8. r.failed => \E f \in FindingsOf(r) : Refuses(f)
    BY <2>4, <2>5, JudgedRefuses
  <2>9. ASSUME Known(i) PROVE IsKnown(r)
    <3>1. run.audit /\ \E a \in UnifyAdvisories(i) : a.hard
      BY <2>9, HardIsUnified DEF Known, Complete
    <3>2. advisories = "vulnerable"
      BY <3>1 DEF advisories, AdvisoryState
    <3>3. Line("CVE", TRUE) \in L
      BY <3>1 DEF L, PackageLines, AdvisoryLines, Only
    <3>4. Counts(L)
      <4>1. Line("CVE", TRUE).counted = TRUE
        BY LineParts
      <4> QED
        BY <3>3, <4>1 DEF Counts
    <3>5. r.status = "FAIL" /\ r.failed
      BY <2>5, <3>4 DEF VerdictFor, Counts
    <3> QED
      BY <2>5, <3>2, <3>5 DEF IsKnown
  <2> QED
    BY <2>1, <2>5, <2>6, <2>7, <2>8, <2>9 DEF Sound
<1> QED
  BY <1>1, <1>2

LEMMA DigestSound ==
    ASSUME run \in Invocations, NEW i \in By("digest"), Complete(i)
    PROVE  Sound(i, ProcessDigest(i))
<1> DEFINE s       == Server(i)
           fetched == Deep /\ s.served /\ Manifest(i).tarball # "unread"
           hashes  == fetched /\ Manifest(i).tarball = "same"
           bad     == ~s.agrees \/ (fetched /\ ~hashes)
           L       == Only(bad, Refusal) \cup Only(Deep /\ ~fetched, Unverified)
           artifact == IF bad THEN "mismatch" ELSE IF hashes THEN "verified" ELSE "unverified"
<1>1. i \in All /\ s.how = "digest"
  BY DEF By
<1>2. PICK r : r = ProcessDigest(i)
  OBVIOUS
<1>3. r = Judged(L, artifact, "nothing")
  BY <1>2 DEF ProcessDigest
<1>4. artifact \in {"verified", "mismatch", "unverified"}
  OBVIOUS
<1>5. \A l \in L : Agrees(l)
  BY NamedLinesAgree DEF Only
<1>6. Refusal \notin L /\ Unverified \notin L => SeenGood(i)
  BY <1>1, ServerTyped DEF SeenGood, Manifest, Only
<1> HIDE DEF L, artifact
<1>7. /\ IsReport(r) /\ r.lines = L
      /\ r.failed = Counts(L)
      /\ r.status = VerdictFor(L)
  BY <1>3, <1>4, JudgedIsReport
<1>8. Passes(i, r) => Quiet(L)
  BY <1>7 DEF Passes, Quiet, VerdictFor, Counts
<1>9. Quiet(L) => SeenGood(i)
  BY <1>6, QuietLacks
<1>10. r.failed => \E f \in FindingsOf(r) : Refuses(f)
  BY <1>5, <1>7, JudgedRefuses
<1>11. ~Known(i)
  BY <1>1 DEF Known, Packages, By
<1> QED
  BY <1>2, <1>7, <1>8, <1>9, <1>10, <1>11 DEF Sound

LEMMA TagSound ==
    ASSUME NEW i \in By("tag")
    PROVE  Sound(i, ProcessTag)
<1>1. PICK r : r = ProcessTag
  OBVIOUS
<1>2. /\ r = Result(IF Strict THEN "FAIL" ELSE "WARN", {Line("DIGEST", Strict)}, Strict,
                    "unverified", "nothing")
      /\ r.status = (IF Strict THEN "FAIL" ELSE "WARN") /\ r.failed = Strict
      /\ r.lines = {Line("DIGEST", Strict)} /\ r.artifact = "unverified"
      /\ r.advisories = "nothing"
  BY <1>1, ReportParts DEF ProcessTag
<1>3. IsReport(r)
  BY <1>2, SwitchesTyped DEF IsReport
<1>4. ~Passes(i, r)
  BY <1>2 DEF Passes, By
<1>5. ASSUME r.failed PROVE \E f \in FindingsOf(r) : Refuses(f)
  <2>1. \A l \in r.lines : Agrees(l)
    BY <1>2, NamedLinesAgree
  <2>2. Counts(r.lines)
    <3>1. Line("DIGEST", Strict).counted = Strict
      BY LineParts
    <3> QED
      BY <1>2, <1>5, <3>1 DEF Counts
  <2> QED
    BY <2>1, <2>2, JudgedRefuses
<1>6. ~Known(i)
  BY DEF Known, Packages, By
<1> QED
  BY <1>1, <1>3, <1>4, <1>5, <1>6 DEF Sound

LEMMA ProcessedSound ==
    ASSUME Apart, run \in Invocations, NEW i \in All, Complete(i)
    PROVE  Sound(i, Processed(i))
<1>1. Server(i).how \in Hows
  BY ServerTyped
<1>2. CASE Server(i).how \in {"npx", "uvx"}
  BY <1>2, PackageSound DEF Processed, Packages, By
<1>3. CASE Server(i).how = "digest"
  BY <1>3, DigestSound DEF Processed, By
<1>4. CASE Server(i).how = "tag"
  BY <1>4, TagSound DEF Processed, By
<1>5. CASE Server(i).how = "unroutable"
  <2>1. ~Known(i)
    BY <1>5 DEF Known, Packages, By
  <2> QED
    BY <1>5, <2>1, UncheckedSound DEF Processed
<1> QED
  BY <1>1, <1>2, <1>3, <1>4, <1>5 DEF Hows

-----------------------------------------------------------------------------
(* The judgement makes it final. *)

LEMMA RefusedFails ==
    ASSUME NEW i, NEW r, \E f \in FindingsOf(r) : Refuses(f)
    PROVE  DecisionFails(i, r)
<1>1. PICK f \in FindingsOf(r) : Refuses(f)
  OBVIOUS
<1>2. GateDenies(r) \/ (FailUnverified /\ Unknown(r)) \/ (Strict /\ HasMedium(r))
  BY <1>1 DEF Refuses, GateDenies, Unknown, HasMedium
<1> QED
  BY <1>2 DEF DecisionFails

LEMMA AgedParts ==
    ASSUME NEW i, NEW r, IsReport(r), Server(i).aged
    PROVE  /\ IsReport(Aged(i, r))
           /\ Aged(i, r).lines = r.lines \cup {AgedLine}
           /\ Aged(i, r).failed = (r.failed \/ FailUnverified)
           /\ Aged(i, r).status = IF FailUnverified THEN "FAIL"
                                  ELSE IF r.status = "OK" THEN "UNVERIFIED" ELSE r.status
           /\ Aged(i, r).advisories = r.advisories
<1> DEFINE failed == r.failed \/ FailUnverified
           lines  == r.lines \cup {AgedLine}
           status == IF FailUnverified THEN "FAIL"
                     ELSE IF r.status = "OK" THEN "UNVERIFIED" ELSE r.status
<1>1. /\ r = [status |-> r.status, lines |-> r.lines, failed |-> r.failed,
              artifact |-> r.artifact, advisories |-> r.advisories]
      /\ r.status \in {"OK", "WARN", "UNVERIFIED", "FAIL"}
      /\ r.artifact \in {"verified", "mismatch", "unverified"}
      /\ r.failed \in BOOLEAN
  BY DEF IsReport, Result
<1>2. failed \in BOOLEAN
  BY <1>1, SwitchesTyped
<1>3. status \in {"OK", "WARN", "UNVERIFIED", "FAIL"}
  BY <1>1
<1>4. Aged(i, r) = [r EXCEPT !.lines = lines, !.failed = failed, !.status = status]
  BY DEF Aged
<1> HIDE DEF failed, lines, status
<1>5. Aged(i, r) = [status |-> status, lines |-> lines, failed |-> failed,
                    artifact |-> r.artifact, advisories |-> r.advisories]
  BY <1>1, <1>4
<1>6. IsReport(Aged(i, r))
  BY <1>1, <1>2, <1>3, <1>5 DEF IsReport, Result
<1> QED
  BY <1>5, <1>6 DEF failed, lines, status

LEMMA AgedSound ==
    ASSUME run \in Invocations, NEW i \in All, NEW r, Sound(i, r)
    PROVE  /\ IsReport(Aged(i, r))
           /\ Passes(i, Aged(i, r)) => Answered(i)
           /\ Aged(i, r).failed => \E f \in FindingsOf(Aged(i, r)) : Refuses(f)
           /\ Known(i) => IsKnown(Aged(i, r))
<1>1. Server(i).aged \in BOOLEAN /\ r.failed \in BOOLEAN
  BY ServerTyped DEF Sound, IsReport
<1>2. CASE ~Server(i).aged
  <2>1. Aged(i, r) = r
    BY <1>2 DEF Aged
  <2>2. SeenGood(i) => Answered(i)
    BY <1>2 DEF SeenGood, Answered
  <2> QED
    BY <2>1, <2>2 DEF Sound
<1>3. CASE Server(i).aged
  <2>1. PICK a : a = Aged(i, r)
    OBVIOUS
  <2>2. /\ IsReport(a) /\ a.lines = r.lines \cup {AgedLine}
        /\ a.failed = (r.failed \/ FailUnverified)
        /\ a.status = IF FailUnverified THEN "FAIL"
                      ELSE IF r.status = "OK" THEN "UNVERIFIED" ELSE r.status
        /\ a.advisories = r.advisories
    BY <1>3, <2>1, AgedParts DEF Sound
  <2>3. ~Passes(i, a)
    BY <2>2 DEF Passes
  <2>4. ASSUME a.failed PROVE \E f \in FindingsOf(a) : Refuses(f)
    <3>1. AgedLine.finding \in FindingsOf(a) /\ (\A l \in r.lines : l.finding \in FindingsOf(a))
      BY <2>2 DEF FindingsOf
    <3>2. CASE FailUnverified
      <4>1. Refuses(AgedLine.finding)
        BY <3>2, TheLines, FindingParts DEF Refuses
      <4> QED
        BY <3>1, <4>1
    <3>3. CASE ~FailUnverified
      <4>1. r.failed
        BY <2>2, <2>4, <3>3
      <4>2. PICK f \in FindingsOf(r) : Refuses(f)
        BY <4>1 DEF Sound
      <4>3. f # TagModel["UNVERIFIED"]
        <5>1. ~Refuses(TagModel["UNVERIFIED"])
          BY <3>3, TheFindings, FindingParts DEF Refuses
        <5> QED
          BY <4>2, <5>1
      <4>4. \E l \in r.lines : f = l.finding
        BY <4>2, <4>3 DEF FindingsOf, Only
      <4> QED
        BY <3>1, <4>2, <4>4
    <3> QED
      BY <3>2, <3>3
  <2>5. Known(i) => IsKnown(a)
    BY <2>2 DEF Sound, IsKnown
  <2> QED
    BY <2>1, <2>2, <2>3, <2>4, <2>5
<1> QED
  BY <1>1, <1>2, <1>3

LEMMA SettledFinal ==
    ASSUME run \in Invocations, NEW i \in All, NEW r, Sound(i, r)
    PROVE  Final(i, Settled(i, Aged(i, r)), DecisionFails(i, Aged(i, r)))
<1>1. PICK a : a = Aged(i, r)
  OBVIOUS
<1>2. /\ IsReport(a) /\ (Passes(i, a) => Answered(i))
      /\ a.failed => \E f \in FindingsOf(a) : Refuses(f)
      /\ Known(i) => IsKnown(a)
  BY <1>1, AgedSound
<1> DEFINE D == DecisionFails(i, a)
           failed == a.failed \/ D
           status == IF \/ PolicyDenies(i, a)
                        \/ D /\ ~a.failed THEN "FAIL" ELSE a.status
<1>3. D \in BOOLEAN
  BY DEF DecisionFails
<1>4. a.failed => D
  BY <1>2, RefusedFails
<1>5. /\ a = [status |-> a.status, lines |-> a.lines, failed |-> a.failed,
              artifact |-> a.artifact, advisories |-> a.advisories]
      /\ a.status \in {"OK", "WARN", "UNVERIFIED", "FAIL"}
      /\ a.artifact \in {"verified", "mismatch", "unverified"}
      /\ a.failed \in BOOLEAN
  BY <1>2 DEF IsReport, Result
<1>6. PICK q : q = Settled(i, a)
  OBVIOUS
<1>7. q = [a EXCEPT !.failed = failed, !.status = status]
  BY <1>6 DEF Settled
<1> HIDE DEF D
<1>8. /\ failed = D /\ failed \in BOOLEAN
      /\ status \in {"OK", "WARN", "UNVERIFIED", "FAIL"}
      /\ status = "OK" => a.status = "OK"
      /\ a.status = "FAIL" => status = "FAIL"
  BY <1>3, <1>4, <1>5
<1> HIDE DEF failed, status
<1>9. q = [status |-> status, lines |-> a.lines, failed |-> failed,
           artifact |-> a.artifact, advisories |-> a.advisories]
  BY <1>5, <1>7
<1>10. IsReport(q)
  BY <1>5, <1>8, <1>9 DEF IsReport, Result
<1>11. q.status = status /\ q.failed = failed /\ q.advisories = a.advisories
  BY <1>9
<1>12. Passes(i, q) => Passes(i, a)
  BY <1>4, <1>8, <1>11 DEF Passes
<1>13. IsKnown(a) => IsKnown(q)
  BY <1>4, <1>8, <1>11 DEF IsKnown
<1>14. Final(i, q, D)
  BY <1>2, <1>8, <1>10, <1>11, <1>12, <1>13 DEF Final
<1> QED
  BY <1>1, <1>6, <1>14 DEF D

-----------------------------------------------------------------------------
(* The agenda. *)

LEMMA TheTurns ==
    /\ DOMAIN Turn = {"npm", "osvNpm", "osvPypi", "ghsa", "snyk", "detail",
                     "manifest", "tree", "process", "judge"}
    /\ \A step \in DOMAIN Turn : Turn[step] \in 1 .. 10
    /\ \A step \in DOMAIN Turn \ {"process", "judge"} : Turn[step] < 9
    /\ Turn["process"] = 9 /\ Turn["judge"] = 10
    /\ Turn["osvNpm"] = 2 /\ Turn["osvPypi"] = 3 /\ Turn["detail"] = 6
  BY DEF Turn

LEMMA SubjectsTyped ==
    ASSUME run \in Invocations, NEW step \in DOMAIN Turn
    PROVE  SubjectsOf(run)[step] \subseteq All \cup {0}
  BY TheTurns DEF SubjectsOf, All

LEMMA StepTyped ==
    ASSUME run \in Invocations, NEW s \in Agenda(run)
    PROVE  /\ s = <<s[1], s[2]>>
           /\ s[1] \in DOMAIN Turn /\ Turn[s[1]] \in 1 .. 10
           /\ s[2] \in SubjectsOf(run)[s[1]] /\ s[2] \in Nat
<1>1. PICK step \in DOMAIN Turn : s \in {step} \X SubjectsOf(run)[step]
  BY DEF Agenda
<1>2. s = <<s[1], s[2]>> /\ s[1] = step /\ s[2] \in SubjectsOf(run)[step]
  BY <1>1
<1>3. s[2] \in All \cup {0}
  BY <1>2, SubjectsTyped
<1>4. All \subseteq Nat
  BY AllFinite
<1> QED
  BY <1>2, <1>3, <1>4, TheTurns

LEMMA StepOfAgenda ==
    ASSUME NEW step \in DOMAIN Turn, NEW i \in SubjectsOf(run)[step]
    PROVE  <<step, i>> \in Agenda(run)
  BY DEF Agenda

LEMMA BeforeIsStrict ==
    ASSUME run \in Invocations, NEW s \in Agenda(run), NEW t \in Agenda(run), Before(s, t)
    PROVE  ~Before(t, s) /\ s # t
  BY StepTyped DEF Before

Asking(i, f) ==
    /\ run.audit /\ i \in Packages
    /\ f = "npm" => Server(i).how = "npx"
    /\ f = "snyk" => run.snyk

LEMMA AskedIs ==
    ASSUME NEW i \in All, NEW f \in Feeds
    PROVE  /\ IsAsked(i, f) <=> Asking(i, f)
           /\ ~IsAsked(i, f) => Expected(run, i)[f] = "unasked"
<1>1. f \in {"npm", "osv", "ghsa", "snyk"} /\ f \in DOMAIN Unheard /\ Unheard[f] = "unasked"
  BY DEF Feeds, Unheard
<1> DEFINE asks == /\ run.audit /\ run.servers[i].how \in {"npx", "uvx"}
                   /\ f = "npm" => run.servers[i].how = "npx"
                   /\ f = "snyk" => run.snyk
<1>2. Expected(run, i)[f] = IF asks THEN "pending" ELSE "unasked"
  BY <1>1 DEF Expected
<1>3. i \in Packages <=> run.servers[i].how \in {"npx", "uvx"}
  BY DEF Packages, By, Server
<1> QED
  BY <1>2, <1>3 DEF IsAsked, Server, Asking

LEMMA ProcessAndJudge ==
    /\ \A i \in All : <<"process", i>> \in Agenda(run)
    /\ <<"judge", 0>> \in Agenda(run)
<1>1. SubjectsOf(run)["process"] = All /\ SubjectsOf(run)["judge"] = {0}
  BY DEF SubjectsOf, All
<1> QED
  BY <1>1, StepOfAgenda, TheTurns

LEMMA QuestionOnAgenda ==
    ASSUME run \in Invocations, NEW i \in All, NEW f \in Feeds, IsAsked(i, f)
    PROVE  QuestionOf(i, f) \in Agenda(run) /\ <<"detail", i>> \in Agenda(run)
<1>1. /\ run.audit /\ i \in Packages /\ (f = "npm" => Server(i).how = "npx")
      /\ (f = "snyk" => run.snyk)
  BY AskedIs DEF Asking
<1>2. Server(i).how \in {"npx", "uvx"} /\ run.servers[i].how \in {"npx", "uvx"}
  BY <1>1 DEF Packages, By, Server
<1>3. i \in SubjectsOf(run)["detail"] /\ i \in SubjectsOf(run)["ghsa"]
      /\ (run.snyk => i \in SubjectsOf(run)["snyk"])
  BY <1>1, <1>2 DEF SubjectsOf, All
<1>4. Server(i).how = "npx" => 0 \in SubjectsOf(run)["npm"] /\ 0 \in SubjectsOf(run)["osvNpm"]
  BY <1>1, <1>2 DEF SubjectsOf, Server, All
<1>5. Server(i).how = "uvx" => 0 \in SubjectsOf(run)["osvPypi"]
  BY <1>1, <1>2 DEF SubjectsOf, Server, All
<1>6. f \in {"npm", "osv", "ghsa", "snyk"}
  BY DEF Feeds
<1> QED
  BY <1>1, <1>2, <1>3, <1>4, <1>5, <1>6, StepOfAgenda, TheTurns DEF QuestionOf

(* What a question on the agenda is about. *)
LEMMA OnAgenda ==
    ASSUME NEW i, NEW how \in {"npx", "uvx"}
    PROVE  /\ <<"npm", 0>> \in Agenda(run) => run.audit
           /\ <<"osvNpm", 0>> \in Agenda(run) => run.audit
           /\ <<"osvPypi", 0>> \in Agenda(run) => run.audit
           /\ <<"ghsa", i>> \in Agenda(run) => run.audit /\ i \in Packages
           /\ <<"snyk", i>> \in Agenda(run) => run.audit /\ run.snyk /\ i \in Packages
           /\ <<"detail", i>> \in Agenda(run) => run.audit /\ i \in Packages
<1>1. ASSUME NEW step, NEW j, <<step, j>> \in Agenda(run)
      PROVE  j \in SubjectsOf(run)[step]
  BY <1>1 DEF Agenda
<1>2. /\ \A j \in SubjectsOf(run)["npm"] : run.audit
      /\ \A j \in SubjectsOf(run)["osvNpm"] : run.audit
      /\ \A j \in SubjectsOf(run)["osvPypi"] : run.audit
  BY DEF SubjectsOf
<1>3. /\ i \in SubjectsOf(run)["ghsa"] => run.audit /\ i \in Packages
      /\ i \in SubjectsOf(run)["snyk"] => run.audit /\ run.snyk /\ i \in Packages
      /\ i \in SubjectsOf(run)["detail"] => run.audit /\ i \in Packages
  BY DEF SubjectsOf, Packages, By, Server, All
<1> QED
  BY <1>1, <1>2, <1>3

-----------------------------------------------------------------------------
(* Working the agenda off. *)

LEMMA TakeKeepsOrder ==
    ASSUME IInv, NEW q, Take(q), run' = run
    PROVE  /\ todo' \subseteq Agenda(run') /\ Ordered'
           /\ q \in Agenda(run) /\ q \in todo /\ q \notin todo'
           /\ \A s \in Agenda(run) : s # q => (s \in todo' <=> s \in todo)
           /\ \A s \in Agenda(run) : s # q /\ ~Before(s, q) => s \in todo'
           /\ \A s \in Agenda(run) : s # q /\ ~Before(q, s) => s \notin todo
  BY DEF IInv, RunTypeOK, Ordered, Take

(* While there is something left to ask, no report is written. *)
LEMMA QuestionIsEarly ==
    ASSUME IInv, NEW q, Take(q), run' = run, q[1] \notin {"process", "judge"}
    PROVE  /\ \A i \in All : <<"process", i>> \in todo /\ <<"process", i>> \in todo'
           /\ <<"judge", 0>> \in todo /\ <<"judge", 0>> \in todo'
<1>1. run \in Invocations /\ q \in Agenda(run)
  BY TakeKeepsOrder DEF IInv, RunTypeOK
<1>2. q[1] \in DOMAIN Turn \ {"process", "judge"} /\ Turn[q[1]] \in 1 .. 10
  BY <1>1, StepTyped
<1>3. Turn[q[1]] < 9
  BY <1>2, TheTurns
<1>4. ASSUME NEW s \in Agenda(run), s[1] \in {"process", "judge"}
      PROVE  s \in todo /\ s \in todo'
  <2>1. Turn[s[1]] \in {9, 10}
    BY <1>4, TheTurns
  <2>2. s # q /\ ~Before(s, q)
    BY <1>2, <1>3, <1>4, <2>1 DEF Before
  <2> QED
    BY <2>2, TakeKeepsOrder
<1> QED
  BY <1>4, ProcessAndJudge

(* So an answer only has to be looked at for what it does to `heard`.       *)
LEMMA AnswerKeeps ==
    ASSUME IInv, NEW q, Take(q), q[1] \notin {"process", "judge"},
           UNCHANGED <<run, results, fails>>,
           heard' \in [All -> Hearings], trouble' \in 0 .. MaxTrouble, HeardInv'
    PROVE  IInv'
<1>1. RunTypeOK'
  BY TakeKeepsOrder DEF IInv, RunTypeOK, All
<1>2. ASSUME NEW i \in All
      PROVE  /\ <<"process", i>> \in todo /\ <<"process", i>> \in todo'
             /\ <<"judge", 0>> \in todo' /\ results[i] = Open
  BY QuestionIsEarly DEF IInv, ReportInv
<1>3. ReportInv'
  BY <1>2 DEF ReportInv, All
<1> QED
  BY <1>1, <1>3, TakeKeepsOrder DEF IInv

LEMMA QuestionsApart ==
    ASSUME NEW i, NEW j, NEW f \in Feeds, NEW g \in Feeds, f # g
    PROVE  QuestionOf(i, f) # QuestionOf(j, g)
  BY DEF QuestionOf, Feeds

LEMMA QuestionKinds ==
    ASSUME NEW i, NEW f \in Feeds
    PROVE  QuestionOf(i, f)[1] \in {"npm", "osvNpm", "osvPypi", "ghsa", "snyk"}
  BY DEF QuestionOf, Feeds

LEMMA HearingTyped ==
    ASSUME NEW h \in Hearings, NEW f \in Feeds, NEW w \in Words
    PROVE  /\ [h EXCEPT ![f] = w] \in Hearings
           /\ [h EXCEPT ![f] = w][f] = w
           /\ [h EXCEPT ![f] = w].manifest = h.manifest
           /\ \A g \in Feeds : g # f => [h EXCEPT ![f] = w][g] = h[g]
<1>1. f \in {"npm", "osv", "ghsa", "snyk"}
  BY DEF Feeds
<1> QED
  BY <1>1 DEF Hearings, Feeds

LEMMA QuestionsSame ==
    ASSUME run' = run
    PROVE  /\ \A i, f : (IsAsked(i, f)' <=> IsAsked(i, f)) /\ QuestionOf(i, f)' = QuestionOf(i, f)
           /\ \A i : Server(i)' = Server(i)
           /\ All' = All
<1>1. \A i : Server(i)' = Server(i)
  BY DEF Server
<1>2. ASSUME NEW i, NEW f PROVE IsAsked(i, f)' <=> IsAsked(i, f)
  BY DEF IsAsked
<1>3. ASSUME NEW i, NEW f PROVE QuestionOf(i, f)' = QuestionOf(i, f)
  BY <1>1 DEF QuestionOf
<1> QED
  BY <1>1, <1>2, <1>3 DEF All

LEMMA HeardInvFrom ==
    ASSUME run' = run,
           \A i \in All :
             /\ \A f \in Feeds :
                   /\ IF IsAsked(i, f)
                      THEN /\ heard'[i][f] # "unasked"
                           /\ (heard'[i][f] = "pending") = (QuestionOf(i, f) \in todo')
                      ELSE heard'[i][f] = "unasked"
                   /\ heard'[i][f] = "stub" => f = "osv" /\ <<"detail", i>> \in todo'
             /\ Server(i).how # "npx" => heard'[i].manifest.signature = "ok"
    PROVE  HeardInv'
  BY QuestionsSame DEF HeardInv

(* A step in which a feed may speak, for the first time or in full.         *)
Hears ==
    /\ UNCHANGED <<run, results>>
    /\ \A i \in All : \A f \in Feeds :
          \/ heard'[i][f] = heard[i][f]
          \/ /\ heard[i][f] \in {"pending", "stub"}
             /\ heard'[i][f] \in {"silent", "none", "mild", "hard", "unread", "stub"}

(* One feed answers one question, about all servers it concerns.            *)
LEMMA FeedAnswered ==
    ASSUME IInv, NEW q, Take(q), NEW F \in Feeds,
           q[1] \in {"npm", "osvNpm", "osvPypi", "ghsa", "snyk"},
           NEW asked \in SUBSET All, NEW answer,
           \A i \in All : i \in asked <=> IsAsked(i, F) /\ QuestionOf(i, F) = q,
           \A i \in All : \A f \in Feeds \ {F} : IsAsked(i, f) => QuestionOf(i, f) # q,
           \A i \in asked : answer[i] \in {"silent", "none", "mild", "hard", "stub"},
           \A i \in asked : answer[i] = "stub" => F = "osv",
           UNCHANGED <<run, results, fails>>, trouble' \in 0 .. MaxTrouble,
           heard' = [i \in All |-> IF i \in asked THEN [heard[i] EXCEPT ![F] = answer[i]]
                                   ELSE heard[i]]
    PROVE  IInv' /\ Hears
<1>1. heard \in [All -> Hearings] /\ run \in Invocations
  BY DEF IInv, RunTypeOK
<1>2. q[1] \notin {"process", "judge", "detail"}
  OBVIOUS
<1>3. ASSUME NEW i \in All
      PROVE  /\ heard'[i] \in Hearings
             /\ \A f \in Feeds :
                   /\ IF IsAsked(i, f)
                      THEN /\ heard'[i][f] # "unasked"
                           /\ (heard'[i][f] = "pending") = (QuestionOf(i, f) \in todo')
                      ELSE heard'[i][f] = "unasked"
                   /\ heard'[i][f] = "stub" => f = "osv" /\ <<"detail", i>> \in todo'
             /\ Server(i).how # "npx" => heard'[i].manifest.signature = "ok"
  <2>1. heard[i] \in Hearings
    BY <1>1
  <2>2. /\ \A f \in Feeds :
              /\ IF IsAsked(i, f)
                 THEN /\ heard[i][f] # "unasked"
                      /\ (heard[i][f] = "pending") = (QuestionOf(i, f) \in todo)
                 ELSE heard[i][f] = "unasked"
              /\ heard[i][f] = "stub" => f = "osv" /\ <<"detail", i>> \in todo
        /\ Server(i).how # "npx" => heard[i].manifest.signature = "ok"
    BY DEF IInv, HeardInv
  <2>3. \A f \in Feeds : IsAsked(i, f) => QuestionOf(i, f) \in Agenda(run)
    BY <1>1, QuestionOnAgenda
  <2>4. <<"detail", i>> \in todo => <<"detail", i>> \in todo'
    <3>1. <<"detail", i>> # q
      BY <1>2
    <3>2. todo \subseteq Agenda(run)
      BY DEF IInv, RunTypeOK
    <3> QED
      BY <3>1, <3>2, TakeKeepsOrder
  <2>5. \A f \in Feeds : IsAsked(i, f) /\ QuestionOf(i, f) # q =>
            (QuestionOf(i, f) \in todo' <=> QuestionOf(i, f) \in todo)
    BY <2>3, TakeKeepsOrder
  <2>6. CASE i \in asked
    <3> DEFINE w == answer[i]
    <3>1. /\ w \in Words \ {"unasked", "pending"} /\ (w = "stub" => F = "osv")
          /\ IsAsked(i, F) /\ QuestionOf(i, F) = q
      BY <2>6 DEF Words
    <3>2. heard'[i] = [heard[i] EXCEPT ![F] = w]
      BY <2>6
    <3> HIDE DEF w
    <3>3. /\ heard'[i] \in Hearings /\ heard'[i][F] = w
          /\ heard'[i].manifest = heard[i].manifest
          /\ \A g \in Feeds : g # F => heard'[i][g] = heard[i][g]
      BY <2>1, <3>1, <3>2, HearingTyped
    <3>4. q \in todo /\ q \notin todo' /\ q \in Agenda(run)
      BY TakeKeepsOrder
    <3>5. w = "stub" => <<"detail", i>> \in todo'
      <4>1. SUFFICES ASSUME w = "stub" PROVE <<"detail", i>> \in todo'
        OBVIOUS
      <4>2. F = "osv" /\ q[1] \in {"osvNpm", "osvPypi"}
        BY <3>1, <4>1 DEF QuestionOf
      <4>3. <<"detail", i>> \in Agenda(run) /\ <<"detail", i>> # q
        BY <1>1, <1>2, <3>1, QuestionOnAgenda
      <4>4. ~Before(<<"detail", i>>, q)
        BY <4>2, TheTurns DEF Before
      <4> QED
        BY <4>3, <4>4, TakeKeepsOrder
    <3>6. ASSUME NEW f \in Feeds
          PROVE  /\ IF IsAsked(i, f)
                    THEN /\ heard'[i][f] # "unasked"
                         /\ (heard'[i][f] = "pending") = (QuestionOf(i, f) \in todo')
                    ELSE heard'[i][f] = "unasked"
                 /\ heard'[i][f] = "stub" => f = "osv" /\ <<"detail", i>> \in todo'
      <4>1. CASE f = F
        BY <3>1, <3>3, <3>4, <3>5, <4>1
      <4>2. CASE f # F
        <5>1. heard'[i][f] = heard[i][f]
          BY <3>3, <4>2
        <5>2. IsAsked(i, f) => (QuestionOf(i, f) \in todo' <=> QuestionOf(i, f) \in todo)
          BY <2>5, <4>2
        <5> QED
          BY <2>2, <2>4, <5>1, <5>2
      <4> QED
        BY <4>1, <4>2
    <3> QED
      BY <2>2, <3>3, <3>6
  <2>7. CASE i \notin asked
    <3>1. heard'[i] = heard[i]
      BY <2>7
    <3>2. \A f \in Feeds : IsAsked(i, f) => QuestionOf(i, f) # q
      BY <2>7
    <3> QED
      BY <2>1, <2>2, <2>4, <2>5, <3>1, <3>2
  <2> QED
    BY <2>6, <2>7
<1>4. heard' \in [All -> Hearings]
  BY <1>3
<1>5. HeardInv'
  BY <1>3, HeardInvFrom
<1>6. ASSUME NEW i \in All, NEW f \in Feeds, heard'[i][f] # heard[i][f]
      PROVE  /\ heard[i][f] = "pending"
             /\ heard'[i][f] \in {"silent", "none", "mild", "hard", "stub"}
  <2>1. i \in asked
    BY <1>6
  <2>2. heard[i] \in Hearings /\ answer[i] \in Words
    BY <1>1, <2>1 DEF Words
  <2>3. heard'[i] = [heard[i] EXCEPT ![F] = answer[i]]
    BY <2>1
  <2>4. f = F /\ heard'[i][F] = answer[i]
    BY <1>6, <2>2, <2>3, HearingTyped
  <2>5. IsAsked(i, F) /\ QuestionOf(i, F) \in todo
    BY <2>1 DEF Take
  <2>6. heard[i][F] = "pending"
    BY <2>5 DEF IInv, HeardInv
  <2> QED
    BY <2>1, <2>4, <2>6
<1>7. Hears
  BY <1>6 DEF Hears
<1> QED
  BY <1>2, <1>4, <1>5, <1>7, AnswerKeeps

LEMMA CostTyped ==
    ASSUME IInv, NEW cost \in Nat, trouble' = trouble + cost, trouble' <= MaxTrouble
    PROVE  trouble' \in 0 .. MaxTrouble
<1>1. trouble \in 0 .. MaxTrouble /\ MaxTrouble \in Nat
  BY GateConstants DEF IInv, RunTypeOK
<1> QED
  BY <1>1

LEMMA CountTyped ==
    ASSUME run \in Invocations, NEW asked \in SUBSET All, NEW answer
    PROVE  Cardinality({i \in asked : answer[i] # "none"}) \in Nat
<1>1. IsFiniteSet(All)
  BY AllFinite
<1>2. {i \in asked : answer[i] # "none"} \subseteq All
  OBVIOUS
<1> QED
  BY <1>1, <1>2, FS_Subset, FS_CardinalityType

LEMMA AskKeeps ==
    ASSUME IInv, NEW q, Take(q), NEW F \in Feeds,
           q[1] \in {"npm", "osvNpm", "osvPypi", "ghsa", "snyk"},
           NEW asked \in SUBSET All,
           \A i \in All : i \in asked <=> IsAsked(i, F) /\ QuestionOf(i, F) = q,
           \A i \in All : \A f \in Feeds \ {F} : IsAsked(i, f) => QuestionOf(i, f) # q,
           NEW words \in SUBSET {"none", "mild", "hard", "stub"},
           "stub" \in words => F = "osv",
           Ask(F, asked, words)
    PROVE  IInv' /\ Hears
<1>1. run \in Invocations
  BY DEF IInv, RunTypeOK
<1>2. CASE Hear(asked, F, [i \in asked |-> "silent"], 1)
  <2> DEFINE answer == [i \in asked |-> "silent"]
  <2>1. /\ trouble' \in 0 .. MaxTrouble /\ UNCHANGED <<run, results, fails>>
        /\ heard' = [i \in All |-> IF i \in asked THEN [heard[i] EXCEPT ![F] = answer[i]]
                                   ELSE heard[i]]
    BY <1>2, CostTyped DEF Hear
  <2>2. /\ \A i \in asked : answer[i] \in {"silent", "none", "mild", "hard", "stub"}
        /\ \A i \in asked : answer[i] = "stub" => F = "osv"
    OBVIOUS
  <2> HIDE DEF answer
  <2> QED
    BY <2>1, <2>2, FeedAnswered
<1>3. ASSUME NEW answer \in [asked -> words],
             Hear(asked, F, answer, Cardinality({i \in asked : answer[i] # "none"}))
      PROVE  IInv' /\ Hears
  <2>1. Cardinality({i \in asked : answer[i] # "none"}) \in Nat
    BY <1>1, CountTyped
  <2>2. /\ trouble' \in 0 .. MaxTrouble /\ UNCHANGED <<run, results, fails>>
        /\ heard' = [i \in All |-> IF i \in asked THEN [heard[i] EXCEPT ![F] = answer[i]]
                                   ELSE heard[i]]
    BY <1>3, <2>1, CostTyped DEF Hear
  <2>3. /\ \A i \in asked : answer[i] \in {"silent", "none", "mild", "hard", "stub"}
        /\ \A i \in asked : answer[i] = "stub" => F = "osv"
    BY <1>3
  <2> QED
    BY <2>2, <2>3, FeedAnswered
<1> QED
  BY <1>2, <1>3 DEF Ask

LEMMA NpmKeeps ==
    ASSUME IInv, FetchNpmAdvisories
    PROVE  IInv' /\ Hears
<1> DEFINE q == <<"npm", 0>>
<1>1. Take(q) /\ q[1] = "npm" /\ "npm" \in Feeds
  BY DEF FetchNpmAdvisories, Feeds
<1>2. run.audit /\ q \in Agenda(run)
  BY <1>1, OnAgenda DEF Take, IInv, RunTypeOK
<1>3. By("npx") \in SUBSET All
  BY DEF By
<1>4. \A i \in All : i \in By("npx") <=> IsAsked(i, "npm") /\ QuestionOf(i, "npm") = q
  <2>1. ASSUME NEW i \in All PROVE IsAsked(i, "npm") <=> Asking(i, "npm")
    BY <1>1, AskedIs
  <2> QED
    BY <1>2, <2>1 DEF Asking, QuestionOf, By, Packages
<1>5. \A i \in All : \A f \in Feeds \ {"npm"} : QuestionOf(i, f) # q
  BY DEF QuestionOf, Feeds
<1>6. Ask("npm", By("npx"), {"none", "mild", "hard"})
  BY DEF FetchNpmAdvisories, Ask
<1> QED
  BY <1>1, <1>3, <1>4, <1>5, <1>6, AskKeeps

LEMMA OsvKeeps ==
    ASSUME IInv, NEW how \in {"npx", "uvx"}, FetchOsvAdvisories(how)
    PROVE  IInv' /\ Hears
<1> DEFINE q == <<IF how = "npx" THEN "osvNpm" ELSE "osvPypi", 0>>
<1>1. Take(q) /\ q[1] \in {"osvNpm", "osvPypi"} /\ "osv" \in Feeds
  BY DEF FetchOsvAdvisories, Feeds
<1>2. run.audit /\ q \in Agenda(run)
  BY <1>1, OnAgenda DEF Take, IInv, RunTypeOK
<1>3. By(how) \in SUBSET All
  BY DEF By
<1>4. \A i \in All : i \in By(how) <=> IsAsked(i, "osv") /\ QuestionOf(i, "osv") = q
  <2>1. ASSUME NEW i \in All PROVE IsAsked(i, "osv") <=> Asking(i, "osv")
    BY <1>1, AskedIs
  <2>2. ASSUME NEW i \in All
        PROVE  i \in Packages /\ QuestionOf(i, "osv") = q <=> i \in By(how)
    <3>1. QuestionOf(i, "osv") = <<IF Server(i).how = "npx" THEN "osvNpm" ELSE "osvPypi", 0>>
      BY DEF QuestionOf
    <3> QED
      BY <3>1 DEF By, Packages
  <2> QED
    BY <1>2, <2>1, <2>2 DEF Asking
<1>5. \A i \in All : \A f \in Feeds \ {"osv"} : QuestionOf(i, f) # q
  BY DEF QuestionOf, Feeds
<1>6. Ask("osv", By(how), {"none", "stub"})
  BY DEF FetchOsvAdvisories
<1> HIDE DEF q
<1> QED
  BY <1>1, <1>3, <1>4, <1>5, <1>6, AskKeeps

LEMMA GhsaAndSnykKeep ==
    ASSUME IInv, NEW i \in All, NEW F \in {"ghsa", "snyk"}, Take(<<F, i>>),
           Ask(F, {i}, {"none", "mild", "hard"})
    PROVE  IInv' /\ Hears
<1> DEFINE q == <<F, i>>
<1>1. F \in Feeds /\ q[1] = F
  BY DEF Feeds
<1>2. run.audit /\ i \in Packages /\ (F = "snyk" => run.snyk)
  BY OnAgenda DEF Take, IInv, RunTypeOK
<1>3. \A j \in All : j \in {i} <=> IsAsked(j, F) /\ QuestionOf(j, F) = q
  <2>1. IsAsked(i, F) /\ QuestionOf(i, F) = q
    BY <1>1, <1>2, AskedIs DEF Asking, QuestionOf
  <2>2. \A j \in All : QuestionOf(j, F) = q => j = i
    BY DEF QuestionOf
  <2> QED
    BY <2>1, <2>2
<1>4. \A j \in All : \A f \in Feeds \ {F} : QuestionOf(j, f) # q
  BY DEF QuestionOf, Feeds
<1> QED
  BY <1>1, <1>3, <1>4, AskKeeps

(* A step that leaves what a feed said of a server alone.                   *)
LEMMA FeedUntouched ==
    ASSUME IInv, NEW q, Take(q), run' = run, q[1] \in {"detail", "manifest", "tree"},
           NEW i \in All, NEW f \in Feeds, heard'[i][f] = heard[i][f],
           heard[i][f] = "stub" => q # <<"detail", i>>
    PROVE  /\ IF IsAsked(i, f)
              THEN /\ heard'[i][f] # "unasked"
                   /\ (heard'[i][f] = "pending") = (QuestionOf(i, f) \in todo')
              ELSE heard'[i][f] = "unasked"
           /\ heard'[i][f] = "stub" => f = "osv" /\ <<"detail", i>> \in todo'
<1>1. /\ IF IsAsked(i, f)
         THEN /\ heard[i][f] # "unasked"
              /\ (heard[i][f] = "pending") = (QuestionOf(i, f) \in todo)
         ELSE heard[i][f] = "unasked"
      /\ heard[i][f] = "stub" => f = "osv" /\ <<"detail", i>> \in todo
  BY DEF IInv, HeardInv
<1>2. QuestionOf(i, f) # q
  BY QuestionKinds
<1>3. todo \subseteq Agenda(run) /\ run \in Invocations
  BY DEF IInv, RunTypeOK
<1>4. IsAsked(i, f) => (QuestionOf(i, f) \in todo' <=> QuestionOf(i, f) \in todo)
  BY <1>2, <1>3, QuestionOnAgenda, TakeKeepsOrder
<1>5. heard[i][f] = "stub" => <<"detail", i>> \in todo'
  BY <1>1, <1>3, TakeKeepsOrder
<1> QED
  BY <1>1, <1>4, <1>5

LEMMA DetailKeeps ==
    ASSUME IInv, NEW i \in All, EnrichOsvVulns(i)
    PROVE  IInv' /\ Hears
<1> DEFINE q == <<"detail", i>>
<1>1. Take(q) /\ q[1] = "detail" /\ UNCHANGED <<run, results, fails>>
  BY DEF EnrichOsvVulns, Hear
<1>2. heard \in [All -> Hearings] /\ trouble \in 0 .. MaxTrouble
  BY DEF IInv, RunTypeOK
<1>3. CASE heard[i].osv # "stub" /\ heard' = heard /\ trouble' = trouble
  <2>1. \A j \in All : \A f \in Feeds : heard[j][f] = "stub" => q # <<"detail", j>>
    <3>1. \A j \in All : \A f \in Feeds : heard[j][f] = "stub" => f = "osv"
      BY DEF IInv, HeardInv
    <3> QED
      BY <1>3, <3>1
  <2>2. HeardInv'
    <3>1. \A j \in All : Server(j).how # "npx" => heard'[j].manifest.signature = "ok"
      BY <1>3 DEF IInv, HeardInv
    <3> QED
      BY <1>1, <1>3, <2>1, <3>1, FeedUntouched, HeardInvFrom
  <2> QED
    BY <1>1, <1>2, <1>3, <2>2, AnswerKeeps DEF Hears
<1>4. ASSUME heard[i].osv = "stub", NEW severity \in {"mild", "hard", "unread"},
             Hear({i}, "osv", [j \in {i} |-> severity],
                    IF severity = "unread" THEN 1 ELSE 0)
      PROVE  IInv' /\ Hears
  <2>1. trouble' \in 0 .. MaxTrouble
    BY <1>4, CostTyped DEF Hear
  <2>2. /\ heard'[i] = [heard[i] EXCEPT !["osv"] = severity]
        /\ \A j \in All : j # i => heard'[j] = heard[j]
        /\ heard' = [j \in All |-> heard'[j]]
    BY <1>4 DEF Hear
  <2>3. /\ "osv" \in Feeds /\ severity \in Words /\ heard[i] \in Hearings
    BY <1>2 DEF Feeds, Words
  <2>4. /\ heard'[i] \in Hearings /\ heard'[i]["osv"] = severity
        /\ heard'[i].manifest = heard[i].manifest
        /\ \A g \in Feeds : g # "osv" => heard'[i][g] = heard[i][g]
    BY <2>2, <2>3, HearingTyped
  <2>5. heard' \in [All -> Hearings]
    BY <1>2, <2>2, <2>4
  <2>6. ASSUME NEW j \in All, NEW f \in Feeds
        PROVE  /\ IF IsAsked(j, f)
                  THEN /\ heard'[j][f] # "unasked"
                       /\ (heard'[j][f] = "pending") = (QuestionOf(j, f) \in todo')
                  ELSE heard'[j][f] = "unasked"
               /\ heard'[j][f] = "stub" => f = "osv" /\ <<"detail", j>> \in todo'
    <3>1. CASE j = i /\ f = "osv"
      <4>1. IsAsked(i, "osv") /\ QuestionOf(i, "osv") \notin todo
        BY <1>4, <2>3 DEF IInv, HeardInv
      <4>2. QuestionOf(i, "osv") \notin todo'
        BY <1>1, <4>1 DEF Take
      <4> QED
        BY <2>4, <3>1, <4>1, <4>2
    <3>2. CASE ~(j = i /\ f = "osv")
      <4>1. heard'[j][f] = heard[j][f]
        BY <2>2, <2>4, <3>2
      <4>2. heard[j][f] = "stub" => q # <<"detail", j>>
        <5>1. heard[j][f] = "stub" => f = "osv"
          BY DEF IInv, HeardInv
        <5> QED
          BY <3>2, <5>1
      <4> QED
        BY <1>1, <4>1, <4>2, FeedUntouched
    <3> QED
      BY <3>1, <3>2
  <2>7. \A j \in All : Server(j).how # "npx" => heard'[j].manifest.signature = "ok"
    <3>1. \A j \in All : heard'[j].manifest = heard[j].manifest
      BY <2>2, <2>4
    <3> QED
      BY <3>1 DEF IInv, HeardInv
  <2>8. HeardInv'
    BY <1>1, <2>6, <2>7, HeardInvFrom
  <2>9. Hears
    <3>1. \A j \in All : \A f \in Feeds : j # i \/ f # "osv" => heard'[j][f] = heard[j][f]
      BY <2>2, <2>4
    <3>2. heard[i]["osv"] = "stub" /\ heard'[i]["osv"] \in {"mild", "hard", "unread"}
      BY <1>4, <2>4
    <3> QED
      BY <1>1, <3>1, <3>2 DEF Hears
  <2> QED
    BY <1>1, <2>1, <2>5, <2>8, <2>9, AnswerKeeps
<1> QED
  BY <1>3, <1>4 DEF EnrichOsvVulns

(* A manifest or a tree. *)
LEMMA DocumentKeeps ==
    ASSUME IInv, NEW k \in {"manifest", "tree"}, NEW i \in All, Take(<<k, i>>),
           NEW d, NEW cost \in Nat, Hear({i}, k, [j \in {i} |-> d], cost),
           k = "manifest" => /\ d \in Manifests
                             /\ Server(i).how # "npx" => d.signature = "ok",
           k = "tree" => d \in Trees
    PROVE  IInv' /\ Hears
<1> DEFINE q == <<k, i>>
<1>1. Take(q) /\ q[1] = k /\ UNCHANGED <<run, results, fails>>
  BY DEF Hear
<1>2. heard \in [All -> Hearings] /\ trouble' \in 0 .. MaxTrouble
  BY CostTyped DEF IInv, RunTypeOK, Hear
<1>3. /\ heard'[i] = [heard[i] EXCEPT ![k] = d]
      /\ \A j \in All : j # i => heard'[j] = heard[j]
      /\ heard' = [j \in All |-> heard'[j]]
  BY DEF Hear
<1>4. /\ heard'[i] \in Hearings
      /\ \A f \in Feeds : heard'[i][f] = heard[i][f]
      /\ heard'[i].manifest = IF k = "manifest" THEN d ELSE heard[i].manifest
  <2>1. heard[i] \in Hearings
    BY <1>2
  <2>2. CASE k = "manifest"
    BY <1>3, <2>1, <2>2 DEF Hearings, Feeds
  <2>3. CASE k = "tree"
    BY <1>3, <2>1, <2>3 DEF Hearings, Feeds
  <2> QED
    BY <2>2, <2>3
<1>5. heard' \in [All -> Hearings]
  BY <1>2, <1>3, <1>4
<1>6. \A j \in All : \A f \in Feeds : heard'[j][f] = heard[j][f] /\ q # <<"detail", j>>
  BY <1>3, <1>4
<1>7. ASSUME NEW j \in All, Server(j).how # "npx"
      PROVE  heard'[j].manifest.signature = "ok"
  <2>1. heard[j].manifest.signature = "ok"
    BY <1>7 DEF IInv, HeardInv
  <2>2. CASE j # i
    BY <1>3, <2>1, <2>2
  <2>3. CASE j = i /\ k = "manifest"
    BY <1>4, <1>7, <2>3
  <2>4. CASE j = i /\ k # "manifest"
    BY <1>4, <2>1, <2>4
  <2> QED
    BY <2>2, <2>3, <2>4
<1>8. HeardInv'
  BY <1>1, <1>6, <1>7, FeedUntouched, HeardInvFrom
<1>9. Hears
  BY <1>1, <1>6 DEF Hears
<1> QED
  BY <1>1, <1>2, <1>5, <1>8, <1>9, AnswerKeeps

LEMMA ThreeAreFinite ==
    /\ IsFiniteSet({"came", "hooks", "silent"}) /\ IsFiniteSet({"mild", "hard", "unread"})
    /\ IsFiniteSet({"came", "integrity", "repo", "signature", "provenance", "hooks",
                    "license", "tarball"})
<1>1. \A a, b, c : IsFiniteSet({a, b, c})
  <2> SUFFICES ASSUME NEW a, NEW b, NEW c PROVE IsFiniteSet({a, b, c})
    OBVIOUS
  <2>1. IsFiniteSet({a}) /\ IsFiniteSet({b}) /\ IsFiniteSet({c})
    BY FS_Singleton
  <2>2. IsFiniteSet({a} \cup {b})
    BY <2>1, FS_Union
  <2>3. IsFiniteSet(({a} \cup {b}) \cup {c})
    BY <2>1, <2>2, FS_Union
  <2>4. ({a} \cup {b}) \cup {c} = {a, b, c}
    OBVIOUS
  <2> QED
    BY <2>3, <2>4
<1>2. IsFiniteSet({"came", "integrity", "repo"} \cup {"signature", "provenance", "hooks"})
  BY <1>1, FS_Union
<1>3. IsFiniteSet(({"came", "integrity", "repo"} \cup {"signature", "provenance", "hooks"})
                  \cup {"license", "tarball", "came"})
  BY <1>1, <1>2, FS_Union
<1>4. ({"came", "integrity", "repo"} \cup {"signature", "provenance", "hooks"})
          \cup {"license", "tarball", "came"}
        = {"came", "integrity", "repo", "signature", "provenance", "hooks", "license", "tarball"}
  OBVIOUS
<1> QED
  BY <1>1, <1>3, <1>4

LEMMA WithinTyped ==
    ASSUME IInv
    PROVE  /\ \A m \in ManifestsWithin[MaxTrouble - trouble] :
                 m \in Manifests /\ Unwelcome(m) \in Nat
           /\ \A t \in TreesWithin[MaxTrouble - trouble] :
                 t \in Trees /\ TreeTrouble(t) \in Nat
<1>1. MaxTrouble - trouble \in 0 .. MaxTrouble
  BY GateConstants DEF IInv, RunTypeOK
<1>2. ASSUME NEW m \in ManifestsWithin[MaxTrouble - trouble]
      PROVE  m \in Manifests /\ Unwelcome(m) \in Nat
  <2>1. m \in Manifests
    BY <1>1, <1>2 DEF ManifestsWithin
  <2>2. DOMAIN Welcome = {"came", "integrity", "repo", "signature", "provenance", "hooks",
                          "license", "tarball"}
    BY DEF Welcome
  <2>3. {k \in DOMAIN Welcome : m[k] # Welcome[k]} \subseteq DOMAIN Welcome
    OBVIOUS
  <2>4. IsFiniteSet({k \in DOMAIN Welcome : m[k] # Welcome[k]})
    BY <2>2, <2>3, ThreeAreFinite, FS_Subset
  <2> QED
    BY <2>1, <2>4, FS_CardinalityType DEF Unwelcome
<1>3. ASSUME NEW t \in TreesWithin[MaxTrouble - trouble]
      PROVE  t \in Trees /\ TreeTrouble(t) \in Nat
  <2>1. t \in Trees
    BY <1>1, <1>3 DEF TreesWithin
  <2>2. t.hits \subseteq {"mild", "hard", "unread"}
    BY <2>1 DEF Trees
  <2>3. IsFiniteSet(t.hits)
    BY <2>2, ThreeAreFinite, FS_Subset
  <2>4. {k \in {"came", "hooks", "silent"} : t[k] # GoodTree[k]} \subseteq {"came", "hooks", "silent"}
    OBVIOUS
  <2>5. IsFiniteSet({k \in {"came", "hooks", "silent"} : t[k] # GoodTree[k]})
    BY <2>4, ThreeAreFinite, FS_Subset
  <2>6. /\ Cardinality(t.hits) \in Nat
        /\ Cardinality({k \in {"came", "hooks", "silent"} : t[k] # GoodTree[k]}) \in Nat
    BY <2>3, <2>5, FS_CardinalityType
  <2> QED
    BY <2>1, <2>6 DEF TreeTrouble
<1> QED
  BY <1>2, <1>3

LEMMA DocumentsKeep ==
    ASSUME IInv, NEW i \in All, FetchManifest(i) \/ ResolveTree(i)
    PROVE  IInv' /\ Hears
<1>1. CASE FetchManifest(i)
  <2>1. PICK m \in ManifestsWithin[MaxTrouble - trouble] :
           /\ Server(i).how # "npx" => m.signature = "ok"
           /\ Hear({i}, "manifest", [j \in {i} |-> m], Unwelcome(m))
    BY <1>1 DEF FetchManifest
  <2>2. Take(<<"manifest", i>>) /\ m \in Manifests /\ Unwelcome(m) \in Nat
    BY <1>1, WithinTyped DEF FetchManifest
  <2> QED
    BY <2>1, <2>2, DocumentKeeps
<1>2. CASE ResolveTree(i)
  <2>1. PICK t \in TreesWithin[MaxTrouble - trouble] :
           Hear({i}, "tree", [j \in {i} |-> t], TreeTrouble(t))
    BY <1>2 DEF ResolveTree
  <2>2. Take(<<"tree", i>>) /\ t \in Trees /\ TreeTrouble(t) \in Nat
    BY <1>2, WithinTyped DEF ResolveTree
  <2> QED
    BY <2>1, <2>2, DocumentKeeps
<1> QED
  BY <1>1, <1>2

-----------------------------------------------------------------------------
(* Writing the reports and judging them. *)

(* With the run as it was, so are its switches.                             *)
LEMMA SwitchesSame ==
    ASSUME run' = run
    PROVE  /\ Strict' = Strict /\ FailUnverified' = FailUnverified /\ Deep' = Deep
           /\ Deps' = Deps /\ RequireProvenance' = RequireProvenance
           /\ FailDepAdvisories' = FailDepAdvisories
           /\ Packages' = Packages
  BY DEF Strict, FailUnverified, Deep, Deps, RequireProvenance, FailDepAdvisories,
         RequireBinding, Flag, Wants, Packages, By, All, Server

(* With the answers as they were too, so is what a report has to say.       *)
LEMMA ReportSame ==
    ASSUME run' = run, heard' = heard, NEW i, NEW r
    PROVE  /\ Sound(i, r)' <=> Sound(i, r)
           /\ \A b : Final(i, r, b)' <=> Final(i, r, b)
<1>1. SeenGood(i)' <=> SeenGood(i)
  BY SwitchesSame, QuestionsSame DEF SeenGood
<1>2. Answered(i)' <=> Answered(i)
  BY SwitchesSame, QuestionsSame DEF Answered
<1>3. Known(i)' <=> Known(i)
  BY SwitchesSame DEF Known
<1>4. Passes(i, r)' <=> Passes(i, r)
  BY SwitchesSame, QuestionsSame DEF Passes
<1>5. ASSUME NEW f PROVE Refuses(f)' <=> Refuses(f)
  BY SwitchesSame DEF Refuses
<1>6. FindingsOf(r)' = FindingsOf(r)
  BY DEF FindingsOf, Only
<1>7. Sound(i, r)' <=> Sound(i, r)
  BY <1>1, <1>3, <1>4, <1>5, <1>6 DEF Sound
<1>8. ASSUME NEW b PROVE Final(i, r, b)' <=> Final(i, r, b)
  BY <1>2, <1>3, <1>4 DEF Final
<1> QED
  BY <1>7, <1>8

(* When the processors run every question has been answered.                *)
LEMMA CompleteByThen ==
    ASSUME IInv, NEW q, Take(q), run' = run, q[1] \in {"process", "judge"}, NEW i \in All
    PROVE  Complete(i)
<1>1. heard[i] \in Hearings /\ run \in Invocations
  BY DEF IInv, RunTypeOK
<1>2. ASSUME NEW s \in Agenda(run), s[1] \notin {"process", "judge"} PROVE s \notin todo
  <2>1. q[1] \in DOMAIN Turn /\ Turn[q[1]] \in {9, 10}
    BY TheTurns
  <2>2. s[1] \in DOMAIN Turn /\ Turn[s[1]] \in 1 .. 10
    BY <1>1, <1>2, StepTyped
  <2>3. Turn[s[1]] < 9
    BY <1>2, <2>2, TheTurns
  <2>4. s # q /\ ~Before(q, s)
    BY <1>2, <2>1, <2>2, <2>3 DEF Before
  <2> QED
    BY <2>4, TakeKeepsOrder
<1>3. ASSUME NEW f \in Feeds
      PROVE  /\ heard[i][f] \notin {"pending", "stub"}
             /\ heard[i][f] # "unasked" => run.audit
  <2>1. /\ IF IsAsked(i, f)
           THEN /\ heard[i][f] # "unasked"
                /\ (heard[i][f] = "pending") = (QuestionOf(i, f) \in todo)
           ELSE heard[i][f] = "unasked"
        /\ heard[i][f] = "stub" => f = "osv" /\ <<"detail", i>> \in todo
    BY DEF IInv, HeardInv
  <2>2. IsAsked(i, f) => QuestionOf(i, f) \notin todo /\ <<"detail", i>> \notin todo
    BY <1>1, <1>2, QuestionOnAgenda, QuestionKinds
  <2>3. IsAsked(i, f) => run.audit
    BY AskedIs DEF Asking
  <2> QED
    BY <2>1, <2>2, <2>3
<1>4. \A f \in Feeds : heard[i][f] \in Words
  BY <1>1 DEF Hearings, Feeds
<1>5. Settles(i)
  BY <1>3, <1>4 DEF Settles, Words
<1>6. Server(i).how # "npx" => heard[i].manifest.signature = "ok"
  BY DEF IInv, HeardInv
<1> QED
  BY <1>1, <1>3, <1>5, <1>6 DEF Complete

LEMMA HeardKept ==
    ASSUME IInv, NEW q, Take(q), q[1] \in {"process", "judge"}, UNCHANGED <<run, heard>>
    PROVE  HeardInv'
<1>1. ASSUME NEW j \in All, NEW f \in Feeds
      PROVE  /\ IF IsAsked(j, f)
                THEN /\ heard'[j][f] # "unasked"
                     /\ (heard'[j][f] = "pending") = (QuestionOf(j, f) \in todo')
                ELSE heard'[j][f] = "unasked"
             /\ heard'[j][f] = "stub" => f = "osv" /\ <<"detail", j>> \in todo'
  <2>1. heard[j][f] \notin {"pending", "stub"}
    BY CompleteByThen DEF Complete, Settles
  <2>2. QuestionOf(j, f) \in todo' => QuestionOf(j, f) \in todo
    BY DEF Take
  <2> QED
    BY <2>1, <2>2 DEF IInv, HeardInv
<1>2. \A j \in All : Server(j).how # "npx" => heard'[j].manifest.signature = "ok"
  BY DEF IInv, HeardInv
<1> QED
  BY <1>1, <1>2, HeardInvFrom

LEMMA ProcessKeeps ==
    ASSUME Apart, IInv, NEW i \in All, Process(i)
    PROVE  IInv'
<1> DEFINE q == <<"process", i>>
<1>1. Take(q) /\ q[1] = "process" /\ UNCHANGED <<run, heard, fails, trouble>>
      /\ results' = [results EXCEPT ![i] = Processed(i)]
  BY DEF Process
<1>2. run \in Invocations /\ DOMAIN results = All /\ todo \subseteq Agenda(run)
  BY DEF IInv, RunTypeOK
<1>3. Sound(i, Processed(i))
  BY <1>1, <1>2, CompleteByThen, ProcessedSound
<1>4. RunTypeOK'
  BY <1>1, TakeKeepsOrder DEF IInv, RunTypeOK, All
<1>5. HeardInv'
  BY <1>1, HeardKept
<1>6. <<"judge", 0>> \in todo /\ <<"judge", 0>> \in todo'
  <2>1. <<"judge", 0>> # q /\ ~Before(<<"judge", 0>>, q)
    BY TheTurns DEF Before
  <2> QED
    BY <1>1, <2>1, ProcessAndJudge, TakeKeepsOrder
<1>7. ASSUME NEW j \in All, NEW r, r = results'[j]
      PROVE  /\ <<"process", j>> \in todo' => r = Open
             /\ <<"process", j>> \notin todo' => Sound(j, r)'
  <2>1. CASE j = i
    BY <1>1, <1>2, <1>3, <1>7, <2>1, ReportSame, TakeKeepsOrder
  <2>2. CASE j # i
    <3>1. r = results[j]
      BY <1>1, <1>2, <1>7, <2>2
    <3>2. <<"process", j>> \in todo' <=> <<"process", j>> \in todo
      BY <1>1, <2>2, ProcessAndJudge, TakeKeepsOrder
    <3>3. /\ <<"process", j>> \in todo => r = Open
          /\ <<"process", j>> \notin todo => Sound(j, r)
      BY <1>6, <3>1 DEF IInv, ReportInv
    <3> QED
      BY <1>1, <3>2, <3>3, ReportSame
  <2> QED
    BY <2>1, <2>2
<1>8. ReportInv'
  BY <1>1, <1>6, <1>7, QuestionsSame DEF ReportInv
<1> QED
  BY <1>1, <1>4, <1>5, <1>8, TakeKeepsOrder DEF IInv

LEMMA JudgeKeeps ==
    ASSUME IInv, Judge
    PROVE  IInv'
<1> DEFINE q == <<"judge", 0>>
<1>1. Take(q) /\ q[1] = "judge" /\ UNCHANGED <<run, heard, trouble>>
      /\ fails' = [i \in All |-> DecisionFails(i, Aged(i, results[i]))]
      /\ results' = [i \in All |-> Settled(i, Aged(i, results[i]))]
  BY DEF Judge
<1>2. run \in Invocations
  BY DEF IInv, RunTypeOK
<1>3. RunTypeOK'
  <2>1. \A i, r : DecisionFails(i, r) \in BOOLEAN
    BY DEF DecisionFails
  <2>2. fails' \in [All -> BOOLEAN]
    BY <1>1, <2>1
  <2> QED
    BY <1>1, <2>2, TakeKeepsOrder DEF IInv, RunTypeOK, All
<1>4. HeardInv'
  BY <1>1, HeardKept
<1>5. q \in todo /\ q \notin todo'
  BY <1>1, TakeKeepsOrder
<1>6. ASSUME NEW i \in All PROVE <<"process", i>> \notin todo /\ <<"process", i>> \notin todo'
  <2>1. <<"process", i>> # q /\ ~Before(q, <<"process", i>>)
    BY TheTurns DEF Before
  <2>2. <<"process", i>> \notin todo
    BY <1>1, <2>1, ProcessAndJudge, TakeKeepsOrder
  <2> QED
    BY <1>1, <2>2 DEF Take
<1>7. ASSUME NEW i \in All, NEW r, r = results'[i], NEW b, b = fails'[i]
      PROVE  Final(i, r, b)'
  <2>1. Sound(i, results[i])
    BY <1>5, <1>6 DEF IInv, ReportInv
  <2>2. Final(i, r, b)
    BY <1>1, <1>2, <1>7, <2>1, SettledFinal
  <2> QED
    BY <1>1, <2>2, ReportSame
<1>8. ReportInv'
  BY <1>1, <1>5, <1>6, <1>7, QuestionsSame DEF ReportInv
<1> QED
  BY <1>1, <1>3, <1>4, <1>8, TakeKeepsOrder DEF IInv

LEMMA StutterKeeps ==
    ASSUME IInv, UNCHANGED vars
    PROVE  IInv'
<1>1. /\ run' = run /\ todo' = todo /\ heard' = heard /\ results' = results
      /\ fails' = fails /\ trouble' = trouble
  BY DEF vars
<1>2. RunTypeOK' /\ Ordered'
  BY <1>1 DEF IInv, RunTypeOK, Ordered, All
<1>3. HeardInv'
  BY <1>1, HeardInvFrom DEF IInv, HeardInv
<1>4. ReportInv'
  BY <1>1, ReportSame, QuestionsSame DEF IInv, ReportInv
<1> QED
  BY <1>2, <1>3, <1>4 DEF IInv

LEMMA StepKeeps == Apart => (IInv /\ [Next]_vars => IInv')
<1> SUFFICES ASSUME Apart, IInv, [Next]_vars PROVE IInv'
  OBVIOUS
<1>1. CASE FetchNpmAdvisories
  BY <1>1, NpmKeeps
<1>2. ASSUME NEW how \in {"npx", "uvx"}, FetchOsvAdvisories(how) PROVE IInv'
  BY <1>2, OsvKeeps
<1>3. ASSUME NEW i \in All, FetchGhsaAdvisories(i) PROVE IInv'
  BY <1>3, GhsaAndSnykKeep DEF FetchGhsaAdvisories
<1>4. ASSUME NEW i \in All, FetchSnykAdvisories(i) PROVE IInv'
  BY <1>4, GhsaAndSnykKeep DEF FetchSnykAdvisories
<1>5. ASSUME NEW i \in All, EnrichOsvVulns(i) PROVE IInv'
  BY <1>5, DetailKeeps
<1>6. ASSUME NEW i \in All, FetchManifest(i) \/ ResolveTree(i) PROVE IInv'
  BY <1>6, DocumentsKeep
<1>7. ASSUME NEW i \in All, Process(i) PROVE IInv'
  BY <1>7, ProcessKeeps
<1>8. CASE Judge
  BY <1>8, JudgeKeeps
<1>9. CASE UNCHANGED vars
  BY <1>9, StutterKeeps
<1> QED
  BY <1>1, <1>2, <1>3, <1>4, <1>5, <1>6, <1>7, <1>8, <1>9 DEF Next

LEMMA InitHolds == Init => IInv
<1> SUFFICES ASSUME Init PROVE IInv
  OBVIOUS
<1>1. /\ run \in Invocations /\ todo = Agenda(run)
      /\ heard = [i \in All |-> Expected(run, i)]
      /\ results = [i \in All |-> Open] /\ fails = [i \in All |-> FALSE]
      /\ trouble = 0
  BY DEF Init
<1>2. ASSUME NEW i \in All
      PROVE  /\ heard[i] \in Hearings
             /\ \A f \in Feeds :
                   heard[i][f] = IF IsAsked(i, f) THEN "pending" ELSE "unasked"
             /\ heard[i].manifest.signature = "ok"
  <2>1. /\ heard[i] = Expected(run, i)
        /\ DOMAIN Unheard = Feeds \cup {"manifest", "tree"}
    BY <1>1 DEF Unheard, Feeds
  <2>2. /\ heard[i].manifest = Welcome /\ heard[i].tree = GoodTree
        /\ heard[i] = [npm |-> heard[i].npm, osv |-> heard[i].osv, ghsa |-> heard[i].ghsa,
                       snyk |-> heard[i].snyk, manifest |-> Welcome, tree |-> GoodTree]
    BY <2>1 DEF Expected, Unheard, Feeds
  <2>3. \A f \in Feeds : heard[i][f] = IF IsAsked(i, f) THEN "pending" ELSE "unasked"
    BY <2>1, AskedIs DEF IsAsked
  <2>4. Welcome \in Manifests /\ GoodTree \in Trees /\ Welcome.signature = "ok"
    BY DEF Welcome, GoodTree, Manifests, Trees
  <2>5. \A f \in {"npm", "osv", "ghsa", "snyk"} : heard[i][f] \in Words
    BY <2>3 DEF Feeds, Words
  <2> QED
    BY <2>2, <2>3, <2>4, <2>5 DEF Hearings
<1>3. RunTypeOK
  BY <1>1, <1>2, GateConstants DEF RunTypeOK
<1>4. Ordered
  BY <1>1 DEF Ordered
<1>5. HeardInv
  BY <1>1, <1>2, QuestionOnAgenda DEF HeardInv
<1>6. ReportInv
  BY <1>1, ProcessAndJudge DEF ReportInv
<1> QED
  BY <1>3, <1>4, <1>5, <1>6 DEF IInv

LEMMA Invariant == Apart => (Spec => []IInv)
<1> SUFFICES ASSUME Apart PROVE Spec => []IInv
  OBVIOUS
<1>1. Init => IInv
  BY InitHolds
<1>2. IInv /\ [Next]_vars => IInv'
  BY StepKeeps
<1> QED
  BY <1>1, <1>2, PTL DEF Spec

-----------------------------------------------------------------------------
(* What the gate promises. *)

LEMMA EveryReportTyped ==
    ASSUME IInv
    PROVE  TypeOK
<1>1. /\ run \in Invocations /\ heard \in [All -> Hearings] /\ DOMAIN results = All
      /\ fails \in [All -> BOOLEAN] /\ trouble \in 0 .. MaxTrouble
  BY DEF IInv, RunTypeOK
<1>2. \A i \in All : heard[i].manifest \in Manifests /\ heard[i].tree \in Trees
  BY <1>1 DEF Hearings
<1>3. ASSUME NEW i \in All, results[i] # Open PROVE IsReport(results[i])
  BY <1>3 DEF IInv, ReportInv, Sound, Final
<1> QED
  BY <1>1, <1>2, <1>3 DEF TypeOK, IsReport

LEMMA DoneIsFinal ==
    ASSUME IInv, Done, NEW i \in All
    PROVE  Final(i, results[i], fails[i])
  BY DEF IInv, ReportInv, Done

(* An entry that reads OK, or that a run failing on what it could not check *)
(* lets through, was seen and was good: the release, its hash, every feed   *)
(* asked, the bytes and the tree the run looks at (verify_integrity.cjs).   *)
THEOREM OkIsEarned == Apart => (Spec => []PassIsEarned)
<1> SUFFICES ASSUME Apart PROVE Spec => []PassIsEarned
  OBVIOUS
<1>1. IInv => PassIsEarned
  <2> SUFFICES ASSUME IInv PROVE PassIsEarned
    OBVIOUS
  <2>1. ASSUME Done, NEW i \in All,
               results[i].status = "OK"
                   \/ (FailUnverified /\ Exit = 0 /\ Server(i).how # "tag")
        PROVE  Answered(i)
    <3>1. Final(i, results[i], fails[i])
      BY <2>1, DoneIsFinal
    <3>2. Exit = 0 => ~results[i].failed
      BY DEF Exit, CounterCode
    <3>3. Passes(i, results[i])
      BY <2>1, <3>2 DEF Passes
    <3> QED
      BY <3>1, <3>3 DEF Final
  <2> QED
    BY <2>1, EveryReportTyped DEF PassIsEarned
<1> QED
  BY <1>1, Invariant, PTL

(* A high advisory that any feed confirmed fails the entry and the run,     *)
(* whatever the other feeds did, and the counters and the decision over the *)
(* lines agree (processNpm, unifyAdvisories, exitFor).                      *)
THEOREM WhatIsKnownIsRefused == Apart => (Spec => []KnownIsRefused)
<1> SUFFICES ASSUME Apart PROVE Spec => []KnownIsRefused
  OBVIOUS
<1>1. IInv => KnownIsRefused
  <2> SUFFICES ASSUME IInv, Done PROVE KnownIsRefused
    BY DEF KnownIsRefused
  <2>1. \A i \in All : Final(i, results[i], fails[i])
    BY DoneIsFinal
  <2>2. \A i \in All : fails[i] = results[i].failed
    BY <2>1 DEF Final
  <2>3. ModelCode = CounterCode
    BY <2>2 DEF ModelCode, CounterCode
  <2>4. ASSUME NEW i \in Packages, heard[i].manifest.came = "ok",
               \E f \in Feeds : heard[i][f] = "hard"
        PROVE  /\ results[i].advisories = "vulnerable"
               /\ results[i].status = "FAIL" /\ Exit = 1
    <3>1. i \in All /\ Known(i)
      BY <2>4 DEF Known, Packages, By
    <3>2. IsKnown(results[i])
      BY <2>1, <3>1 DEF Final
    <3>3. Exit = 1
      BY <3>1, <3>2 DEF IsKnown, Exit, CounterCode
    <3> QED
      BY <3>2, <3>3 DEF IsKnown
  <2> QED
    BY <2>3, <2>4 DEF KnownIsRefused
<1> QED
  BY <1>1, Invariant, PTL

-----------------------------------------------------------------------------
(* The refinement of AdvisoryLook. *)

Told(i) == [f \in Feeds |-> IF heard[i][f] = "stub" THEN "pending" ELSE heard[i][f]]

LEMMA LookIs ==
    ASSUME NEW i
    PROVE  /\ Look(i)!Init <=> /\ Told(i) \in [Feeds -> {"pending", "unasked"}]
                              /\ results[i].advisories = "open"
           /\ Look(i)!Hear <=>
                 /\ results[i].advisories = "open"
                 /\ Told(i)' \in [Feeds -> {"silent", "none", "mild", "hard", "unread"}
                                             \cup {"pending", "unasked"}]
                 /\ \A f \in Feeds :
                       Told(i)'[f] # Told(i)[f] =>
                          /\ Told(i)[f] = "pending"
                          /\ Told(i)'[f] \in {"silent", "none", "mild", "hard", "unread"}
                 /\ results'[i].advisories = results[i].advisories
           /\ Look(i)!SayNothing <=>
                 /\ results[i].advisories = "open" /\ results'[i].advisories = "nothing"
                 /\ Told(i)' = Told(i)
           /\ UNCHANGED Look(i)!vars <=>
                 Told(i)' = Told(i) /\ results'[i].advisories = results[i].advisories
  BY DEF Look!Init, Look!Hear, Look!SayNothing, Look!vars, Look!Answers, Told

LEMMA OpenSaysNothing == Open.advisories = "open"
  BY DEF Open, Result

(* What every step of the run is to each look. *)
Looking == \A i \in All : Look(i)!Next \/ UNCHANGED Look(i)!vars

LEMMA HearingIsLooking ==
    ASSUME IInv, NEW q, Take(q), q[1] \notin {"process", "judge"}, IInv', Hears
    PROVE  Looking
<1> SUFFICES ASSUME NEW i \in All PROVE Look(i)!Hear
  BY DEF Looking, Look!Next
<1>1. run' = run /\ results' = results /\ All' = All
  BY DEF Hears, All
<1>2. heard[i] \in Hearings /\ heard'[i] \in Hearings
  BY <1>1 DEF IInv, RunTypeOK
<1>3. results[i].advisories = "open"
  <2>1. results[i] = Open
    BY <1>1, QuestionIsEarly DEF IInv, ReportInv
  <2> QED
    BY <2>1, OpenSaysNothing
<1>4. ASSUME NEW f \in Feeds
      PROVE  /\ heard'[i][f] \in Words
             /\ \/ heard'[i][f] = heard[i][f]
                \/ /\ heard[i][f] \in {"pending", "stub"}
                   /\ heard'[i][f] \in {"silent", "none", "mild", "hard", "unread", "stub"}
  BY <1>2 DEF Hears, Hearings, Feeds
<1>5. Told(i) = [f \in Feeds |-> IF heard[i][f] = "stub" THEN "pending" ELSE heard[i][f]]
  BY DEF Told
<1>6. Told(i)' = [f \in Feeds |-> IF heard'[i][f] = "stub" THEN "pending" ELSE heard'[i][f]]
  BY DEF Told
<1>7. Told(i)' \in [Feeds -> {"silent", "none", "mild", "hard", "unread"}
                               \cup {"pending", "unasked"}]
  BY <1>4, <1>6 DEF Words
<1>8. ASSUME NEW f \in Feeds, Told(i)'[f] # Told(i)[f]
      PROVE  /\ Told(i)[f] = "pending"
             /\ Told(i)'[f] \in {"silent", "none", "mild", "hard", "unread"}
  BY <1>4, <1>5, <1>6, <1>8
<1> QED
  BY <1>1, <1>3, <1>7, <1>8, LookIs

LEMMA UnmovedIsLooking ==
    ASSUME run' = run, heard' = heard, NEW i \in All,
           results'[i].advisories = results[i].advisories
    PROVE  UNCHANGED Look(i)!vars
  BY LookIs DEF Told

(* AdvisoryState concludes what the look concludes.                         *)
LEMMA StateIsConclusion ==
    ASSUME Apart, run \in Invocations, NEW i \in Packages, Complete(i)
    PROVE  AdvisoryState(i) = Look(i)!Conclusion /\ ~Look(i)!Says("pending")
<1>1. \A f \in Feeds : heard[i][f] \in {"unasked", "silent", "none", "mild", "hard", "unread"}
  BY DEF Complete, Settles
<1>2. ASSUME NEW w PROVE Look(i)!Says(w) <=> \E f \in Feeds : heard[i][f] = w
  BY <1>1 DEF Look!Says
<1>3. /\ Look(i)!Says("hard") <=> \E a \in UnifyAdvisories(i) : a.hard
      /\ Look(i)!Says("silent") <=> DegradedFeedsFor(i) # {}
      /\ Look(i)!Says("unread") <=> \E a \in UnifyAdvisories(i) : a.unresolved
      /\ ~Look(i)!Says("hard") /\ ~Look(i)!Says("unread")
            => (Look(i)!Says("mild") <=> UnifyAdvisories(i) # {})
  BY <1>2, HardIsUnified, UnifiedIsHeard
<1>4. Look(i)!Conclusion =
          IF Look(i)!Says("hard") THEN "vulnerable"
          ELSE IF Look(i)!Says("silent") \/ Look(i)!Says("unread") THEN "unverified"
          ELSE IF Look(i)!Says("mild") THEN "advisories-present"
          ELSE "clean"
  BY DEF Look!Conclusion
<1>5. ~Look(i)!Says("pending")
  BY <1>1, <1>2
<1> QED
  BY <1>3, <1>4, <1>5 DEF AdvisoryState

LEMMA ProcessIsLooking ==
    ASSUME Apart, IInv, NEW i \in All, Process(i)
    PROVE  Looking
<1>1. Take(<<"process", i>>) /\ run' = run /\ heard' = heard
      /\ results' = [results EXCEPT ![i] = Processed(i)]
  BY DEF Process
<1>2. run \in Invocations /\ DOMAIN results = All
  BY DEF IInv, RunTypeOK
<1>3. Complete(i)
  BY <1>1, CompleteByThen
<1>4. results[i].advisories = "open" /\ results'[i] = Processed(i)
  <2>1. results[i] = Open
    BY <1>1 DEF IInv, ReportInv, Take
  <2> QED
    BY <1>1, <1>2, <2>1, OpenSaysNothing
<1>5. Told(i)' = Told(i)
  BY <1>1 DEF Told
<1>6. ASSUME NEW j \in All, j # i PROVE UNCHANGED Look(j)!vars
  <2>1. results'[j] = results[j]
    BY <1>1, <1>2, <1>6
  <2> QED
    BY <1>1, <2>1, UnmovedIsLooking
<1>7. ASSUME Processed(i).advisories = "nothing" PROVE Look(i)!Next
  BY <1>4, <1>5, <1>7, LookIs DEF Look!Next
<1>8. Unchecked.advisories = "nothing" /\ ProcessTag.advisories = "nothing"
  BY ReportParts DEF Unchecked, ProcessTag
<1>9. \A lines, artifact, advisories :
         Judged(lines, artifact, advisories).advisories = advisories
  BY DEF Judged, Result
<1>10. Server(i).how \in Hows
  BY <1>2, ServerTyped
<1>11. CASE Server(i).how \notin {"npx", "uvx"}
  <2>1. Processed(i) \in {ProcessDigest(i), ProcessTag, Unchecked}
    BY <1>10, <1>11 DEF Processed, Hows
  <2>2. ProcessDigest(i).advisories = "nothing"
    BY <1>9 DEF ProcessDigest
  <2>3. Look(i)!Next
    BY <1>7, <1>8, <2>1, <2>2
  <2> QED
    BY <1>6, <2>3 DEF Looking
<1>12. CASE Server(i).how \in {"npx", "uvx"}
  <2>1. i \in Packages /\ Processed(i) = ProcessPackage(i)
    BY <1>12 DEF Packages, By, Processed
  <2>2. CASE Manifest(i).came # "ok" \/ ~run.audit
    <3>1. ProcessPackage(i).advisories = "nothing"
      BY <1>8, <1>9, <2>2 DEF ProcessPackage
    <3> QED
      BY <1>6, <1>7, <2>1, <3>1 DEF Looking
  <2>3. CASE Manifest(i).came = "ok" /\ run.audit
    <3>1. ProcessPackage(i).advisories = AdvisoryState(i)
      BY <1>9, <2>3 DEF ProcessPackage
    <3>2. results'[i].advisories = Look(i)!Conclusion /\ ~Look(i)!Says("pending")
      BY <1>2, <1>3, <1>4, <2>1, <3>1, StateIsConclusion
    <3>3. Look(i)!Conclude
      BY <1>4, <1>5, <3>2 DEF Look!Conclude, Told
    <3> QED
      BY <1>6, <3>3 DEF Looking, Look!Next
  <2> QED
    BY <2>2, <2>3
<1> QED
  BY <1>11, <1>12

LEMMA JudgeIsLooking ==
    ASSUME IInv, Judge
    PROVE  Looking
<1>1. Take(<<"judge", 0>>) /\ run' = run /\ heard' = heard
      /\ results' = [i \in All |-> Settled(i, Aged(i, results[i]))]
  BY DEF Judge
<1>2. ASSUME NEW i \in All PROVE results'[i].advisories = results[i].advisories
  <2>1. PICK r : r = results[i]
    OBVIOUS
  <2>2. <<"judge", 0>> \in todo /\ <<"process", i>> \notin todo
    <3>1. <<"process", i>> # <<"judge", 0>> /\ ~Before(<<"judge", 0>>, <<"process", i>>)
      BY TheTurns DEF Before
    <3> QED
      BY <1>1, <3>1, ProcessAndJudge, TakeKeepsOrder
  <2>3. IsReport(r)
    BY <2>1, <2>2 DEF IInv, ReportInv, Sound
  <2>4. IsReport(Aged(i, r)) /\ Aged(i, r).advisories = r.advisories
    BY <2>3, AgedParts DEF Aged
  <2>5. PICK a : a = Aged(i, r)
    OBVIOUS
  <2>6. Settled(i, a).advisories = a.advisories
    <3>1. a = [status |-> a.status, lines |-> a.lines, failed |-> a.failed,
               artifact |-> a.artifact, advisories |-> a.advisories]
      BY <2>4, <2>5 DEF IsReport, Result
    <3>2. \A x, y : [a EXCEPT !.failed = x, !.status = y].advisories = a.advisories
      BY <3>1
    <3> QED
      BY <3>2 DEF Settled
  <2> QED
    BY <1>1, <2>1, <2>4, <2>5, <2>6
<1> QED
  BY <1>1, <1>2, UnmovedIsLooking DEF Looking

LEMMA StepIsLooking ==
    ASSUME Apart, IInv, [Next]_vars
    PROVE  [Looking]_vars
<1>1. CASE FetchNpmAdvisories
  BY <1>1, NpmKeeps, HearingIsLooking DEF FetchNpmAdvisories
<1>2. ASSUME NEW how \in {"npx", "uvx"}, FetchOsvAdvisories(how) PROVE Looking
  BY <1>2, OsvKeeps, HearingIsLooking DEF FetchOsvAdvisories
<1>3. ASSUME NEW i \in All, FetchGhsaAdvisories(i) PROVE Looking
  BY <1>3, GhsaAndSnykKeep, HearingIsLooking DEF FetchGhsaAdvisories
<1>4. ASSUME NEW i \in All, FetchSnykAdvisories(i) PROVE Looking
  BY <1>4, GhsaAndSnykKeep, HearingIsLooking DEF FetchSnykAdvisories
<1>5. ASSUME NEW i \in All, EnrichOsvVulns(i) PROVE Looking
  BY <1>5, DetailKeeps, HearingIsLooking DEF EnrichOsvVulns
<1>6. ASSUME NEW i \in All, FetchManifest(i) PROVE Looking
  BY <1>6, DocumentsKeep, HearingIsLooking DEF FetchManifest
<1>7. ASSUME NEW i \in All, ResolveTree(i) PROVE Looking
  BY <1>7, DocumentsKeep, HearingIsLooking DEF ResolveTree
<1>8. ASSUME NEW i \in All, Process(i) PROVE Looking
  BY <1>8, ProcessIsLooking
<1>9. CASE Judge
  BY <1>9, JudgeIsLooking
<1> QED
  BY <1>1, <1>2, <1>3, <1>4, <1>5, <1>6, <1>7, <1>8, <1>9 DEF Next

LEMMA LookStarts ==
    ASSUME Init
    PROVE  \A i \in All : Look(i)!Init
<1> SUFFICES ASSUME NEW i \in All PROVE Look(i)!Init
  OBVIOUS
<1>1. results[i].advisories = "open"
  BY OpenSaysNothing DEF Init
<1>2. heard[i] = Expected(run, i)
  BY DEF Init
<1>3. \A f \in Feeds : heard[i][f] \in {"pending", "unasked"}
  BY <1>2, AskedIs DEF IsAsked
<1>4. Told(i) \in [Feeds -> {"pending", "unasked"}]
  BY <1>3 DEF Told
<1> QED
  BY <1>1, <1>4, LookIs

(* Whatever order the feeds answer in and however they are keyed, merged    *)
(* and read back, each package's advisories are judged as AdvisoryLook      *)
(* says: nothing heard is unsaid, a silent feed is not read as "none", and  *)
(* the word written is the one the answers come to (processNpm, processPypi,*)
(* unifyAdvisories, advisoryState).                                         *)
THEOREM GateImplementsLook == Apart => (Spec => ImplementsLook)
<1> SUFFICES ASSUME Apart PROVE Spec => ImplementsLook
  OBVIOUS
<1>1. Init => \A i \in All : Look(i)!Init
  BY LookStarts
<1>2. IInv /\ [Next]_vars => [\A i \in All : Look(i)!Next \/ UNCHANGED Look(i)!vars]_vars
  BY StepIsLooking DEF Looking
<1> QED
  BY <1>1, <1>2, Invariant, PTL DEF Spec, ImplementsLook

-----------------------------------------------------------------------------
(***************************************************************************)
(* What layers of policy come to.                                          *)
(***************************************************************************)
(* What stands for "no bound" is no bound of any key, no list and no object. *)
NullIsApart ==
    /\ \A key \in Keys : ~IsBound(key, Null)
    /\ Null \notin SUBSET Licenses
    /\ \A x : Null # {x}
    /\ \A S, T : Null \notin [S -> T]

-----------------------------------------------------------------------------
(* The keys and their kinds. *)

LEMMA RankedAre ==
  RankedKeys = {"unverified", "installHooks", "dependencyHooks", "dependencyAdvisories",
                "signatures", "provenance", "docker", "contextBudget", "default",
                "toolApproval", "toxicFlows", "toolShadowing", "unpinnedLaunch"}
  BY DEF RankedKeys, Rank

LEMMA RanksAreNumbers ==
  ASSUME NEW key \in RankedKeys
  PROVE  \A w \in DOMAIN Rank[key] : Rank[key][w] \in Nat
  BY RankedAre DEF Rank

LEMMA SomeWordIsLenient ==
  ASSUME NEW key \in RankedKeys
  PROVE  \E w \in DOMAIN Rank[key] : Rank[key][w] = 0
  BY RankedAre DEF Rank

LEMMA LimitIsNumber ==
  ASSUME NEW r, IsRequirement(r), NEW d \in DOMAIN r PROVE Limit(r, d) \in Nat
<1>1. d \in AllDimensions /\ r[d] \in Nat \cup {Null}
  BY DEF IsRequirement
<1>2. DefaultMaxAge[d] \in Nat
  BY <1>1 DEF DefaultMaxAge, AllDimensions
<1> QED
  BY <1>1, <1>2 DEF Limit

SetKeys == {"trust", "licenses", "requireEvidence", "minTier"}

LEMMA KindsApart ==
  ASSUME NEW key \in Keys
  PROVE  /\ key \in RankedKeys \cup HigherKeys \cup LowerKeys \cup SwitchKeys
                      \cup LayeredKeys \cup SetKeys
         /\ key \in RankedKeys => key \notin HigherKeys \cup LowerKeys \cup SwitchKeys
                                            \cup LayeredKeys \cup SetKeys
         /\ key \in HigherKeys => key \notin LowerKeys \cup SwitchKeys \cup LayeredKeys \cup SetKeys
         /\ key \in LowerKeys => key \notin SwitchKeys \cup LayeredKeys \cup SetKeys
         /\ key \in SwitchKeys => key \notin LayeredKeys \cup SetKeys
         /\ key \in LayeredKeys => key \notin SetKeys
  BY RankedAre DEF Keys, HigherKeys, LowerKeys, SwitchKeys, LayeredKeys, SetKeys

(* What `at least as strict` is, kind by kind. *)
LEMMA AtLeastIs ==
  ASSUME NEW key \in Keys, NEW a, NEW b
  PROVE  /\ key \in RankedKeys => (AtLeast(key, a, b) <=> Rank[key][a] >= Rank[key][b])
         /\ key \in HigherKeys => (AtLeast(key, a, b) <=> a >= b)
         /\ key \in LowerKeys => (AtLeast(key, a, b) <=> a <= b)
         /\ key \in SwitchKeys => (AtLeast(key, a, b) <=> (b => a))
         /\ key = "minTier" => (AtLeast(key, a, b) <=> TierOrder[a] <= TierOrder[b])
         /\ key = "trust" => (AtLeast(key, a, b) <=> a \subseteq b)
         /\ key = "licenses" => (AtLeast(key, a, b) <=>
                /\ Unbounded(b.allow) \/ (~Unbounded(a.allow) /\ a.allow \subseteq b.allow)
                /\ b.deny \subseteq a.deny)
         /\ key = "requireEvidence" => (AtLeast(key, a, b) <=>
                /\ DOMAIN b \subseteq DOMAIN a
                /\ \A dim \in DOMAIN b : Limit(a, dim) <= Limit(b, dim))
         /\ key \in LayeredKeys => (AtLeast(key, a, b) <=> b \subseteq a)
<1>1. CASE key \in RankedKeys
  BY <1>1, KindsApart DEF AtLeast, SetKeys
<1>2. CASE key \in HigherKeys
  BY <1>2, KindsApart DEF AtLeast, SetKeys
<1>3. CASE key \in LowerKeys
  BY <1>3, KindsApart DEF AtLeast, SetKeys
<1>4. CASE key \in SwitchKeys
  BY <1>4, KindsApart DEF AtLeast, SetKeys
<1>5. CASE key \in LayeredKeys
  BY <1>5, KindsApart DEF AtLeast, SetKeys
<1>6. CASE key = "minTier"
  BY <1>6, KindsApart DEF AtLeast, SetKeys
<1>7. CASE key = "trust"
  BY <1>7, KindsApart DEF AtLeast, SetKeys
<1>8. CASE key = "licenses"
  BY <1>8, KindsApart DEF AtLeast, SetKeys
<1>9. CASE key = "requireEvidence"
  BY <1>9, KindsApart DEF AtLeast, SetKeys
<1> QED
  BY <1>1, <1>2, <1>3, <1>4, <1>5, <1>6, <1>7, <1>8, <1>9, KindsApart DEF SetKeys

(* What a bound is, kind by kind. *)
SetsOf(key) ==
    CASE key \in {"allow", "deny"} -> LayersOf(SUBSET Rules)
      [] key = "denyCapabilities" -> LayersOf(SUBSET Capabilities)
      [] OTHER -> LayersOf(SUBSET (Entries \X Capabilities))

LEMMA BoundIs ==
  ASSUME NEW key \in Keys, NEW v
  PROVE  /\ key \in RankedKeys => (IsBound(key, v) <=> v \in DOMAIN Rank[key])
         /\ key \in HigherKeys \cup LowerKeys => (IsBound(key, v) <=> v \in Nat)
         /\ key \in SwitchKeys => (IsBound(key, v) <=> v \in BOOLEAN)
         /\ key = "minTier" => (IsBound(key, v) <=> v \in FloorTiers)
         /\ key = "trust" => (IsBound(key, v) <=> v \subseteq TrustWords)
         /\ key = "licenses" => (IsBound(key, v) <=> v \in LicenseLists)
         /\ key = "requireEvidence" => (IsBound(key, v) <=> IsRequirement(v))
         /\ key \in LayeredKeys => (IsBound(key, v) <=> v \subseteq SetsOf(key))
<1>1. CASE key \in RankedKeys
  <2>1. key \notin HigherKeys \cup LowerKeys \cup SwitchKeys \cup LayeredKeys \cup SetKeys
    BY <1>1, KindsApart
  <2>2. IsBound(key, v) <=> v \in DOMAIN Rank[key]
    BY <1>1, <2>1 DEF IsBound, SetKeys, LayeredKeys
  <2> QED
    BY <1>1, <2>1, <2>2 DEF SetKeys
<1>2. CASE key \in HigherKeys \cup LowerKeys
  <2>1. key \notin RankedKeys \cup SwitchKeys \cup LayeredKeys \cup SetKeys
    BY <1>2, KindsApart
  <2>2. IsBound(key, v) <=> v \in Nat
    BY <1>2, <2>1 DEF IsBound, SetKeys, LayeredKeys
  <2> QED
    BY <1>2, <2>1, <2>2 DEF SetKeys
<1>4. CASE key \in SwitchKeys
  <2>1. key \notin RankedKeys \cup HigherKeys \cup LowerKeys \cup LayeredKeys \cup SetKeys
    BY <1>4, KindsApart
  <2>2. IsBound(key, v) <=> v \in BOOLEAN
    BY <1>4, <2>1 DEF IsBound, SetKeys, LayeredKeys
  <2> QED
    BY <1>4, <2>1, <2>2 DEF SetKeys
<1>5. CASE key \in LayeredKeys
  <2>1. key \notin RankedKeys \cup HigherKeys \cup LowerKeys \cup SwitchKeys \cup SetKeys
    BY <1>5, KindsApart
  <2>2. key \in {"allow", "deny", "denyCapabilities", "capabilityExceptions"}
    BY <1>5 DEF LayeredKeys
  <2>3. CASE key \in {"allow", "deny"}
    BY <2>1, <2>3, <1>5, KindsApart DEF IsBound, SetKeys, SetsOf
  <2>4. CASE key = "denyCapabilities"
    BY <2>1, <2>4, <1>5, KindsApart DEF IsBound, SetKeys, SetsOf
  <2>5. CASE key = "capabilityExceptions"
    BY <2>1, <2>5, <1>5, KindsApart DEF IsBound, SetKeys, SetsOf
  <2> QED
    BY <2>2, <2>3, <2>4, <2>5
<1>6. CASE key = "minTier"
  BY <1>6, KindsApart DEF IsBound, SetKeys
<1>7. CASE key = "trust"
  <2>1. key \notin RankedKeys \cup HigherKeys \cup LowerKeys \cup SwitchKeys \cup LayeredKeys
    BY <1>7, KindsApart DEF SetKeys
  <2>2. IsBound(key, v) <=> v \subseteq TrustWords
    BY <1>7, <2>1 DEF IsBound
  <2> QED
    BY <1>7, <2>1, <2>2
<1>8. CASE key = "licenses"
  <2>1. key \notin RankedKeys \cup HigherKeys \cup LowerKeys \cup SwitchKeys \cup LayeredKeys
    BY <1>8, KindsApart DEF SetKeys
  <2>2. IsBound(key, v) <=> v \in LicenseLists
    BY <1>8, <2>1 DEF IsBound
  <2> QED
    BY <1>8, <2>1, <2>2
<1>9. CASE key = "requireEvidence"
  <2>1. key \notin RankedKeys \cup HigherKeys \cup LowerKeys \cup SwitchKeys \cup LayeredKeys
    BY <1>9, KindsApart DEF SetKeys
  <2>2. IsBound(key, v) <=> IsRequirement(v)
    BY <1>9, <2>1 DEF IsBound
  <2> QED
    BY <1>9, <2>1, <2>2
<1> QED
  BY <1>1, <1>2, <1>4, <1>5, <1>6, <1>7, <1>8, <1>9, KindsApart DEF SetKeys

LEMMA TiersOrdered == ASSUME NEW t \in FloorTiers PROVE TierOrder[t] \in Nat
  BY DEF FloorTiers, TierOrder

-----------------------------------------------------------------------------
(* `p` asks for everything `s` asks for; nothing is asked by Null. *)
Covers(key, p, s) == s = Null \/ (p # Null /\ AtLeast(key, p, s))

LEMMA AtLeastItself ==
  ASSUME NEW key \in Keys, NEW v, IsBound(key, v) PROVE AtLeast(key, v, v)
<1>1. CASE key \in RankedKeys
  BY <1>1, AtLeastIs, BoundIs, RanksAreNumbers
<1>2. CASE key \in HigherKeys \cup LowerKeys
  BY <1>2, AtLeastIs, BoundIs
<1>3. CASE key \in SwitchKeys \cup LayeredKeys
  BY <1>3, AtLeastIs, BoundIs
<1>4. CASE key = "minTier"
  BY <1>4, AtLeastIs, BoundIs, TiersOrdered
<1>5. CASE key = "trust" \/ key = "licenses"
  BY <1>5, AtLeastIs
<1>6. CASE key = "requireEvidence"
  BY <1>6, AtLeastIs, BoundIs, LimitIsNumber
<1> QED
  BY <1>1, <1>2, <1>3, <1>4, <1>5, <1>6, KindsApart DEF SetKeys

LEMMA AtLeastTransitive ==
  ASSUME NEW key \in Keys, NEW a, NEW b, NEW c, IsBound(key, a), IsBound(key, b), IsBound(key, c),
         AtLeast(key, a, b), AtLeast(key, b, c)
  PROVE  AtLeast(key, a, c)
<1>1. CASE key \in RankedKeys
  BY <1>1, AtLeastIs, BoundIs, RanksAreNumbers
<1>2. CASE key \in HigherKeys \cup LowerKeys
  BY <1>2, AtLeastIs, BoundIs
<1>3. CASE key \in SwitchKeys \cup LayeredKeys
  BY <1>3, AtLeastIs, BoundIs
<1>4. CASE key = "minTier"
  BY <1>4, AtLeastIs, BoundIs, TiersOrdered
<1>5. CASE key = "trust"
  BY <1>5, AtLeastIs
<1>6. CASE key = "licenses"
  BY <1>6, AtLeastIs
<1>7. CASE key = "requireEvidence"
  <2>1. IsRequirement(a) /\ IsRequirement(b) /\ IsRequirement(c)
    BY <1>7, BoundIs
  <2>2. \A d \in DOMAIN c : d \in DOMAIN b /\ d \in DOMAIN a /\ Limit(a, d) <= Limit(b, d)
                            /\ Limit(b, d) <= Limit(c, d)
    BY <1>7, AtLeastIs
  <2>3. \A d \in DOMAIN c : Limit(a, d) <= Limit(c, d)
    BY <2>1, <2>2, LimitIsNumber
  <2> QED
    BY <1>7, <2>2, <2>3, AtLeastIs
<1> QED
  BY <1>1, <1>2, <1>3, <1>4, <1>5, <1>6, <1>7, KindsApart DEF SetKeys

LEMMA CoversItself ==
  ASSUME NEW key \in Keys, NEW v, IsValue(key, v) PROVE Covers(key, v, v)
  BY AtLeastItself DEF IsValue, Covers

LEMMA CoversTransitive ==
  ASSUME NEW key \in Keys, NEW a, NEW b, NEW c, IsValue(key, a), IsValue(key, b), IsValue(key, c),
         Covers(key, a, b), Covers(key, b, c)
  PROVE  Covers(key, a, c)
  BY AtLeastTransitive DEF IsValue, Covers

(* The stricter of two numbers, words, tiers or switches is one of them.    *)
LEMMA StricterOfTwo ==
  ASSUME NEW key \in Keys \ (LayeredKeys \cup {"trust", "licenses", "requireEvidence"}),
         NEW b, NEW o, IsBound(key, b), IsBound(key, o)
  PROVE  AtLeast(key, o, b) \/ AtLeast(key, b, o)
<1>1. CASE key \in RankedKeys
  BY <1>1, AtLeastIs, BoundIs, RanksAreNumbers
<1>2. CASE key \in HigherKeys \cup LowerKeys
  BY <1>2, AtLeastIs, BoundIs
<1>3. CASE key \in SwitchKeys
  BY <1>3, AtLeastIs, BoundIs
<1>4. CASE key = "minTier"
  BY <1>4, AtLeastIs, BoundIs, TiersOrdered
<1> QED
  BY <1>1, <1>2, <1>3, <1>4, KindsApart DEF SetKeys

JoinHolds(key, j, b, o) == IsBound(key, j) /\ AtLeast(key, j, b) /\ AtLeast(key, j, o)

LEMMA JoinedRequirement ==
  ASSUME NEW b, NEW o, IsRequirement(b), IsRequirement(o)
  PROVE  JoinHolds("requireEvidence", Join("requireEvidence", b, o), b, o)
<1>1. "requireEvidence" \in Keys /\ "requireEvidence" \notin LayeredKeys
  BY DEF Keys, LayeredKeys
<1>2. PICK j : j = Join("requireEvidence", b, o)
  OBVIOUS
<1>3. j = [dim \in DOMAIN b \cup DOMAIN o |->
              IF dim \notin DOMAIN b THEN o[dim]
              ELSE IF dim \in DOMAIN o /\ Limit(o, dim) <= Limit(b, dim) THEN o[dim] ELSE b[dim]]
  BY <1>1, <1>2 DEF Join
<1>4. DOMAIN j = DOMAIN b \cup DOMAIN o
  BY <1>3
<1>5. ASSUME NEW d \in DOMAIN j
      PROVE  /\ d \notin DOMAIN b => j[d] = o[d] /\ d \in DOMAIN o
             /\ d \in DOMAIN b /\ d \in DOMAIN o /\ Limit(o, d) <= Limit(b, d) => j[d] = o[d]
             /\ d \in DOMAIN b /\ ~(d \in DOMAIN o /\ Limit(o, d) <= Limit(b, d)) => j[d] = b[d]
  BY <1>3, <1>4, <1>5
<1>6. IsRequirement(j)
  <2>1. j = [d \in DOMAIN j |-> j[d]]
    BY <1>3
  <2>2. DOMAIN j \subseteq AllDimensions
    BY <1>4 DEF IsRequirement
  <2>3. \A d \in DOMAIN j : j[d] \in Nat \cup {Null}
    BY <1>5 DEF IsRequirement
  <2> QED
    BY <2>1, <2>2, <2>3 DEF IsRequirement
<1>7. \A d \in DOMAIN b : Limit(j, d) <= Limit(b, d)
  <2>1. SUFFICES ASSUME NEW d \in DOMAIN b PROVE Limit(j, d) <= Limit(b, d)
    OBVIOUS
  <2>2. Limit(b, d) \in Nat /\ d \in DOMAIN j
    BY <1>4, LimitIsNumber
  <2>3. (j[d] = o[d] /\ Limit(o, d) <= Limit(b, d)) \/ j[d] = b[d]
    BY <1>5, <2>2
  <2> QED
    BY <2>2, <2>3 DEF Limit
<1>8. \A d \in DOMAIN o : Limit(j, d) <= Limit(o, d)
  <2>1. SUFFICES ASSUME NEW d \in DOMAIN o PROVE Limit(j, d) <= Limit(o, d)
    OBVIOUS
  <2>2. Limit(o, d) \in Nat /\ d \in DOMAIN j /\ (d \in DOMAIN b => Limit(b, d) \in Nat)
    BY <1>4, LimitIsNumber
  <2>3. j[d] = o[d] \/ (d \in DOMAIN b /\ j[d] = b[d] /\ ~(Limit(o, d) <= Limit(b, d)))
    BY <1>5, <2>2
  <2> QED
    BY <2>2, <2>3 DEF Limit
<1> QED
  BY <1>1, <1>2, <1>4, <1>6, <1>7, <1>8, AtLeastIs, BoundIs DEF JoinHolds

LEMMA JoinedLicenses ==
  ASSUME NullIsApart, NEW b \in LicenseLists, NEW o \in LicenseLists
  PROVE  JoinHolds("licenses", Join("licenses", b, o), b, o)
<1>1. "licenses" \in Keys /\ "licenses" \notin LayeredKeys
  BY DEF Keys, LayeredKeys
<1>2. PICK j : j = Join("licenses", b, o)
  OBVIOUS
<1>3. j = [allow |-> IF Unbounded(o.allow) THEN b.allow
                     ELSE IF Unbounded(b.allow) THEN o.allow
                     ELSE b.allow \cap o.allow,
           deny  |-> b.deny \cup o.deny]
  BY <1>1, <1>2 DEF Join
<1>4. /\ Unbounded(o.allow) => j.allow = b.allow
      /\ ~Unbounded(o.allow) /\ Unbounded(b.allow) => j.allow = o.allow
      /\ ~Unbounded(o.allow) /\ ~Unbounded(b.allow) =>
            j.allow = b.allow \cap o.allow /\ ~Unbounded(j.allow)
      /\ j.deny = b.deny \cup o.deny
  BY <1>3 DEF NullIsApart, Unbounded, LicenseLists
<1>5. j \in LicenseLists
  BY <1>3, <1>4 DEF LicenseLists, Unbounded
<1>6. AtLeast("licenses", j, b) /\ AtLeast("licenses", j, o)
  BY <1>1, <1>4, AtLeastIs
<1> QED
  BY <1>1, <1>2, <1>5, <1>6, BoundIs DEF JoinHolds

(* The merge of two bounds is a bound and at least as strict as either.     *)
LEMMA JoinIsStricter ==
  ASSUME NullIsApart, NEW key \in Keys, NEW b, NEW o, IsBound(key, b), IsBound(key, o)
  PROVE  JoinHolds(key, Join(key, b, o), b, o)
<1>1. CASE key = "licenses"
  BY <1>1, BoundIs, JoinedLicenses
<1>2. CASE key = "requireEvidence"
  BY <1>2, BoundIs, JoinedRequirement
<1>3. CASE key = "trust"
  <2>1. b \subseteq TrustWords
    BY <1>3, BoundIs
  <2>2. Join("trust", b, o) = b \cap o
    BY DEF Join, LayeredKeys
  <2> QED
    BY <1>3, <2>1, <2>2, BoundIs, AtLeastIs DEF JoinHolds
<1>4. CASE key \in LayeredKeys
  <2>1. key \notin {"trust", "licenses", "requireEvidence"}
    BY <1>4, KindsApart DEF SetKeys
  <2>2. Join(key, b, o) = b \cup o
    BY <1>4, <2>1 DEF Join
  <2>3. b \subseteq SetsOf(key) /\ o \subseteq SetsOf(key)
    BY <1>4, BoundIs
  <2> QED
    BY <1>4, <2>2, <2>3, BoundIs, AtLeastIs DEF JoinHolds
<1>5. CASE key \notin LayeredKeys \cup {"trust", "licenses", "requireEvidence"}
  <2>1. Join(key, b, o) = IF AtLeast(key, o, b) THEN o ELSE b
    BY <1>5 DEF Join
  <2> QED
    BY <1>5, <2>1, StricterOfTwo, AtLeastItself DEF JoinHolds
<1> QED
  BY <1>1, <1>2, <1>3, <1>4, <1>5

LEMMA KeptIsStricter ==
  ASSUME NullIsApart, NEW key \in Keys, NEW b, NEW o, IsValue(key, b), IsValue(key, o)
  PROVE  /\ IsValue(key, Kept(key, b, o))
         /\ Covers(key, Kept(key, b, o), b) /\ Covers(key, Kept(key, b, o), o)
<1>1. CASE b = Null \/ o = Null
  BY <1>1, CoversItself DEF Kept, Covers
<1>2. CASE b # Null /\ o # Null
  <2>1. Kept(key, b, o) = Join(key, b, o)
    BY <1>2 DEF Kept
  <2>2. JoinHolds(key, Join(key, b, o), b, o)
    BY <1>2, JoinIsStricter DEF IsValue
  <2>3. Join(key, b, o) # Null
    BY <2>2 DEF JoinHolds, NullIsApart
  <2> QED
    BY <2>1, <2>2, <2>3 DEF JoinHolds, Covers, IsValue
<1> QED
  BY <1>1, <1>2

(***************************************************************************)
(* mergeStricter: what is in force of two layers is a policy, and for each *)
(* key at least as strict as the base, and as the layer where it wrote.    *)
(***************************************************************************)
THEOREM MergeIsStricter ==
  ASSUME NullIsApart, NEW base, IsPolicy(base), NEW layer, IsPolicy(layer.policy)
  PROVE  /\ IsPolicy(Merge(base, layer))
         /\ \A key \in Keys :
               /\ Covers(key, Merge(base, layer)[key], base[key])
               /\ key \in layer.explicit =>
                     Covers(key, Merge(base, layer)[key], layer.policy[key])
<1>1. PICK m : m = Merge(base, layer)
  OBVIOUS
<1>2. m = [key \in Keys |-> IF key \in layer.explicit
                           THEN Kept(key, base[key], layer.policy[key]) ELSE base[key]]
  BY <1>1 DEF Merge
<1>3. ASSUME NEW key \in Keys
      PROVE  /\ IsValue(key, m[key]) /\ Covers(key, m[key], base[key])
             /\ key \in layer.explicit => Covers(key, m[key], layer.policy[key])
  <2>1. IsValue(key, base[key]) /\ IsValue(key, layer.policy[key])
    BY DEF IsPolicy
  <2>2. CASE key \in layer.explicit
    <3>1. m[key] = Kept(key, base[key], layer.policy[key])
      BY <1>2, <2>2
    <3> QED
      BY <2>1, <3>1, KeptIsStricter
  <2>3. CASE key \notin layer.explicit
    <3>1. m[key] = base[key]
      BY <1>2, <2>3
    <3> QED
      BY <2>1, <2>3, <3>1, CoversItself
  <2> QED
    BY <2>2, <2>3
<1>4. IsPolicy(m)
  BY <1>2, <1>3 DEF IsPolicy
<1> QED
  BY <1>1, <1>3, <1>4

-----------------------------------------------------------------------------
(* One layer: what a file that parses says. *)

LEMMA DefaultsAreValues ==
  ASSUME NEW key \in Keys
  PROVE  IsValue(key, Defaults[key]) /\ (key \in LayeredKeys => Defaults[key] = Null)
<1>1. CASE key \in RankedKeys
  <2>1. PICK w : w = Defaults[key]
    OBVIOUS
  <2>2. ASSUME key \in {"unverified", "installHooks", "dependencyHooks", "dependencyAdvisories",
                        "contextBudget", "toxicFlows", "toolShadowing", "unpinnedLaunch"}
        PROVE  w \in DOMAIN Rank[key]
    <3>1. w = "warn"
      BY <2>1, <2>2 DEF Defaults, SwitchKeys
    <3> QED
      BY <2>2, <3>1 DEF Rank
  <2>3. ASSUME key \in {"signatures", "provenance", "docker", "default", "toolApproval"}
        PROVE  w \in DOMAIN Rank[key]
    <3>1. /\ key \in {"signatures", "provenance"} => w = "prefer"
          /\ key = "docker" => w = "digest"
          /\ key = "default" => w = "allow"
          /\ key = "toolApproval" => w = "off"
      BY <2>1, <2>3 DEF Defaults, SwitchKeys
    <3> QED
      BY <2>3, <3>1 DEF Rank
  <2>4. w \in DOMAIN Rank[key]
    BY <1>1, <2>2, <2>3, RankedAre
  <2> QED
    BY <1>1, <2>1, <2>4, BoundIs, KindsApart DEF IsValue
<1>2. CASE key \in SwitchKeys
  <2>1. Defaults[key] = FALSE
    BY <1>2 DEF Defaults, SwitchKeys
  <2> QED
    BY <1>2, <2>1, BoundIs, KindsApart DEF IsValue
<1>3. CASE key \notin RankedKeys \cup SwitchKeys
  <2>1. Defaults[key] = Null
    BY <1>3, RankedAre DEF Defaults
  <2> QED
    BY <1>3, <2>1 DEF IsValue, Nullable
<1> QED
  BY <1>1, <1>2, <1>3

LEMMA NoPseudoKeys == "unknown" \notin Keys /\ "extends" \notin Keys
  BY RankedAre DEF Keys, HigherKeys, LowerKeys, SwitchKeys, LayeredKeys

(* A list is one layer, of the file it stands in. *)
LEMMA LayeredIsValue ==
  ASSUME NullIsApart, NEW key \in Keys, NEW f \in Files, NEW v,
         IsValue(key, Layered(Project, key, v))
  PROVE  IsValue(key, Layered(f, key, v))
<1>1. CASE key \notin LayeredKeys \/ v = Null
  BY <1>1 DEF Layered
<1>2. CASE key \in LayeredKeys /\ v # Null
  <2>1. Layered(Project, key, v) = {[source |-> Project, says |-> v]}
    BY <1>2 DEF Layered
  <2>2. Layered(f, key, v) = {[source |-> f, says |-> v]}
    BY <1>2 DEF Layered
  <2>3. [source |-> Project, says |-> v] \in SetsOf(key)
    BY <1>2, <2>1, BoundIs DEF IsValue, NullIsApart
  <2>4. \E V : SetsOf(key) = LayersOf(V)
    BY DEF SetsOf
  <2>5. [source |-> f, says |-> v] \in SetsOf(key)
    BY <2>3, <2>4 DEF LayersOf
  <2> QED
    BY <1>2, <2>2, <2>5, BoundIs DEF IsValue
<1> QED
  BY <1>1, <1>2

LEMMA ValueIsValue ==
  ASSUME NullIsApart, NEW f \in Files, NEW file, IsFile(file), NEW key \in Keys
  PROVE  IsValue(key, Value(f, file, key))
<1>1. CASE WroteWell(file, key)
  <2>1. MayWrite(key, file.says[key]) /\ file.says[key] # Malformed
    BY <1>1 DEF WroteWell, Wrote, IsFile
  <2>2. IsValue(key, Layered(Project, key, file.says[key]))
    BY <2>1, NoPseudoKeys DEF MayWrite
  <2> QED
    BY <1>1, <2>2, LayeredIsValue DEF Value
<1>2. CASE ~WroteWell(file, key)
  BY <1>2, DefaultsAreValues DEF Value
<1> QED
  BY <1>1, <1>2

LEMMA DefaultWords == DOMAIN Rank["default"] = {"allow", "deny"} /\ "default" \in RankedKeys
  BY RankedAre DEF Rank

IsLayer(layer) ==
    /\ IsPolicy(layer.policy)
    /\ layer.policy["allow"] # Null =>
          layer.policy["default"] = "deny" /\ "default" \in layer.explicit
    /\ \A key \in LayeredKeys : layer.policy[key] # Null =>
          /\ key \in layer.explicit
          /\ \E says : layer.policy[key] = {[source |-> layer.source, says |-> says]}

LEMMA FileIsLayer ==
  ASSUME NullIsApart, NEW f \in Files, NEW file, IsFile(file)
  PROVE  IsLayer([source |-> f, policy |-> Normalised(f, file), explicit |-> Explicit(f, file)])
<1>1. PICK n : n = Normalised(f, file)
  OBVIOUS
<1>2. /\ n = [key \in Keys |-> n[key]]
      /\ \A key \in Keys : key # "default" => n[key] = Value(f, file, key)
      /\ n["default"] = ImpliedDefault(Value(f, file, "allow"), Value(f, file, "default"))
  BY <1>1, DefaultWords DEF Normalised, Keys
<1>3. {"allow", "default"} \cup LayeredKeys \subseteq Keys /\ "default" \notin LayeredKeys
  BY DefaultWords DEF Keys, LayeredKeys
<1>4. IsValue("default", n["default"])
  <2>1. IsValue("default", Value(f, file, "default"))
    BY <1>3, ValueIsValue
  <2>2. IsValue("default", "deny")
    BY <1>3, DefaultWords, BoundIs DEF IsValue
  <2> QED
    BY <1>2, <2>1, <2>2 DEF ImpliedDefault
<1>5. IsPolicy(n)
  BY <1>2, <1>4, ValueIsValue DEF IsPolicy
<1>6. n["allow"] # Null => n["default"] = "deny"
  BY <1>2, <1>3 DEF ImpliedDefault
<1>7. n["default"] # "allow" => "default" \in Explicit(f, file)
  BY <1>1 DEF Explicit
<1>8. ASSUME NEW key \in LayeredKeys, n[key] # Null
      PROVE  /\ key \in Explicit(f, file)
             /\ \E says : n[key] = {[source |-> f, says |-> says]}
  <2>1. n[key] = Value(f, file, key) /\ Defaults[key] = Null
    BY <1>2, <1>3, <1>8, DefaultsAreValues
  <2>2. WroteWell(file, key) /\ n[key] = Layered(f, key, file.says[key])
    BY <1>8, <2>1 DEF Value
  <2> QED
    BY <1>3, <1>8, <2>2 DEF WroteWell, Wrote, Explicit, Layered
<1> QED
  BY <1>1, <1>5, <1>6, <1>7, <1>8 DEF IsLayer

FilesWritten == \A f \in Files : IsFile(files[f])

LEMMA LayerReadIsLayer ==
  ASSUME NullIsApart, FilesWritten, NEW f \in Files \cup {Null}
  PROVE  LET layer == LayerOf(files, f) IN
         layer # None => IsLayer(layer) /\ layer = LayerOf(files, layer.source)
<1>1. CASE f = Null \/ ~Parses(files[f])
  BY <1>1 DEF LayerOf
<1>2. CASE f # Null /\ Parses(files[f])
  <2>1. PICK layer : /\ layer = [source |-> f, policy |-> Normalised(f, files[f]),
                                 explicit |-> Explicit(f, files[f])]
                     /\ layer = LayerOf(files, f)
    BY <1>2 DEF LayerOf
  <2>2. layer.source = f /\ IsLayer(layer)
    BY <1>2, <2>1, FileIsLayer DEF FilesWritten
  <2> QED
    BY <2>1, <2>2
<1> QED
  BY <1>1, <1>2

-----------------------------------------------------------------------------
(* What a layer asks for, key by key. *)

LEMMA LenientIsValue == ASSUME NEW key \in Keys PROVE IsValue(key, Lenient(key))
<1>1. CASE key \in RankedKeys
  <2>1. PICK w \in DOMAIN Rank[key] : Rank[key][w] = 0
    BY <1>1, SomeWordIsLenient
  <2>2. Lenient(key) = CHOOSE word \in DOMAIN Rank[key] : Rank[key][word] = 0
    BY <1>1, KindsApart DEF Lenient
  <2>3. Lenient(key) \in DOMAIN Rank[key]
    BY <2>1, <2>2
  <2> QED
    BY <1>1, <2>3, BoundIs DEF IsValue
<1>2. CASE key \in SwitchKeys
  <2>1. Lenient(key) = FALSE
    BY <1>2, KindsApart DEF Lenient
  <2> QED
    BY <1>2, <2>1, BoundIs DEF IsValue
<1>3. CASE key \notin RankedKeys \cup SwitchKeys
  BY <1>3 DEF Lenient, IsValue, Nullable
<1> QED
  BY <1>1, <1>2, <1>3

LEMMA LenientAsksForNothing ==
  ASSUME NullIsApart, NEW key \in Keys, NEW p, IsValue(key, p) PROVE Covers(key, p, Lenient(key))
<1>1. CASE key \in RankedKeys
  <2>1. PICK w \in DOMAIN Rank[key] : Rank[key][w] = 0
    BY <1>1, SomeWordIsLenient
  <2>2. Lenient(key) = CHOOSE word \in DOMAIN Rank[key] : Rank[key][word] = 0
    BY <1>1, KindsApart DEF Lenient
  <2>3. Rank[key][Lenient(key)] = 0
    BY <2>1, <2>2
  <2>4. IsBound(key, p) /\ p # Null
    BY <1>1 DEF IsValue, Nullable, NullIsApart
  <2>5. Rank[key][p] >= 0
    BY <1>1, <2>4, BoundIs, RanksAreNumbers
  <2> QED
    BY <1>1, <2>3, <2>4, <2>5, AtLeastIs DEF Covers
<1>2. CASE key \in SwitchKeys
  <2>1. Lenient(key) = FALSE
    BY <1>2, KindsApart DEF Lenient
  <2>2. p # Null
    BY <1>2 DEF IsValue, Nullable, NullIsApart
  <2> QED
    BY <1>2, <2>1, <2>2, AtLeastIs DEF Covers
<1>3. CASE key \notin RankedKeys \cup SwitchKeys
  BY <1>3 DEF Lenient, Covers
<1> QED
  BY <1>1, <1>2, <1>3

(* A merge covers what a layer says where it covers it as it wrote it.      *)
LEMMA SpokenIsCovered ==
  ASSUME NullIsApart, NEW p, IsPolicy(p), NEW layer, IsLayer(layer),
         \A key \in Keys : key \in layer.explicit => Covers(key, p[key], layer.policy[key])
  PROVE  \A key \in Keys : Covers(key, p[key], Spoken(layer)[key])
  BY LenientAsksForNothing DEF Spoken, IsPolicy

LEMMA SpokenIsPolicy == ASSUME NEW layer, IsLayer(layer) PROVE IsPolicy(Spoken(layer))
  BY LenientIsValue DEF Spoken, IsPolicy, IsLayer

(***************************************************************************)
(* A policy over some layers: at least as strict as each of them, nothing  *)
(* in its lists that no layer put there, and "only these" if it names any. *)
(***************************************************************************)
CoversEach(p, layers) ==
    /\ p # None /\ IsPolicy(p)
    /\ p["allow"] # Null => p["default"] = "deny"
    /\ \A layer \in layers :
          IsLayer(layer) /\ \A key \in Keys : Covers(key, p[key], Spoken(layer)[key])
    /\ \A key \in LayeredKeys : \A x \in LayersIn(p, key) :
          \E layer \in layers : x \in LayersIn(layer.policy, key)

LEMMA PolicyIsSomething == ASSUME NullIsApart, NEW p, IsPolicy(p) PROVE p # None
<1>1. PICK T : T = {p[key] : key \in Keys}
  OBVIOUS
<1>2. p \in [Keys -> T]
  BY <1>1 DEF IsPolicy
<1>3. Null \notin [Keys -> T]
  BY DEF NullIsApart
<1> QED
  BY <1>2, <1>3 DEF None

LEMMA DenyIsLast ==
  ASSUME NullIsApart, NEW p, IsPolicy(p), Covers("default", p["default"], "deny")
  PROVE  p["default"] = "deny"
<1>1. "deny" # Null /\ "default" \in Keys
  BY DefaultWords, BoundIs DEF NullIsApart, Keys
<1>2. IsBound("default", p["default"])
  BY <1>1, DefaultWords DEF IsPolicy, IsValue, Nullable
<1>3. p["default"] \in {"allow", "deny"} /\ Rank["default"][p["default"]] >= Rank["default"]["deny"]
  BY <1>1, <1>2, DefaultWords, BoundIs, AtLeastIs DEF Covers
<1> QED
  BY <1>3 DEF Rank

LEMMA OverIsSound ==
  ASSUME NullIsApart, NEW base, NEW layers, NEW layer, IsLayer(layer), layer # None,
         (base = None /\ layers = {}) \/ CoversEach(base, layers)
  PROVE  CoversEach(Over(base, layer), layers \cup {layer})
<1>k. {"allow", "default"} \subseteq Keys /\ LayeredKeys \subseteq Keys /\ "allow" \in LayeredKeys
  BY DefaultWords DEF Keys, LayeredKeys
<1>1. CASE base = None
  <2>1. Over(base, layer) = layer.policy
    BY <1>1 DEF Over
  <2>2. layers = {}
    BY <1>1 DEF CoversEach
  <2>3. \A key \in Keys : Covers(key, layer.policy[key], layer.policy[key])
    BY CoversItself DEF IsLayer, IsPolicy
  <2>4. \A key \in Keys : Covers(key, layer.policy[key], Spoken(layer)[key])
    BY <2>3, SpokenIsCovered DEF IsLayer
  <2> QED
    BY <2>1, <2>2, <2>4, PolicyIsSomething DEF CoversEach, IsLayer
<1>2. CASE base # None
  <2>1. CoversEach(base, layers) /\ Over(base, layer) = Merge(base, layer)
    BY <1>2 DEF Over
  <2>2. PICK p : p = Merge(base, layer)
    OBVIOUS
  <2>3. /\ IsPolicy(p)
        /\ \A key \in Keys : /\ Covers(key, p[key], base[key])
                             /\ key \in layer.explicit => Covers(key, p[key], layer.policy[key])
    BY <2>1, <2>2, MergeIsStricter DEF CoversEach, IsLayer
  <2>4. ASSUME NEW old \in layers, NEW key \in Keys
        PROVE  Covers(key, p[key], Spoken(old)[key])
    BY <2>1, <2>3, <2>4, SpokenIsPolicy, CoversTransitive DEF CoversEach, IsPolicy
  <2>5. \A key \in Keys : Covers(key, p[key], Spoken(layer)[key])
    BY <2>3, SpokenIsCovered
  <2>6. ASSUME p["allow"] # Null PROVE p["default"] = "deny"
    <3>1. CASE base["allow"] # Null
      BY <1>k, <2>1, <2>3, <3>1, DenyIsLast DEF CoversEach
    <3>2. CASE base["allow"] = Null
      <4>1. "allow" \in layer.explicit /\ p["allow"] = layer.policy["allow"]
        BY <1>k, <2>2, <2>6, <3>2 DEF Merge, Kept
      <4>2. layer.policy["default"] = "deny" /\ "default" \in layer.explicit
        BY <2>6, <4>1 DEF IsLayer
      <4> QED
        BY <1>k, <2>3, <4>2, DenyIsLast
    <3> QED
      BY <3>1, <3>2
  <2>7. ASSUME NEW key \in LayeredKeys, NEW x \in LayersIn(p, key)
        PROVE  x \in LayersIn(base, key) \/ x \in LayersIn(layer.policy, key)
    <3>1. p[key] = IF key \in layer.explicit THEN Kept(key, base[key], layer.policy[key]) ELSE base[key]
      BY <1>k, <2>2 DEF Merge
    <3>2. key \notin {"trust", "licenses", "requireEvidence"}
      BY KindsApart, <1>k DEF SetKeys
    <3>3. Join(key, base[key], layer.policy[key]) = base[key] \cup layer.policy[key]
      BY <3>2 DEF Join
    <3> QED
      BY <2>7, <3>1, <3>3 DEF LayersIn, Kept
  <2>8. \A old \in layers \cup {layer}, key \in Keys : Covers(key, p[key], Spoken(old)[key])
    BY <2>4, <2>5
  <2>9. \A key \in LayeredKeys : \A x \in LayersIn(p, key) :
           \E old \in layers \cup {layer} : x \in LayersIn(old.policy, key)
    BY <2>1, <2>7 DEF CoversEach
  <2> QED
    BY <2>1, <2>2, <2>3, <2>6, <2>8, <2>9, PolicyIsSomething DEF CoversEach
<1> QED
  BY <1>1, <1>2

-----------------------------------------------------------------------------
(* The policy in force. *)

EnvRead == env \in Files \cup {Null}

LEMMA ReadFromFiles ==
  ASSUME FilesWritten, EnvRead
  PROVE  {Managed(files, env), Extended(files, env), Project} \subseteq Files \cup {Null}
<1>1. Extends(files[Project]) \in Files \cup {Null}
  <2>1. CASE WroteWell(files[Project], "extends")
    <3>1. MayWrite("extends", files[Project].says["extends"])
      BY <2>1, OrgPolicyConstants DEF FilesWritten, IsFile, WroteWell, Wrote
    <3>2. files[Project].says["extends"] \in Files \cup {Null}
      BY <2>1, <3>1, NoPseudoKeys DEF MayWrite, WroteWell
    <3> QED
      BY <2>1, <3>2 DEF Extends
  <2>2. CASE ~WroteWell(files[Project], "extends")
    BY <2>2 DEF Extends
  <2> QED
    BY <2>1, <2>2
<1> QED
  BY <1>1, OrgPolicyConstants DEF EnvRead, Managed, Extended

LEMMA LayersReadAreLayers ==
  ASSUME NullIsApart, FilesWritten, EnvRead, NEW n \in 1 .. 3
  PROVE  LET layer == Layers(files, env)[n] IN
         layer # None => IsLayer(layer) /\ layer = LayerOf(files, layer.source)
<1>1. CASE NothingRead(files, env)
  BY <1>1 DEF Layers
<1>2. CASE ~NothingRead(files, env)
  <2>1. PICK f \in Files \cup {Null} : Layers(files, env)[n] = LayerOf(files, f)
    BY <1>2, ReadFromFiles DEF Layers
  <2> QED
    BY <2>1, LayerReadIsLayer
<1> QED
  BY <1>1, <1>2

LEMMA OverNone == ASSUME NEW base PROVE Over(base, None) = base
  BY DEF Over

FirstTwoRead == {Layers(files, env)[1], Layers(files, env)[2]} \ {None}

(* What the organisation's files come to covers both of them. *)
LEMMA OrganisationIsSound ==
  ASSUME NullIsApart, FilesWritten, EnvRead
  PROVE  \/ FirstTwoRead = {} /\ Organisation(files, env) = None
         \/ CoversEach(Organisation(files, env), FirstTwoRead)
<1>1. PICK one, two : one = Layers(files, env)[1] /\ two = Layers(files, env)[2]
  OBVIOUS
<1>2. /\ one # None => IsLayer(one)
      /\ two # None => IsLayer(two)
  BY <1>1, LayersReadAreLayers
<1>3. PICK p, q : p = Over(None, one) /\ q = Over(p, two)
  OBVIOUS
<1>4. Organisation(files, env) = q /\ FirstTwoRead = {one, two} \ {None}
  BY <1>1, <1>3 DEF Organisation, Bottom, FirstTwoRead
<1>5. (p = None /\ {one} \ {None} = {}) \/ CoversEach(p, {one} \ {None})
  <2>1. CASE one = None
    BY <1>3, <2>1, OverNone
  <2>2. CASE one # None
    <3>1. CoversEach(p, {} \cup {one}) /\ {} \cup {one} = {one} \ {None}
      BY <1>2, <1>3, <2>2, OverIsSound
    <3> QED
      BY <3>1
  <2> QED
    BY <2>1, <2>2
<1>6. (q = None /\ {one, two} \ {None} = {}) \/ CoversEach(q, {one, two} \ {None})
  <2>1. CASE two = None
    <3>1. {one, two} \ {None} = {one} \ {None} /\ q = p
      BY <1>3, <2>1, OverNone
    <3> QED
      BY <1>5, <3>1
  <2>2. CASE two # None
    <3>1. ({one} \ {None}) \cup {two} = {one, two} \ {None}
      BY <2>2
    <3>2. CoversEach(q, ({one} \ {None}) \cup {two})
      BY <1>2, <1>3, <1>5, <2>2, OverIsSound
    <3> QED
      BY <3>1, <3>2
  <2> QED
    BY <2>1, <2>2
<1> QED
  BY <1>4, <1>6

(* What is in force covers every layer that was read. *)
LEMMA InForceIsSound ==
  ASSUME NullIsApart, FilesWritten, EnvRead
  PROVE  \/ LayersRead = {} /\ InForce(files, env) = Defaults
         \/ CoversEach(InForce(files, env), LayersRead)
<1>1. PICK q, three : q = Organisation(files, env) /\ three = Layers(files, env)[3]
  OBVIOUS
<1>2. three # None => IsLayer(three)
  BY <1>1, LayersReadAreLayers
<1>3. LayersRead = FirstTwoRead \cup ({three} \ {None})
  BY <1>1 DEF LayersRead, FirstTwoRead
<1>4. PICK r : r = Over(q, three)
  OBVIOUS
<1>5. Merged(files, env) = r
  BY <1>1, <1>4 DEF Merged
<1>6. (q = None /\ FirstTwoRead = {}) \/ CoversEach(q, FirstTwoRead)
  BY <1>1, OrganisationIsSound
<1>7. (r = None /\ LayersRead = {}) \/ CoversEach(r, LayersRead)
  <2>1. CASE three = None
    <3>1. LayersRead = FirstTwoRead /\ r = q
      BY <1>3, <1>4, <2>1, OverNone
    <3> QED
      BY <1>6, <3>1
  <2>2. CASE three # None
    <3>1. FirstTwoRead \cup {three} = LayersRead
      BY <1>3, <2>2
    <3>2. CoversEach(r, FirstTwoRead \cup {three})
      BY <1>2, <1>4, <1>6, <2>2, OverIsSound
    <3> QED
      BY <3>1, <3>2
  <2> QED
    BY <2>1, <2>2
<1> QED
  BY <1>5, <1>7 DEF InForce, CoversEach

LEMMA DefaultsArePolicy == IsPolicy(Defaults) /\ Defaults["allow"] = Null
<1>1. Defaults = [key \in Keys |-> Defaults[key]]
  BY DEF Defaults
<1>2. "allow" \in LayeredKeys /\ LayeredKeys \subseteq Keys
  BY DEF LayeredKeys, Keys
<1> QED
  BY <1>1, <1>2, DefaultsAreValues DEF IsPolicy

LEMMA InForceIsPolicy ==
  ASSUME NullIsApart, FilesWritten, EnvRead
  PROVE  /\ IsPolicy(InForce(files, env))
         /\ InForce(files, env)["allow"] # Null => InForce(files, env)["default"] = "deny"
  BY InForceIsSound, DefaultsArePolicy DEF CoversEach

(* A list a layer read holds under its file's name, and no other has that name. *)
LEMMA ListsKeepTheirFile ==
  ASSUME NullIsApart, FilesWritten, EnvRead, NEW layer \in LayersRead, NEW key \in LayeredKeys,
         CoversEach(InForce(files, env), LayersRead),
         NEW x \in LayersIn(InForce(files, env), key), x.source = layer.source
  PROVE  x \in LayersIn(Spoken(layer), key)
<1>1. PICK other \in LayersRead : x \in LayersIn(other.policy, key)
  BY DEF CoversEach
<1>2. \A l \in LayersRead : IsLayer(l) /\ l = LayerOf(files, l.source)
  BY LayersReadAreLayers DEF LayersRead
<1>3. x.source = other.source
  BY <1>1, <1>2 DEF IsLayer, LayersIn
<1>4. other = layer
  BY <1>2, <1>3
<1>5. key \in layer.explicit /\ key \in Keys
  BY <1>1, <1>2, <1>4 DEF IsLayer, LayersIn, Keys
<1> QED
  BY <1>1, <1>4, <1>5 DEF Spoken, LayersIn

-----------------------------------------------------------------------------
(* Row by row: what a policy refuses, one that covers it refuses.           *)

IsJudged(subject) ==
    /\ subject.evidence \in EvidenceRecords
    /\ subject.health # Null => subject.health \in Nat

LEMMA AnswersAreAnswers ==
  ASSUME NEW subject, IsJudged(subject), NEW d PROVE Answer(subject, d) \in Answers
<1>1. NotExamined \in Answers /\ NoEvidence \in EvidenceRecords
  BY DEF NotExamined, Answers, NoEvidence, EvidenceRecords
<1>2. StoredFor(subject) \in EvidenceRecords
  BY <1>1 DEF StoredFor, IsJudged
<1> QED
  BY <1>1, <1>2 DEF Answer, EvidenceRecords

LEMMA AgesAreNumbers ==
  ASSUME NEW subject, IsJudged(subject), NEW d PROVE AgeFrom(Answer(subject, d)) \in Int
  BY AnswersAreAnswers DEF AgeFrom, Answers, Never

LEMMA TierIsTier ==
  ASSUME NEW a, NEW b, NEW c, NEW d, NEW e PROVE TierOrder[TierOf(a, b, c, d, e)] \in Nat
<1>1. PICK t : t = TierOf(a, b, c, d, e)
  OBVIOUS
<1>2. t \in Tiers
  BY <1>1 DEF TierOf, Tiers
<1> QED
  BY <1>1, <1>2 DEF Tiers, TierOrder

Over_(p, s) == \A key \in Keys : Covers(key, p[key], s[key])

LEMMA RanksHold ==
  ASSUME NullIsApart, NEW p, IsPolicy(p), NEW s, IsPolicy(s), Over_(p, s), NEW key \in RankedKeys
  PROVE  /\ s[key] \in DOMAIN Rank[key] /\ p[key] \in DOMAIN Rank[key]
         /\ Rank[key][p[key]] >= Rank[key][s[key]]
<1>1. key \in Keys
  BY DEF Keys
<1>2. IsBound(key, p[key]) /\ IsBound(key, s[key])
  BY <1>1 DEF IsPolicy, IsValue, Nullable
<1>3. s[key] # Null
  BY <1>1, <1>2 DEF NullIsApart
<1> QED
  BY <1>1, <1>2, <1>3, BoundIs, AtLeastIs DEF Over_, Covers

(* The words of the rows below are the strictest of their keys. *)
LEMMA StrictestHold ==
  ASSUME NullIsApart, NEW p, IsPolicy(p), NEW s, IsPolicy(s), Over_(p, s)
  PROVE  /\ \A key \in {"dependencyHooks", "dependencyAdvisories", "unverified"} :
               s[key] = "fail" => p[key] = "fail"
         /\ \A key \in {"signatures", "provenance", "toolApproval"} :
               s[key] = "require" => p[key] = "require"
         /\ s["docker"] = "digest" => p["docker"] = "digest"
<1>1. ASSUME NEW key \in {"dependencyHooks", "dependencyAdvisories"}, s[key] = "fail"
      PROVE  p[key] = "fail"
  BY <1>1, RanksHold, RankedAre DEF Rank
<1>2. ASSUME s["unverified"] = "fail" PROVE p["unverified"] = "fail"
  BY <1>2, RanksHold, RankedAre DEF Rank
<1>3. ASSUME NEW key \in {"signatures", "provenance"}, s[key] = "require" PROVE p[key] = "require"
  BY <1>3, RanksHold, RankedAre DEF Rank
<1>4. ASSUME s["toolApproval"] = "require" PROVE p["toolApproval"] = "require"
  BY <1>4, RanksHold, RankedAre DEF Rank
<1>5. ASSUME s["docker"] = "digest" PROVE p["docker"] = "digest"
  BY <1>5, RanksHold, RankedAre DEF Rank
<1> QED
  BY <1>1, <1>2, <1>3, <1>4, <1>5

LEMMA ListsHold ==
  ASSUME NEW p, IsPolicy(p), NEW s, IsPolicy(s), Over_(p, s), NEW key \in LayeredKeys
  PROVE  LayersIn(s, key) \subseteq LayersIn(p, key)
<1>1. key \in Keys
  BY DEF Keys
<1>2. s[key] # Null => p[key] # Null /\ s[key] \subseteq p[key]
  BY <1>1, AtLeastIs DEF Over_, Covers
<1> QED
  BY <1>2 DEF LayersIn

BoundHolds(key, p, s) == s[key] # Null => p[key] # Null /\ IsBound(key, p[key]) /\ IsBound(key, s[key])
                                          /\ AtLeast(key, p[key], s[key])

LEMMA BoundsHold ==
  ASSUME NEW p, IsPolicy(p), NEW s, IsPolicy(s), Over_(p, s), NEW key \in Keys
  PROVE  BoundHolds(key, p, s)
  BY DEF BoundHolds, Over_, Covers, IsPolicy, IsValue

LEMMA OrganisationRowsHold ==
  ASSUME NullIsApart, NEW p, IsPolicy(p), NEW s, IsPolicy(s), Over_(p, s),
         NEW subject, IsJudged(subject), NEW asOf \in Nat
  PROVE  /\ DeniedByList(s, subject) => DeniedByList(p, subject)
         /\ BelowTier(s, subject, asOf) => BelowTier(p, subject, asOf)
         /\ EvidenceShort(s, subject, asOf) => EvidenceShort(p, subject, asOf)
         /\ Unapproved(s, subject) => Unapproved(p, subject)
<1>k. {"minTier", "requireEvidence"} \subseteq Keys /\ "deny" \in LayeredKeys
  BY DEF Keys, LayeredKeys
<1>1. ASSUME DeniedByList(s, subject) PROVE DeniedByList(p, subject)
  BY <1>k, <1>1, ListsHold DEF DeniedByList
<1>2. ASSUME BelowTier(s, subject, asOf) PROVE BelowTier(p, subject, asOf)
  <2>1. s["minTier"] # Null
    BY <1>2 DEF BelowTier
  <2>2. /\ p["minTier"] # Null /\ p["minTier"] \in FloorTiers /\ s["minTier"] \in FloorTiers
        /\ TierOrder[p["minTier"]] <= TierOrder[s["minTier"]]
    BY <1>k, <2>1, BoundsHold, BoundIs, AtLeastIs DEF BoundHolds
  <2>3. PICK t : t = TierOf(subject.id, subject.ecosystem, subject.evidence, subject.ran, asOf)
    OBVIOUS
  <2>4. TierOrder[t] \in Nat
    BY <2>3, TierIsTier
  <2>5. TierOrder[p["minTier"]] \in Nat /\ TierOrder[s["minTier"]] \in Nat
    BY <2>2, TiersOrdered
  <2>6. subject.vault => TierOrder[t] > TierOrder[s["minTier"]]
    BY <1>2, <2>3 DEF BelowTier
  <2>7. subject.vault => TierOrder[t] > TierOrder[p["minTier"]]
    BY <2>2, <2>4, <2>5, <2>6
  <2> QED
    BY <2>2, <2>3, <2>7 DEF BelowTier
<1>3. ASSUME EvidenceShort(s, subject, asOf) PROVE EvidenceShort(p, subject, asOf)
  <2>1. s["requireEvidence"] # Null
    BY <1>3 DEF EvidenceShort
  <2>2. PICK x, y : x = p["requireEvidence"] /\ y = s["requireEvidence"]
    OBVIOUS
  <2>3. /\ x # Null /\ IsRequirement(x) /\ IsRequirement(y)
        /\ DOMAIN y \subseteq DOMAIN x /\ \A d \in DOMAIN y : Limit(x, d) <= Limit(y, d)
    BY <1>k, <2>1, <2>2, BoundsHold, BoundIs, AtLeastIs DEF BoundHolds
  <2>4. PICK d \in DOMAIN y : \/ ~IsPositive(d, Answer(subject, d).status)
                              \/ asOf - AgeFrom(Answer(subject, d)) > Limit(y, d)
    BY <1>3, <2>2 DEF EvidenceShort
  <2>5. /\ Limit(x, d) \in Nat /\ Limit(y, d) \in Nat /\ AgeFrom(Answer(subject, d)) \in Int
        /\ Limit(x, d) <= Limit(y, d) /\ d \in DOMAIN x
    BY <2>3, <2>4, LimitIsNumber, AgesAreNumbers
  <2>6. \/ ~IsPositive(d, Answer(subject, d).status)
        \/ asOf - AgeFrom(Answer(subject, d)) > Limit(x, d)
    BY <2>4, <2>5
  <2> QED
    BY <2>2, <2>3, <2>5, <2>6 DEF EvidenceShort
<1>4. ASSUME Unapproved(s, subject) PROVE Unapproved(p, subject)
  BY <1>4, StrictestHold DEF Unapproved
<1> QED
  BY <1>1, <1>2, <1>3, <1>4

(* An exception in force for a denied layer is one that layer's file makes. *)
OwnExceptions(p, s) ==
    \A layer \in LayersIn(s, "denyCapabilities"), x \in LayersIn(p, "capabilityExceptions") :
        x.source = layer.source => x \in LayersIn(s, "capabilityExceptions")

AllowsSomething(s) == s["default"] = "deny" => LayersIn(s, "allow") # {}

LEMMA ListRowsHold ==
  ASSUME NullIsApart, NEW p, IsPolicy(p), NEW s, IsPolicy(s), Over_(p, s),
         OwnExceptions(p, s), AllowsSomething(s), NEW subject
  PROVE  /\ NotAllowed(s, subject) => NotAllowed(p, subject)
         /\ CapabilityDenied(s, subject) => CapabilityDenied(p, subject)
<1>k. {"allow", "denyCapabilities"} \subseteq LayeredKeys
  BY DEF LayeredKeys
<1>1. NotAllowed(s, subject) => NotAllowed(p, subject)
  BY <1>k, ListsHold DEF NotAllowed, AllowsSomething
<1>2. ASSUME CapabilityDenied(s, subject) PROVE CapabilityDenied(p, subject)
  <2>1. PICK layer \in LayersIn(s, "denyCapabilities") :
           \E cap \in layer.says \cap subject.found : ~Excused(s, layer, subject, cap)
    BY <1>2 DEF CapabilityDenied
  <2>2. PICK cap \in layer.says \cap subject.found : ~Excused(s, layer, subject, cap)
    BY <2>1
  <2>3. layer \in LayersIn(p, "denyCapabilities")
    BY <1>k, ListsHold
  <2>4. ~Excused(p, layer, subject, cap)
    BY <2>2 DEF Excused, OwnExceptions
  <2> QED
    BY <2>2, <2>3, <2>4 DEF CapabilityDenied
<1> QED
  BY <1>1, <1>2

LEMMA FileRowsHold ==
  ASSUME NullIsApart, NEW p, IsPolicy(p), NEW s, IsPolicy(s), Over_(p, s),
         NEW subject, IsJudged(subject)
  PROVE  /\ RequirementUnmet(s, subject) => RequirementUnmet(p, subject)
         /\ LicenseRefused(s, subject) => LicenseRefused(p, subject)
         /\ HealthLow(s, subject) => HealthLow(p, subject)
         /\ WordRefused(s, subject) => WordRefused(p, subject)
<1>k. /\ {"licenses", "minHealthScore", "trust"} \subseteq Keys
      /\ "minHealthScore" \in HigherKeys
  BY DEF Keys, HigherKeys
<1>1. RequirementUnmet(s, subject) => RequirementUnmet(p, subject)
  BY StrictestHold DEF RequirementUnmet
<1>2. ASSUME LicenseRefused(s, subject) PROVE LicenseRefused(p, subject)
  <2>1. PICK x, y : x = p["licenses"] /\ y = s["licenses"]
    OBVIOUS
  <2>2. /\ x # Null
        /\ Unbounded(y.allow) \/ (~Unbounded(x.allow) /\ x.allow \subseteq y.allow)
        /\ y.deny \subseteq x.deny
    BY <1>k, <1>2, <2>1, BoundsHold, AtLeastIs DEF BoundHolds, LicenseRefused
  <2> QED
    BY <1>2, <2>1, <2>2 DEF LicenseRefused
<1>3. ASSUME HealthLow(s, subject) PROVE HealthLow(p, subject)
  <2>1. /\ p["minHealthScore"] # Null
        /\ p["minHealthScore"] \in Nat /\ s["minHealthScore"] \in Nat
        /\ p["minHealthScore"] >= s["minHealthScore"]
    BY <1>k, <1>3, BoundsHold, BoundIs, AtLeastIs DEF BoundHolds, HealthLow
  <2>2. subject.health # Null /\ subject.health \in Nat /\ subject.health < s["minHealthScore"]
    BY <1>3 DEF HealthLow, IsJudged
  <2> QED
    BY <2>1, <2>2 DEF HealthLow
<1>4. WordRefused(s, subject) => WordRefused(p, subject)
  BY <1>k, BoundsHold, AtLeastIs DEF BoundHolds, WordRefused
<1> QED
  BY <1>1, <1>2, <1>3, <1>4

LEMMA ShelvesShorten ==
  ASSUME NEW p, IsPolicy(p), NEW s, IsPolicy(s), Over_(p, s), NEW d \in Dims
  PROVE  ShelfLife(p, d) \in Nat /\ ShelfLife(s, d) \in Nat /\ ShelfLife(p, d) <= ShelfLife(s, d)
<1>k. "maxEvidenceAgeDays" \in Keys /\ "maxEvidenceAgeDays" \in LowerKeys
  BY DEF Keys, LowerKeys
<1>1. PICK x, y : x = p["maxEvidenceAgeDays"] /\ y = s["maxEvidenceAgeDays"]
  OBVIOUS
<1>2. /\ x = Null \/ x \in Nat
      /\ y = Null \/ y \in Nat
  BY <1>k, <1>1, BoundIs DEF IsPolicy, IsValue
<1>3. y # Null => x # Null /\ x <= y
  BY <1>k, <1>1, BoundsHold, AtLeastIs DEF BoundHolds
<1>4. d \in AllDimensions
  BY EvidenceConstants
<1>5. DefaultMaxAge[d] \in Nat
  BY <1>4 DEF DefaultMaxAge, AllDimensions
<1>6. \A cap : MaxAgeForPolicy(cap)[d] = IF cap < DefaultMaxAge[d] THEN cap ELSE DefaultMaxAge[d]
  BY <1>4 DEF MaxAgeForPolicy
<1>7. /\ ShelfLife(p, d) = IF x = Null THEN DefaultMaxAge[d]
                           ELSE IF x < DefaultMaxAge[d] THEN x ELSE DefaultMaxAge[d]
      /\ ShelfLife(s, d) = IF y = Null THEN DefaultMaxAge[d]
                           ELSE IF y < DefaultMaxAge[d] THEN y ELSE DefaultMaxAge[d]
  BY <1>1, <1>6 DEF ShelfLife
<1> QED
  BY <1>2, <1>3, <1>5, <1>7

LEMMA UnknownRowsHold ==
  ASSUME NullIsApart, NEW p, IsPolicy(p), NEW s, IsPolicy(s), Over_(p, s),
         NEW subject, IsJudged(subject), NEW asOf \in Nat, NEW flag
  PROVE  /\ FailsOnUnknown(s, flag) => FailsOnUnknown(p, flag)
         /\ Unanswered(s, subject, asOf) => Unanswered(p, subject, asOf)
<1>1. FailsOnUnknown(s, flag) => FailsOnUnknown(p, flag)
  BY StrictestHold DEF FailsOnUnknown
<1>2. ASSUME NEW d \in Dims,
             Examined(Answer(subject, d)) /\ ~FoundProblem(d, Answer(subject, d).status),
             asOf - AgeFrom(Answer(subject, d)) > ShelfLife(s, d)
      PROVE  Unanswered(p, subject, asOf)
  <2>1. asOf - AgeFrom(Answer(subject, d)) > ShelfLife(p, d)
    BY <1>2, ShelvesShorten, AgesAreNumbers
  <2> QED
    BY <1>2, <2>1 DEF Unanswered
<1>3. Unanswered(s, subject, asOf) => Unanswered(p, subject, asOf)
  BY <1>2 DEF Unanswered
<1> QED
  BY <1>1, <1>3

LEMMA AsOfIsJudged ==
  ASSUME NEW entry, IsSubject(entry), NEW asOf \in Nat PROVE IsJudged(AsOf(entry, asOf))
<1>1. PICK e, n : e = entry.evidence /\ n = EvidenceAsOf(e, asOf)
  OBVIOUS
<1>2. e \in EvidenceRecords
  BY <1>1 DEF IsSubject
<1>3. NotExamined \in Answers
  BY DEF NotExamined, Answers
<1>4. n \in EvidenceRecords
  BY <1>1, <1>2, <1>3 DEF EvidenceAsOf, EvidenceRecords
<1>5. AsOf(entry, asOf).evidence = n /\ AsOf(entry, asOf).health = entry.health
  BY <1>1 DEF AsOf, IsSubject
<1> QED
  BY <1>4, <1>5 DEF IsJudged, IsSubject

(***************************************************************************)
(* Whatever `s` refuses, by whichever row, flag and day, a policy that     *)
(* covers it key by key refuses, where `s` names what it allows and no     *)
(* other file's exceptions pass for its own.                               *)
(***************************************************************************)
LEMMA RefusalsHold ==
  ASSUME NullIsApart, NEW p, IsPolicy(p), NEW s, IsPolicy(s), Over_(p, s),
         OwnExceptions(p, s), AllowsSomething(s),
         NEW entry, IsSubject(entry), NEW flag, NEW asOf \in Nat,
         Fails(s, flag, entry, asOf)
  PROVE  Fails(p, flag, entry, asOf)
<1>1. PICK subject : subject = AsOf(entry, asOf)
  OBVIOUS
<1>2. IsJudged(subject)
  BY <1>1, AsOfIsJudged
<1>3. Denied(s, subject, asOf) => Denied(p, subject, asOf)
  BY <1>2, OrganisationRowsHold, ListRowsHold, FileRowsHold DEF Denied
<1>4. FailsOnUnknown(s, flag) /\ Unanswered(s, subject, asOf) =>
        FailsOnUnknown(p, flag) /\ Unanswered(p, subject, asOf)
  BY <1>2, UnknownRowsHold
<1> QED
  BY <1>1, <1>3, <1>4 DEF Fails

-----------------------------------------------------------------------------
(* The state: whatever people write, every file holds what a file may.      *)

StateOK ==
    /\ files = [f \in Files |-> files[f]]
    /\ FilesWritten
    /\ EnvRead
    /\ edits \in Nat

LEMMA EmptyIsFile == ASSUME NEW kind \in FileKinds PROVE IsFile(Empty(kind))
  BY DEF Empty, IsFile

LEMMA ExtendingIsFile ==
  ASSUME NEW target \in Files \cup {Null} PROVE IsFile(Extending(target))
<1>1. PICK says : says = [key \in {"extends"} |-> target]
  OBVIOUS
<1>2. Extending(target) = [kind |-> "object", says |-> says]
  BY <1>1 DEF Extending
<1>3. \A key \in DOMAIN says : MayWrite(key, says[key])
  BY <1>1 DEF MayWrite
<1>4. says = [key \in DOMAIN says |-> says[key]]
  BY <1>1
<1> QED
  BY <1>2, <1>3, <1>4 DEF IsFile, FileKinds

LEMMA EditKeeps ==
  ASSUME StateOK, NEW f \in Files, NEW content, IsFile(content), Edit(f, content)
  PROVE  StateOK'
<1>1. /\ files' = [files EXCEPT ![f] = content]
      /\ edits' = edits + 1 /\ env' = env
  BY DEF Edit
<1>2. files' = [g \in Files |-> files'[g]] /\ \A g \in Files : IsFile(files'[g])
  BY <1>1 DEF StateOK, FilesWritten
<1>3. EnvRead'
  BY <1>1 DEF StateOK, EnvRead
<1> QED
  BY <1>1, <1>2, <1>3 DEF StateOK, FilesWritten

LEMMA StateHeld == PolicySpec => []StateOK
<1>1. PolicyInit => StateOK
  <2> SUFFICES ASSUME PolicyInit PROVE StateOK
    OBVIOUS
  <2>1. PICK target \in (Files \ {Project}) \cup {Null} :
           files = [f \in Files |-> IF f = Project THEN Extending(target) ELSE Empty("object")]
    BY DEF PolicyInit
  <2>2. IsFile(Extending(target)) /\ IsFile(Empty("object"))
    BY ExtendingIsFile, EmptyIsFile DEF FileKinds
  <2>3. \A f \in Files : IsFile(files[f])
    BY <2>1, <2>2
  <2> QED
    BY <2>1, <2>3 DEF PolicyInit, StateOK, FilesWritten, EnvRead
<1>2. StateOK /\ [PolicyNext]_policyVars => StateOK'
  <2> SUFFICES ASSUME StateOK, [PolicyNext]_policyVars PROVE StateOK'
    OBVIOUS
  <2>1. ASSUME NEW f \in Files, NEW w \in Writes, Write(f, w[1], w[2]) PROVE StateOK'
    <3>1. PICK old : old = files[f]
      OBVIOUS
    <3>2. PICK says : says = [k \in DOMAIN old.says \cup {w[1]} |->
                                IF k = w[1] THEN w[2] ELSE old.says[k]]
      OBVIOUS
    <3>3. Edit(f, [kind |-> "object", says |-> says])
      BY <2>1, <3>1, <3>2 DEF Write
    <3>4. MayWrite(w[1], w[2]) /\ \A k \in DOMAIN old.says : MayWrite(k, old.says[k])
      BY <3>1, PolicyInForceConstants DEF StateOK, FilesWritten, IsFile
    <3>5. /\ \A k \in DOMAIN says : MayWrite(k, says[k])
          /\ says = [k \in DOMAIN says |-> says[k]]
      BY <3>2, <3>4
    <3>6. IsFile([kind |-> "object", says |-> says])
      BY <3>5 DEF IsFile, FileKinds
    <3> QED
      BY <3>3, <3>6, EditKeeps
  <2>2. ASSUME NEW f \in Files, NEW key \in DOMAIN files[f].says, Erase(f, key) PROVE StateOK'
    <3>1. PICK old : old = files[f]
      OBVIOUS
    <3>2. PICK says : says = [k \in DOMAIN old.says \ {key} |-> old.says[k]]
      OBVIOUS
    <3>3. Edit(f, [kind |-> "object", says |-> says])
      BY <2>2, <3>1, <3>2 DEF Erase
    <3>4. \A k \in DOMAIN old.says : MayWrite(k, old.says[k])
      BY <3>1 DEF StateOK, FilesWritten, IsFile
    <3>5. /\ \A k \in DOMAIN says : MayWrite(k, says[k])
          /\ says = [k \in DOMAIN says |-> says[k]]
      BY <3>2, <3>4
    <3>6. IsFile([kind |-> "object", says |-> says])
      BY <3>5 DEF IsFile, FileKinds
    <3> QED
      BY <3>3, <3>6, EditKeeps
  <2>3. ASSUME NEW f \in Files, NEW kind \in FileKinds, Replace(f, kind) PROVE StateOK'
    BY <2>3, EmptyIsFile, EditKeeps DEF Replace
  <2>4. CASE UNCHANGED policyVars
    BY <2>4 DEF policyVars, StateOK, FilesWritten, EnvRead
  <2> QED
    BY <2>1, <2>2, <2>3, <2>4 DEF PolicyNext
<1> QED
  BY <1>1, <1>2, PTL DEF PolicySpec

-----------------------------------------------------------------------------
(* A layer that names what it allows speaks as it was written. *)

LEMMA SpeaksItsAllowList ==
  ASSUME NullIsApart, NEW layer, IsLayer(layer), NamesWhatItAllows(layer.policy)
  PROVE  AllowsSomething(Spoken(layer))
<1>1. {"allow", "default"} \subseteq Keys /\ "allow" \in LayeredKeys
  BY DefaultWords DEF Keys, LayeredKeys
<1>2. SUFFICES ASSUME Spoken(layer)["default"] = "deny"
               PROVE  LayersIn(Spoken(layer), "allow") # {}
  BY DEF AllowsSomething
<1>3. Lenient("default") # "deny"
  <2>1. Lenient("default") = CHOOSE word \in DOMAIN Rank["default"] : Rank["default"][word] = 0
    BY <1>1, DefaultWords, KindsApart DEF Lenient
  <2>2. PICK w \in DOMAIN Rank["default"] : Rank["default"][w] = 0
    BY DefaultWords, SomeWordIsLenient
  <2>3. Rank["default"][Lenient("default")] = 0
    BY <2>1, <2>2
  <2>4. Rank["default"]["deny"] # 0
    BY DEF Rank
  <2> QED
    BY <2>3, <2>4, Zenon
<1>4. layer.policy["default"] = "deny"
  BY <1>1, <1>2, <1>3 DEF Spoken
<1>5. layer.policy["allow"] # Null
  BY <1>4 DEF NamesWhatItAllows
<1>6. "allow" \in layer.explicit /\ \E says : layer.policy["allow"] = {[source |-> layer.source, says |-> says]}
  BY <1>1, <1>5 DEF IsLayer
<1>7. Spoken(layer)["allow"] = layer.policy["allow"]
  BY <1>1, <1>6 DEF Spoken
<1> QED
  BY <1>5, <1>6, <1>7 DEF LayersIn

LEMMA KeepsItsExceptions ==
  ASSUME NullIsApart, FilesWritten, EnvRead, NEW layer \in LayersRead, IsLayer(layer),
         CoversEach(InForce(files, env), LayersRead)
  PROVE  OwnExceptions(InForce(files, env), Spoken(layer))
<1>k. {"denyCapabilities", "capabilityExceptions"} \subseteq LayeredKeys /\ LayeredKeys \subseteq Keys
  BY DEF Keys, LayeredKeys
<1>1. SUFFICES ASSUME NEW denied \in LayersIn(Spoken(layer), "denyCapabilities"),
                      NEW x \in LayersIn(InForce(files, env), "capabilityExceptions"),
                      x.source = denied.source
               PROVE  x \in LayersIn(Spoken(layer), "capabilityExceptions")
  BY DEF OwnExceptions
<1>2. Lenient("denyCapabilities") = Null
  BY RankedAre DEF Lenient, SwitchKeys
<1>3. denied \in layer.policy["denyCapabilities"] /\ layer.policy["denyCapabilities"] # Null
  BY <1>k, <1>2 DEF LayersIn, Spoken
<1>4. denied.source = layer.source
  BY <1>k, <1>3 DEF IsLayer
<1> QED
  BY <1>k, <1>1, <1>4, ListsKeepTheirFile

LEMMA LayersHold == ASSUME NullIsApart, StateOK PROVE EveryLayerHolds
<1>1. FilesWritten /\ EnvRead
  BY DEF StateOK
<1>2. IsPolicy(InForce(files, env)) /\
      (InForce(files, env)["allow"] # Null => InForce(files, env)["default"] = "deny")
  BY <1>1, InForceIsPolicy
<1>3. PolicyTypeOK
  BY <1>2 DEF PolicyTypeOK, StateOK, FilesWritten, EnvRead
<1>4. ASSUME NEW layer \in LayersRead, NamesWhatItAllows(layer.policy),
             NEW subject \in Subjects, NEW flag \in Flags, NEW asOf \in Days,
             Fails(Spoken(layer), flag, subject, asOf)
      PROVE  Fails(InForce(files, env), flag, subject, asOf)
  <2>1. CoversEach(InForce(files, env), LayersRead)
    BY <1>1, InForceIsSound
  <2>2. IsLayer(layer) /\ Over_(InForce(files, env), Spoken(layer))
    BY <2>1 DEF CoversEach, Over_
  <2>3. IsPolicy(Spoken(layer))
    BY <2>2, SpokenIsPolicy
  <2>4. AllowsSomething(Spoken(layer))
    BY <1>4, <2>2, SpeaksItsAllowList
  <2>5. OwnExceptions(InForce(files, env), Spoken(layer))
    BY <1>1, <2>1, <2>2, KeepsItsExceptions
  <2>6. IsSubject(subject) /\ asOf \in Nat
    BY PolicyInForceConstants
  <2> QED
    BY <1>2, <1>4, <2>2, <2>3, <2>4, <2>5, <2>6, RefusalsHold
<1> QED
  BY <1>2, <1>3, <1>4 DEF EveryLayerHolds

(* What any file that was read refuses, by whichever row, the policy in     *)
(* force refuses, errors or not, under every flag and on every day; and an  *)
(* allow list means "only these" in whichever file it stands: whatever the  *)
(* files, the rules and the entries judged are.                             *)
THEOREM EveryLayerIsHeld == NullIsApart => (PolicySpec => []EveryLayerHolds)
<1>1. ASSUME NullIsApart PROVE PolicySpec => []EveryLayerHolds
  <2>1. StateOK => EveryLayerHolds
    BY <1>1, LayersHold
  <2> QED
    BY <2>1, StateHeld, PTL
<1> QED
  BY <1>1

-----------------------------------------------------------------------------
(* A key a project's file wrote, and the policy that loads without an error. *)

LEMMA EnforcesItself ==
  ASSUME NEW key \in Keys, NEW v PROVE EnforcedAsWritten(key, v, v)
  BY DEF EnforcedAsWritten

LEMMA NothingLoosened ==
  ASSUME NullIsApart, NEW key \in Keys, NEW base, NEW over,
         IsValue(key, base[key]), IsValue(key, over[key]), ~Loosens(key, base, over)
  PROVE  EnforcedAsWritten(key, over[key], Kept(key, base[key], over[key]))
<1>1. PICK b, o : b = base[key] /\ o = over[key]
  OBVIOUS
<1>2. IsValue(key, b) /\ IsValue(key, o) /\ ~(b # Null /\ o = Null)
  BY <1>1 DEF Loosens
<1>3. CASE b = Null \/ o = Null
  <2>1. Kept(key, b, o) = o
    BY <1>2, <1>3 DEF Kept
  <2> QED
    BY <1>1, <2>1, EnforcesItself
<1>4. CASE b # Null /\ o # Null
  <2>1. PICK j : j = Join(key, b, o)
    OBVIOUS
  <2>2. IsBound(key, b) /\ IsBound(key, o) /\ Kept(key, b, o) = j
    BY <1>2, <1>4, <2>1 DEF IsValue, Kept
  <2>3. JoinHolds(key, j, b, o) /\ j # Null
    <3>1. JoinHolds(key, j, b, o)
      BY <2>1, <2>2, JoinIsStricter
    <3> QED
      BY <3>1 DEF JoinHolds, NullIsApart
  <2>4. CASE key = "licenses"
    <3>1. ~(~Unbounded(o.allow) /\ ~Unbounded(b.allow) /\ ~(o.allow \subseteq b.allow))
      BY <1>1, <1>4, <2>4 DEF Loosens, LayeredKeys
    <3>2. j = [allow |-> IF Unbounded(o.allow) THEN b.allow
                         ELSE IF Unbounded(b.allow) THEN o.allow
                         ELSE b.allow \cap o.allow,
               deny  |-> b.deny \cup o.deny]
      BY <2>1, <2>4 DEF Join, LayeredKeys
    <3>3. (Unbounded(o.allow) \/ j.allow = o.allow) /\ o.deny \subseteq j.deny
      BY <3>1, <3>2
    <3> QED
      BY <1>1, <1>4, <2>2, <2>3, <2>4, <3>3 DEF EnforcedAsWritten, LayeredKeys
  <2>5. CASE key = "requireEvidence"
    <3>1. \A dim \in DOMAIN b \cap DOMAIN o : ~(Limit(o, dim) > Limit(b, dim))
      BY <1>1, <1>4, <2>5 DEF Loosens, LayeredKeys
    <3>2. j = [dim \in DOMAIN b \cup DOMAIN o |->
                  IF dim \notin DOMAIN b THEN o[dim]
                  ELSE IF dim \in DOMAIN o /\ Limit(o, dim) <= Limit(b, dim)
                  THEN o[dim] ELSE b[dim]]
      BY <2>1, <2>5 DEF Join, LayeredKeys
    <3>3. IsRequirement(b) /\ IsRequirement(o)
      BY <2>2, <2>5, BoundIs
    <3>4. ASSUME NEW dim \in DOMAIN o PROVE dim \in DOMAIN j /\ Limit(j, dim) = Limit(o, dim)
      <4>1. dim \in DOMAIN b => Limit(o, dim) <= Limit(b, dim)
        BY <3>1, <3>3, LimitIsNumber
      <4>2. dim \in DOMAIN j /\ j[dim] = o[dim]
        BY <3>2, <4>1
      <4> QED
        BY <4>2 DEF Limit
    <3> QED
      BY <1>1, <1>4, <2>2, <2>5, <3>4 DEF EnforcedAsWritten, LayeredKeys
  <2>6. CASE key \in LayeredKeys
    <3>1. o \subseteq j
      BY <2>3, <2>6, AtLeastIs DEF JoinHolds
    <3> QED
      BY <1>1, <1>4, <2>2, <2>6, <3>1, KindsApart DEF EnforcedAsWritten, SetKeys
  <2>7. CASE key \notin LayeredKeys \cup {"licenses", "requireEvidence"}
    <3>1. AtLeast(key, o, b)
      BY <1>1, <1>4, <2>7 DEF Loosens
    <3>2. j = o
      <4>1. CASE key = "trust"
        <5>1. o \subseteq b /\ j = b \cap o
          BY <2>1, <3>1, <4>1, AtLeastIs DEF Join
        <5> QED
          BY <5>1
      <4>2. CASE key # "trust"
        BY <2>1, <2>7, <3>1, <4>2 DEF Join
      <4> QED
        BY <4>1, <4>2
    <3> QED
      BY <1>1, <2>2, <3>2, EnforcesItself
  <2> QED
    BY <2>4, <2>5, <2>6, <2>7
<1> QED
  BY <1>3, <1>4

(* A file without errors normalises to what it wrote. *)
LEMMA NormalisedAsWritten ==
  ASSUME NullIsApart, NEW file, IsFile(file), ~HasErrors(Project, file),
         NEW key \in Keys, Wrote(file, key)
  PROVE  Normalised(Project, file)[key] = Value(Project, file, key)
<1>1. CASE key # "default"
  BY <1>1 DEF Normalised
<1>2. CASE key = "default"
  <2>1. Normalised(Project, file)[key] =
           ImpliedDefault(Value(Project, file, "allow"), Value(Project, file, "default"))
    BY <1>2 DEF Normalised
  <2>2. file.says["default"] # Malformed
    BY <1>2 DEF HasErrors, Wrote
  <2>3. "default" \notin LayeredKeys
    BY DEF LayeredKeys
  <2>4. Value(Project, file, "default") = file.says["default"]
    BY <1>2, <2>2, <2>3 DEF Value, WroteWell, Layered
  <2>5. IsValue("default", Value(Project, file, "default"))
    BY <1>2, ValueIsValue, OrgPolicyConstants
  <2>6. file.says["default"] \in {"allow", "deny"}
    BY <1>2, <2>4, <2>5, DefaultWords, BoundIs DEF IsValue, Nullable
  <2>7. Value(Project, file, "allow") # Null => file.says["default"] = "deny"
    BY <1>2, <2>6 DEF HasErrors
  <2> QED
    BY <1>2, <2>1, <2>4, <2>7 DEF ImpliedDefault
<1> QED
  BY <1>1, <1>2

LEMMA EnforcedWhereWritten == ASSUME NullIsApart, StateOK PROVE WrittenIsEnforced
<1>1. FilesWritten /\ EnvRead /\ Project \in Files
  BY OrgPolicyConstants DEF StateOK
<1>2. SUFFICES ASSUME LoadedOk(files, env), Found(files),
                      NEW key \in Keys, Wrote(files[Project], key)
               PROVE  EnforcedAsWritten(key, Value(Project, files[Project], key),
                                        InForce(files, env)[key])
  BY DEF WrittenIsEnforced
<1>3. /\ ~NothingRead(files, env) /\ ~HasErrors(Project, files[Project])
      /\ ~Clashes(Organisation(files, env), Layers(files, env)[3])
  BY <1>2 DEF LoadedOk
<1>4. Parses(files[Project])
  BY <1>3 DEF HasErrors, Parses
<1>5. PICK layer : layer = [source |-> Project, policy |-> Normalised(Project, files[Project]),
                            explicit |-> Explicit(Project, files[Project])]
  OBVIOUS
<1>6. Layers(files, env)[3] = layer
  BY <1>1, <1>3, <1>4, <1>5, OrgPolicyConstants DEF Layers, LayerOf
<1>7. IsLayer(layer) /\ layer # None
  <2>1. IsLayer(layer)
    BY <1>1, <1>5, FileIsLayer DEF FilesWritten
  <2>2. PICK T : T = {layer.source, layer.policy, layer.explicit}
    OBVIOUS
  <2>3. layer \in [{"source", "policy", "explicit"} -> T]
    BY <1>5, <2>2
  <2> QED
    BY <2>1, <2>3 DEF NullIsApart, None
<1>8. key \in layer.explicit /\ layer.policy[key] = Value(Project, files[Project], key)
  <2>1. key \in layer.explicit
    BY <1>2, <1>5 DEF Explicit, Wrote
  <2>2. Normalised(Project, files[Project])[key] = Value(Project, files[Project], key)
    BY <1>1, <1>2, <1>3, NormalisedAsWritten DEF FilesWritten
  <2> QED
    BY <1>5, <2>1, <2>2
<1>9. Merged(files, env) = Over(Organisation(files, env), layer)
  BY <1>6 DEF Merged
<1>10. CASE Organisation(files, env) = None
  <2>1. InForce(files, env) = layer.policy
    BY <1>7, <1>9, <1>10, PolicyIsSomething DEF InForce, Over, IsLayer
  <2> QED
    BY <1>8, <2>1, EnforcesItself
<1>11. CASE Organisation(files, env) # None
  <2>1. PICK org : org = Organisation(files, env)
    OBVIOUS
  <2>2. IsPolicy(org)
    BY <1>1, <1>11, <2>1, OrganisationIsSound DEF CoversEach
  <2>3. ~Loosens(key, org, layer.policy)
    BY <1>3, <1>6, <1>7, <1>8, <1>11, <2>1 DEF Clashes, Conflicts
  <2>4. IsPolicy(Merge(org, layer)) /\ Merged(files, env) = Merge(org, layer)
    BY <1>7, <1>9, <1>11, <2>1, <2>2, MergeIsStricter DEF Over, IsLayer
  <2>5. InForce(files, env) = Merge(org, layer)
    BY <2>4, PolicyIsSomething DEF InForce
  <2>6. InForce(files, env)[key] = Kept(key, org[key], layer.policy[key])
    BY <1>8, <2>5 DEF Merge
  <2>7. EnforcedAsWritten(key, layer.policy[key], Kept(key, org[key], layer.policy[key]))
    BY <1>7, <2>2, <2>3, NothingLoosened DEF IsLayer, IsPolicy
  <2> QED
    BY <1>8, <2>6, <2>7
<1> QED
  BY <1>10, <1>11

(* A policy that loads without an error enforces what the project's file    *)
(* says, key by key, and nothing stricter in its place.                     *)
THEOREM WhatIsWrittenIsEnforced == NullIsApart => (PolicySpec => []WrittenIsEnforced)
<1>1. ASSUME NullIsApart PROVE PolicySpec => []WrittenIsEnforced
  <2>1. StateOK => WrittenIsEnforced
    BY <1>1, EnforcedWhereWritten
  <2> QED
    BY <2>1, StateHeld, PTL
<1> QED
  BY <1>1
=============================================================================
