------------------------------ MODULE Observers ------------------------------
(***************************************************************************)
(* The observers: availability, identity, posture, capabilities, upgrade,  *)
(* docker-drift and license-drift ask a service one question per entry of  *)
(* the database.  Here is what each makes of the answers it got - the row  *)
(* of an entry, the findings of the rows - and the exit code that          *)
(* lib/run_decision.cjs and the rows of mode `observe` give them.          *)
(*                                                                         *)
(* An answer is a record; `answered` is FALSE when the service failed, or  *)
(* when the entry gives nothing to ask it about.                           *)
(***************************************************************************)
EXTENDS Versions

CONSTANTS
    LicenseClass,   \* [licences -> {"osi", "restrictive", "unknown"}]
    HighRisk        \* the capabilities a delta warns about

Commands ==
    {"availability", "identity", "posture", "capabilities", "upgrade", "docker-drift", "license-drift"}

(***************************************************************************)
(* The exit.  A finding is its level: observed ("high", "medium", "low"),  *)
(* "not-run", "unchecked", or "unanswered".                                *)
(***************************************************************************)
(* finding/severity, finding/incomplete, and the two rows beside them. *)
EffectOf(level) ==
    CASE level = "high"   -> "deny"
      [] level = "medium" -> "warn"
      [] level = "low"    -> "allow"
      [] OTHER            -> "unknown"

(* What was not covered, and what was not answered, no threshold reaches. *)
OutcomeFails(level, failOn) ==
    \/ EffectOf(level) = "deny"
    \/ /\ level \notin {"unchecked", "unanswered"}
       /\ \/ EffectOf(level) = "unknown" /\ failOn \in {"unknown", "warn"}
          \/ EffectOf(level) = "warn" /\ failOn = "warn"

(* A finding outranks an incomplete scope. *)
DecideRun(levels, failOn) ==
    IF \E level \in levels : OutcomeFails(level, failOn) THEN 1
    ELSE IF "unanswered" \in levels THEN 2
    ELSE 0

FailOn(strict) == IF strict THEN "warn" ELSE "deny"

(* An entry nobody answered for; where nobody answered for any, the run was *)
(* not answered.                                                            *)
NotAnswered(nothing) == IF nothing THEN "unanswered" ELSE "unchecked"

-----------------------------------------------------------------------------
(* check_availability: the registry's verdict, the repository it names, and *)
(* under --repos GitHub's word, which wins where both spoke.               *)
CheckRepo(github, asked) ==
    IF ~asked THEN "present"
    ELSE CASE github = "failed"   -> "unknown"
           [] github = "absent"   -> "repo-gone"
           [] github = "moved"    -> "relocated"
           [] github = "archived" -> "archived"
           [] OTHER               -> "present"

AvailabilityIdentity(a) ==
    LET repo == CheckRepo(a.github, a.repos)
    IN  IF repo # "present" THEN repo
        ELSE IF a.answered /\ a.moved THEN "relocated" ELSE Null

AvailabilityVerdict(a) == IF a.answered THEN a.verdict ELSE "unknown"

AvailabilityDecision(rows) ==
    LET nothing == \A a \in rows : AvailabilityVerdict(a) = "unknown"
    IN  UNION {
          (CASE AvailabilityVerdict(a) \in {"gone", "version-gone", "yanked"} -> {"high"}
             [] AvailabilityVerdict(a) = "deprecated" -> {"medium"}
             [] AvailabilityVerdict(a) = "unknown"    -> {NotAnswered(nothing)}
             [] OTHER                                 -> {})
          \cup (IF AvailabilityIdentity(a) = "relocated" THEN {"medium"} ELSE {})
        : a \in rows}

-----------------------------------------------------------------------------
(* check_identity: the official registry's record of the package, against   *)
(* the repository the entry records; `claims` is how many namespaces list   *)
(* the package.  There is no --strict.                                      *)
IdentityFindings(record) ==
    IF record = Null THEN "unlisted"
    ELSE IF record.status # "active" THEN "withdrawn"
    ELSE IF record.otherRepo \/ record.otherOwner THEN "contradicted" ELSE "listed"

IdentityState(a) ==
    IF ~a.answered THEN "unknown"
    ELSE LET state == IdentityFindings(a.record)
         IN  IF state = "listed" /\ a.claims > 1 THEN "contradicted" ELSE state

IdentityDecision(rows) ==
    LET nothing == \A a \in rows : IdentityState(a) = "unknown"
    IN  UNION {CASE IdentityState(a) \in {"contradicted", "withdrawn"} -> {"high"}
                 [] IdentityState(a) = "unknown" -> {NotAnswered(nothing)}
                 [] OTHER                        -> {} : a \in rows}

-----------------------------------------------------------------------------
(* check_posture: the Scorecard report of the repository.  A 404 and a      *)
(* project without a report are answers; a check scored below 0 could not   *)
(* be run.                                                                  *)
PassAt == 7

MapChecks(scores) ==
    {IF x < 0 THEN "unknown" ELSE IF x >= PassAt THEN "good" ELSE "bad" : x \in scores}

SummarisePosture(checks) ==
    IF "bad" \in checks THEN "weak" ELSE IF "good" \in checks THEN "clean" ELSE "unknown"

(* The state of a row: nobody answered, or there is no report, or what the  *)
(* report says.                                                             *)
PostureState(a) ==
    CASE ~a.answered                      -> "unanswered"
      [] a.answered /\ a.scores = Null    -> "no-report"
      [] OTHER                            -> SummarisePosture(MapChecks(a.scores))

PostureDecision(rows) ==
    LET nothing == \A a \in rows : PostureState(a) = "unanswered"
    IN  UNION {CASE PostureState(a) = "unanswered" -> {NotAnswered(nothing)}
                 [] PostureState(a) = "weak"       -> {"medium"}
                 [] OTHER                          -> {} : a \in rows}

-----------------------------------------------------------------------------
(* check_capabilities: what the tarball matches now, against the scan of    *)
(* the highest recorded version below the pin, or else of the highest one   *)
(* (of versions that can be compared).                                      *)
PreviousScan(history, version) ==
    LET candidates == DOMAIN history \ {version}
        below == {v \in candidates : Comparator("npm", v, version) = -1}
        pool == IF below # {} THEN below ELSE candidates
    IN  IF candidates = {} THEN Null
        ELSE CHOOSE v \in pool : \A w \in pool : Comparator("npm", w, v) \in {Null, -1, 0}

DiffCapabilities(before, after) == after \ before

(* Only a pinned npm release is scanned; it is answered when its metadata,  *)
(* its tarball and the reading of the tarball all came through.             *)
ScanState(a) ==
    CASE ~a.npm                -> "unsupported"
      [] a.npm /\ ~a.answered  -> "unknown"
      [] OTHER                 -> "scanned"

CapabilitiesDecision(rows) ==
    UNION {IF ScanState(a) # "scanned" THEN {"unchecked"}
           ELSE LET prev == PreviousScan(a.history, a.version)
                IN  IF prev = Null THEN {}
                    ELSE {IF cap \in HighRisk THEN "medium" ELSE "low" :
                            cap \in DiffCapabilities(a.history[prev], a.found)}
           : a \in rows}

-----------------------------------------------------------------------------
(* suggest_upgrade: the state of each plan (Upgrade).  No source is `asked` *)
(* about an entry without a package and a version to look up.               *)
Affected == {"upgrade", "upgrade-unconfirmed", "no-clean-target", "no-fix"}

UpgradeDecision(rows) ==
    UNION {CASE ~a.answered        -> {"unchecked"}
             [] a.answered /\ a.state \in Affected -> {"medium"}
             [] OTHER              -> {} : a \in rows}

-----------------------------------------------------------------------------
(* check_docker_drift: the tag's digest against the pin; an image that is   *)
(* not pinned is skipped, and counts as checked; a registry outside the     *)
(* supported list is one that failed.  --write moves the pins it can.  A    *)
(* registry that failed fails the run, unless all did and nothing drifted.  *)
DriftStatus(a) ==
    IF ~a.pinned THEN "SKIP"
    ELSE IF ~a.answered THEN "ERROR"
    ELSE IF a.same THEN "OK" ELSE "DRIFT"

(* Mutant: one registry that failed is a run that compared nothing. *)
DriftDecisionAnyError(rows, write) ==
    LET drifts == {a \in rows : DriftStatus(a) = "DRIFT"}
        errors == {a \in rows : DriftStatus(a) = "ERROR"}
    IN  (IF drifts # {} /\ ~write THEN {"medium"} ELSE {})
        \cup (IF write /\ \E a \in drifts : ~a.writable THEN {"high"} ELSE {})
        \cup (IF errors = {} THEN {} ELSE {"unanswered"})

DriftDecision(rows, write) ==
    LET drifts == {a \in rows : DriftStatus(a) = "DRIFT"}
        errors == {a \in rows : DriftStatus(a) = "ERROR"}
        unapplied == IF write THEN {a \in drifts : ~a.writable} ELSE {}
        nothing == errors # {} /\ errors = rows
    IN  (IF drifts # {} /\ ~write THEN {"medium"} ELSE {})
        \cup (IF unapplied # {} THEN {"high"} ELSE {})
        \cup (IF errors = {} THEN {} ELSE IF nothing THEN {"unanswered"} ELSE {"not-run"})

-----------------------------------------------------------------------------
(* check_license_drift.  An entry is `settled`, and not asked about, where  *)
(* its package is recorded as gone, freshly, or has no registry to ask.     *)
DiffLicense(old, new) ==
    LET from == LicenseClass[old]
        to == LicenseClass[new]
    IN  IF old = new THEN "match"
        ELSE IF to = "unknown" THEN "drift-to-unknown"
        ELSE IF from = "unknown" THEN "drift-from-unknown"
        ELSE CASE from = "osi" /\ to = "osi" -> "drift-osi-to-osi"
               [] from = "restrictive" /\ to = "osi" -> "drift-restrictive-to-osi"
               [] OTHER                      -> "drift-osi-to-restrictive"

LicenseClassification(a) ==
    IF a.settled THEN "match"
    ELSE IF ~a.answered THEN "error"
    ELSE DiffLicense(a.old, a.new)

LicenseDecision(rows) ==
    {CASE d = "error" -> "not-run"
       [] d = "drift-osi-to-restrictive" -> "medium"
       [] OTHER -> "low" : d \in {LicenseClassification(a) : a \in rows} \ {"match"}}

-----------------------------------------------------------------------------
ObserverExit(command, rows, strict, write) ==
    CASE command = "availability"  -> DecideRun(AvailabilityDecision(rows), FailOn(strict))
      [] command = "identity"      -> DecideRun(IdentityDecision(rows), "deny")
      [] command = "posture"       -> DecideRun(PostureDecision(rows), FailOn(strict))
      [] command = "capabilities"  -> DecideRun(CapabilitiesDecision(rows), FailOn(strict))
      [] command = "upgrade"       -> DecideRun(UpgradeDecision(rows), FailOn(strict))
      [] command = "docker-drift"  -> DecideRun(DriftDecision(rows, write), IF strict THEN "warn" ELSE "unknown")
      [] command = "license-drift" -> DecideRun(LicenseDecision(rows), FailOn(strict))

-----------------------------------------------------------------------------
(***************************************************************************)
(* A finding about one entry fails the run whatever was answered for the   *)
(* others; a run fails for a finding of one entry (docker-drift also for a *)
(* registry that failed while another did not); it is unanswered only when *)
(* no entry's question was; --strict never passes what is refused without; *)
(* and where the command promises it, a run that exits 0 was answered for  *)
(* some entry.  (docs/COMPATIBILITY.md: "A real finding still outranks it, *)
(* everywhere"; "A run where nothing could be attempted is 2, not 0".)     *)
(***************************************************************************)
ObserverExitIsEarned(command, rows, strict, write) ==
    \A exit \in {ObserverExit(command, rows, strict, write)},
       alone \in {{ObserverExit(command, {a}, strict, write) : a \in rows}} :
        /\ 1 \in alone => exit = 1
        /\ exit = 1 => 1 \in alone \/ (command = "docker-drift" /\ 2 \in alone)
        /\ exit = 2 => alone = {2}
        /\ exit = 1 => ObserverExit(command, rows, TRUE, write) = 1
        /\ command \in {"availability", "identity", "posture"} /\ exit = 0 =>
               \E a \in rows : a.answered
        /\ command = "docker-drift" /\ exit = 0 => \A a \in rows : a.pinned => a.answered

(* A service was asked about the entry. *)
Asked(command, a) ==
    CASE command = "capabilities"  -> a.npm
      [] command = "upgrade"       -> a.asked
      [] command = "docker-drift"  -> a.pinned
      [] command = "license-drift" -> ~a.settled
      [] OTHER                     -> TRUE

(***************************************************************************)
(* A run that asked, and got no answer to any question, does not exit 0.   *)
(* (docs/COMPATIBILITY.md: "A check that could not run must not exit 0";   *)
(* the row unchecked/*: "when the source answered for nothing at all, the  *)
(* run says so with scope/unanswered".)                                    *)
(***************************************************************************)
UnansweredIsNotClean(command, rows, strict, write) ==
    LET asked == {a \in rows : Asked(command, a)}
    IN  (asked # {} /\ \A a \in asked : ~a.answered) => ObserverExit(command, rows, strict, write) # 0
=============================================================================
