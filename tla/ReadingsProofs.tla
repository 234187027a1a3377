--------------------------- MODULE ReadingsProofs ---------------------------
(***************************************************************************)
(* What the program reads off a text is what is there, for every input:    *)
(* any launch command, versions of any length, sets of any servers, names  *)
(* of any letters and any index, any setup, any answers of a service.      *)
(*                                                                         *)
(* Reading changes nothing, so that each theorem is a lemma about its      *)
(* operators; those of a launch and of versions are in modules of their    *)
(* own.  The table of edit distances is shown to be the one table that     *)
(* satisfies the equation of its cells, by looking at the first cell in    *)
(* which two would differ.                                                 *)
(***************************************************************************)
EXTENDS Readings, LaunchProofs, FiniteSetTheorems

-----------------------------------------------------------------------------
(***************************************************************************)
(* The run of an observer (Observers): which levels fail it, and what its  *)
(* exit says of the answers, command by command.                           *)
(***************************************************************************)

(* Which levels fail a run, under which threshold. *)
LEMMA LevelFails ==
  ASSUME NEW f
  PROVE  /\ O!OutcomeFails("high", f)
         /\ O!OutcomeFails("medium", f) <=> f = "warn"
         /\ ~O!OutcomeFails("low", f)
         /\ O!OutcomeFails("not-run", f) <=> f \in {"unknown", "warn"}
         /\ ~O!OutcomeFails("unchecked", f)
         /\ ~O!OutcomeFails("unanswered", f)
  BY DEF O!OutcomeFails, O!EffectOf

AvBad(a, f) ==
    \/ a.answered /\ a.verdict \in {"gone", "version-gone", "yanked"}
    \/ f = "warn" /\ ((a.answered /\ a.verdict = "deprecated") \/ O!AvailabilityIdentity(a) = "relocated")

LEMMA AvailabilityExit ==
  ASSUME NEW rows, rows # {}, \A a \in rows : IsAnswer("availability", a), NEW f
  PROVE  O!DecideRun(O!AvailabilityDecision(rows), f) =
            IF \E a \in rows : AvBad(a, f) THEN 1 ELSE IF \A a \in rows : ~a.answered THEN 2 ELSE 0
<1> DEFINE lv == O!AvailabilityDecision(rows)
           nothing == \A a \in rows : O!AvailabilityVerdict(a) = "unknown"
           said(a) == CASE O!AvailabilityVerdict(a) \in {"gone", "version-gone", "yanked"} -> {"high"}
                        [] O!AvailabilityVerdict(a) = "deprecated" -> {"medium"}
                        [] O!AvailabilityVerdict(a) = "unknown"    -> {O!NotAnswered(nothing)}
                        [] OTHER                                 -> {}
           moved(a) == IF O!AvailabilityIdentity(a) = "relocated" THEN {"medium"} ELSE {}
<1>1. \A a \in rows : /\ O!AvailabilityVerdict(a) = "unknown" <=> ~a.answered
                      /\ a.answered => O!AvailabilityVerdict(a) = a.verdict
  BY DEF O!AvailabilityVerdict, IsAnswer
<1>2. \A x : x \in lv <=> \E a \in rows : x \in said(a) \cup moved(a)
  BY DEF O!AvailabilityDecision
<1>3. O!NotAnswered(nothing) = IF \A a \in rows : ~a.answered THEN "unanswered" ELSE "unchecked"
  BY <1>1 DEF O!NotAnswered
<1> HIDE DEF lv, nothing
<1>4. ASSUME NEW a \in rows, NEW x
      PROVE  x \in said(a) \cup moved(a) <=>
                \/ x = "high" /\ a.answered /\ a.verdict \in {"gone", "version-gone", "yanked"}
                \/ x = "medium" /\ ((a.answered /\ a.verdict = "deprecated") \/ O!AvailabilityIdentity(a) = "relocated")
                \/ x = O!NotAnswered(nothing) /\ ~a.answered
  BY <1>1 DEF IsAnswer
<1> HIDE DEF said, moved
<1>5. (\E x \in lv : O!OutcomeFails(x, f)) <=> \E a \in rows : AvBad(a, f)
  BY <1>2, <1>3, <1>4, LevelFails DEF AvBad
<1>6. "unanswered" \in lv <=> \A a \in rows : ~a.answered
  BY <1>2, <1>3, <1>4
<1> QED
  BY <1>5, <1>6 DEF O!DecideRun, lv

LEMMA IdentityExit ==
  ASSUME NEW rows, rows # {}
  PROVE  O!DecideRun(O!IdentityDecision(rows), "deny") =
            IF \E a \in rows : O!IdentityState(a) \in {"contradicted", "withdrawn"} THEN 1
            ELSE IF \A a \in rows : ~a.answered THEN 2 ELSE 0
<1> DEFINE lv == O!IdentityDecision(rows)
           nothing == \A a \in rows : O!IdentityState(a) = "unknown"
           said(a) == CASE O!IdentityState(a) \in {"contradicted", "withdrawn"} -> {"high"}
                        [] O!IdentityState(a) = "unknown" -> {O!NotAnswered(nothing)}
                        [] OTHER                        -> {}
<1>1. \A a \in rows : O!IdentityState(a) = "unknown" <=> ~a.answered
  BY DEF O!IdentityState, O!IdentityFindings
<1>2. \A x : x \in lv <=> \E a \in rows : x \in said(a)
  BY DEF O!IdentityDecision
<1>3. O!NotAnswered(nothing) = IF \A a \in rows : ~a.answered THEN "unanswered" ELSE "unchecked"
  BY <1>1 DEF O!NotAnswered
<1> HIDE DEF lv, nothing
<1>4. ASSUME NEW a \in rows, NEW x
      PROVE  x \in said(a) <=> \/ x = "high" /\ O!IdentityState(a) \in {"contradicted", "withdrawn"}
                               \/ x = O!NotAnswered(nothing) /\ ~a.answered
  BY <1>1
<1> HIDE DEF said
<1>5. (\E x \in lv : O!OutcomeFails(x, "deny")) <=> \E a \in rows : O!IdentityState(a) \in {"contradicted", "withdrawn"}
  BY <1>2, <1>3, <1>4, LevelFails
<1>6. "unanswered" \in lv <=> \A a \in rows : ~a.answered
  BY <1>2, <1>3, <1>4
<1> QED
  BY <1>5, <1>6 DEF O!DecideRun, lv

LEMMA PostureExit ==
  ASSUME NEW rows, rows # {}, NEW f
  PROVE  O!DecideRun(O!PostureDecision(rows), f) =
            IF f = "warn" /\ \E a \in rows : O!PostureState(a) = "weak" THEN 1
            ELSE IF \A a \in rows : ~a.answered THEN 2 ELSE 0
<1> DEFINE lv == O!PostureDecision(rows)
           nothing == \A a \in rows : O!PostureState(a) = "unanswered"
           said(a) == CASE O!PostureState(a) = "unanswered" -> {O!NotAnswered(nothing)}
                        [] O!PostureState(a) = "weak" -> {"medium"}
                        [] OTHER                        -> {}
<1>1. \A a \in rows : O!PostureState(a) = "unanswered" <=> ~a.answered
  BY DEF O!PostureState, O!SummarisePosture
<1>2. \A x : x \in lv <=> \E a \in rows : x \in said(a)
  BY DEF O!PostureDecision
<1>3. O!NotAnswered(nothing) = IF \A a \in rows : ~a.answered THEN "unanswered" ELSE "unchecked"
  BY <1>1 DEF O!NotAnswered
<1> HIDE DEF lv, nothing
<1>4. ASSUME NEW a \in rows, NEW x
      PROVE  x \in said(a) <=> \/ x = "medium" /\ O!PostureState(a) = "weak"
                               \/ x = O!NotAnswered(nothing) /\ ~a.answered
  BY <1>1
<1> HIDE DEF said
<1>5. (\E x \in lv : O!OutcomeFails(x, f)) <=> f = "warn" /\ \E a \in rows : O!PostureState(a) = "weak"
  BY <1>2, <1>3, <1>4, LevelFails
<1>6. "unanswered" \in lv <=> \A a \in rows : ~a.answered
  BY <1>2, <1>3, <1>4
<1> QED
  BY <1>5, <1>6 DEF O!DecideRun, lv

(* The high-risk capabilities of a row that its last scan did not have. *)
Riskier(a) ==
    /\ O!ScanState(a) = "scanned" /\ O!PreviousScan(a.history, a.version) # Null
    /\ \E cap \in O!DiffCapabilities(a.history[O!PreviousScan(a.history, a.version)], a.found) : cap \in HighRisk

LEMMA CapabilitiesExit ==
  ASSUME NEW rows, NEW f
  PROVE  O!DecideRun(O!CapabilitiesDecision(rows), f) =
            IF f = "warn" /\ \E a \in rows : Riskier(a) THEN 1 ELSE 0
<1> DEFINE lv == O!CapabilitiesDecision(rows)
           prev(a) == O!PreviousScan(a.history, a.version)
           new(a) == O!DiffCapabilities(a.history[prev(a)], a.found)
           said(a) == IF O!ScanState(a) # "scanned" THEN {"unchecked"}
                      ELSE IF prev(a) = Null THEN {}
                           ELSE {IF cap \in HighRisk THEN "medium" ELSE "low" : cap \in new(a)}
<1>1. \A x : x \in lv <=> \E a \in rows : x \in said(a)
  BY DEF O!CapabilitiesDecision
<1>2. ASSUME NEW a \in rows, NEW x \in said(a)
      PROVE  x \in {"unchecked", "low"} \/ (x = "medium" /\ Riskier(a))
  BY DEF Riskier
<1>3. ASSUME NEW a \in rows, Riskier(a) PROVE "medium" \in said(a)
  BY <1>3 DEF Riskier
<1> HIDE DEF lv, said
<1>4. (\E x \in lv : O!OutcomeFails(x, f)) <=> f = "warn" /\ \E a \in rows : Riskier(a)
  BY <1>1, <1>2, <1>3, LevelFails
<1>5. "unanswered" \notin lv
  BY <1>1, <1>2
<1> QED
  BY <1>4, <1>5 DEF O!DecideRun, lv

LEMMA UpgradeExit ==
  ASSUME NEW rows, NEW f
  PROVE  O!DecideRun(O!UpgradeDecision(rows), f) =
            IF f = "warn" /\ \E a \in rows : a.answered /\ a.state \in O!Affected THEN 1 ELSE 0
<1> DEFINE lv == O!UpgradeDecision(rows)
           said(a) == CASE ~a.answered -> {"unchecked"}
                        [] a.answered /\ a.state \in O!Affected -> {"medium"}
                        [] OTHER -> {}
<1>1. \A x : x \in lv <=> \E a \in rows : x \in said(a)
  BY DEF O!UpgradeDecision
<1>2. ASSUME NEW a \in rows, NEW x
      PROVE  x \in said(a) <=> \/ x = "unchecked" /\ ~a.answered
                               \/ x = "medium" /\ a.answered /\ a.state \in O!Affected
  OBVIOUS
<1> HIDE DEF lv, said
<1>3. (\E x \in lv : O!OutcomeFails(x, f)) <=> f = "warn" /\ \E a \in rows : a.answered /\ a.state \in O!Affected
  BY <1>1, <1>2, LevelFails
<1>4. "unanswered" \notin lv
  BY <1>1, <1>2
<1> QED
  BY <1>3, <1>4 DEF O!DecideRun, lv

LEMMA LicenseExit ==
  ASSUME NEW rows, NEW f \in {"warn", "deny"}
  PROVE  O!DecideRun(O!LicenseDecision(rows), f) =
            IF f = "warn" /\ \E a \in rows : O!LicenseClassification(a) \in {"error", "drift-osi-to-restrictive"} THEN 1 ELSE 0
<1> DEFINE lv == O!LicenseDecision(rows)
           said(d) == CASE d = "error" -> "not-run"
                        [] d = "drift-osi-to-restrictive" -> "medium"
                        [] OTHER -> "low"
<1>1. \A x : x \in lv <=> \E a \in rows : O!LicenseClassification(a) # "match" /\ x = said(O!LicenseClassification(a))
  BY DEF O!LicenseDecision
<1>2. ASSUME NEW d, NEW x
      PROVE  x = said(d) <=> \/ x = "not-run" /\ d = "error"
                             \/ x = "medium" /\ d = "drift-osi-to-restrictive"
                             \/ x = "low" /\ d \notin {"error", "drift-osi-to-restrictive"}
  OBVIOUS
<1> HIDE DEF lv, said
<1>3. (\E x \in lv : O!OutcomeFails(x, f)) <=>
         f = "warn" /\ \E a \in rows : O!LicenseClassification(a) \in {"error", "drift-osi-to-restrictive"}
  BY <1>1, <1>2, LevelFails
<1>4. "unanswered" \notin lv
  BY <1>1, <1>2
<1> QED
  BY <1>3, <1>4 DEF O!DecideRun, lv

Drifted(a, strict, write) ==
    O!DriftStatus(a) = "DRIFT" /\ IF write THEN ~a.writable ELSE strict

LEMMA DriftExit ==
  ASSUME NEW rows, rows # {}, NEW strict \in BOOLEAN, NEW write \in BOOLEAN
  PROVE  LET silent(a) == O!DriftStatus(a) = "ERROR"
         IN  O!DecideRun(O!DriftDecision(rows, write), IF strict THEN "warn" ELSE "unknown") =
                IF \/ \E a \in rows : Drifted(a, strict, write)
                   \/ (\E a \in rows : silent(a)) /\ \E a \in rows : ~silent(a) THEN 1
                ELSE IF \A a \in rows : silent(a) THEN 2 ELSE 0
<1> DEFINE lv == O!DriftDecision(rows, write)
           silent(a) == O!DriftStatus(a) = "ERROR"
           f == IF strict THEN "warn" ELSE "unknown"
           errors == {a \in rows : silent(a)}
           drifts == {a \in rows : O!DriftStatus(a) = "DRIFT"}
           unapplied == IF write THEN {a \in drifts : ~a.writable} ELSE {}
<1>1. /\ errors = {} <=> \A a \in rows : ~silent(a)
      /\ errors = rows <=> \A a \in rows : silent(a)
      /\ drifts = {} <=> \A a \in rows : O!DriftStatus(a) # "DRIFT"
      /\ unapplied # {} <=> write /\ \E a \in rows : O!DriftStatus(a) = "DRIFT" /\ ~a.writable
  OBVIOUS
<1>2. lv = (IF drifts # {} /\ ~write THEN {"medium"} ELSE {})
           \cup (IF unapplied # {} THEN {"high"} ELSE {})
           \cup (IF errors = {} THEN {} ELSE IF errors # {} /\ errors = rows THEN {"unanswered"} ELSE {"not-run"})
  BY DEF O!DriftDecision
<1> HIDE DEF lv, errors, drifts, unapplied, silent
<1>3. \A x : x \in lv <=> \/ x = "medium" /\ drifts # {} /\ ~write
                          \/ x = "high" /\ unapplied # {}
                          \/ x = "unanswered" /\ errors # {} /\ errors = rows
                          \/ x = "not-run" /\ errors # {} /\ errors # rows
  BY <1>2
<1>4. (\E x \in lv : O!OutcomeFails(x, f)) <=>
         (drifts # {} /\ ~write /\ strict) \/ unapplied # {} \/ (errors # {} /\ errors # rows)
  BY <1>3, LevelFails
<1>5. "unanswered" \in lv <=> errors # {} /\ errors = rows
  BY <1>3
<1>6. O!DecideRun(lv, f) =
         IF \/ \E a \in rows : Drifted(a, strict, write)
            \/ (\E a \in rows : silent(a)) /\ \E a \in rows : ~silent(a) THEN 1
         ELSE IF \A a \in rows : silent(a) THEN 2 ELSE 0
  BY <1>1, <1>4, <1>5 DEF O!DecideRun, Drifted
<1> QED
  BY <1>6 DEF lv, silent

(* What fails a run whatever the other entries' answers are. *)
Bad(command, a, strict, write) ==
    CASE command = "availability" -> AvBad(a, O!FailOn(strict))
      [] command = "identity" -> O!IdentityState(a) \in {"contradicted", "withdrawn"}
      [] command = "posture" -> strict /\ O!PostureState(a) = "weak"
      [] command = "capabilities" -> strict /\ Riskier(a)
      [] command = "upgrade" -> strict /\ a.answered /\ a.state \in O!Affected
      [] command = "docker-drift" -> Drifted(a, strict, write)
      [] OTHER -> strict /\ O!LicenseClassification(a) \in {"error", "drift-osi-to-restrictive"}

(* What leaves a run unanswered if it is all there is. *)
Silent(command, a) ==
    \/ command \in {"availability", "identity", "posture"} /\ ~a.answered
    \/ command = "docker-drift" /\ a.pinned /\ ~a.answered

LEMMA ExitIs ==
  ASSUME NEW command \in O!Commands, NEW rows, rows # {}, \A a \in rows : IsAnswer(command, a),
         NEW strict \in BOOLEAN, NEW write \in BOOLEAN
  PROVE  O!ObserverExit(command, rows, strict, write) =
            IF \/ \E a \in rows : Bad(command, a, strict, write)
               \/ /\ command = "docker-drift" /\ \E a \in rows : Silent(command, a)
                  /\ \E a \in rows : ~Silent(command, a)
            THEN 1
            ELSE IF \A a \in rows : Silent(command, a) THEN 2 ELSE 0
<1> DEFINE f == O!FailOn(strict)
<1>0. f \in {"warn", "deny"} /\ (f = "warn" <=> strict)
  BY DEF O!FailOn
<1>1. CASE command = "availability"
  <2>1. O!ObserverExit(command, rows, strict, write) = O!DecideRun(O!AvailabilityDecision(rows), f)
    BY <1>1 DEF O!ObserverExit
  <2> QED
    BY <1>1, <2>1, AvailabilityExit DEF Bad, Silent
<1>2. CASE command = "identity"
  <2>1. O!ObserverExit(command, rows, strict, write) = O!DecideRun(O!IdentityDecision(rows), "deny")
    BY <1>2 DEF O!ObserverExit
  <2> QED
    BY <1>2, <2>1, IdentityExit DEF Bad, Silent
<1>3. CASE command = "posture"
  <2>1. O!ObserverExit(command, rows, strict, write) = O!DecideRun(O!PostureDecision(rows), f)
    BY <1>3 DEF O!ObserverExit
  <2> HIDE DEF f
  <2> QED
    BY <1>3, <1>0, <2>1, PostureExit DEF Bad, Silent
<1>4. CASE command = "capabilities"
  <2>1. O!ObserverExit(command, rows, strict, write) = O!DecideRun(O!CapabilitiesDecision(rows), f)
    BY <1>4 DEF O!ObserverExit
  <2> HIDE DEF f
  <2> QED
    BY <1>4, <1>0, <2>1, CapabilitiesExit DEF Bad, Silent
<1>5. CASE command = "upgrade"
  <2>1. O!ObserverExit(command, rows, strict, write) = O!DecideRun(O!UpgradeDecision(rows), f)
    BY <1>5 DEF O!ObserverExit
  <2> HIDE DEF f
  <2> QED
    BY <1>5, <1>0, <2>1, UpgradeExit DEF Bad, Silent
<1>6. CASE command = "license-drift"
  <2>1. O!ObserverExit(command, rows, strict, write) = O!DecideRun(O!LicenseDecision(rows), f)
    BY <1>6 DEF O!ObserverExit
  <2> HIDE DEF f
  <2> QED
    BY <1>6, <1>0, <2>1, LicenseExit DEF Bad, Silent
<1>7. CASE command = "docker-drift"
  <2>1. O!ObserverExit(command, rows, strict, write)
           = O!DecideRun(O!DriftDecision(rows, write), IF strict THEN "warn" ELSE "unknown")
    BY <1>7 DEF O!ObserverExit
  <2>2. \A a \in rows : (O!DriftStatus(a) = "ERROR") <=> Silent(command, a)
    BY <1>7 DEF O!DriftStatus, Silent
  <2>3. \A a \in rows : Bad(command, a, strict, write) <=> Drifted(a, strict, write)
    BY <1>7 DEF Bad
  <2> QED
    BY <1>7, <2>1, <2>2, <2>3, DriftExit
<1> QED
  BY <1>1, <1>2, <1>3, <1>4, <1>5, <1>6, <1>7 DEF O!Commands

(* Bad without --strict is bad with it. *)
LEMMA StrictIsWorse ==
  ASSUME NEW command, NEW a, NEW strict \in BOOLEAN, NEW write \in BOOLEAN, Bad(command, a, strict, write)
  PROVE  Bad(command, a, TRUE, write)
  BY DEF Bad, AvBad, Drifted, O!FailOn

LEMMA ObserverExitEarned ==
  ASSUME NEW command \in O!Commands, NEW rows, rows # {}, \A a \in rows : IsAnswer(command, a),
         NEW strict \in BOOLEAN, NEW write \in BOOLEAN
  PROVE  O!ObserverExitIsEarned(command, rows, strict, write)
<1> DEFINE exit == O!ObserverExit(command, rows, strict, write)
           one(a) == O!ObserverExit(command, {a}, strict, write)
           alone == {one(a) : a \in rows}
<1>1. \A a \in rows : one(a) = IF Bad(command, a, strict, write) THEN 1 ELSE IF Silent(command, a) THEN 2 ELSE 0
  <2> SUFFICES ASSUME NEW a \in rows
               PROVE  one(a) = IF Bad(command, a, strict, write) THEN 1 ELSE IF Silent(command, a) THEN 2 ELSE 0
    OBVIOUS
  <2> DEFINE only == {a}
  <2>1. only # {} /\ \A b \in only : b = a /\ IsAnswer(command, b)
    OBVIOUS
  <2>2. a \in only
    OBVIOUS
  <2> HIDE DEF only
  <2>3. O!ObserverExit(command, only, strict, write) =
            IF Bad(command, a, strict, write) THEN 1 ELSE IF Silent(command, a) THEN 2 ELSE 0
    BY <2>1, <2>2, ExitIs
  <2> QED
    BY <2>3 DEF only
<1>2. exit = IF \/ \E a \in rows : Bad(command, a, strict, write)
                \/ /\ command = "docker-drift" /\ \E a \in rows : Silent(command, a)
                   /\ \E a \in rows : ~Silent(command, a)
             THEN 1
             ELSE IF \A a \in rows : Silent(command, a) THEN 2 ELSE 0
  BY ExitIs
<1>3. exit = 1 => O!ObserverExit(command, rows, TRUE, write) = 1
  <2>1. O!ObserverExit(command, rows, TRUE, write) =
            IF \/ \E a \in rows : Bad(command, a, TRUE, write)
               \/ /\ command = "docker-drift" /\ \E a \in rows : Silent(command, a)
                  /\ \E a \in rows : ~Silent(command, a)
            THEN 1
            ELSE IF \A a \in rows : Silent(command, a) THEN 2 ELSE 0
    BY ExitIs
  <2> QED
    BY <1>2, <2>1, StrictIsWorse
<1> HIDE DEF exit, one
<1>4. 1 \in alone => exit = 1
  BY <1>1, <1>2
<1>5. exit = 1 => 1 \in alone \/ (command = "docker-drift" /\ 2 \in alone)
  BY <1>1, <1>2
<1>6. exit = 2 => alone = {2}
  BY <1>1, <1>2
<1>7. command \in {"availability", "identity", "posture"} /\ exit = 0 => \E a \in rows : a.answered
  BY <1>2 DEF Silent
<1>8. command = "docker-drift" /\ exit = 0 => \A a \in rows : a.pinned => a.answered
  BY <1>2 DEF Silent
<1> QED
  BY <1>3, <1>4, <1>5, <1>6, <1>7, <1>8 DEF O!ObserverExitIsEarned, exit, one

-----------------------------------------------------------------------------
(***************************************************************************)
(* Flows of a set (Flows): a flow is found wherever its labels are, however*)
(* the set is cut to its front.                                            *)
(***************************************************************************)

(* The members of a set, as Flows labels them. *)
Labelled(members) == {F!LabelServer(members[i]) : i \in DOMAIN members}

Offered(servers, needed) == \A l \in needed : \E s \in servers : F!Holds(s, l)
Sure(servers, needed) == \A l \in needed : \E s \in servers : F!Strong(s, l)

LEMMA Kinds == /\ DOMAIN F!FlowKinds = {"trifecta", "destructive"}
               /\ F!FlowKinds["trifecta"] = {"untrusted", "private", "sink"}
               /\ F!FlowKinds["destructive"] = {"untrusted", "destructive"}
  BY DEF F!FlowKinds

(* What is told of one kind. *)
Alone(labelled, needed) ==
    {s \in labelled : (\A l \in needed : F!Holds(s, l))
                         /\ F!ConfidenceOf({s}, needed) = F!ConfidenceOf(labelled, needed)}
GroupsOf(labelled, needed) ==
    IF Alone(labelled, needed) # {} THEN {{s} : s \in Alone(labelled, needed)} ELSE {labelled}
FlowOf(kind, g, labelled) ==
    [kind |-> kind, confidence |-> F!ConfidenceOf(g, F!FlowKinds[kind]),
     single |-> Alone(labelled, F!FlowKinds[kind]) # {},
     servers |-> {s.name : s \in {x \in g : \E l \in F!FlowKinds[kind] : F!Holds(x, l)}}]

LEMMA FlowsAre ==
  ASSUME NEW labelled, NEW f
  PROVE  f \in F!FindFlows(labelled) <=>
            \E kind \in DOMAIN F!FlowKinds :
               /\ Offered(labelled, F!FlowKinds[kind])
               /\ \E g \in GroupsOf(labelled, F!FlowKinds[kind]) : f = FlowOf(kind, g, labelled)
<1> DEFINE told(kind) == IF \E l \in F!FlowKinds[kind] : \A s \in labelled : ~F!Holds(s, l) THEN {}
                         ELSE {FlowOf(kind, g, labelled) : g \in GroupsOf(labelled, F!FlowKinds[kind])}
<1>1. F!FindFlows(labelled) = UNION {told(kind) : kind \in DOMAIN F!FlowKinds}
  BY DEF F!FindFlows, FlowOf, GroupsOf, Alone
<1>2. ASSUME NEW kind \in DOMAIN F!FlowKinds
      PROVE  f \in told(kind) <=> /\ Offered(labelled, F!FlowKinds[kind])
                                  /\ \E g \in GroupsOf(labelled, F!FlowKinds[kind]) : f = FlowOf(kind, g, labelled)
  BY DEF Offered
<1> HIDE DEF told
<1> QED
  BY <1>1, <1>2

LEMMA StrongHolds == ASSUME NEW s, NEW l, F!Strong(s, l) PROVE F!Holds(s, l)
  BY DEF F!Strong, F!Holds

LEMMA ConfidenceIs ==
  ASSUME NEW servers, NEW needed
  PROVE  /\ F!ConfidenceOf(servers, needed) \in {"high", "low"}
         /\ F!ConfidenceOf(servers, needed) = "high" <=> Sure(servers, needed)
  BY DEF F!ConfidenceOf, Sure

(* One flow of a kind: as sure as the set, by the servers it names. *)
LEMMA FlowHolds ==
  ASSUME NEW labelled, NEW kind \in DOMAIN F!FlowKinds, Offered(labelled, F!FlowKinds[kind]),
         NEW g \in GroupsOf(labelled, F!FlowKinds[kind])
  PROVE  /\ FlowOf(kind, g, labelled).kind = kind
         /\ FlowOf(kind, g, labelled).confidence = "high" <=> Sure(labelled, F!FlowKinds[kind])
         /\ \A l \in F!FlowKinds[kind] : \E s \in labelled :
               /\ s.name \in FlowOf(kind, g, labelled).servers /\ F!Holds(s, l)
               /\ Sure(labelled, F!FlowKinds[kind]) => F!Strong(s, l)
<1> DEFINE needed == F!FlowKinds[kind]
           f == FlowOf(kind, g, labelled)
<1>1. /\ f.kind = kind /\ f.confidence = F!ConfidenceOf(g, needed)
      /\ f.servers = {s.name : s \in {x \in g : \E l \in needed : F!Holds(x, l)}}
  BY DEF FlowOf
<1>2. CASE Alone(labelled, needed) # {}
  <2>1. PICK s \in Alone(labelled, needed) : g = {s}
    BY <1>2 DEF GroupsOf
  <2>2. /\ s \in labelled /\ \A l \in needed : F!Holds(s, l)
        /\ F!ConfidenceOf(g, needed) = F!ConfidenceOf(labelled, needed)
    BY <2>1 DEF Alone
  <2>3. F!ConfidenceOf(g, needed) = "high" <=> \A l \in needed : F!Strong(s, l)
    BY <2>1, ConfidenceIs DEF Sure
  <2>4. \A l \in needed : s.name \in f.servers
    BY <1>1, <2>1, <2>2
  <2> QED
    BY <1>1, <2>2, <2>3, <2>4, ConfidenceIs
<1>3. CASE Alone(labelled, needed) = {}
  <2>1. g = labelled
    BY <1>3 DEF GroupsOf
  <2>2. \A l \in needed, s \in labelled : F!Holds(s, l) => s.name \in f.servers
    BY <1>1, <2>1
  <2> QED
    BY <1>1, <2>1, <2>2, ConfidenceIs, StrongHolds DEF Offered, Sure
<1> QED
  BY <1>2, <1>3

(* A kind every leg of which is strong is told. *)
LEMMA SureIsTold ==
  ASSUME NEW labelled, NEW kind \in DOMAIN F!FlowKinds, Sure(labelled, F!FlowKinds[kind])
  PROVE  \E f \in F!FindFlows(labelled) : f.kind = kind /\ f.confidence = "high"
<1>1. Offered(labelled, F!FlowKinds[kind])
  BY StrongHolds DEF Offered, Sure
<1>2. PICK g \in GroupsOf(labelled, F!FlowKinds[kind]) : TRUE
  BY DEF GroupsOf
<1> QED
  BY <1>1, <1>2, FlowsAre, FlowHolds

LEMMA FlowsTold ==
  ASSUME NEW members, members = [i \in 1 .. Len(members) |-> members[i]], Len(members) \in Nat
  PROVE  F!FlowsAreTold(members)
<1> DEFINE labelled == Labelled(members)
<1>1. F!AnalyseSet(members).flows = F!FindFlows(labelled)
  BY DEF F!AnalyseSet, Labelled
<1>2. /\ Labelled(F!Front(members)) \subseteq labelled
      /\ F!AnalyseSet(F!Front(members)).flows = F!FindFlows(Labelled(F!Front(members)))
  <2>1. F!AnalyseSet(F!Front(members)).flows = F!FindFlows(Labelled(F!Front(members)))
    BY DEF F!AnalyseSet, Labelled
  <2>2. \A i \in DOMAIN F!Front(members) : i \in DOMAIN members /\ F!Front(members)[i] = members[i]
    BY DEF F!Front
  <2> QED
    BY <2>1, <2>2 DEF Labelled
<1> HIDE DEF labelled
<1>3. ASSUME NEW kind \in DOMAIN F!FlowKinds, Sure(labelled, F!FlowKinds[kind])
      PROVE  {f \in F!AnalyseSet(members).flows : f.kind = kind} # {}
  BY <1>1, <1>3, SureIsTold
<1>4. ASSUME NEW f \in F!AnalyseSet(members).flows
      PROVE  /\ f.confidence = "high" <=> Sure(labelled, F!FlowKinds[f.kind])
             /\ \A l \in F!FlowKinds[f.kind] : \E s \in {x \in labelled : x.name \in f.servers} :
                   F!Holds(s, l) /\ (Sure(labelled, F!FlowKinds[f.kind]) => F!Strong(s, l))
  BY <1>1, FlowsAre, FlowHolds
<1>5. ASSUME NEW f \in F!AnalyseSet(F!Front(members)).flows, f.confidence = "high"
      PROVE  Sure(labelled, F!FlowKinds[f.kind])
  <2>1. Sure(Labelled(F!Front(members)), F!FlowKinds[f.kind])
    BY <1>2, <1>5, FlowsAre, FlowHolds
  <2> QED
    BY <1>2, <2>1 DEF Sure
<1> DEFINE sees(ms) == F!AnalyseSet(ms).flows
<1>6. ASSUME NEW kind \in DOMAIN F!FlowKinds
      PROVE  LET of == {f \in sees(members) : f.kind = kind}
                 sure == \A l \in F!FlowKinds[kind] : \E s \in labelled : F!Strong(s, l)
             IN  /\ sure => of # {}
                 /\ \A f \in of :
                       /\ f.confidence = "high" <=> sure
                       /\ \A l \in F!FlowKinds[kind] :
                             \E s \in {x \in labelled : x.name \in f.servers} : F!Holds(s, l) /\ (sure => F!Strong(s, l))
                 /\ \A f \in sees(F!Front(members)) :
                       (f.kind = kind /\ f.confidence = "high") => sure
  BY <1>3, <1>4, <1>5 DEF Sure
<1> HIDE DEF sees
<1> QED
  BY <1>6 DEF F!FlowsAreTold, labelled, Labelled, sees

-----------------------------------------------------------------------------
(***************************************************************************)
(* A setup (SetupAudit): what a strict audit that passes has seen, and why *)
(* `status` fails where the audit does.                                    *)
(***************************************************************************)

LEMMA RowEffects ==
  /\ \A c \in {"drift", "untrusted", "heavy-unbounded", "lookalike"} : RowEffect(c) = "warn"
  /\ RowEffect("unknown") = "unknown"
  /\ \A c \in {"lookalike-allowed", "version-unknown", "scope"} : RowEffect(c) = "allow"
  BY DEF RowEffect

(* What the audit says of a server, in the words of the model. *)
Spec_Of(s, p) == ServersFrom(s.config[p[1]])[p[2]]
CmdOf(s, p) == ToInstallCmd(Spec_Of(s, p))
MatchOf(s, p) == MatchLaunch(s.vault, CmdOf(s, p))

LEMMA AuditedAre ==
  ASSUME NEW s, NEW p \in Audited(s)
  PROVE  /\ p = <<p[1], p[2]>> /\ p[1] \in {ProjectFile, GlobalFile}
         /\ p[2] \in DOMAIN ServersFrom(s.config[p[1]])
  BY DEF Audited

LEMMA AuditRows ==
  ASSUME NEW s, NEW r
  PROVE  r \in Audit(s) <=>
            \E p \in Audited(s) : \E c \in ServerCategories(s, p[1], p[2], Spec_Of(s, p), CmdOf(s, p), MatchOf(s, p)) :
               r = <<c, p[2], p[1]>>
  BY DEF Audit, AuditServer, Spec_Of, CmdOf, MatchOf

LEMMA OddIsUnread ==
  ASSUME NEW s, NEW p \in Audited(s), Spec_Of(s, p) = Odd PROVE AuditUnreadable(s) # {}
<1>1. /\ p[1] \in {ProjectFile, GlobalFile}
      /\ p[2] \in DOMAIN ServersFrom(s.config[p[1]])
  BY AuditedAre
<1> DEFINE file == s.config[p[1]]
<1>2. file \notin {Null, Broken} /\ IsTable(file.mcpServers) /\ ServersFrom(file) = file.mcpServers
  BY <1>1 DEF ServersFrom
<1>3. p[1] \in AuditUnreadable(s)
  BY <1>1, <1>2 DEF AuditUnreadable, Spec_Of
<1> QED
  BY <1>3

LEMMA StrictAudit ==
  ASSUME NEW s PROVE StrictAuditIsEarned(s)
<1> SUFFICES ASSUME s.policy.strict, AuditExit(s) = 0
             PROVE  /\ \A l \in {ProjectFile, GlobalFile} : s.config[l] # Broken /\ ~s.plain
                    /\ \A p \in Audited(s) :
                          LET spec == ServersFrom(s.config[p[1]])[p[2]]
                              cmd == ToInstallCmd(spec)
                              m == MatchLaunch(s.vault, cmd)
                              pinned == TokenVersion(s.vault[m.entry].cmd)
                          IN  /\ spec # Odd
                              /\ \/ Vouched(s, p[2], cmd)
                                 \/ /\ m.entry # Null /\ s.vault[m.entry].trust # "candidate"
                                    /\ (Artifact(cmd).version # Null /\ IsExactVersion(pinned)) =>
                                          \/ m.version = "same" \/ TokenVersion(spec.cmd) = pinned
                                          \/ <<"version-unknown", p[2], p[1]>> \in Audit(s)
  BY DEF StrictAuditIsEarned
<1>1. /\ \A r \in Audit(s) : RowEffect(r[1]) \notin {"fail", "warn", "unknown"}
      /\ ~s.plain /\ AuditUnreadable(s) = {}
  <2> DEFINE rows == {RowEffect(r[1]) : r \in Audit(s)}
             sets == JudgeSet(s, SessionMembers(s))
             secrets == IF s.plain THEN {"fail"} ELSE {}
             loading == IF s.policy.broken THEN {"warn"} ELSE {}
             effects == rows \cup sets \cup secrets \cup loading
  <2>1. SetupExit(s, effects, AuditUnreadable(s) # {}) = 0
    BY DEF AuditExit
  <2> HIDE DEF rows, sets, loading
  <2>2. effects \cap {"fail", "warn", "unknown"} = {} /\ AuditUnreadable(s) = {}
    BY <2>1 DEF SetupExit
  <2> QED
    BY <2>2 DEF rows
<1>2. \A l \in {ProjectFile, GlobalFile} : s.config[l] # Broken
  BY <1>1, HostConfigConstants DEF AuditUnreadable
<1>3. ASSUME NEW p \in Audited(s)
      PROVE  /\ Spec_Of(s, p) # Odd
             /\ \/ Vouched(s, p[2], CmdOf(s, p))
                \/ /\ MatchOf(s, p).entry # Null /\ s.vault[MatchOf(s, p).entry].trust # "candidate"
                   /\ IsExactVersion(TokenVersion(s.vault[MatchOf(s, p).entry].cmd)) =>
                         \/ MatchOf(s, p).version = "same"
                         \/ TokenVersion(Spec_Of(s, p).cmd) = TokenVersion(s.vault[MatchOf(s, p).entry].cmd)
                         \/ <<"version-unknown", p[2], p[1]>> \in Audit(s)
  <2> DEFINE match == MatchOf(s, p)
             told == ServerCategories(s, p[1], p[2], Spec_Of(s, p), CmdOf(s, p), match)
             pinned == TokenVersion(s.vault[match.entry].cmd)
             here == TokenVersion(Spec_Of(s, p).cmd)
  <2>1. \A c \in told : <<c, p[2], p[1]>> \in Audit(s) /\ RowEffect(c) \notin {"fail", "warn", "unknown"}
    <3> SUFFICES ASSUME NEW c \in told
                 PROVE  <<c, p[2], p[1]>> \in Audit(s) /\ RowEffect(c) \notin {"fail", "warn", "unknown"}
      OBVIOUS
    <3>1. <<c, p[2], p[1]>> \in Audit(s)
      BY AuditRows
    <3> QED
      BY <1>1, <3>1
  <2>2. \A c \in {"drift", "untrusted", "heavy-unbounded", "lookalike", "unknown"} : c \notin told
    BY <2>1, RowEffects
  <2>3. Spec_Of(s, p) # Odd
    BY <1>1, OddIsUnread
  <2>4. CASE LookalikeOf(s.vault, p[2], CmdOf(s, p), match.entry) # Null
    <3>1. told = {IF Vouched(s, p[2], CmdOf(s, p)) THEN "lookalike-allowed" ELSE "lookalike"}
      BY <2>4 DEF ServerCategories
    <3> QED
      BY <2>2, <2>3, <3>1
  <2>5. CASE LookalikeOf(s.vault, p[2], CmdOf(s, p), match.entry) = Null
    <3>1. told = IF match.entry = Null THEN {"unknown"} ELSE EntryCategories(s, p[1], p[2], Spec_Of(s, p), match)
      BY <2>5 DEF ServerCategories
    <3>2. match.entry # Null /\ told = EntryCategories(s, p[1], p[2], Spec_Of(s, p), match)
      BY <2>2, <3>1
    <3>3. s.vault[match.entry].trust # "candidate"
      BY <2>2, <3>2 DEF EntryCategories
    <3>4. pinned # Null /\ here # Null /\ match.version # "same" => pinned = here
      BY <2>2, <3>2 DEF EntryCategories
    <3>5. pinned # Null /\ here = Null => "version-unknown" \in told
      BY <3>2 DEF EntryCategories
    <3>6. IsExactVersion(pinned) => pinned # Null
      BY LaunchConstants DEF IsExactVersion
    <3> QED
      BY <2>1, <2>3, <3>2, <3>3, <3>4, <3>5, <3>6
  <2> QED
    BY <2>4, <2>5
<1> QED
  BY <1>1, <1>2, <1>3 DEF Spec_Of, CmdOf, MatchOf

(* A finite set in some order: each of its elements once. *)
LEMMA InSomeOrder ==
  ASSUME NEW S, IsFiniteSet(S)
  PROVE  LET f == SetToSeq(S) IN
            /\ f = [i \in 1 .. Cardinality(S) |-> f[i]] /\ Cardinality(S) \in Nat
            /\ \A i \in DOMAIN f : f[i] \in S
            /\ \A i, j \in DOMAIN f : f[i] = f[j] => i = j
            /\ \A x \in S : \E i \in DOMAIN f : f[i] = x
<1> DEFINE D == 1 .. Cardinality(S)
           f == SetToSeq(S)
<1>1. Cardinality(S) \in Nat /\ ExistsBijection(D, S)
  BY FS_CardinalityType
<1>2. PICK g \in Bijection(D, S) : TRUE
  BY <1>1 DEF ExistsBijection
<1>3. g \in [D -> S] /\ IsInjective(g)
  BY <1>2 DEF Bijection, Injection
<1>4. f \in [D -> S] /\ IsInjective(f)
  BY <1>3 DEF SetToSeq
<1>5. f \in Injection(D, S)
  BY <1>4 DEF Injection
<1>6. IsFiniteSet(D) /\ Cardinality(D) = Cardinality(S)
  BY <1>1, FS_Interval
<1>7. f \in Surjection(D, S)
  BY <1>5, <1>6, FS_Injection
<1> HIDE DEF f
<1> QED
  BY <1>1, <1>4, <1>7 DEF IsInjective, Surjection, f

LEMMA FiniteImage ==
  ASSUME NEW S, IsFiniteSet(S), NEW f, DOMAIN f = S
  PROVE  IsFiniteSet({f[x] : x \in S})
<1> DEFINE T == {f[x] : x \in S}
           g == [x \in S |-> f[x]]
<1>1. g \in Surjection(S, T)
  BY DEF Surjection
<1> QED
  BY <1>1, FS_Surjection

LEMMA AnalysisOf ==
  ASSUME NEW members
  PROVE  /\ F!AnalyseSet(members).flows = F!FindFlows(Labelled(members))
         /\ F!AnalyseSet(members).shadowing =
              UNION {F!FindShadowing(F!LabelServer(members[p[1]]), F!LabelServer(members[p[2]]))
                        \cup F!FindMentions(F!LabelServer(members[p[1]]), F!LabelServer(members[p[2]]))
                        \cup F!FindMentions(F!LabelServer(members[p[2]]), F!LabelServer(members[p[1]])) :
                     p \in {q \in (DOMAIN members) \X (DOMAIN members) : q[1] < q[2]}}
<1> DEFINE labelled == [i \in DOMAIN members |-> F!LabelServer(members[i])]
           both(a, b) == F!FindShadowing(a, b) \cup F!FindMentions(a, b) \cup F!FindMentions(b, a)
           pairs == {q \in (DOMAIN members) \X (DOMAIN members) : q[1] < q[2]}
<1>1. /\ F!AnalyseSet(members).flows = F!FindFlows({labelled[i] : i \in DOMAIN labelled})
      /\ F!AnalyseSet(members).shadowing = UNION {both(labelled[p[1]], labelled[p[2]]) : p \in pairs}
  BY DEF F!AnalyseSet
<1>2. {labelled[i] : i \in DOMAIN labelled} = Labelled(members)
  BY DEF Labelled
<1>3. \A p \in pairs : labelled[p[1]] = F!LabelServer(members[p[1]]) /\ labelled[p[2]] = F!LabelServer(members[p[2]])
  OBVIOUS
<1> HIDE DEF pairs, labelled
<1> QED
  BY <1>1, <1>2, <1>3 DEF pairs

(* What is told of two labelled servers, and how surely. *)
Told(a, b) == F!FindShadowing(a, b) \cup F!FindMentions(a, b) \cup F!FindMentions(b, a)

LEMMA ShadowingIs ==
  ASSUME NEW members, NEW c
  PROVE  c \in F!AnalyseSet(members).shadowing <=>
            \E i, j \in DOMAIN members :
               i < j /\ c \in Told(F!LabelServer(members[i]), F!LabelServer(members[j]))
<1> DEFINE at(i) == F!LabelServer(members[i])
           pairs == {q \in (DOMAIN members) \X (DOMAIN members) : q[1] < q[2]}
<1>1. F!AnalyseSet(members).shadowing = UNION {Told(at(p[1]), at(p[2])) : p \in pairs}
  BY AnalysisOf DEF Told
<1>2. ASSUME NEW i \in DOMAIN members, NEW j \in DOMAIN members, i < j
      PROVE  <<i, j>> \in pairs /\ <<i, j>>[1] = i /\ <<i, j>>[2] = j
  BY <1>2
<1>3. \A p \in pairs : p[1] \in DOMAIN members /\ p[2] \in DOMAIN members /\ p[1] < p[2]
  OBVIOUS
<1> HIDE DEF pairs, at
<1>4. c \in F!AnalyseSet(members).shadowing <=> \E p \in pairs : c \in Told(at(p[1]), at(p[2]))
  BY <1>1
<1>5. (\E p \in pairs : c \in Told(at(p[1]), at(p[2]))) <=>
         \E i, j \in DOMAIN members : i < j /\ c \in Told(at(i), at(j))
  BY <1>2, <1>3
<1> QED
  BY <1>4, <1>5 DEF at

LEMMA ShadowingEitherWay ==
  ASSUME NEW a, NEW b, NEW c \in Told(a, b), c.confidence # "low"
  PROVE  \E d \in Told(b, a) : d.confidence = c.confidence
<1>1. CASE c \in F!FindMentions(a, b) \cup F!FindMentions(b, a)
  BY <1>1 DEF Told
<1>2. CASE c \in F!FindShadowing(a, b)
  <2> DEFINE same(x, y) == {p \in x.tools \X y.tools : p[1].norm = p[2].norm}
             exact(p) == [kind |-> IF p[1].style = p[2].style THEN "exact" ELSE "normalized",
                          confidence |-> "high", tools |-> p]
  <2>1. PICK p \in same(a, b) : c = exact(p)
    BY <1>2 DEF F!FindShadowing
  <2>2. <<p[2], p[1]>> \in same(b, a)
    OBVIOUS
  <2>3. exact(<<p[2], p[1]>>) \in F!FindShadowing(b, a)
    BY <2>2 DEF F!FindShadowing
  <2> QED
    BY <2>1, <2>3 DEF Told
<1> QED
  BY <1>1, <1>2 DEF Told

(* What a policy says of a set it says of every larger one, if it is said  *)
(* at all.                                                                 *)
LEMMA JudgedOfMore ==
  ASSUME NEW policy, NEW S, NEW T, IsFiniteSet(T), S \subseteq T,
         NEW x \in JudgeAnalysis(policy, F!AnalyseSet(SetToSeq(S)))
  PROVE  x = "allow" \/ x \in JudgeAnalysis(policy, F!AnalyseSet(SetToSeq(T)))
<1> DEFINE f == SetToSeq(S)
           g == SetToSeq(T)
<1>1. IsFiniteSet(S)
  BY FS_Subset
<1>2. /\ f = [i \in 1 .. Cardinality(S) |-> f[i]] /\ Cardinality(S) \in Nat
      /\ \A i \in DOMAIN f : f[i] \in S
      /\ \A i, j \in DOMAIN f : f[i] = f[j] => i = j
  BY <1>1, InSomeOrder
<1>3. /\ g = [i \in 1 .. Cardinality(T) |-> g[i]] /\ Cardinality(T) \in Nat
      /\ \A t \in T : \E i \in DOMAIN g : g[i] = t
  BY InSomeOrder
<1> HIDE DEF f, g
<1>4. Labelled(f) \subseteq Labelled(g)
  BY <1>2, <1>3 DEF Labelled
<1>5. CASE \E c \in F!AnalyseSet(f).flows : x = F!SetJudged(policy.toxicFlows, c.confidence)
  <2>1. PICK c \in F!FindFlows(Labelled(f)) : x = F!SetJudged(policy.toxicFlows, c.confidence)
    BY <1>5, AnalysisOf
  <2>2. PICK kind \in DOMAIN F!FlowKinds :
           /\ c.confidence = "high" <=> Sure(Labelled(f), F!FlowKinds[kind])
           /\ c.confidence \in {"high", "low"}
    <3>1. PICK k \in DOMAIN F!FlowKinds :
              /\ Offered(Labelled(f), F!FlowKinds[k])
              /\ \E h \in GroupsOf(Labelled(f), F!FlowKinds[k]) : c = FlowOf(k, h, Labelled(f))
      BY <2>1, FlowsAre
    <3>2. PICK h \in GroupsOf(Labelled(f), F!FlowKinds[k]) : c = FlowOf(k, h, Labelled(f))
      BY <3>1
    <3>3. c.confidence = "high" <=> Sure(Labelled(f), F!FlowKinds[k])
      BY <3>1, <3>2, FlowHolds
    <3>4. c.confidence = F!ConfidenceOf(h, F!FlowKinds[k])
      BY <3>2 DEF FlowOf
    <3> QED
      BY <3>3, <3>4, ConfidenceIs
  <2>3. CASE c.confidence = "high"
    <3>1. Sure(Labelled(g), F!FlowKinds[kind])
      BY <1>4, <2>2, <2>3 DEF Sure
    <3>2. PICK d \in F!FindFlows(Labelled(g)) : d.confidence = "high"
      BY <3>1, SureIsTold
    <3>3. x = F!SetJudged(policy.toxicFlows, d.confidence) /\ d \in F!AnalyseSet(g).flows
      BY <2>1, <2>3, <3>2, AnalysisOf
    <3> QED
      BY <3>3 DEF JudgeAnalysis, g
  <2>4. CASE c.confidence = "low"
    BY <2>1, <2>4 DEF F!SetJudged
  <2> QED
    BY <2>2, <2>3, <2>4
<1>6. CASE \E c \in F!AnalyseSet(f).shadowing : x = F!SetJudged(policy.toolShadowing, c.confidence)
  <2>1. PICK c \in F!AnalyseSet(f).shadowing : x = F!SetJudged(policy.toolShadowing, c.confidence)
    BY <1>6
  <2>2. PICK i, j \in DOMAIN f : i < j /\ c \in Told(F!LabelServer(f[i]), F!LabelServer(f[j]))
    BY <2>1, ShadowingIs
  <2>3. f[i] # f[j] /\ f[i] \in T /\ f[j] \in T
    BY <1>2, <2>2
  <2>4. PICK k, l \in DOMAIN g : g[k] = f[i] /\ g[l] = f[j]
    BY <1>3, <2>3
  <2>5. k < l \/ l < k
    BY <1>3, <2>3, <2>4
  <2>6. CASE c.confidence = "low"
    BY <2>1, <2>6 DEF F!SetJudged
  <2>7. CASE c.confidence # "low"
    <3>1. PICK d \in Told(F!LabelServer(g[k]), F!LabelServer(g[l])) \cup Told(F!LabelServer(g[l]), F!LabelServer(g[k])) :
             d.confidence = c.confidence /\ d \in F!AnalyseSet(g).shadowing
      <4>1. CASE k < l
        <5>1. c \in F!AnalyseSet(g).shadowing
          BY <2>2, <2>4, <4>1, ShadowingIs
        <5> QED
          BY <2>2, <2>4, <5>1
      <4>2. CASE l < k
        <5>1. PICK d \in Told(F!LabelServer(g[l]), F!LabelServer(g[k])) : d.confidence = c.confidence
          BY <2>2, <2>4, <2>7, ShadowingEitherWay
        <5>2. d \in F!AnalyseSet(g).shadowing
          BY <4>2, <5>1, ShadowingIs
        <5> QED
          BY <5>1, <5>2
      <4> QED
        BY <2>5, <4>1, <4>2
    <3>2. x = F!SetJudged(policy.toolShadowing, d.confidence)
      BY <2>1, <3>1
    <3> QED
      BY <3>1, <3>2 DEF JudgeAnalysis, g
  <2> QED
    BY <2>6, <2>7
<1> QED
  BY <1>5, <1>6 DEF JudgeAnalysis, f

(* A setup whose lists are lists. *)
Listable(s) ==
    \A l \in Locations : s.config[l] \notin {Null, Broken} =>
        IsList(s.config[l].mcpServers) /\ IsList(s.config[l].servers)

(* What status reads of a server, from what the audit reads of it. *)
RowOf(s, p) == [host |-> p[1][1], scope |-> p[1][2], name |-> p[2], cmd |-> CmdOf(s, p)]

LEMMA AuditedIsInstalled ==
  ASSUME NEW s, NEW p \in Audited(s), Spec_Of(s, p) # Odd
  PROVE  /\ RowOf(s, p) \in ReadInstalledServers(s.config)
         /\ RowOf(s, p).host = "claude-code" /\ RowOf(s, p).name = p[2] /\ RowOf(s, p).cmd = CmdOf(s, p)
         /\ InstalledAs(s, RowOf(s, p), MatchOf(s, p)) \in Installed(s)
<1> DEFINE l == p[1]
           file == s.config[l]
           read == ParseConfig(file)
           row(k, n) == [host |-> k[1], scope |-> k[2], name |-> n, cmd |-> ToInstallCmd(ParseConfig(s.config[k])[n])]
<1>1. l \in {ProjectFile, GlobalFile} /\ p[2] \in DOMAIN ServersFrom(file)
  BY AuditedAre
<1>2. l \in Locations /\ l[1] = "claude-code"
  BY <1>1 DEF Locations, HostConfigPaths, ProjectFile, GlobalFile
<1>3. file \notin {Null, Broken} /\ IsTable(file.mcpServers) /\ ServersFrom(file) = file.mcpServers
  BY <1>1 DEF ServersFrom
<1>4. ListOf(file) = file.mcpServers
  BY <1>3 DEF ListOf, IsTable
<1>5. read = [n \in {x \in DOMAIN file.mcpServers : file.mcpServers[x] # Odd} |-> file.mcpServers[n]]
  BY <1>3, <1>4 DEF ParseConfig
<1>6. p[2] \in DOMAIN read /\ read[p[2]] = Spec_Of(s, p)
  BY <1>1, <1>3, <1>5 DEF Spec_Of
<1>7. RowOf(s, p) = row(l, p[2])
  BY <1>6 DEF RowOf, CmdOf
<1>8. row(l, p[2]) \in ReadInstalledServers(s.config)
  <2> DEFINE rows(k) == {row(k, n) : n \in DOMAIN ParseConfig(s.config[k])}
  <2>1. ReadInstalledServers(s.config) = UNION {rows(k) : k \in Locations}
    BY DEF ReadInstalledServers
  <2>2. row(l, p[2]) \in rows(l)
    BY <1>6
  <2> HIDE DEF rows, row, l
  <2> QED
    BY <1>2, <2>1, <2>2
<1>9. RowOf(s, p).cmd = CmdOf(s, p) /\ RowOf(s, p).host = "claude-code" /\ RowOf(s, p).name = p[2]
  BY <1>2 DEF RowOf
<1> HIDE DEF row, read, file, l
<1> QED
  BY <1>7, <1>8, <1>9 DEF Installed, MatchOf

LEMMA InstalledIsFinite ==
  ASSUME NEW s, Listable(s) PROVE IsFiniteSet(Installed(s))
<1> DEFINE read(l) == ParseConfig(s.config[l])
           row(l, n) == [host |-> l[1], scope |-> l[2], name |-> n, cmd |-> ToInstallCmd(read(l)[n])]
           rows(l) == {row(l, n) : n \in DOMAIN read(l)}
<1>1. ASSUME NEW l \in Locations PROVE IsFiniteSet(DOMAIN read(l))
  <2> DEFINE file == s.config[l]
  <2>1. CASE file \in {Null, Broken} \/ ~IsTable(ListOf(file))
    <3>1. DOMAIN read(l) = {}
      BY <2>1 DEF ParseConfig
    <3> QED
      BY <3>1, FS_EmptySet
  <2>2. CASE file \notin {Null, Broken} /\ IsTable(ListOf(file))
    <3>1. DOMAIN read(l) = {x \in DOMAIN ListOf(file) : ListOf(file)[x] # Odd}
      BY <2>2 DEF ParseConfig
    <3>2. IsFiniteSet(DOMAIN ListOf(file))
      BY <2>2 DEF Listable, IsList, ListOf
    <3> HIDE DEF file
    <3> QED
      BY <3>1, <3>2, FS_Subset
  <2> QED
    BY <2>1, <2>2
<1>2. ASSUME NEW l \in Locations PROVE IsFiniteSet(rows(l))
  <2> DEFINE f == [n \in DOMAIN read(l) |-> row(l, n)]
  <2>1. IsFiniteSet({f[n] : n \in DOMAIN read(l)})
    BY <1>1, FiniteImage
  <2>2. {f[n] : n \in DOMAIN read(l)} = rows(l)
    OBVIOUS
  <2> QED
    BY <2>1, <2>2
<1>3. IsFiniteSet(Locations)
  <2> DEFINE D == 1 .. 7
  <2>1. Locations = {HostConfigPaths[i] : i \in D} /\ DOMAIN HostConfigPaths = D
    BY DEF Locations, HostConfigPaths
  <2>2. IsFiniteSet(D)
    <3>1. \A n \in Nat : IsFiniteSet(1 .. n)
      BY FS_Interval
    <3> QED
      BY <3>1
  <2> QED
    BY <2>1, <2>2, FiniteImage
<1>4. IsFiniteSet({rows(l) : l \in Locations})
  <2> DEFINE f == [l \in Locations |-> rows(l)]
  <2>1. IsFiniteSet({f[l] : l \in Locations})
    BY <1>3, FiniteImage
  <2>2. {f[l] : l \in Locations} = {rows(l) : l \in Locations}
    OBVIOUS
  <2> QED
    BY <2>1, <2>2
<1>5. ReadInstalledServers(s.config) = UNION {rows(l) : l \in Locations}
  BY DEF ReadInstalledServers
<1> HIDE DEF rows
<1>6. \A R \in {rows(l) : l \in Locations} : IsFiniteSet(R)
  BY <1>2
<1>7. IsFiniteSet(ReadInstalledServers(s.config))
  BY <1>4, <1>5, <1>6, FS_UNION
<1> DEFINE all == ReadInstalledServers(s.config)
           f == [i \in all |-> InstalledAs(s, i, MatchLaunch(s.vault, i.cmd))]
<1>8. IsFiniteSet({f[i] : i \in all})
  BY <1>7, FiniteImage
<1>9. {f[i] : i \in all} = Installed(s)
  BY DEF Installed
<1> QED
  BY <1>8, <1>9

LEMMA SessionIsShared ==
  ASSUME NEW s, Listable(s)
  PROVE  /\ IsFiniteSet(HostMembers(s, "claude-code"))
         /\ SessionMembers(s) \subseteq HostMembers(s, "claude-code")
<1> DEFINE here == {x \in Installed(s) : x.host = "claude-code"}
<1>1. IsFiniteSet(here)
  BY InstalledIsFinite, FS_Subset
<1>2. IsFiniteSet(HostMembers(s, "claude-code"))
  <2> DEFINE f == [r \in here |-> MemberFrom(s.vault, r.name, r.cmd)]
  <2>1. IsFiniteSet({f[r] : r \in here})
    BY <1>1, FiniteImage
  <2>2. {f[r] : r \in here} = HostMembers(s, "claude-code")
    BY DEF HostMembers
  <2> QED
    BY <2>1, <2>2
<1>3. ASSUME NEW m \in SessionMembers(s) PROVE m \in HostMembers(s, "claude-code")
  <2>1. PICK p \in Audited(s) : Spec_Of(s, p) # Odd /\ m = MemberFrom(s.vault, p[2], CmdOf(s, p))
    BY DEF SessionMembers, Spec_Of, CmdOf
  <2> DEFINE r == InstalledAs(s, RowOf(s, p), MatchOf(s, p))
  <2>2. r \in Installed(s) /\ RowOf(s, p).host = "claude-code" /\ RowOf(s, p).name = p[2] /\ RowOf(s, p).cmd = CmdOf(s, p)
    BY <2>1, AuditedIsInstalled
  <2>3. r.host = "claude-code" /\ r.name = p[2] /\ r.cmd = CmdOf(s, p)
    BY <2>2 DEF InstalledAs
  <2> HIDE DEF r
  <2> QED
    BY <2>1, <2>2, <2>3 DEF HostMembers
<1> QED
  BY <1>2, <1>3

LEMMA FindingIs ==
  ASSUME NEW s, NEW i, NEW m
  PROVE  LET r == InstalledAs(s, i, m) IN
            /\ r.name = i.name /\ r.version = m.version
            /\ m.entry = Null => StatusEffect(r.finding) = "unknown"
            /\ m.version # "same" =>
                  r.finding = "unanswered" \/ StatusEffect(r.finding) \in {"unknown", "fail", "warn"}
<1>1. /\ InstalledAs(s, i, m).name = i.name /\ InstalledAs(s, i, m).version = m.version
      /\ InstalledAs(s, i, m).finding =
            IF m.entry = Null THEN "not-in-vault"
            ELSE IF m.version = "unknown" THEN "unanswered"
            ELSE IF s.vault[m.entry].gone THEN "deprecated"
            ELSE IF m.version # "same" THEN "drift"
            ELSE IF s.vault[m.entry].stale THEN "stale" ELSE "none"
  BY DEF InstalledAs
<1>2. /\ StatusEffect("not-in-vault") = "unknown" /\ StatusEffect("deprecated") = "fail"
      /\ StatusEffect("drift") = "warn"
  BY DEF StatusEffect
<1> QED
  BY <1>1, <1>2

LEMMA StatusAgrees ==
  ASSUME NEW s, Listable(s) PROVE StatusAgreesWithAudit(s)
<1> SUFFICES ASSUME StatusExit(s) = 0 PROVE AuditExit(s) = 0
  BY DEF StatusAgreesWithAudit
<1> DEFINE bad == IF s.policy.strict THEN {"fail", "warn", "unknown"} ELSE {"fail"}
           findings == {StatusEffect(i.finding) : i \in Installed(s)}
           legacy == {RowEffect(IF r[1] = "lookalike-allowed" THEN "lookalike" ELSE r[1]) : r \in LegacyRows(s)}
           sets == UNION {JudgeSet(s, HostMembers(s, h)) : h \in DOMAIN HostScopes}
           plain == IF s.plain \/ s.failing THEN {"fail"} ELSE {}
           loading == IF s.policy.broken THEN {"warn"} ELSE {}
           effects == findings \cup legacy \cup sets \cup plain \cup loading
<1>1. /\ effects \cap bad = {} /\ StatusUnreadable(s) = {} /\ AuditUnreadable(s) = {}
      /\ \A i \in Installed(s) : i.finding # "unanswered"
  <2>1. SetupExit(s, effects, \/ StatusUnreadable(s) # {} \/ AuditUnreadable(s) # {}
                              \/ \E i \in Installed(s) : i.finding = "unanswered") = 0
    BY DEF StatusExit
  <2> HIDE DEF findings, legacy, sets, plain, loading
  <2> QED
    BY <2>1 DEF SetupExit
<1>2. /\ findings \cap bad = {} /\ legacy \cap bad = {} /\ sets \cap bad = {}
      /\ plain \cap bad = {} /\ loading \cap bad = {}
  <2> HIDE DEF findings, legacy, sets, plain, loading
  <2> QED
    BY <1>1
<1>3. ASSUME NEW r \in Audit(s) PROVE RowEffect(r[1]) \notin bad
  <2>1. PICK p \in Audited(s) :
           \E c \in ServerCategories(s, p[1], p[2], Spec_Of(s, p), CmdOf(s, p), MatchOf(s, p)) : r = <<c, p[2], p[1]>>
    BY AuditRows
  <2>2. PICK c \in ServerCategories(s, p[1], p[2], Spec_Of(s, p), CmdOf(s, p), MatchOf(s, p)) : r = <<c, p[2], p[1]>>
    BY <2>1
  <2>3. c \in {"lookalike-allowed", "lookalike", "unknown", "drift", "version-unknown", "untrusted", "heavy-unbounded", "scope"}
    BY DEF ServerCategories, EntryCategories
  <2>4. r[1] = c /\ r[2] = p[2]
    BY <2>2
  <2> DEFINE i == InstalledAs(s, RowOf(s, p), MatchOf(s, p))
  <2>5. Spec_Of(s, p) # Odd
    BY <1>1, OddIsUnread
  <2>6. i \in Installed(s) /\ RowOf(s, p).name = p[2]
    BY <2>5, AuditedIsInstalled
  <2>7. StatusEffect(i.finding) \notin bad
    BY <1>2, <2>6
  <2>8. CASE c \in {"lookalike-allowed", "version-unknown", "scope"}
    BY <2>4, <2>8, RowEffects
  <2>9. CASE c = "unknown"
    <3>1. MatchOf(s, p).entry = Null
      BY <2>2, <2>9 DEF ServerCategories, EntryCategories
    <3>2. StatusEffect(i.finding) = "unknown"
      BY <3>1, FindingIs
    <3> QED
      BY <2>4, <2>7, <2>9, <3>2, RowEffects
  <2>10. CASE c \in {"lookalike", "untrusted", "heavy-unbounded"}
    <3>1. r \in LegacyRows(s)
      BY <2>4, <2>10 DEF LegacyRows
    <3>2. RowEffect(IF r[1] = "lookalike-allowed" THEN "lookalike" ELSE r[1]) = RowEffect(r[1])
      BY <2>4, <2>10
    <3> QED
      BY <1>2, <3>1, <3>2
  <2>11. CASE c = "drift"
    <3>1. RowEffect(r[1]) = "warn"
      BY <2>4, <2>11, RowEffects
    <3>2. CASE r \in LegacyRows(s)
      <4>1. RowEffect(IF r[1] = "lookalike-allowed" THEN "lookalike" ELSE r[1]) = RowEffect(r[1])
        BY <2>4, <2>11
      <4> QED
        BY <1>2, <3>2, <4>1
    <3>3. CASE r \notin LegacyRows(s)
      <4>1. PICK j \in Installed(s) : j.version # "same"
        BY <2>4, <2>11, <3>3 DEF LegacyRows
      <4>2. PICK k \in ReadInstalledServers(s.config) : j = InstalledAs(s, k, MatchLaunch(s.vault, k.cmd))
        BY <4>1 DEF Installed
      <4>3. MatchLaunch(s.vault, k.cmd).version # "same"
        BY <4>1, <4>2, FindingIs
      <4>4. j.finding = "unanswered" \/ StatusEffect(j.finding) \in {"unknown", "fail", "warn"}
        BY <4>2, <4>3, FindingIs
      <4>5. StatusEffect(j.finding) \notin bad /\ j.finding # "unanswered"
        BY <1>1, <1>2, <4>1
      <4> QED
        BY <3>1, <4>4, <4>5
    <3> QED
      BY <3>2, <3>3
  <2> QED
    BY <2>3, <2>8, <2>9, <2>10, <2>11
<1>4. ASSUME NEW x \in JudgeSet(s, SessionMembers(s)) PROVE x \notin bad
  <2>1. x = "allow" \/ x \in JudgeSet(s, HostMembers(s, "claude-code"))
    BY SessionIsShared, JudgedOfMore DEF JudgeSet
  <2>2. "claude-code" \in DOMAIN HostScopes
    BY DEF HostScopes
  <2>3. x = "allow" \/ x \in sets
    BY <2>1, <2>2
  <2> HIDE DEF sets
  <2> QED
    BY <1>2, <2>3
<1> DEFINE rows == {RowEffect(r[1]) : r \in Audit(s)}
           session == JudgeSet(s, SessionMembers(s))
           secrets == IF s.plain THEN {"fail"} ELSE {}
           told == rows \cup session \cup secrets \cup loading
<1>5. secrets \cap bad = {} /\ rows \cap bad = {} /\ session \cap bad = {}
  BY <1>2, <1>3, <1>4
<1>6. told \cap bad = {}
  <2> HIDE DEF rows, session, secrets, loading
  <2> QED
    BY <1>2, <1>5
<1>7. SetupExit(s, told, AuditUnreadable(s) # {}) = 0
  <2> HIDE DEF told
  <2> QED
    BY <1>1, <1>6 DEF SetupExit
<1> QED
  BY <1>7 DEF AuditExit

-----------------------------------------------------------------------------
(***************************************************************************)
(* Edit distance (Flows, Lookalike).  A cell of the table says whether two *)
(* prefixes are equal and whether they are one step apart.                 *)
(***************************************************************************)

(* The table of the two distances: neighbours may be swapped when `swaps` is 1. *)
LeastIn(S) == CHOOSE x \in S : \A y \in S : x <= y
Cells(a, b) == (0 .. Len(a)) \X (0 .. Len(b))
Swapped(a, b, i, j) == i > 1 /\ j > 1 /\ a[i] = b[j - 1] /\ a[i - 1] = b[j]
From(a, b, swaps, d, i, j) ==
    {d[<<i - 1, j>>] + 1, d[<<i, j - 1>>] + 1, d[<<i - 1, j - 1>>] + (IF a[i] = b[j] THEN 0 ELSE 1)}
        \cup (IF swaps = 1 /\ Swapped(a, b, i, j) THEN {d[<<i - 2, j - 2>>] + 1} ELSE {})
Cell(a, b, swaps, d, p) ==
    IF p[1] = 0 THEN p[2] ELSE IF p[2] = 0 THEN p[1] ELSE LeastIn(From(a, b, swaps, d, p[1], p[2]))
IsTableOf(a, b, swaps, d) == d = [p \in Cells(a, b) |-> Cell(a, b, swaps, d, p)]

Lengths(a, b) == Len(a) \in Nat /\ Len(b) \in Nat

(* A cell looks only at cells of a smaller sum. *)
LEMMA CellIsLocal ==
  ASSUME NEW a, NEW b, Lengths(a, b), NEW swaps, NEW p \in Cells(a, b), NEW d, NEW e,
         \A q \in Cells(a, b) : q[1] + q[2] < p[1] + p[2] => d[q] = e[q]
  PROVE  Cell(a, b, swaps, d, p) = Cell(a, b, swaps, e, p)
<1> DEFINE i == p[1]
           j == p[2]
<1>0. i \in 0 .. Len(a) /\ j \in 0 .. Len(b) /\ Len(a) \in Nat /\ Len(b) \in Nat
  BY DEF Cells, Lengths
<1>1. CASE i = 0 \/ j = 0
  BY <1>1 DEF Cell
<1>2. CASE i # 0 /\ j # 0
  <2> DEFINE up == <<i - 1, j>>
             left == <<i, j - 1>>
             diagonal == <<i - 1, j - 1>>
             far == <<i - 2, j - 2>>
  <2>1. d[up] = e[up]
    <3>1. up \in Cells(a, b) /\ up[1] + up[2] < i + j
      BY <1>0, <1>2 DEF Cells
    <3> QED
      BY <3>1
  <2>2. d[left] = e[left]
    <3>1. left \in Cells(a, b) /\ left[1] + left[2] < i + j
      BY <1>0, <1>2 DEF Cells
    <3> QED
      BY <3>1
  <2>3. d[diagonal] = e[diagonal]
    <3>1. diagonal \in Cells(a, b) /\ diagonal[1] + diagonal[2] < i + j
      BY <1>0, <1>2 DEF Cells
    <3> QED
      BY <3>1
  <2>4. Swapped(a, b, i, j) => d[far] = e[far]
    <3> SUFFICES ASSUME Swapped(a, b, i, j) PROVE d[far] = e[far]
      OBVIOUS
    <3>1. far \in Cells(a, b) /\ far[1] + far[2] < i + j
      BY <1>0, <1>2 DEF Cells, Swapped
    <3> QED
      BY <3>1
  <2>5. From(a, b, swaps, d, i, j) = From(a, b, swaps, e, i, j)
    BY <2>1, <2>2, <2>3, <2>4 DEF From
  <2> QED
    BY <2>5 DEF Cell
<1> QED
  BY <1>1, <1>2

Filled(a, b, swaps, d, k) ==
    d = [p \in Cells(a, b) |-> d[p]] /\ \A p \in Cells(a, b) : p[1] + p[2] <= k => d[p] = Cell(a, b, swaps, d, p)

LEMMA FillFirst ==
  ASSUME NEW a, NEW b, Lengths(a, b), NEW swaps
  PROVE  \E d : Filled(a, b, swaps, d, 0)
<1> DEFINE d == [p \in Cells(a, b) |-> 0]
<1>1. \A p \in Cells(a, b) : p[1] + p[2] <= 0 => p[1] = 0 /\ p[2] = 0
  BY DEF Cells, Lengths
<1>2. \A p \in Cells(a, b) : p[1] + p[2] <= 0 => d[p] = Cell(a, b, swaps, d, p)
  BY <1>1 DEF Cell
<1> QED
  BY <1>2 DEF Filled

LEMMA FillNext ==
  ASSUME NEW a, NEW b, Lengths(a, b), NEW swaps, NEW k \in Nat, NEW d, Filled(a, b, swaps, d, k)
  PROVE  \E e : Filled(a, b, swaps, e, k + 1)
<1> DEFINE e == [p \in Cells(a, b) |-> IF p[1] + p[2] <= k THEN d[p] ELSE Cell(a, b, swaps, d, p)]
<1>0. \A p \in Cells(a, b) : p[1] \in Nat /\ p[2] \in Nat
  BY DEF Cells, Lengths
<1>1. \A p \in Cells(a, b) : p[1] + p[2] <= k => e[p] = d[p]
  OBVIOUS
<1>2. ASSUME NEW p \in Cells(a, b), p[1] + p[2] <= k + 1
      PROVE  e[p] = Cell(a, b, swaps, e, p)
  <2>1. \A q \in Cells(a, b) : q[1] + q[2] < p[1] + p[2] => d[q] = e[q]
    BY <1>0, <1>1, <1>2
  <2>2. Cell(a, b, swaps, d, p) = Cell(a, b, swaps, e, p)
    BY <2>1, CellIsLocal
  <2>3. e[p] = Cell(a, b, swaps, d, p)
    BY DEF Filled
  <2> QED
    BY <2>2, <2>3
<1> HIDE DEF e
<1>3. e = [p \in Cells(a, b) |-> e[p]]
  BY DEF e
<1> QED
  BY <1>2, <1>3 DEF Filled

LEMMA TableExists ==
  ASSUME NEW a, NEW b, Lengths(a, b), NEW swaps
  PROVE  \E d : IsTableOf(a, b, swaps, d)
<1> DEFINE unfilled == {k \in Nat : ~\E d : Filled(a, b, swaps, d, k)}
<1>1. unfilled = {}
  <2> SUFFICES ASSUME unfilled # {} PROVE FALSE
    OBVIOUS
  <2>1. PICK k \in unfilled : \A x \in unfilled : k <= x
    BY Least
  <2>2. k \in Nat /\ k # 0
    BY FillFirst
  <2>3. k - 1 \in Nat /\ k - 1 \notin unfilled
    BY <2>1, <2>2
  <2>4. PICK d : Filled(a, b, swaps, d, k - 1)
    BY <2>3
  <2>5. \E e : Filled(a, b, swaps, e, (k - 1) + 1)
    BY <2>3, <2>4, FillNext
  <2>6. (k - 1) + 1 = k
    BY <2>2
  <2> QED
    BY <2>5, <2>6
<1>2. Len(a) + Len(b) \in Nat
  BY DEF Lengths
<1>3. PICK d : Filled(a, b, swaps, d, Len(a) + Len(b))
  BY <1>1, <1>2
<1>4. \A p \in Cells(a, b) : p[1] + p[2] <= Len(a) + Len(b)
  BY DEF Cells, Lengths
<1>5. \A p \in Cells(a, b) : d[p] = Cell(a, b, swaps, d, p)
  BY <1>3, <1>4 DEF Filled
<1>6. d = [p \in Cells(a, b) |-> d[p]]
  BY <1>3 DEF Filled
<1> QED
  BY <1>5, <1>6 DEF IsTableOf

(* What the table says: the prefixes are equal where it holds 0, and at    *)
(* most one edit apart where it holds at most 1.                           *)
Equal(a, b, i, j) == i = j /\ \A k \in 1 .. i : a[k] = b[k]
Substituted(a, b, i, j) == i = j /\ \E h \in 1 .. i : \A k \in 1 .. i : k # h => a[k] = b[k]
(* `a` is `b` with one letter more, the h-th. *)
CutAt(a, b, i, j, h) ==
    i = j + 1 /\ h \in 1 .. i /\ (\A k \in 1 .. i : k < h => a[k] = b[k]) /\ \A k \in 1 .. i : k > h => a[k] = b[k - 1]
SwapAt(a, b, i, j, h) ==
    /\ i = j /\ h \in 1 .. i /\ h + 1 <= i /\ a[h] = b[h + 1] /\ a[h + 1] = b[h]
    /\ \A k \in 1 .. i : k # h /\ k # h + 1 => a[k] = b[k]
Near(a, b, swaps, i, j) ==
    \/ Equal(a, b, i, j)
    \/ Substituted(a, b, i, j)
    \/ \E h \in 1 .. i : CutAt(a, b, i, j, h)
    \/ \E h \in 1 .. j : CutAt(b, a, j, i, h)
    \/ swaps = 1 /\ \E h \in 1 .. i : SwapAt(a, b, i, j, h)

LEMMA LeastInIs ==
  ASSUME NEW S \in SUBSET Nat, S # {}
  PROVE  LeastIn(S) \in S /\ \A y \in S : LeastIn(S) <= y
  BY Least DEF LeastIn

LEMMA EqualStep ==
  ASSUME NEW a, NEW b, NEW i \in Nat, NEW j \in Nat, i # 0, j # 0
  PROVE  Equal(a, b, i, j) <=> Equal(a, b, i - 1, j - 1) /\ a[i] = b[j]
  BY DEF Equal

LEMMA NearStep ==
  ASSUME NEW a, NEW b, NEW swaps, NEW i \in Nat, NEW j \in Nat, i # 0, j # 0
  PROVE  Near(a, b, swaps, i, j) <=>
            \/ Equal(a, b, i - 1, j) \/ Equal(a, b, i, j - 1) \/ Equal(a, b, i - 1, j - 1)
            \/ a[i] = b[j] /\ Near(a, b, swaps, i - 1, j - 1)
            \/ swaps = 1 /\ Swapped(a, b, i, j) /\ Equal(a, b, i - 2, j - 2)
<1>1. ASSUME Equal(a, b, i, j) PROVE Equal(a, b, i - 1, j - 1)
  BY <1>1 DEF Equal
<1>2. Substituted(a, b, i, j) <=> Equal(a, b, i - 1, j - 1) \/ (a[i] = b[j] /\ Substituted(a, b, i - 1, j - 1))
  <2>1. ASSUME NEW h \in 1 .. i, i = j, \A k \in 1 .. i : k # h => a[k] = b[k]
        PROVE  Equal(a, b, i - 1, j - 1) \/ (a[i] = b[j] /\ Substituted(a, b, i - 1, j - 1))
    <3>1. CASE h = i
      BY <2>1, <3>1 DEF Equal
    <3>2. CASE h # i
      BY <2>1, <3>2 DEF Substituted
    <3> QED
      BY <3>1, <3>2
  <2>2. ASSUME Equal(a, b, i - 1, j - 1) PROVE Substituted(a, b, i, j)
    BY <2>2 DEF Equal, Substituted
  <2>3. ASSUME a[i] = b[j], Substituted(a, b, i - 1, j - 1) PROVE Substituted(a, b, i, j)
    <3>1. PICK h \in 1 .. i - 1 : \A k \in 1 .. i - 1 : k # h => a[k] = b[k]
      BY <2>3 DEF Substituted
    <3>2. h \in 1 .. i /\ i = j
      BY <2>3 DEF Substituted
    <3>3. \A k \in 1 .. i : k # h => a[k] = b[k]
      BY <2>3, <3>1, <3>2
    <3> QED
      BY <3>2, <3>3 DEF Substituted
  <2> QED
    BY <2>1, <2>2, <2>3 DEF Substituted
<1>3. (\E h \in 1 .. i : CutAt(a, b, i, j, h)) <=>
         Equal(a, b, i - 1, j) \/ (a[i] = b[j] /\ \E h \in 1 .. i - 1 : CutAt(a, b, i - 1, j - 1, h))
  <2>1. ASSUME NEW h \in 1 .. i, CutAt(a, b, i, j, h)
        PROVE  Equal(a, b, i - 1, j) \/ (a[i] = b[j] /\ \E g \in 1 .. i - 1 : CutAt(a, b, i - 1, j - 1, g))
    <3>1. CASE h = i
      BY <2>1, <3>1 DEF CutAt, Equal
    <3>2. CASE h # i
      <4>1. a[i] = b[j]
        BY <2>1, <3>2 DEF CutAt
      <4>2. CutAt(a, b, i - 1, j - 1, h)
        BY <2>1, <3>2 DEF CutAt
      <4> QED
        BY <3>2, <4>1, <4>2
    <3> QED
      BY <3>1, <3>2
  <2>2. ASSUME Equal(a, b, i - 1, j) PROVE CutAt(a, b, i, j, i)
    BY <2>2 DEF Equal, CutAt
  <2>3. ASSUME a[i] = b[j], NEW h \in 1 .. i - 1, CutAt(a, b, i - 1, j - 1, h) PROVE CutAt(a, b, i, j, h)
    BY <2>3 DEF CutAt
  <2> QED
    BY <2>1, <2>2, <2>3
<1>4. (\E h \in 1 .. j : CutAt(b, a, j, i, h)) <=>
         Equal(a, b, i, j - 1) \/ (a[i] = b[j] /\ \E h \in 1 .. j - 1 : CutAt(b, a, j - 1, i - 1, h))
  <2>1. ASSUME NEW h \in 1 .. j, CutAt(b, a, j, i, h)
        PROVE  Equal(a, b, i, j - 1) \/ (a[i] = b[j] /\ \E g \in 1 .. j - 1 : CutAt(b, a, j - 1, i - 1, g))
    <3>1. CASE h = j
      BY <2>1, <3>1 DEF CutAt, Equal
    <3>2. CASE h # j
      <4>1. a[i] = b[j]
        BY <2>1, <3>2 DEF CutAt
      <4>2. CutAt(b, a, j - 1, i - 1, h)
        BY <2>1, <3>2 DEF CutAt
      <4> QED
        BY <3>2, <4>1, <4>2
    <3> QED
      BY <3>1, <3>2
  <2>2. ASSUME Equal(a, b, i, j - 1) PROVE CutAt(b, a, j, i, j)
    BY <2>2 DEF Equal, CutAt
  <2>3. ASSUME a[i] = b[j], NEW h \in 1 .. j - 1, CutAt(b, a, j - 1, i - 1, h) PROVE CutAt(b, a, j, i, h)
    BY <2>3 DEF CutAt
  <2> QED
    BY <2>1, <2>2, <2>3
<1>5. (\E h \in 1 .. i : SwapAt(a, b, i, j, h)) <=>
         \/ Swapped(a, b, i, j) /\ Equal(a, b, i - 2, j - 2)
         \/ a[i] = b[j] /\ \E h \in 1 .. i - 1 : SwapAt(a, b, i - 1, j - 1, h)
  <2>1. ASSUME NEW h \in 1 .. i, SwapAt(a, b, i, j, h)
        PROVE  \/ Swapped(a, b, i, j) /\ Equal(a, b, i - 2, j - 2)
               \/ a[i] = b[j] /\ \E g \in 1 .. i - 1 : SwapAt(a, b, i - 1, j - 1, g)
    <3>1. CASE h + 1 = i
      BY <2>1, <3>1 DEF SwapAt, Swapped, Equal
    <3>2. CASE h + 1 # i
      <4>1. a[i] = b[j] /\ h \in 1 .. i - 1
        BY <2>1, <3>2 DEF SwapAt
      <4>2. SwapAt(a, b, i - 1, j - 1, h)
        BY <2>1, <3>2 DEF SwapAt
      <4> QED
        BY <4>1, <4>2
    <3> QED
      BY <3>1, <3>2
  <2>2. ASSUME Swapped(a, b, i, j), Equal(a, b, i - 2, j - 2) PROVE SwapAt(a, b, i, j, i - 1)
    BY <2>2 DEF Swapped, Equal, SwapAt
  <2>3. ASSUME Swapped(a, b, i, j) PROVE i - 1 \in 1 .. i
    BY <2>3 DEF Swapped
  <2>4. ASSUME a[i] = b[j], NEW h \in 1 .. i - 1, SwapAt(a, b, i - 1, j - 1, h) PROVE SwapAt(a, b, i, j, h)
    BY <2>4 DEF SwapAt
  <2> QED
    BY <2>1, <2>2, <2>3, <2>4
<1>6. Equal(a, b, i, j) <=> a[i] = b[j] /\ Equal(a, b, i - 1, j - 1)
  BY EqualStep
<1> QED
  BY <1>1, <1>2, <1>3, <1>4, <1>5, <1>6 DEF Near

Says(a, b, swaps, d, i, j) ==
    /\ d[<<i, j>>] \in Nat
    /\ d[<<i, j>>] = 0 <=> Equal(a, b, i, j)
    /\ d[<<i, j>>] <= 1 <=> Near(a, b, swaps, i, j)

LEMMA EdgeSays ==
  ASSUME NEW a, NEW b, NEW swaps, NEW d, NEW i \in Nat, NEW j \in Nat, i = 0 \/ j = 0,
         d[<<i, j>>] = IF i = 0 THEN j ELSE i
  PROVE  Says(a, b, swaps, d, i, j)
<1>1. Equal(a, b, i, j) <=> i = j
  BY DEF Equal
<1>2. CASE i = 0
  <2>1. ~Substituted(a, b, i, j) /\ ~\E h \in 1 .. i : CutAt(a, b, i, j, h) \/ SwapAt(a, b, i, j, h)
    BY <1>2 DEF Substituted
  <2>2. (\E h \in 1 .. j : CutAt(b, a, j, i, h)) <=> j = 1
    <3>1. j = 1 => CutAt(b, a, j, i, 1)
      BY <1>2 DEF CutAt
    <3>2. ASSUME NEW h \in 1 .. j, CutAt(b, a, j, i, h) PROVE j = 1
      BY <1>2, <3>2 DEF CutAt
    <3>3. j = 1 => 1 \in 1 .. j
      OBVIOUS
    <3> QED
      BY <3>1, <3>2, <3>3
  <2> QED
    BY <1>1, <1>2, <2>1, <2>2 DEF Says, Near
<1>3. CASE i # 0 /\ j = 0
  <2>1. ~Substituted(a, b, i, j) /\ ~(\E h \in 1 .. i : SwapAt(a, b, i, j, h)) /\ ~\E h \in 1 .. j : CutAt(b, a, j, i, h)
    BY <1>3 DEF Substituted, SwapAt
  <2>2. (\E h \in 1 .. i : CutAt(a, b, i, j, h)) <=> i = 1
    <3>1. i = 1 => CutAt(a, b, i, j, 1)
      BY <1>3 DEF CutAt
    <3>2. ASSUME NEW h \in 1 .. i, CutAt(a, b, i, j, h) PROVE i = 1
      BY <1>3, <3>2 DEF CutAt
    <3>3. i = 1 => 1 \in 1 .. i
      OBVIOUS
    <3> QED
      BY <3>1, <3>2, <3>3
  <2> QED
    BY <1>1, <1>3, <2>1, <2>2 DEF Says, Near
<1> QED
  BY <1>2, <1>3

LEMMA InnerSays ==
  ASSUME NEW a, NEW b, NEW swaps, NEW d, NEW i \in Nat, NEW j \in Nat, i # 0, j # 0,
         d[<<i, j>>] = LeastIn(From(a, b, swaps, d, i, j)),
         Says(a, b, swaps, d, i - 1, j), Says(a, b, swaps, d, i, j - 1), Says(a, b, swaps, d, i - 1, j - 1),
         Swapped(a, b, i, j) => Says(a, b, swaps, d, i - 2, j - 2)
  PROVE  Says(a, b, swaps, d, i, j)
<1>0. Equal(a, b, i, j) <=> Equal(a, b, i - 1, j - 1) /\ a[i] = b[j]
  BY EqualStep DEF Equal
<1> DEFINE up == d[<<i - 1, j>>]
           left == d[<<i, j - 1>>]
           diagonal == d[<<i - 1, j - 1>>]
           far == d[<<i - 2, j - 2>>]
           turned == swaps = 1 /\ Swapped(a, b, i, j)
           from == From(a, b, swaps, d, i, j)
           x == d[<<i, j>>]
           same == a[i] = b[j]
<1>1. /\ up \in Nat /\ left \in Nat /\ diagonal \in Nat /\ (turned => far \in Nat)
      /\ (up = 0 <=> Equal(a, b, i - 1, j)) /\ (left = 0 <=> Equal(a, b, i, j - 1))
      /\ (diagonal = 0 <=> Equal(a, b, i - 1, j - 1)) /\ (turned => (far = 0 <=> Equal(a, b, i - 2, j - 2)))
      /\ (diagonal <= 1 <=> Near(a, b, swaps, i - 1, j - 1))
  BY DEF Says
<1>2. from = {up + 1, left + 1, diagonal + (IF same THEN 0 ELSE 1)} \cup (IF turned THEN {far + 1} ELSE {})
  BY DEF From
<1> HIDE DEF up, left, diagonal, far, turned, from
<1>3. from \in SUBSET Nat /\ from # {}
  BY <1>1, <1>2
<1>4. x \in from /\ \A y \in from : x <= y
  <2>1. x = LeastIn(from)
    BY DEF from
  <2> QED
    BY <1>3, <2>1, LeastInIs
<1> HIDE DEF x
<1>5. /\ x \in Nat
      /\ x = 0 <=> same /\ diagonal = 0
      /\ x <= 1 <=> up = 0 \/ left = 0 \/ diagonal = 0 \/ (same /\ diagonal <= 1) \/ (turned /\ far = 0)
  BY <1>1, <1>2, <1>4
<1>6. x = 0 <=> Equal(a, b, i, j)
  <2>1. Equal(a, b, i, j) <=> Equal(a, b, i - 1, j - 1) /\ same
    BY <1>0
  <2> HIDE DEF same
  <2> QED
    BY <1>1, <1>5, <2>1
<1>7. x <= 1 <=> Near(a, b, swaps, i, j)
  <2>1. Near(a, b, swaps, i, j) <=>
            \/ Equal(a, b, i - 1, j) \/ Equal(a, b, i, j - 1) \/ Equal(a, b, i - 1, j - 1)
            \/ same /\ Near(a, b, swaps, i - 1, j - 1)
            \/ turned /\ Equal(a, b, i - 2, j - 2)
    BY NearStep DEF turned
  <2> HIDE DEF same
  <2> QED
    BY <1>1, <1>5, <2>1
<1> QED
  BY <1>5, <1>6, <1>7 DEF Says, x

LEMMA TableSays ==
  ASSUME NEW a, NEW b, Lengths(a, b), NEW swaps, NEW d, IsTableOf(a, b, swaps, d),
         NEW i \in 0 .. Len(a), NEW j \in 0 .. Len(b)
  PROVE  Says(a, b, swaps, d, i, j)
<1> DEFINE wrong == {k \in Nat : \E p \in Cells(a, b) : p[1] + p[2] = k /\ ~Says(a, b, swaps, d, p[1], p[2])}
<1>0. Len(a) \in Nat /\ Len(b) \in Nat
  BY DEF Lengths
<1>1. wrong = {}
  <2> SUFFICES ASSUME wrong # {} PROVE FALSE
    OBVIOUS
  <2>1. PICK k \in wrong : \A x \in wrong : k <= x
    BY Least
  <2>2. PICK p \in Cells(a, b) : p[1] + p[2] = k /\ ~Says(a, b, swaps, d, p[1], p[2])
    BY <2>1
  <2> DEFINE m == p[1]
             n == p[2]
  <2>3. m \in 0 .. Len(a) /\ n \in 0 .. Len(b) /\ p = <<m, n>>
    BY DEF Cells
  <2>4. \A x \in 0 .. Len(a), y \in 0 .. Len(b) : x + y < m + n => Says(a, b, swaps, d, x, y)
    <3> SUFFICES ASSUME NEW x \in 0 .. Len(a), NEW y \in 0 .. Len(b), x + y < m + n, ~Says(a, b, swaps, d, x, y)
                 PROVE  FALSE
      OBVIOUS
    <3>1. <<x, y>> \in Cells(a, b) /\ <<x, y>>[1] = x /\ <<x, y>>[2] = y
      BY DEF Cells
    <3>2. x + y \in wrong
      BY <1>0, <3>1
    <3>3. k <= x + y
      BY <2>1, <3>2
    <3> QED
      BY <1>0, <2>2, <2>3, <3>3
  <2>5. d[p] = Cell(a, b, swaps, d, p)
    BY DEF IsTableOf
  <2> HIDE DEF wrong
  <2>6. CASE m = 0 \/ n = 0
    <3>1. d[<<m, n>>] = IF m = 0 THEN n ELSE m
      BY <2>3, <2>5, <2>6 DEF Cell
    <3>2. m \in Nat /\ n \in Nat
      BY <1>0, <2>3
    <3> HIDE DEF m, n
    <3>3. Says(a, b, swaps, d, m, n)
      BY <2>6, <3>1, <3>2, EdgeSays
    <3> QED
      BY <2>2, <3>3 DEF m, n
  <2>7. CASE m # 0 /\ n # 0
    <3>1. d[<<m, n>>] = LeastIn(From(a, b, swaps, d, m, n))
      BY <2>3, <2>5, <2>7 DEF Cell
    <3> HIDE DEF m, n
    <3>2. /\ Says(a, b, swaps, d, m - 1, n) /\ Says(a, b, swaps, d, m, n - 1) /\ Says(a, b, swaps, d, m - 1, n - 1)
      BY <1>0, <2>3, <2>4, <2>7
    <3>3. Swapped(a, b, m, n) => Says(a, b, swaps, d, m - 2, n - 2)
      BY <1>0, <2>3, <2>4, <2>7 DEF Swapped
    <3>4. m \in Nat /\ n \in Nat
      BY <1>0, <2>3
    <3>5. Says(a, b, swaps, d, m, n)
      BY <2>7, <3>1, <3>2, <3>3, <3>4, InnerSays
    <3> QED
      BY <2>2, <3>5 DEF m, n
  <2> QED
    BY <2>6, <2>7
<1>2. <<i, j>> \in Cells(a, b) /\ <<i, j>>[1] = i /\ <<i, j>>[2] = j /\ i + j \in Nat
  BY <1>0 DEF Cells
<1> QED
  BY <1>1, <1>2

LEMMA EqualIsEqual ==
  ASSUME NEW S, NEW a \in Seq(S), NEW b \in Seq(S)
  PROVE  Lengths(a, b) /\ (Equal(a, b, Len(a), Len(b)) <=> a = b)
<1>1. Lengths(a, b)
  BY DEF Lengths
<1>2. Equal(a, b, Len(a), Len(b)) => a = b
  BY SeqEqual DEF Equal
<1>3. a = b => Equal(a, b, Len(a), Len(b))
  BY DEF Equal
<1> QED
  BY <1>1, <1>2, <1>3

LEMMA DamerauSays ==
  ASSUME NEW S, NEW a \in Seq(S), NEW b \in Seq(S)
  PROVE  /\ LK!DamerauLevenshtein(a, b) \in Nat
         /\ LK!DamerauLevenshtein(a, b) = 0 <=> a = b
         /\ LK!DamerauLevenshtein(a, b) <= 1 <=> Near(a, b, 1, Len(a), Len(b))
<1> DEFINE least(T) == CHOOSE x \in T : \A y \in T : x <= y
           Rule(d) == [p \in (0 .. Len(a)) \X (0 .. Len(b)) |->
                LET i == p[1]
                    j == p[2]
                    swap == i > 1 /\ j > 1 /\ a[i] = b[j - 1] /\ a[i - 1] = b[j]
                IN  IF i = 0 THEN j ELSE IF j = 0 THEN i
                    ELSE least({d[<<i - 1, j>>] + 1, d[<<i, j - 1>>] + 1,
                                d[<<i - 1, j - 1>>] + (IF a[i] = b[j] THEN 0 ELSE 1)}
                               \cup (IF swap THEN {d[<<i - 2, j - 2>>] + 1} ELSE {}))]
           chosen == CHOOSE d : d = Rule(d)
<1>1. LK!DamerauLevenshtein(a, b) = chosen[<<Len(a), Len(b)>>]
  BY DEF LK!DamerauLevenshtein
<1>2. \A d : Rule(d) = [p \in Cells(a, b) |-> Cell(a, b, 1, d, p)]
  BY DEF Cells, Cell, From, Swapped, LeastIn
<1> HIDE DEF Rule
<1>3. Lengths(a, b) /\ Len(a) \in 0 .. Len(a) /\ Len(b) \in 0 .. Len(b)
  BY DEF Lengths
<1>4. \E d : d = Rule(d)
  <2>1. PICK d : IsTableOf(a, b, 1, d)
    BY <1>3, TableExists
  <2>2. d = Rule(d)
    BY <1>2, <2>1 DEF IsTableOf
  <2> QED
    BY <2>2
<1>5. chosen = Rule(chosen)
  BY <1>4
<1> HIDE DEF chosen
<1>6. IsTableOf(a, b, 1, chosen)
  BY <1>2, <1>5 DEF IsTableOf
<1>7. Says(a, b, 1, chosen, Len(a), Len(b))
  BY <1>3, <1>6, TableSays
<1> QED
  BY <1>1, <1>7, EqualIsEqual DEF Says

(* Rows that are all past 1 part the names for good. *)
LEMMA NearAtEveryRow ==
  ASSUME NEW a, NEW b, Lengths(a, b), Near(a, b, 0, Len(a), Len(b)), NEW i \in 1 .. Len(a)
  PROVE  \E j \in 0 .. Len(b) : Near(a, b, 0, i, j)
<1> DEFINE m == Len(a)
           n == Len(b)
<1>0. m \in Nat /\ n \in Nat /\ i \in 1 .. m /\ Near(a, b, 0, m, n)
  BY DEF Lengths
<1> SUFFICES \E j \in 0 .. n : Near(a, b, 0, i, j)
  OBVIOUS
<1> HIDE DEF m, n
<1>1. CASE Equal(a, b, m, n)
  <2>1. Equal(a, b, i, i) /\ i \in 0 .. n
    BY <1>0, <1>1 DEF Equal
  <2> QED
    BY <2>1 DEF Near
<1>2. CASE Substituted(a, b, m, n)
  <2>1. PICK h \in 1 .. m : m = n /\ \A k \in 1 .. m : k # h => a[k] = b[k]
    BY <1>2 DEF Substituted
  <2>2. Substituted(a, b, i, i) \/ Equal(a, b, i, i)
    <3>1. CASE h \in 1 .. i
      <4>1. \A k \in 1 .. i : k # h => a[k] = b[k]
        BY <1>0, <2>1
      <4> QED
        BY <3>1, <4>1 DEF Substituted
    <3>2. CASE h \notin 1 .. i
      BY <1>0, <2>1, <3>2 DEF Equal
    <3> QED
      BY <3>1, <3>2
  <2>3. i \in 0 .. n
    BY <1>0, <2>1
  <2> QED
    BY <2>2, <2>3 DEF Near
<1>3. CASE \E h \in 1 .. m : CutAt(a, b, m, n, h)
  <2>1. PICK h \in 1 .. m : CutAt(a, b, m, n, h)
    BY <1>3
  <2>2. CASE i < h
    <3>1. Equal(a, b, i, i) /\ i \in 0 .. n
      BY <1>0, <2>1, <2>2 DEF CutAt, Equal
    <3> QED
      BY <3>1 DEF Near
  <2>3. CASE h <= i
    <3>0. h \in 1 .. i /\ i = (i - 1) + 1 /\ i - 1 \in 0 .. n
      BY <1>0, <2>1, <2>3 DEF CutAt
    <3>1. CutAt(a, b, i, i - 1, h)
      BY <1>0, <2>1, <3>0 DEF CutAt
    <3> QED
      BY <3>0, <3>1 DEF Near
  <2>4. i \in Int /\ h \in Int
    BY <1>0
  <2> QED
    BY <2>2, <2>3, <2>4
<1>4. CASE \E h \in 1 .. n : CutAt(b, a, n, m, h)
  <2>1. PICK h \in 1 .. n : CutAt(b, a, n, m, h)
    BY <1>4
  <2>2. CASE i < h
    <3>1. Equal(a, b, i, i) /\ i \in 0 .. n
      BY <1>0, <2>1, <2>2 DEF CutAt, Equal
    <3> QED
      BY <3>1 DEF Near
  <2>3. CASE h <= i
    <3>1. CutAt(b, a, i + 1, i, h) /\ i + 1 \in 0 .. n /\ h \in 1 .. i + 1
      BY <1>0, <2>1, <2>3 DEF CutAt
    <3> QED
      BY <3>1 DEF Near
  <2>4. i \in Int /\ h \in Int
    BY <1>0
  <2> QED
    BY <2>2, <2>3, <2>4
<1> QED
  BY <1>0, <1>1, <1>2, <1>3, <1>4 DEF Near

LEMMA EditDistanceSays ==
  ASSUME NEW S, NEW a \in Seq(S), NEW b \in Seq(S)
  PROVE  F!EditDistance(a, b, 1) = 1 <=> a # b /\ Near(a, b, 0, Len(a), Len(b))
<1> DEFINE least(T) == CHOOSE x \in T : \A y \in T : x <= y
           Rule(d) == [p \in (0 .. Len(a)) \X (0 .. Len(b)) |->
                LET i == p[1]
                    j == p[2]
                IN  IF i = 0 THEN j ELSE IF j = 0 THEN i
                    ELSE least({d[<<i - 1, j>>] + 1, d[<<i, j - 1>>] + 1,
                                d[<<i - 1, j - 1>>] + (IF a[i] = b[j] THEN 0 ELSE 1)})]
           chosen == CHOOSE d : d = Rule(d)
           passed(i) == \A j \in 0 .. Len(b) : chosen[<<i, j>>] > 1
           apart == IF Len(a) > Len(b) THEN Len(a) - Len(b) ELSE Len(b) - Len(a)
<1>1. F!EditDistance(a, b, 1) = IF apart > 1 \/ \E i \in 1 .. Len(a) : passed(i) THEN 1 + 1
                                ELSE chosen[<<Len(a), Len(b)>>]
  BY DEF F!EditDistance
<1>2. \A d : Rule(d) = [p \in Cells(a, b) |-> Cell(a, b, 0, d, p)]
  BY DEF Cells, Cell, From, LeastIn
<1> HIDE DEF Rule
<1>3. Lengths(a, b) /\ Len(a) \in Nat /\ Len(b) \in Nat
  BY DEF Lengths
<1>4. \E d : d = Rule(d)
  <2>1. PICK d : IsTableOf(a, b, 0, d)
    BY <1>3, TableExists
  <2>2. d = Rule(d)
    BY <1>2, <2>1 DEF IsTableOf
  <2> QED
    BY <2>2
<1>5. chosen = Rule(chosen)
  BY <1>4
<1> HIDE DEF chosen
<1>6. IsTableOf(a, b, 0, chosen)
  BY <1>2, <1>5 DEF IsTableOf
<1>7. \A i \in 0 .. Len(a), j \in 0 .. Len(b) : Says(a, b, 0, chosen, i, j)
  BY <1>3, <1>6, TableSays
<1> DEFINE there == Near(a, b, 0, Len(a), Len(b))
<1>8. ASSUME there PROVE ~(apart > 1) /\ ~\E i \in 1 .. Len(a) : passed(i)
  <2>1. ~(apart > 1)
    BY <1>3, <1>8 DEF Near, Equal, Substituted, CutAt
  <2>2. ASSUME NEW i \in 1 .. Len(a) PROVE ~passed(i)
    <3>1. PICK j \in 0 .. Len(b) : Near(a, b, 0, i, j)
      BY <1>3, <1>8, NearAtEveryRow
    <3>2. Says(a, b, 0, chosen, i, j)
      BY <1>3, <1>7
    <3>3. chosen[<<i, j>>] \in Nat /\ chosen[<<i, j>>] <= 1
      BY <3>1, <3>2 DEF Says
    <3> QED
      BY <3>3
  <2> QED
    BY <2>1, <2>2
<1>9. Says(a, b, 0, chosen, Len(a), Len(b))
  BY <1>3, <1>7
<1>10. /\ chosen[<<Len(a), Len(b)>>] \in Nat
       /\ chosen[<<Len(a), Len(b)>>] = 0 <=> a = b
       /\ chosen[<<Len(a), Len(b)>>] <= 1 <=> there
  BY <1>9, EqualIsEqual DEF Says
<1> DEFINE far == apart > 1 \/ \E i \in 1 .. Len(a) : passed(i)
           last == chosen[<<Len(a), Len(b)>>]
<1>11. F!EditDistance(a, b, 1) = IF far THEN 2 ELSE last
  BY <1>1
<1>12. last \in Nat /\ (last = 0 <=> a = b) /\ (last <= 1 <=> there) /\ (there => ~far)
  BY <1>8, <1>10
<1> HIDE DEF there, far, last
<1>13. F!EditDistance(a, b, 1) = 1 <=> a # b /\ there
  <2>1. CASE far
    BY <1>11, <1>12, <2>1
  <2>2. CASE ~far
    BY <1>11, <1>12, <2>2
  <2> QED
    BY <2>1, <2>2
<1> QED
  BY <1>13 DEF there

LEMMA Without ==
  ASSUME NEW S, NEW s \in Seq(S), NEW h \in 1 .. Len(s),
         NEW cut, cut = SubSeq(s, 1, h - 1) \o SubSeq(s, h + 1, Len(s))
  PROVE  /\ cut \in Seq(S) /\ Len(cut) = Len(s) - 1
         /\ \A k \in 1 .. Len(s) : (k < h => cut[k] = s[k]) /\ (k > h => cut[k - 1] = s[k])
<1> DEFINE left == SubSeq(s, 1, h - 1)
           right == SubSeq(s, h + 1, Len(s))
<1>a. cut = left \o right
  OBVIOUS
<1>0. Len(s) \in Nat /\ \A k \in 1 .. Len(s) : s[k] \in S
  OBVIOUS
<1>1. left \in Seq(S) /\ Len(left) = h - 1 /\ \A k \in 1 .. h - 1 : left[k] = s[k]
  <2>1. \A k \in 1 .. h - 1 : s[k] \in S
    BY <1>0
  <2>2. /\ left \in Seq(S) /\ Len(left) = IF 1 <= h - 1 THEN (h - 1) - 1 + 1 ELSE 0
        /\ \A k \in 1 .. (h - 1) - 1 + 1 : left[k] = s[1 + k - 1]
    BY <1>0, <2>1, SubSeqProperties
  <2> HIDE DEF left
  <2> QED
    BY <1>0, <2>2
<1>2. right \in Seq(S) /\ Len(right) = Len(s) - h /\ \A k \in 1 .. Len(s) - h : right[k] = s[h + k]
  <2>1. \A k \in h + 1 .. Len(s) : s[k] \in S
    BY <1>0
  <2>2. /\ right \in Seq(S) /\ Len(right) = IF h + 1 <= Len(s) THEN Len(s) - (h + 1) + 1 ELSE 0
        /\ \A k \in 1 .. Len(s) - (h + 1) + 1 : right[k] = s[(h + 1) + k - 1]
    BY <1>0, <2>1, SubSeqProperties
  <2> HIDE DEF right
  <2> QED
    BY <1>0, <2>2
<1> HIDE DEF left, right
<1>3. /\ cut \in Seq(S) /\ Len(cut) = Len(left) + Len(right)
      /\ \A k \in 1 .. Len(left) + Len(right) : cut[k] = IF k <= Len(left) THEN left[k] ELSE right[k - Len(left)]
  <2> DEFINE both == left \o right
  <2>1. /\ both \in Seq(S) /\ Len(both) = Len(left) + Len(right)
        /\ \A k \in 1 .. Len(left) + Len(right) : both[k] = IF k <= Len(left) THEN left[k] ELSE right[k - Len(left)]
    BY <1>1, <1>2, ConcatProperties
  <2>2. cut = both
    BY <1>a
  <2> HIDE DEF both
  <2> QED
    BY <2>1, <2>2
<1>4. cut \in Seq(S) /\ Len(cut) = Len(s) - 1
  <2>1. Len(left) + Len(right) = Len(s) - 1
    BY <1>0, <1>1, <1>2
  <2> QED
    BY <1>3, <2>1
<1>5. ASSUME NEW k \in 1 .. Len(s), k < h PROVE cut[k] = s[k]
  <2>1. k \in 1 .. Len(left) + Len(right) /\ k <= Len(left) /\ k \in 1 .. h - 1
    BY <1>0, <1>1, <1>2, <1>5
  <2>2. cut[k] = left[k]
    BY <1>3, <2>1
  <2> QED
    BY <1>1, <2>1, <2>2
<1>6. ASSUME NEW k \in 1 .. Len(s), k > h PROVE cut[k - 1] = s[k]
  <2>1. k - 1 \in 1 .. Len(left) + Len(right) /\ ~(k - 1 <= Len(left)) /\ (k - 1) - Len(left) = k - h
    BY <1>0, <1>1, <1>2, <1>6
  <2>2. cut[k - 1] = right[k - h]
    BY <1>3, <2>1
  <2>3. k - h \in 1 .. Len(s) - h /\ h + (k - h) = k
    BY <1>0, <1>6
  <2> QED
    BY <1>2, <2>2, <2>3
<1> QED
  BY <1>4, <1>5, <1>6

(* One letter taken out is what CutAt says. *)
LEMMA CutIs ==
  ASSUME NEW S, NEW s \in Seq(S), NEW t \in Seq(S), NEW h \in 1 .. Len(s)
  PROVE  /\ LK!RemoveAt(s, h) = t <=> CutAt(s, t, Len(s), Len(t), h)
         /\ F!RemoveAt(s, h) = t <=> CutAt(s, t, Len(s), Len(t), h)
<1> DEFINE cut == SubSeq(s, 1, h - 1) \o SubSeq(s, h + 1, Len(s))
<1>1. LK!RemoveAt(s, h) = cut /\ F!RemoveAt(s, h) = cut
  BY DEF LK!RemoveAt, F!RemoveAt
<1>2. /\ cut \in Seq(S) /\ Len(cut) = Len(s) - 1
      /\ \A k \in 1 .. Len(s) : (k < h => cut[k] = s[k]) /\ (k > h => cut[k - 1] = s[k])
  BY Without
<1> HIDE DEF cut
<1>3. Len(s) \in Nat /\ Len(t) \in Nat
  OBVIOUS
<1>4. ASSUME cut = t PROVE CutAt(s, t, Len(s), Len(t), h)
  BY <1>2, <1>3, <1>4 DEF CutAt
<1>5. ASSUME CutAt(s, t, Len(s), Len(t), h) PROVE cut = t
  <2>1. Len(cut) = Len(t)
    BY <1>2, <1>3, <1>5 DEF CutAt
  <2>2. ASSUME NEW k \in 1 .. Len(cut) PROVE cut[k] = t[k]
    <3>1. CASE k < h
      BY <1>2, <1>3, <1>5, <2>1, <3>1 DEF CutAt
    <3>2. CASE k >= h
      <4>1. k + 1 \in 1 .. Len(s) /\ k + 1 > h /\ (k + 1) - 1 = k
        BY <1>2, <1>3, <3>2
      <4>2. cut[k] = s[k + 1] /\ t[k] = s[k + 1]
        BY <1>2, <1>5, <4>1 DEF CutAt
      <4> QED
        BY <4>2
    <3> QED
      BY <1>2, <1>3, <3>1, <3>2
  <2> QED
    BY <1>2, <2>1, <2>2, SeqEqual
<1> QED
  BY <1>1, <1>4, <1>5

(* Exactly one letter of two names of one length differs. *)
LEMMA OneDiffers ==
  ASSUME NEW S, NEW a \in Seq(S), NEW b \in Seq(S), NEW differ, differ = {i \in DOMAIN a : Len(a) = Len(b) /\ a[i] # b[i]}
  PROVE  Cardinality(differ) = 1 <=> a # b /\ Substituted(a, b, Len(a), Len(b))
<1>0. Len(a) \in Nat /\ Len(b) \in Nat /\ DOMAIN a = 1 .. Len(a)
  OBVIOUS
<1>1. IsFiniteSet(differ)
  <2>1. IsFiniteSet(1 .. Len(a))
    BY <1>0, FS_Interval
  <2> QED
    BY <1>0, <2>1, FS_Subset
<1>2. Cardinality(differ) = 1 <=> \E x : differ = {x}
  BY <1>1, FS_Singleton
<1>3. ASSUME NEW x, differ = {x} PROVE a # b /\ Substituted(a, b, Len(a), Len(b))
  <2>1. x \in 1 .. Len(a) /\ Len(a) = Len(b) /\ a[x] # b[x]
    BY <1>0, <1>3
  <2>2. \A k \in 1 .. Len(a) : k # x => a[k] = b[k]
    BY <1>0, <1>3, <2>1
  <2> QED
    BY <2>1, <2>2 DEF Substituted
<1>4. ASSUME a # b, Substituted(a, b, Len(a), Len(b)) PROVE \E x : differ = {x}
  <2>1. PICK h \in 1 .. Len(a) : Len(a) = Len(b) /\ \A k \in 1 .. Len(a) : k # h => a[k] = b[k]
    BY <1>4 DEF Substituted
  <2>2. a[h] # b[h]
    <3> SUFFICES ASSUME a[h] = b[h] PROVE FALSE
      OBVIOUS
    <3>1. \A k \in 1 .. Len(a) : a[k] = b[k]
      BY <2>1
    <3> QED
      BY <1>4, <2>1, <3>1, SeqEqual
  <2>3. differ = {h}
    BY <1>0, <2>1, <2>2
  <2> QED
    BY <2>3
<1> QED
  BY <1>2, <1>3, <1>4

LEMMA OneEditIs ==
  ASSUME NEW S, NEW a \in Seq(S), NEW b \in Seq(S)
  PROVE  F!OneEdit(a, b) <=> a # b /\ Near(a, b, 0, Len(a), Len(b))
<1> DEFINE differ == {i \in DOMAIN a : Len(a) = Len(b) /\ a[i] # b[i]}
           m == Len(a)
           n == Len(b)
<1>0. m \in Nat /\ n \in Nat /\ DOMAIN a = 1 .. m /\ DOMAIN b = 1 .. n
  OBVIOUS
<1>1. (m = n /\ Cardinality({i \in DOMAIN a : a[i] # b[i]}) = 1) <=> a # b /\ Substituted(a, b, m, n)
  <2>1. Cardinality(differ) = 1 <=> a # b /\ Substituted(a, b, m, n)
    BY OneDiffers
  <2>2. m = n => differ = {i \in DOMAIN a : a[i] # b[i]}
    OBVIOUS
  <2>3. Substituted(a, b, m, n) => m = n
    BY DEF Substituted
  <2> QED
    BY <2>1, <2>2, <2>3
<1>2. (m = n + 1 /\ \E i \in DOMAIN a : F!RemoveAt(a, i) = b) <=> \E h \in 1 .. m : CutAt(a, b, m, n, h)
  <2>1. \A h \in 1 .. m : F!RemoveAt(a, h) = b <=> CutAt(a, b, m, n, h)
    BY CutIs
  <2>2. \A h : CutAt(a, b, m, n, h) => m = n + 1
    BY DEF CutAt
  <2> QED
    BY <1>0, <2>1, <2>2
<1>3. (n = m + 1 /\ \E i \in DOMAIN b : F!RemoveAt(b, i) = a) <=> \E h \in 1 .. n : CutAt(b, a, n, m, h)
  <2>1. \A h \in 1 .. n : F!RemoveAt(b, h) = a <=> CutAt(b, a, n, m, h)
    BY CutIs
  <2>2. \A h : CutAt(b, a, n, m, h) => n = m + 1
    BY DEF CutAt
  <2> QED
    BY <1>0, <2>1, <2>2
<1>4. Equal(a, b, m, n) <=> a = b
  BY EqualIsEqual
<1>5. (\E h \in 1 .. m : CutAt(a, b, m, n, h)) \/ (\E h \in 1 .. n : CutAt(b, a, n, m, h)) => a # b
  <2>1. m = n + 1 \/ n = m + 1 => a # b
    <3>1. a = b => m = n
      OBVIOUS
    <3>2. m = n => ~(m = n + 1) /\ ~(n = m + 1)
      <4> HIDE DEF m, n
      <4> QED
        BY <1>0
    <3> HIDE DEF m, n
    <3> QED
      BY <3>1, <3>2
  <2>2. \A h : (CutAt(a, b, m, n, h) => m = n + 1) /\ (CutAt(b, a, n, m, h) => n = m + 1)
    BY DEF CutAt
  <2> QED
    BY <2>1, <2>2
<1>6. F!OneEdit(a, b) <=>
         \/ m = n /\ Cardinality({i \in DOMAIN a : a[i] # b[i]}) = 1
         \/ m = n + 1 /\ \E i \in DOMAIN a : F!RemoveAt(a, i) = b
         \/ n = m + 1 /\ \E i \in DOMAIN b : F!RemoveAt(b, i) = a
  BY DEF F!OneEdit, F!Cardinality, Cardinality
<1>7. Near(a, b, 0, m, n) <=>
         \/ Equal(a, b, m, n) \/ Substituted(a, b, m, n)
         \/ \E h \in 1 .. m : CutAt(a, b, m, n, h)
         \/ \E h \in 1 .. n : CutAt(b, a, n, m, h)
  BY DEF Near
<1> QED
  BY <1>1, <1>2, <1>3, <1>4, <1>5, <1>6, <1>7

(* The distance of two tools' names is one where they are one edit apart,  *)
(* and that is so either way round.                                        *)
LEMMA NearIsOneEdit ==
  ASSUME NEW S, NEW a \in Seq(S), NEW b \in Seq(S)
  PROVE  /\ F!EditDistance(a, b, 1) = 1 <=> F!OneEdit(a, b)
         /\ F!OneEdit(a, b) <=> F!OneEdit(b, a)
<1>1. \A c, d \in Seq(S) : F!OneEdit(c, d) <=> c # d /\ Near(c, d, 0, Len(c), Len(d))
  BY OneEditIs
<1>2. F!EditDistance(a, b, 1) = 1 <=> a # b /\ Near(a, b, 0, Len(a), Len(b))
  BY EditDistanceSays
<1>3. Near(a, b, 0, Len(a), Len(b)) <=> Near(b, a, 0, Len(b), Len(a))
  <2>1. Equal(a, b, Len(a), Len(b)) <=> Equal(b, a, Len(b), Len(a))
    BY DEF Equal
  <2>2. Substituted(a, b, Len(a), Len(b)) <=> Substituted(b, a, Len(b), Len(a))
    <3>1. ASSUME NEW c, NEW d, NEW i, NEW j, Substituted(c, d, i, j) PROVE Substituted(d, c, j, i)
      BY <3>1 DEF Substituted
    <3> QED
      BY <3>1
  <2> QED
    BY <2>1, <2>2 DEF Near
<1> QED
  BY <1>1, <1>2, <1>3

-----------------------------------------------------------------------------
(***************************************************************************)
(* Colliding names of two servers (Flows).                                 *)
(***************************************************************************)

(* The pairs of tools whose names are equal, and those nearly so. *)
SameNames(a, b) == {p \in a.tools \X b.tools : p[1].norm = p[2].norm}
NearNames(a, b) ==
    {p \in a.tools \X b.tools :
       /\ Len(p[1].norm) >= MinNear /\ Len(p[2].norm) >= MinNear
       /\ p[1].norm \notin {t.norm : t \in b.tools}
       /\ \A q \in SameNames(a, b) : q[2] # p[2]
       /\ F!EditDistance(p[1].norm, p[2].norm, 1) = 1}

LEMMA ShadowingSays ==
  ASSUME NEW a, NEW b
  PROVE  /\ \A p \in SameNames(a, b) : \E c \in F!FindShadowing(a, b) : c.kind # "near" /\ c.tools = p
         /\ \A p \in NearNames(a, b) : \E c \in F!FindShadowing(a, b) : c.kind = "near" /\ c.tools = p
         /\ \A c \in F!FindShadowing(a, b) :
               \/ c.kind # "near" /\ c.tools \in SameNames(a, b)
               \/ c.kind = "near" /\ c.tools \in NearNames(a, b)
<1> DEFINE same == SameNames(a, b)
           near == NearNames(a, b)
           sameAs(p) == [kind |-> IF p[1].style = p[2].style THEN "exact" ELSE "normalized",
                         confidence |-> "high", tools |-> p]
           nearAs(p) == [kind |-> "near", confidence |-> "low", tools |-> p]
<1>1. F!FindShadowing(a, b) = {sameAs(p) : p \in same} \cup {nearAs(p) : p \in near}
  BY DEF F!FindShadowing, SameNames, NearNames
<1>2. \A p : /\ sameAs(p).kind # "near" /\ sameAs(p).tools = p
             /\ nearAs(p).kind = "near" /\ nearAs(p).tools = p
  OBVIOUS
<1> HIDE DEF same, near, sameAs, nearAs
<1>3. \A p \in same : \E c \in F!FindShadowing(a, b) : c.kind # "near" /\ c.tools = p
  BY <1>1, <1>2
<1>4. \A p \in near : \E c \in F!FindShadowing(a, b) : c.kind = "near" /\ c.tools = p
  BY <1>1, <1>2
<1>5. \A c \in F!FindShadowing(a, b) : (c.kind # "near" /\ c.tools \in same) \/ (c.kind = "near" /\ c.tools \in near)
  BY <1>1, <1>2
<1> QED
  BY <1>3, <1>4, <1>5 DEF same, near

LEMMA TurnedRound ==
  ASSUME NEW S, NEW a, NEW b, \A t \in a.tools \cup b.tools : t.norm \in Seq(S),
         NEW p \in SameNames(a, b) \cup NearNames(a, b)
  PROVE  <<p[2], p[1]>> \in SameNames(b, a) \cup NearNames(b, a)
<1> DEFINE r == <<p[2], p[1]>>
<1>0. p \in a.tools \X b.tools /\ p = <<p[1], p[2]>> /\ p[1] \in a.tools /\ p[2] \in b.tools
  BY DEF SameNames, NearNames
<1>1. r \in b.tools \X a.tools /\ r[1] = p[2] /\ r[2] = p[1]
  BY <1>0
<1>2. CASE p[1].norm = p[2].norm
  BY <1>1, <1>2 DEF SameNames
<1>3. CASE p[1].norm # p[2].norm
  <2>1. p \in NearNames(a, b)
    BY <1>3 DEF SameNames
  <2>2. /\ Len(p[1].norm) >= MinNear /\ Len(p[2].norm) >= MinNear
        /\ \A t \in b.tools : t.norm # p[1].norm
        /\ \A q \in SameNames(a, b) : q[2] # p[2]
        /\ F!EditDistance(p[1].norm, p[2].norm, 1) = 1
    BY <2>1 DEF NearNames
  <2>3. F!EditDistance(p[2].norm, p[1].norm, 1) = 1
    <3>1. p[1].norm \in Seq(S) /\ p[2].norm \in Seq(S)
      BY <1>0
    <3> QED
      BY <2>2, <3>1, NearIsOneEdit
  <2>4. \A t \in a.tools : t.norm # p[2].norm
    <3> SUFFICES ASSUME NEW t \in a.tools, t.norm = p[2].norm PROVE FALSE
      OBVIOUS
    <3>1. <<t, p[2]>> \in SameNames(a, b) /\ <<t, p[2]>>[2] = p[2]
      BY <1>0 DEF SameNames
    <3> QED
      BY <2>2, <3>1
  <2>5. \A q \in SameNames(b, a) : q[2] # p[1]
    BY <2>2 DEF SameNames
  <2>6. r \in NearNames(b, a)
    BY <1>1, <2>2, <2>3, <2>4, <2>5 DEF NearNames
  <2> QED
    BY <2>6
<1> QED
  BY <1>2, <1>3

(* Names that collide are told, and near ones only where they are. *)
LEMMA CollisionsTold ==
  ASSUME NEW S, NEW a, NEW b, \A t \in a.tools \cup b.tools : t.norm \in Seq(S)
  PROVE  F!CollisionsAreTold(a, b)
<1> DEFINE told == F!FindShadowing(a, b)
           touches(c, t) == c.tools[1].norm = t.norm \/ c.tools[2].norm = t.norm
<1>1. /\ \A p \in SameNames(a, b) : \E c \in told : c.kind # "near" /\ c.tools = p
      /\ \A p \in NearNames(a, b) : \E c \in told : c.kind = "near" /\ c.tools = p
      /\ \A c \in told : \/ c.kind # "near" /\ c.tools \in SameNames(a, b)
                         \/ c.kind = "near" /\ c.tools \in NearNames(a, b)
  BY ShadowingSays
<1>2. ASSUME NEW t \in a.tools, NEW u \in b.tools, t.norm = u.norm
      PROVE  \E c \in told : c.kind # "near" /\ c.tools = <<t, u>>
  <2>1. <<t, u>> \in SameNames(a, b)
    BY <1>2 DEF SameNames
  <2> QED
    BY <1>1, <2>1
<1>3. ASSUME NEW t \in a.tools, NEW u \in b.tools,
             F!OneEdit(t.norm, u.norm), Len(t.norm) >= MinNear, Len(u.norm) >= MinNear
      PROVE  \E c \in told : touches(c, t) \/ touches(c, u)
  <2>1. CASE \E w \in b.tools : t.norm = w.norm
    <3>1. PICK w \in b.tools : t.norm = w.norm
      BY <2>1
    <3>2. \E c \in told : c.tools = <<t, w>>
      BY <1>2, <3>1
    <3> QED
      BY <3>2
  <2>2. CASE \E q \in SameNames(a, b) : q[2] = u
    <3>1. PICK q \in SameNames(a, b) : q[2] = u
      BY <2>2
    <3>2. \E c \in told : c.tools = q
      BY <1>1, <3>1
    <3> QED
      BY <3>1, <3>2
  <2>3. CASE (\A w \in b.tools : t.norm # w.norm) /\ \A q \in SameNames(a, b) : q[2] # u
    <3>1. F!EditDistance(t.norm, u.norm, 1) = 1
      BY <1>3, NearIsOneEdit
    <3>2. <<t, u>> \in NearNames(a, b)
      BY <1>3, <2>3, <3>1 DEF NearNames
    <3>3. \E c \in told : c.tools = <<t, u>>
      BY <1>1, <3>2
    <3> QED
      BY <3>3
  <2> QED
    BY <2>1, <2>2, <2>3
<1>4. ASSUME NEW c \in told, c.kind = "near" PROVE F!OneEdit(c.tools[1].norm, c.tools[2].norm)
  <2>1. c.tools \in NearNames(a, b)
    BY <1>1, <1>4
  <2>2. c.tools[1] \in a.tools /\ c.tools[2] \in b.tools /\ F!EditDistance(c.tools[1].norm, c.tools[2].norm, 1) = 1
    BY <2>1 DEF NearNames
  <2>3. c.tools[1].norm \in Seq(S) /\ c.tools[2].norm \in Seq(S)
    BY <2>2
  <2> QED
    BY <2>2, <2>3, NearIsOneEdit
<1>5. {c.tools : c \in told} = {<<c.tools[2], c.tools[1]>> : c \in F!FindShadowing(b, a)}
  <2> DEFINE back == F!FindShadowing(b, a)
             ab == SameNames(a, b) \cup NearNames(a, b)
             ba == SameNames(b, a) \cup NearNames(b, a)
  <2>1. {c.tools : c \in told} = ab
    BY <1>1
  <2>2. {<<c.tools[2], c.tools[1]>> : c \in back} = {<<p[2], p[1]>> : p \in ba}
    <3>1. /\ \A p \in ba : \E c \in back : c.tools = p
          /\ \A c \in back : c.tools \in ba
      BY ShadowingSays
    <3> HIDE DEF back, ba
    <3> QED
      BY <3>1
  <2>3. \A p \in ab : p = <<p[1], p[2]>>
    BY DEF SameNames, NearNames
  <2>4. \A p \in ba : p = <<p[1], p[2]>>
    BY DEF SameNames, NearNames
  <2>5. \A p \in ab : <<p[2], p[1]>> \in ba
    BY TurnedRound
  <2>6. \A p \in ba : <<p[2], p[1]>> \in ab
    BY TurnedRound
  <2> HIDE DEF ab, ba, back
  <2>7. ab = {<<p[2], p[1]>> : p \in ba}
    <3>1. ASSUME NEW p \in ab PROVE p \in {<<q[2], q[1]>> : q \in ba}
      <4>1. <<p[2], p[1]>> \in ba /\ <<<<p[2], p[1]>>[2], <<p[2], p[1]>>[1]>> = p
        BY <2>3, <2>5
      <4> QED
        BY <4>1
    <3>2. ASSUME NEW p \in ba PROVE <<p[2], p[1]>> \in ab
      BY <2>6
    <3> QED
      BY <3>1, <3>2
  <2> QED
    BY <2>1, <2>2, <2>7 DEF back
<1> HIDE DEF told
<1> QED
  BY <1>2, <1>3, <1>4, <1>5 DEF F!CollisionsAreTold, told

-----------------------------------------------------------------------------
(***************************************************************************)
(* Names one step apart, and by which step; names that are taken for an    *)
(* entry's (Lookalike).                                                    *)
(***************************************************************************)

(* The letters in which two names of one length differ. *)
Differ(c, t) == {i \in DOMAIN c : Len(c) = Len(t) /\ c[i] # t[i]}
IsSwap(c, t, i) == Differ(c, t) = {i, i + 1} /\ c[i] = t[i + 1] /\ c[i + 1] = t[i]

LEMMA SwapIs ==
  ASSUME NEW S, NEW c \in Seq(S), NEW t \in Seq(S)
  PROVE  (\E i \in DOMAIN c : IsSwap(c, t, i)) <=> c # t /\ \E h \in 1 .. Len(c) : SwapAt(c, t, Len(c), Len(t), h)
<1>0. Len(c) \in Nat /\ Len(t) \in Nat /\ DOMAIN c = 1 .. Len(c)
  OBVIOUS
<1>1. ASSUME NEW i \in DOMAIN c, IsSwap(c, t, i)
      PROVE  c # t /\ SwapAt(c, t, Len(c), Len(t), i)
  <2>1. i \in Differ(c, t) /\ i + 1 \in Differ(c, t)
    BY <1>1 DEF IsSwap
  <2>2. /\ Len(c) = Len(t) /\ c[i] # t[i] /\ i + 1 \in 1 .. Len(c)
        /\ c[i] = t[i + 1] /\ c[i + 1] = t[i]
    BY <1>0, <1>1, <2>1 DEF Differ, IsSwap
  <2>3. \A k \in 1 .. Len(c) : k # i /\ k # i + 1 => c[k] = t[k]
    <3> SUFFICES ASSUME NEW k \in 1 .. Len(c), k # i, k # i + 1, c[k] # t[k] PROVE FALSE
      OBVIOUS
    <3>1. k \in Differ(c, t)
      BY <1>0, <2>2 DEF Differ
    <3> QED
      BY <1>1, <3>1 DEF IsSwap
  <2> QED
    BY <1>0, <2>2, <2>3 DEF SwapAt
<1>2. ASSUME c # t, NEW h \in 1 .. Len(c), SwapAt(c, t, Len(c), Len(t), h)
      PROVE  IsSwap(c, t, h)
  <2>1. /\ Len(c) = Len(t) /\ h + 1 \in 1 .. Len(c) /\ c[h] = t[h + 1] /\ c[h + 1] = t[h]
        /\ \A k \in 1 .. Len(c) : k # h /\ k # h + 1 => c[k] = t[k]
    BY <1>0, <1>2 DEF SwapAt
  <2>2. c[h] # t[h]
    <3> SUFFICES ASSUME c[h] = t[h] PROVE FALSE
      OBVIOUS
    <3>1. c[h + 1] = t[h + 1]
      BY <2>1
    <3>2. \A k \in 1 .. Len(c) : c[k] = t[k]
      BY <2>1, <3>1
    <3>3. c = t
      BY <2>1, <3>2, SeqEqual
    <3> QED
      BY <1>2, <3>3
  <2>3. c[h + 1] # t[h + 1]
    BY <2>1, <2>2
  <2>4. Differ(c, t) = {h, h + 1}
    BY <1>0, <2>1, <2>2, <2>3 DEF Differ
  <2> QED
    BY <2>1, <2>4 DEF IsSwap
<1> QED
  BY <1>0, <1>1, <1>2

(* The first of the letters that differ, where OneEditTechnique looks. *)
Off(c, t) == {i \in 1 .. Len(c) - 1 : c[i] # t[i]}
AsSwap(c, t) ==
    LET at == CHOOSE i \in Off(c, t) : \A j \in Off(c, t) : i <= j
    IN  /\ Off(c, t) # {} /\ at + 1 <= Len(t)
        /\ c[at] = t[at + 1] /\ c[at + 1] = t[at]
        /\ SubSeq(c, at + 2, Len(c)) = SubSeq(t, at + 2, Len(t))

LEMMA Technique ==
  ASSUME NEW S, NEW c \in Seq(S), NEW t \in Seq(S)
  PROVE  /\ Len(c) = Len(t) + 1 => LK!OneEditTechnique(c, t) \in {"extra-letter", "doubled-letter"}
         /\ Len(t) = Len(c) + 1 => LK!OneEditTechnique(c, t) = "missing-letter"
         /\ Len(c) = Len(t) =>
               LK!OneEditTechnique(c, t) = IF AsSwap(c, t) THEN "transposition" ELSE "substitution"
<1>0. Len(c) \in Nat /\ Len(t) \in Nat
  OBVIOUS
<1> DEFINE m == Len(c)
           n == Len(t)
           told == LK!OneEditTechnique(c, t)
<1>1. m = n + 1 => told \in {"extra-letter", "doubled-letter"}
  BY <1>0 DEF LK!OneEditTechnique
<1>2. n = m + 1 => told = "missing-letter"
  BY <1>0 DEF LK!OneEditTechnique
<1>3. m = n => told = IF AsSwap(c, t) THEN "transposition" ELSE "substitution"
  <2>1. \E cut : told = IF m = n + 1 THEN cut ELSE IF m + 1 = n THEN "missing-letter"
                       ELSE IF AsSwap(c, t) THEN "transposition" ELSE "substitution"
    BY Zenon DEF LK!OneEditTechnique, AsSwap, Off
  <2>0. m \in Nat /\ n \in Nat
    BY <1>0
  <2>2. m = n => ~(m = n + 1) /\ ~(m + 1 = n)
    <3> HIDE DEF m, n
    <3> QED
      BY <2>0
  <2> HIDE DEF told, m, n
  <2> QED
    BY <2>1, <2>2
<1> QED
  BY <1>1, <1>2, <1>3

LEMMA TailsAgree ==
  ASSUME NEW S, NEW c \in Seq(S), NEW t \in Seq(S), Len(c) = Len(t), NEW h \in Nat \ {0},
         \A k \in 1 .. Len(c) : k >= h => c[k] = t[k]
  PROVE  SubSeq(c, h, Len(c)) = SubSeq(t, h, Len(t))
<1>0. Len(c) \in Nat
  OBVIOUS
<1>1. \A k \in h .. Len(c) : c[k] = t[k]
  BY <1>0
<1> QED
  BY <1>0, <1>1

LEMMA SwapIsNamed ==
  ASSUME NEW S, NEW c \in Seq(S), NEW t \in Seq(S), NEW i \in DOMAIN c, IsSwap(c, t, i)
  PROVE  LK!OneEditTechnique(c, t) = "transposition"
<1>0. Len(c) \in Nat /\ Len(t) \in Nat /\ DOMAIN c = 1 .. Len(c)
  OBVIOUS
<1>1. SwapAt(c, t, Len(c), Len(t), i) /\ c[i] # t[i] /\ Len(c) = Len(t)
  <2>1. i \in Differ(c, t) /\ i + 1 \in Differ(c, t)
    BY DEF IsSwap
  <2>2. i + 1 \in 1 .. Len(c) /\ Len(c) = Len(t) /\ c[i] # t[i]
    BY <1>0, <2>1 DEF Differ
  <2>3. \A k \in 1 .. Len(c) : k # i /\ k # i + 1 => c[k] = t[k]
    <3> SUFFICES ASSUME NEW k \in 1 .. Len(c), k # i, k # i + 1, c[k] # t[k] PROVE FALSE
      OBVIOUS
    <3>1. k \in Differ(c, t)
      BY <1>0, <2>2 DEF Differ
    <3> QED
      BY <3>1 DEF IsSwap
  <2> QED
    BY <1>0, <2>2, <2>3 DEF SwapAt, IsSwap
<1>2. i \in 1 .. Len(c) /\ i + 1 \in 1 .. Len(c) /\ \A k \in 1 .. Len(c) : k # i /\ k # i + 1 => c[k] = t[k]
  BY <1>0, <1>1 DEF SwapAt
<1>3. i \in Off(c, t) /\ \A k \in Off(c, t) : i <= k
  BY <1>0, <1>1, <1>2 DEF Off
<1>4. (CHOOSE k \in Off(c, t) : \A j \in Off(c, t) : k <= j) = i
  <2>1. Off(c, t) \subseteq Nat
    BY <1>0 DEF Off
  <2> QED
    BY <1>3, <2>1, FirstIs
<1>5. SubSeq(c, i + 2, Len(c)) = SubSeq(t, i + 2, Len(t))
  <2>1. i + 2 \in Nat \ {0} /\ \A k \in 1 .. Len(c) : k >= i + 2 => c[k] = t[k]
    BY <1>0, <1>2
  <2> QED
    BY <1>1, <2>1, TailsAgree
<1>6. i + 1 <= Len(t) /\ c[i] = t[i + 1] /\ c[i + 1] = t[i]
  BY <1>0, <1>1, <1>2 DEF SwapAt
<1>7. AsSwap(c, t)
  BY <1>3, <1>4, <1>5, <1>6 DEF AsSwap
<1> QED
  BY <1>1, <1>7, Technique

LEMMA ChangeIsNamed ==
  ASSUME NEW S, NEW c \in Seq(S), NEW t \in Seq(S), Cardinality(Differ(c, t)) = 1
  PROVE  LK!OneEditTechnique(c, t) = "substitution"
<1>0. Len(c) \in Nat /\ Len(t) \in Nat /\ DOMAIN c = 1 .. Len(c)
  OBVIOUS
<1>1. c # t /\ Substituted(c, t, Len(c), Len(t))
  <2>1. Differ(c, t) = {i \in DOMAIN c : Len(c) = Len(t) /\ c[i] # t[i]}
    BY DEF Differ
  <2> QED
    BY <2>1, OneDiffers
<1>2. PICK h \in 1 .. Len(c) : Len(c) = Len(t) /\ \A k \in 1 .. Len(c) : k # h => c[k] = t[k]
  BY <1>1 DEF Substituted
<1>3. c[h] # t[h]
  <2> SUFFICES ASSUME c[h] = t[h] PROVE FALSE
    OBVIOUS
  <2>1. \A k \in 1 .. Len(c) : c[k] = t[k]
    BY <1>2
  <2> QED
    BY <1>1, <1>2, <2>1, SeqEqual
<1>4. ~AsSwap(c, t)
  <2> SUFFICES ASSUME AsSwap(c, t) PROVE FALSE
    OBVIOUS
  <2>1. \A k \in Off(c, t) : k = h
    BY <1>0, <1>2 DEF Off
  <2>2. Off(c, t) # {}
    BY DEF AsSwap
  <2>3. h \in Off(c, t) /\ \A k \in Off(c, t) : h <= k
    BY <2>1, <2>2
  <2>4. (CHOOSE k \in Off(c, t) : \A j \in Off(c, t) : k <= j) = h
    BY <2>1, <2>3
  <2>5. h + 1 \in 1 .. Len(c)
    BY <1>0, <2>3 DEF Off
  <2>6. c[h] = t[h + 1] /\ c[h + 1] = t[h]
    BY <2>4 DEF AsSwap
  <2>7. c[h + 1] = t[h + 1]
    BY <1>2, <2>5
  <2> QED
    BY <1>3, <2>6, <2>7
<1> QED
  BY <1>2, <1>4, Technique

(* A distance of one is one edit, and it is called by its name. *)
LEMMA EditsNamed ==
  ASSUME NEW S, NEW c \in Seq(S), NEW t \in Seq(S)
  PROVE  LK!EditsAreNamed(c, t)
<1> DEFINE m == Len(c)
           n == Len(t)
           longer == \E i \in DOMAIN c : LK!RemoveAt(c, i) = t
           shorter == \E i \in DOMAIN t : LK!RemoveAt(t, i) = c
           swapped == \E i \in DOMAIN c : IsSwap(c, t, i)
           changed == Cardinality(Differ(c, t)) = 1
           one == LK!DamerauLevenshtein(c, t) = 1
           name == LK!OneEditTechnique(c, t)
<1>0. m \in Nat /\ n \in Nat /\ DOMAIN c = 1 .. m /\ DOMAIN t = 1 .. n
  OBVIOUS
<1>1. longer <=> \E h \in 1 .. m : CutAt(c, t, m, n, h)
  <2>1. \A h \in 1 .. m : LK!RemoveAt(c, h) = t <=> CutAt(c, t, m, n, h)
    BY CutIs
  <2> QED
    BY <1>0, <2>1
<1>2. shorter <=> \E h \in 1 .. n : CutAt(t, c, n, m, h)
  <2>1. \A h \in 1 .. n : LK!RemoveAt(t, h) = c <=> CutAt(t, c, n, m, h)
    BY CutIs
  <2> QED
    BY <1>0, <2>1
<1>3. changed <=> c # t /\ Substituted(c, t, m, n)
  <2>1. Differ(c, t) = {i \in DOMAIN c : Len(c) = Len(t) /\ c[i] # t[i]}
    BY DEF Differ
  <2> QED
    BY <2>1, OneDiffers
<1>4. swapped <=> c # t /\ \E h \in 1 .. m : SwapAt(c, t, m, n, h)
  BY SwapIs
<1>5. (longer => m = n + 1) /\ (shorter => n = m + 1)
  BY <1>1, <1>2 DEF CutAt
<1>6. m = n + 1 \/ n = m + 1 => c # t
  <2>1. c = t => m = n
    OBVIOUS
  <2>2. m = n => ~(m = n + 1) /\ ~(n = m + 1)
    <3> HIDE DEF m, n
    <3> QED
      BY <1>0
  <2> HIDE DEF m, n
  <2> QED
    BY <2>1, <2>2
<1>7. one <=> c # t /\ Near(c, t, 1, m, n)
  <2>1. /\ LK!DamerauLevenshtein(c, t) \in Nat
        /\ LK!DamerauLevenshtein(c, t) = 0 <=> c = t
        /\ LK!DamerauLevenshtein(c, t) <= 1 <=> Near(c, t, 1, m, n)
    BY DamerauSays
  <2>2. one <=> LK!DamerauLevenshtein(c, t) <= 1 /\ LK!DamerauLevenshtein(c, t) # 0
    BY <2>1
  <2> QED
    BY <2>1, <2>2
<1>8. Equal(c, t, m, n) <=> c = t
  BY EqualIsEqual
<1>9. Near(c, t, 1, m, n) <=>
         \/ Equal(c, t, m, n) \/ Substituted(c, t, m, n)
         \/ \E h \in 1 .. m : CutAt(c, t, m, n, h)
         \/ \E h \in 1 .. n : CutAt(t, c, n, m, h)
         \/ \E h \in 1 .. m : SwapAt(c, t, m, n, h)
  BY DEF Near
<1>10. one <=> longer \/ shorter \/ swapped \/ changed
  <2> HIDE DEF one, longer, shorter, swapped, changed
  <2> QED
    BY <1>1, <1>2, <1>3, <1>4, <1>5, <1>6, <1>7, <1>8, <1>9
<1>11. /\ longer => name \in {"extra-letter", "doubled-letter"}
       /\ shorter => name = "missing-letter"
  <2>1. /\ m = n + 1 => name \in {"extra-letter", "doubled-letter"}
        /\ n = m + 1 => name = "missing-letter"
    BY Technique
  <2> HIDE DEF longer, shorter, name, m, n
  <2> QED
    BY <1>5, <2>1
<1>12. swapped => name = "transposition"
  BY SwapIsNamed
<1>13. changed => name = "substitution"
  BY ChangeIsNamed
<1>14. LK!EditsAreNamed(c, t) =
         (/\ one <=> longer \/ shorter \/ swapped \/ changed
          /\ longer => name \in {"extra-letter", "doubled-letter"}
          /\ shorter => name = "missing-letter"
          /\ swapped => name = "transposition"
          /\ changed => name = "substitution")
  BY DEF LK!EditsAreNamed, LK!Cardinality, Cardinality, Differ, IsSwap
<1> QED
  BY <1>10, <1>11, <1>12, <1>13, <1>14

LEMMA SameCardinality == \A S : LK!Cardinality(S) = Cardinality(S)
  BY DEF LK!Cardinality, Cardinality

(* The places of a name's letters. *)
Kept(s) == {i \in DOMAIN s : s[i] \notin LK!Separators}

LEMMA FlatIs ==
  ASSUME NEW s, NEW n \in Nat, DOMAIN s = 1 .. n
  PROVE  /\ IsFiniteSet(Kept(s)) /\ Cardinality(Kept(s)) \in Nat
         /\ \E S : LK!Flat(s) \in Seq(S)
         /\ Len(LK!Flat(s)) = Cardinality(Kept(s))
<1> DEFINE kept == Kept(s)
           place(k) == CHOOSE i \in kept : LK!Cardinality({j \in kept : j <= i}) = k
           size == Cardinality(kept)
<1>1. IsFiniteSet(kept)
  <2>1. IsFiniteSet(1 .. n)
    BY FS_Interval
  <2> QED
    BY <2>1, FS_Subset DEF Kept
<1>2. size \in Nat
  BY <1>1, FS_CardinalityType
<1>3. LK!Flat(s) = [k \in 1 .. size |-> s[place(k)]]
  <2>1. LK!Cardinality(kept) = size
    BY SameCardinality
  <2> QED
    BY <2>1 DEF LK!Flat, Kept
<1> DEFINE S == {s[place(k)] : k \in 1 .. size}
<1> HIDE DEF place, size, kept
<1>4. [k \in 1 .. size |-> s[place(k)]] \in Seq(S)
  BY <1>2
<1>5. Len([k \in 1 .. size |-> s[place(k)]]) = size
  BY <1>2
<1> QED
  BY <1>1, <1>2, <1>3, <1>4, <1>5 DEF kept, size

LEMMA SkeletonIs ==
  ASSUME NEW s, NEW n \in Nat, DOMAIN s = 1 .. n
  PROVE  \E S : LK!Skeleton(s) \in Seq(S)
<1>1. PICK S : LK!Flat(s) \in Seq(S)
  BY FlatIs
<1> DEFINE f == LK!Flat(s)
           skeleton == [i \in DOMAIN f |-> IF f[i] = "0" THEN "o" ELSE f[i]]
<1>2. LK!Skeleton(s) = skeleton
  BY DEF LK!Skeleton
<1> HIDE DEF f
<1>3. f \in Seq(S)
  BY <1>1 DEF f
<1>4. skeleton \in Seq(S \cup {"o"})
  BY <1>3
<1> QED
  BY <1>2, <1>4

(* The letters an affix does not cover, from the first to the last. *)
LEMMA CoreSpan ==
  ASSUME NEW S, NEW s \in Seq(S)
  PROVE  \/ LK!Core(s) = <<>>
         \/ \E first, last \in 1 .. Len(s) : first <= last /\ LK!Core(s) = LK!Norm(SubSeq(s, first, last))
<1> DEFINE own == {i \in DOMAIN s : s[i] # "mcp"}
           first == CHOOSE i \in own : \A j \in own : i <= j
           last == CHOOSE i \in own : \A j \in own : i >= j
           core == LK!Norm(SubSeq(s, first, last))
<1>0. Len(s) \in Nat /\ DOMAIN s = 1 .. Len(s)
  OBVIOUS
<1>1. CASE own = {}
  <2>1. LK!Core(s) = <<>>
    BY <1>1 DEF LK!Core
  <2> QED
    BY <2>1
<1>2. CASE own # {}
  <2>1. LK!Core(s) = core
    BY <1>2 DEF LK!Core
  <2>2. first \in own
    <3>1. own \in SUBSET Nat
      BY <1>0
    <3>2. \E x \in own : \A y \in own : x <= y
      BY <1>2, <3>1, Least
    <3> QED
      BY <3>2
  <2>3. last \in own /\ first <= last
    <3> DEFINE far == {Len(s) - i : i \in own}
    <3>1. far \in SUBSET Nat /\ far # {}
      BY <1>0, <1>2
    <3>2. PICK x \in far : \A y \in far : x <= y
      BY <3>1, Least
    <3>3. PICK i \in own : x = Len(s) - i
      BY <3>2
    <3>4. \A j \in own : i >= j
      <4> SUFFICES ASSUME NEW j \in own PROVE i >= j
        OBVIOUS
      <4>1. Len(s) - i <= Len(s) - j
        BY <3>2, <3>3
      <4> QED
        BY <1>0, <4>1
    <3>5. last \in own /\ \A j \in own : last >= j
      BY <3>3, <3>4
    <3> HIDE DEF first, last
    <3>6. first \in Nat /\ last \in Nat /\ last >= first
      BY <1>0, <2>2, <3>5
    <3> QED
      BY <3>5, <3>6
  <2> HIDE DEF first, last
  <2>4. first \in 1 .. Len(s) /\ last \in 1 .. Len(s) /\ first <= last
    BY <1>0, <2>2, <2>3
  <2> QED
    BY <2>1, <2>4
<1> QED
  BY <1>1, <1>2

(* A part of a name, its separators all written one way. *)
LEMMA PartIs ==
  ASSUME NEW S, NEW s \in Seq(S), NEW first \in 1 .. Len(s), NEW last \in 1 .. Len(s), first <= last,
         NEW size, size = last - first + 1, NEW core, core = LK!Norm(SubSeq(s, first, last))
  PROVE  /\ size \in Nat /\ DOMAIN core = 1 .. size
         /\ Kept(core) = {k \in 1 .. size : s[first + k - 1] \notin LK!Separators}
<1> DEFINE part == SubSeq(s, first, last)
<1>0. Len(s) \in Nat /\ \A i \in 1 .. Len(s) : s[i] \in S
  OBVIOUS
<1>1. /\ DOMAIN part = 1 .. size /\ size \in Nat
      /\ \A k \in 1 .. size : part[k] = s[first + k - 1]
  <2>1. \A i \in first .. last : s[i] \in S
    BY <1>0
  <2>2. /\ part \in Seq(S) /\ Len(part) = size
        /\ \A k \in 1 .. size : part[k] = s[first + k - 1]
    BY <2>1, SubSeqProperties
  <2> HIDE DEF part
  <2> QED
    BY <1>0, <2>2
<1> HIDE DEF part
<1>2. core = [k \in 1 .. size |-> IF part[k] = "_" THEN "-" ELSE part[k]]
  BY <1>1 DEF LK!Norm, part
<1>3. Kept(core) = {k \in 1 .. size : s[first + k - 1] \notin LK!Separators}
  BY <1>1, <1>2 DEF Kept, LK!Separators
<1> QED
  BY <1>1, <1>2, <1>3

LEMMA CoreDomain ==
  ASSUME NEW S, NEW s \in Seq(S)
  PROVE  \E m \in Nat : DOMAIN LK!Core(s) = 1 .. m
<1>1. CASE LK!Core(s) = <<>>
  <2>1. DOMAIN LK!Core(s) = 1 .. 0
    BY <1>1
  <2> QED
    BY <2>1
<1>2. CASE \E first, last \in 1 .. Len(s) : first <= last /\ LK!Core(s) = LK!Norm(SubSeq(s, first, last))
  <2>1. PICK first \in 1 .. Len(s), last \in 1 .. Len(s) : first <= last /\ LK!Core(s) = LK!Norm(SubSeq(s, first, last))
    BY <1>2
  <2>2. DOMAIN LK!Core(s) = 1 .. last - first + 1 /\ last - first + 1 \in Nat
    BY <2>1, PartIs
  <2> QED
    BY <2>2
<1> QED
  BY <1>1, <1>2, CoreSpan

LEMMA CoreIsNoLonger ==
  ASSUME NEW S, NEW s \in Seq(S)
  PROVE  Cardinality(Kept(LK!Core(s))) <= Cardinality(Kept(s))
<1>0. Len(s) \in Nat /\ DOMAIN s = 1 .. Len(s)
  OBVIOUS
<1>a. IsFiniteSet(Kept(s)) /\ Cardinality(Kept(s)) \in Nat
  BY <1>0, FlatIs
<1>1. CASE LK!Core(s) = <<>>
  <2>1. Kept(LK!Core(s)) = {}
    BY <1>1 DEF Kept
  <2> QED
    BY <1>a, <2>1, FS_EmptySet
<1>2. CASE \E first, last \in 1 .. Len(s) : first <= last /\ LK!Core(s) = LK!Norm(SubSeq(s, first, last))
  <2>1. PICK first \in 1 .. Len(s), last \in 1 .. Len(s) : first <= last /\ LK!Core(s) = LK!Norm(SubSeq(s, first, last))
    BY <1>2
  <2> DEFINE size == last - first + 1
             core == LK!Core(s)
             move == [k \in Kept(core) |-> first + k - 1]
  <2>2. Kept(core) = {k \in 1 .. size : s[first + k - 1] \notin LK!Separators}
    BY <2>1, PartIs
  <2> HIDE DEF core
  <2>3. move \in Injection(Kept(core), Kept(s))
    <3>1. \A k \in Kept(core) : first + k - 1 \in Kept(s)
      BY <1>0, <2>1, <2>2 DEF Kept
    <3>2. \A k, l \in Kept(core) : first + k - 1 = first + l - 1 => k = l
      BY <1>0, <2>1, <2>2
    <3> QED
      BY <3>1, <3>2 DEF Injection, IsInjective
  <2>4. Cardinality(Kept(core)) <= Cardinality(Kept(s))
    BY <1>a, <2>3, FS_Injection
  <2> QED
    BY <2>4 DEF core
<1> QED
  BY <1>1, <1>2, CoreSpan

LEMMA NameLetters ==
  ASSUME NEW n, LK!IsName(n)
  PROVE  n.base \in Seq(LK!Characters) /\ Len(n.base) \in Nat /\ DOMAIN n.base = 1 .. Len(n.base)
<1>1. n.base \in Seq(LK!Characters)
  BY DEF LK!IsName
<1> QED
  BY <1>1

(* A name one edit from another whose core is not a letter: the edit fits. *)
LEMMA OneEditFits ==
  ASSUME NEW S, NEW c, NEW t \in Seq(S),
         LK!DamerauLevenshtein(LK!Skeleton(c), LK!Skeleton(t)) = 1,
         Len(LK!Flat(LK!Core(t))) >= 2
  PROVE  LK!FuzzyDistance(c, t) = 1
<1> DEFINE core == Len(LK!Flat(LK!Core(t)))
           whole == Len(LK!Flat(t))
<1>1. whole \in Nat /\ core \in Nat /\ core <= whole
  <2>1. whole = Cardinality(Kept(t)) /\ Cardinality(Kept(t)) \in Nat
    <3>1. Len(t) \in Nat /\ DOMAIN t = 1 .. Len(t)
      OBVIOUS
    <3> QED
      BY <3>1, FlatIs
  <2>2. \E m \in Nat : DOMAIN LK!Core(t) = 1 .. m
    BY CoreDomain
  <2>3. core = Cardinality(Kept(LK!Core(t))) /\ Cardinality(Kept(LK!Core(t))) \in Nat
    BY <2>2, FlatIs
  <2> QED
    BY <2>1, <2>3, CoreIsNoLonger
<1>2. LK!Threshold(core) \in Nat /\ LK!Threshold(core) >= 1 /\ LK!Threshold(whole) \in Nat /\ LK!Threshold(whole) >= 1
  <2> HIDE DEF core, whole
  <2> QED
    BY <1>1 DEF LK!Threshold, core
<1>3. \E room : (room = LK!Threshold(core) \/ room = LK!Threshold(whole))
                /\ LK!FuzzyDistance(c, t) = IF 1 = 0 \/ 1 > room THEN Null ELSE 1
  BY DEF LK!FuzzyDistance
<1> HIDE DEF core, whole
<1> QED
  BY <1>2, <1>3

(* A package one edit from an entry's of the same registry and scope       *)
(* resembles it.                                                           *)
LEMMA CloseIsTold ==
  ASSUME NEW n, NEW kind \in {"npm", "pypi", "oci"}, NEW t, LK!IsName(n), LK!IsName(t),
         t.kind = kind, t.scope = n.scope, t.registry = n.registry,
         LK!DamerauLevenshtein(LK!Skeleton(n.base), LK!Skeleton(t.base)) <= 1,
         Len(LK!Flat(LK!Core(t.base))) >= 2, ~LK!IsGeneric(t.base),
         LK!SameKey(t, kind) # LK!SameKey(n, kind)
  PROVE  LK!Compare(n, kind, t) # Null
<1> DEFINE d == LK!DamerauLevenshtein(LK!Skeleton(n.base), LK!Skeleton(t.base))
           sameSkeleton == LK!Skeleton(n.base) = LK!Skeleton(t.base)
           swapped == kind = "oci" /\ t.kind = "oci" /\ sameSkeleton
           fuzzy == LK!FuzzyDistance(n.base, t.base)
           edited == IF fuzzy = 1 THEN LK!OneEditTechnique(LK!Flat(n.base), LK!Flat(t.base)) ELSE "edit-distance-2"
<1>1. <<n.registry, n.scope, n.base>> # <<t.registry, t.scope, t.base>>
  BY DEF LK!SameKey
<1>2. ~sameSkeleton => fuzzy = 1
  <2>1. PICK S : LK!Skeleton(n.base) \in Seq(S)
    BY NameLetters, SkeletonIs
  <2>2. PICK T : LK!Skeleton(t.base) \in Seq(T)
    BY NameLetters, SkeletonIs
  <2>3. LK!Skeleton(n.base) \in Seq(S \cup T) /\ LK!Skeleton(t.base) \in Seq(S \cup T)
    BY <2>1, <2>2
  <2>4. d \in Nat /\ (d = 0 <=> sameSkeleton)
    BY <2>3, DamerauSays
  <2>5. ~sameSkeleton => d = 1
    <3> HIDE DEF d, sameSkeleton
    <3>1. d <= 1
      BY DEF d
    <3> QED
      BY <2>4, <3>1
  <2>6. t.base \in Seq(LK!Characters)
    BY NameLetters
  <2> QED
    BY <2>5, <2>6, OneEditFits
<1>3. LK!Compare(n, kind, t) \in {"separator", "homoglyph", "registry-swap"} \/ (~sameSkeleton /\ LK!Compare(n, kind, t) = edited)
  BY <1>1, <1>2, ReadingsConstants DEF LK!Compare
<1>4. LK!OneEditTechnique(LK!Flat(n.base), LK!Flat(t.base)) \in LK!Techniques
  BY Zenon DEF LK!OneEditTechnique, LK!Techniques
<1>5. \A x \in LK!Techniques : x # Null
  BY ReadingsConstants
<1>6. {"separator", "homoglyph", "registry-swap"} \subseteq LK!Techniques
  BY DEF LK!Techniques
<1> HIDE DEF edited, fuzzy, sameSkeleton
<1>7. LK!Compare(n, kind, t) \in LK!Techniques
  BY <1>2, <1>3, <1>4, <1>6 DEF edited
<1> QED
  BY <1>5, <1>7

(* So does a package spelled like what an entry is shown as.               *)
LEMMA ShownIsTold ==
  ASSUME NEW n, NEW kind \in {"npm", "pypi", "oci"}, NEW t, t.kind = "name",
         <<t.registry, t.scope, t.base>> = <<n.registry, n.scope, n.base>>
  PROVE  LK!Compare(n, kind, t) # Null
<1>1. LK!Compare(n, kind, t) = "vault-name-reused"
  BY DEF LK!Compare
<1>2. "vault-name-reused" \in LK!Techniques
  BY DEF LK!Techniques
<1> QED
  BY <1>1, <1>2, ReadingsConstants

(* The rows of the index a value of a kind is the same thing as.           *)
SameAs(n, kind, index) ==
    {i \in DOMAIN index :
       IF kind = "name" THEN LK!SameKey(n, "name") = LK!SameKey(index[i], "name")
       ELSE index[i].kind = kind /\ LK!SameKey(n, kind) = LK!SameKey(index[i], kind)}
Owned(n, kind) == kind = "npm" /\ n.scope = Null /\ n.base \in Publishers

LEMMA CheckNameIs ==
  ASSUME NEW n, NEW kind, NEW index, NEW size \in Nat, DOMAIN index = 1 .. size
  PROVE  LET name == LK!CheckName(n, kind, index) IN
         /\ SameAs(n, kind, index) = {} => name.known = Null
         /\ SameAs(n, kind, index) # {} =>
               name.matches = {} /\ \E i \in SameAs(n, kind, index) : name.known = index[i].db
         /\ (SameAs(n, kind, index) = {} /\ ~Owned(n, kind)) =>
               \A i \in DOMAIN index : LK!Compare(n, kind, index[i]) # Null =>
                  <<index[i].db, LK!Compare(n, kind, index[i])>> \in name.matches
<1> DEFINE name == LK!CheckName(n, kind, index)
           exact == SameAs(n, kind, index)
           first == CHOOSE i \in exact : \A j \in exact : i <= j
           matches == {<<t.db, LK!Compare(n, kind, t)>> : t \in {u \in LK!Range(index) : LK!Compare(n, kind, u) # Null}}
<1>1. name = [known |-> IF exact = {} THEN Null ELSE index[first].db,
              matches |-> IF exact # {} \/ Owned(n, kind) THEN {} ELSE matches]
  BY DEF LK!CheckName, SameAs, Owned
<1>2. exact # {} => first \in exact
  <2>1. exact \in SUBSET Nat
    BY DEF SameAs
  <2>2. exact # {} => \E x \in exact : \A y \in exact : x <= y
    BY <2>1, Least
  <2> QED
    BY <2>2
<1>3. \A i \in DOMAIN index : LK!Compare(n, kind, index[i]) # Null =>
         <<index[i].db, LK!Compare(n, kind, index[i])>> \in matches
  BY DEF LK!Range
<1> HIDE DEF name, exact, first, matches
<1>4. /\ exact = {} => name.known = Null
      /\ exact # {} => name.matches = {} /\ \E i \in exact : name.known = index[i].db
      /\ (exact = {} /\ ~Owned(n, kind)) => name.matches = matches
  BY <1>1, <1>2
<1> QED
  BY <1>3, <1>4 DEF name, exact

(* What is told of a launch whose package could be read.                   *)
LEMMA CheckServerIs ==
  ASSUME NEW pkg, NEW k, NEW installing, pkg # Null
  PROVE  LET told == LK!CheckServer(pkg, TRUE, k, Null, installing) IN
         /\ pkg.matches # {} => told = pkg.matches
         /\ (pkg.matches = {} /\ pkg.known # Null /\ k.known \in {Null, pkg.known}) => told = Null
         /\ (pkg.matches = {} /\ k.known # Null /\ k.known \in installing /\ k.known # pkg.known) =>
               told = {<<k.known, "vault-name-on-other-package">>}
<1>1. pkg.matches # {} => LK!CheckServer(pkg, TRUE, k, Null, installing) = pkg.matches
  BY DEF LK!CheckServer
<1>2. (pkg.matches = {} /\ pkg.known # Null /\ k.known \in {Null, pkg.known}) =>
         LK!CheckServer(pkg, TRUE, k, Null, installing) = Null
  BY DEF LK!CheckServer
<1>3. (pkg.matches = {} /\ k.known # Null /\ k.known \in installing /\ k.known # pkg.known) =>
         LK!CheckServer(pkg, TRUE, k, Null, installing) = {<<k.known, "vault-name-on-other-package">>}
  BY DEF LK!CheckServer
<1> QED
  BY <1>1, <1>2, <1>3

(* Names shaped like an entry's are told, and its own are not.             *)
LEMMA ImpersonationTold ==
  ASSUME NEW n, NEW kind \in {"npm", "pypi", "oci"}, NEW key, NEW index,
         index = [i \in 1 .. Len(index) |-> index[i]], Len(index) \in Nat,
         LK!IsName(n), IsIndex(index), IsAnswered(n, kind, index)
  PROVE  LK!ImpersonationIsTold(n, kind, key, index)
<1> DEFINE installing == {t.db : t \in {u \in LK!Range(index) : u.kind # "name"}}
           close(t) == /\ t.kind = kind /\ t.scope = n.scope /\ t.registry = n.registry
                       /\ LK!DamerauLevenshtein(LK!Skeleton(n.base), LK!Skeleton(t.base)) <= 1
                       /\ Len(LK!Flat(LK!Core(t.base))) >= 2 /\ ~LK!IsGeneric(t.base)
           its(t) == t.kind = kind /\ LK!SameKey(t, kind) = LK!SameKey(n, kind)
           shown(t) == t.kind = "name" /\ <<t.registry, t.scope, t.base>> = <<n.registry, n.scope, n.base>>
           own == Owned(n, kind)
           pkg == LK!CheckName(n, kind, index)
           k == LK!CheckName(key, "name", index)
           told == LK!CheckServer(pkg, TRUE, k, Null, installing)
           odd == ~own /\ (\A i \in DOMAIN index : ~its(index[i]))
                  /\ \E i \in DOMAIN index : close(index[i]) \/ shown(index[i])
<1>0. DOMAIN index = 1 .. Len(index)
  OBVIOUS
<1>1. /\ pkg # Null /\ pkg.matches # Null
      /\ \A i \in DOMAIN index : {<<index[i].db, "vault-name-on-other-package">>} # Null
  BY DEF IsAnswered
<1>2. /\ pkg.matches # {} => told = pkg.matches
      /\ (pkg.matches = {} /\ pkg.known # Null /\ k.known \in {Null, pkg.known}) => told = Null
      /\ (pkg.matches = {} /\ k.known # Null /\ k.known \in installing /\ k.known # pkg.known) =>
            told = {<<k.known, "vault-name-on-other-package">>}
  BY <1>1, CheckServerIs
<1>3. /\ SameAs(n, kind, index) = {} => pkg.known = Null
      /\ SameAs(n, kind, index) # {} => pkg.matches = {}
      /\ (SameAs(n, kind, index) = {} /\ ~own) =>
            \A i \in DOMAIN index : LK!Compare(n, kind, index[i]) # Null =>
               <<index[i].db, LK!Compare(n, kind, index[i])>> \in pkg.matches
  BY <1>0, CheckNameIs
<1>4. k.known # Null => \E i \in DOMAIN index : k.known = index[i].db
  <2>1. /\ SameAs(key, "name", index) = {} => k.known = Null
        /\ SameAs(key, "name", index) # {} => \E i \in SameAs(key, "name", index) : k.known = index[i].db
    BY <1>0, CheckNameIs
  <2> QED
    BY <2>1 DEF SameAs
<1>5. \A i \in DOMAIN index : index[i].db \in installing
  <2> SUFFICES ASSUME NEW i \in DOMAIN index PROVE index[i].db \in installing
    OBVIOUS
  <2>1. PICK j \in DOMAIN index : index[j].db = index[i].db /\ index[j].kind # "name"
    BY DEF IsIndex
  <2> QED
    BY <2>1 DEF LK!Range
<1>6. ASSUME odd PROVE told # Null
  <2>1. SameAs(n, kind, index) = {}
    BY <1>6 DEF SameAs
  <2>2. PICK i \in DOMAIN index : close(index[i]) \/ shown(index[i])
    BY <1>6
  <2>3. LK!IsName(index[i]) /\ ~its(index[i])
    BY <1>6 DEF IsIndex
  <2>4. LK!Compare(n, kind, index[i]) # Null
    <3>1. CASE close(index[i])
      BY <2>3, <3>1, CloseIsTold
    <3>2. CASE shown(index[i])
      BY <3>2, ShownIsTold
    <3> QED
      BY <2>2, <3>1, <3>2
  <2>5. pkg.matches # {}
    BY <1>3, <1>6, <2>1, <2>4
  <2> QED
    BY <1>1, <1>2, <2>5
<1>7. ASSUME k.known # Null, pkg.known # k.known PROVE told # Null
  <2>1. PICK i \in DOMAIN index : k.known = index[i].db
    BY <1>4, <1>7
  <2>2. k.known \in installing /\ {<<k.known, "vault-name-on-other-package">>} # Null
    BY <1>1, <1>5, <2>1
  <2> HIDE DEF pkg, k, told, installing
  <2> QED
    BY <1>1, <1>2, <1>7, <2>2
<1>8. ASSUME pkg.known # Null, k.known \in {Null, pkg.known} PROVE told = Null
  <2> HIDE DEF pkg, k, told, installing
  <2> QED
    BY <1>2, <1>3, <1>8
<1>9. LK!ImpersonationIsTold(n, kind, key, index) =
         (/\ odd => told # Null
          /\ (k.known # Null /\ pkg.known # k.known) => told # Null
          /\ (pkg.known # Null /\ k.known \in {Null, pkg.known}) => told = Null)
  BY DEF LK!ImpersonationIsTold, Owned
<1> HIDE DEF odd, told, k, pkg
<1> QED
  BY <1>6, <1>7, <1>8, <1>9

-----------------------------------------------------------------------------

(***************************************************************************)
(* Versions.  What VersionProofs shows of its own comparator holds of V's: *)
(* they are the same operators of the same Null and Odd.                   *)
(***************************************************************************)
VP == INSTANCE VersionProofs

LEMMA SameDigits == \A a, b : V!CompareDigits(a, b) = VP!CompareDigits(a, b)
  BY DEF V!CompareDigits, VP!CompareDigits

LEMMA SameFirst == \A c : V!FirstOf(c) = VP!FirstOf(c)
  BY DEF V!FirstOf, VP!FirstOf

LEMMA SameIdentifier == \A p, q : V!CompareIdentifier(p, q) = VP!CompareIdentifier(p, q)
  BY SameDigits DEF V!CompareIdentifier, VP!CompareIdentifier

LEMMA SameLonger == \A s, t : V!Longer(s, t) = VP!Longer(s, t)
  BY DEF V!Longer, VP!Longer

LEMMA SameSemver == \A a, b : V!CompareSemver(a, b) = VP!CompareSemver(a, b)
  BY SameDigits, SameFirst, SameIdentifier, SameLonger DEF V!CompareSemver, VP!CompareSemver

LEMMA SameKey == \A v : V!Pep440Key(v) = VP!Pep440Key(v)
  BY DEF V!Pep440Key, VP!Pep440Key, V!Low, VP!Low, V!High, VP!High

LEMMA SameField == \A f, g : V!CompareField(f, g) = VP!CompareField(f, g)
  BY SameDigits DEF V!CompareField, VP!CompareField

LEMMA SamePep440 == \A a, b : V!ComparePep440(a, b) = VP!ComparePep440(a, b)
<1> SUFFICES ASSUME NEW a, NEW b PROVE V!ComparePep440(a, b) = VP!ComparePep440(a, b)
  OBVIOUS
<1> DEFINE at(s, i) == IF i > Len(s) THEN 0 ELSE s[i]
           release == [i \in 1 .. V!Longer(a.release, b.release) |->
                          V!CompareDigits(at(a.release, i), at(b.release, i))]
           released == [i \in 1 .. VP!Longer(a.release, b.release) |->
                          VP!CompareDigits(at(a.release, i), at(b.release, i))]
           field == [i \in 1 .. 3 |-> V!CompareField(V!Pep440Key(a)[i], V!Pep440Key(b)[i])]
           fielded == [i \in 1 .. 3 |-> VP!CompareField(VP!Pep440Key(a)[i], VP!Pep440Key(b)[i])]
<1>1. release = released
  BY SameDigits, SameLonger
<1>2. field = fielded
  BY SameField, SameKey
<1>3. /\ V!FirstOf(release) = VP!FirstOf(released) /\ V!FirstOf(field) = VP!FirstOf(fielded)
      /\ V!CompareDigits(a.epoch, b.epoch) = VP!CompareDigits(a.epoch, b.epoch)
  BY <1>1, <1>2, SameFirst, SameDigits
<1>4. V!ComparePep440(a, b) =
         IF Odd \in {a, b} THEN Null
         ELSE IF a.epoch # b.epoch THEN V!CompareDigits(a.epoch, b.epoch)
         ELSE IF V!FirstOf(release) # 0 THEN V!FirstOf(release) ELSE V!FirstOf(field)
  BY DEF V!ComparePep440
<1>5. VP!ComparePep440(a, b) =
         IF Odd \in {a, b} THEN Null
         ELSE IF a.epoch # b.epoch THEN VP!CompareDigits(a.epoch, b.epoch)
         ELSE IF VP!FirstOf(released) # 0 THEN VP!FirstOf(released) ELSE VP!FirstOf(fielded)
  BY DEF VP!ComparePep440
<1> HIDE DEF release, released, field, fielded
<1> QED
  BY <1>3, <1>4, <1>5

LEMMA SameComparator == \A e, a, b : V!Comparator(e, a, b) = VP!Comparator(e, a, b)
  BY SameSemver, SamePep440 DEF V!Comparator, VP!Comparator

LEMMA SameMax == \A e, list : V!MaxVersion(e, list) = VP!MaxVersion(e, list)
<1> SUFFICES ASSUME NEW e, NEW list PROVE V!MaxVersion(e, list) = VP!MaxVersion(e, list)
  OBVIOUS
<1> DEFINE better(best, v) ==
              IF best = Null THEN Null
              ELSE IF V!Comparator(e, v, best) = Null THEN Null
              ELSE IF V!Comparator(e, v, best) > 0 THEN v ELSE best
           steps(up) == [i \in DOMAIN list |-> IF i = 1 THEN list[1] ELSE better(up[i - 1], list[i])]
<1>1. V!MaxVersion(e, list) =
         IF list = <<>> THEN Null ELSE (CHOOSE up : up = steps(up))[Len(list)]
  BY DEF V!MaxVersion
<1> DEFINE bettered(best, v) ==
              IF best = Null THEN Null
              ELSE IF VP!Comparator(e, v, best) = Null THEN Null
              ELSE IF VP!Comparator(e, v, best) > 0 THEN v ELSE best
           stepped(up) == [i \in DOMAIN list |-> IF i = 1 THEN list[1] ELSE bettered(up[i - 1], list[i])]
<1>2. VP!MaxVersion(e, list) =
         IF list = <<>> THEN Null ELSE (CHOOSE up : up = stepped(up))[Len(list)]
  BY DEF VP!MaxVersion
<1>3. ASSUME NEW up PROVE steps(up) = stepped(up)
  <2>1. \A best, v : better(best, v) = bettered(best, v)
    BY SameComparator
  <2> HIDE DEF better, bettered
  <2> QED
    BY <2>1
<1> HIDE DEF steps, stepped
<1>4. (CHOOSE up : up = steps(up)) = CHOOSE up : up = stepped(up)
  BY <1>3
<1> QED
  BY <1>1, <1>2, <1>4

LEMMA SameSame == \A e, a, b : V!SameVersion(e, a, b) = VP!SameVersion(e, a, b)
  BY SameComparator DEF V!SameVersion, VP!SameVersion

LEMMA SameVersions == \A e, v : V!IsVersion(e, v) <=> VP!IsVersion(e, v)
  BY DEF V!IsVersion, VP!IsVersion

LEMMA SameOrdered == \A e, a, b, c : V!VersionsAreOrdered(e, a, b, c) <=> VP!VersionsAreOrdered(e, a, b, c)
  BY SameComparator, SameMax, SameSame DEF V!VersionsAreOrdered, VP!VersionsAreOrdered

LEMMA SameChain == \A e, chain : V!OrderedLike(e, chain) <=> VP!OrderedLike(e, chain)
  BY SameComparator, SameDigits DEF V!OrderedLike, VP!OrderedLike

LEMMA Constants == VP!VersionsConstants
  BY ReadingsConstants DEF VP!VersionsConstants

LEMMA ThreeVersions ==
    ASSUME NEW e \in {"npm", "pypi"}, NEW a, NEW b, NEW c,
           \A v \in {a, b, c} : v = Odd \/ V!IsVersion(e, v)
    PROVE  V!VersionsAreOrdered(e, a, b, c)
<1>1. e \in VP!Ecosystems
  BY DEF VP!Ecosystems
<1>2. \A v \in {a, b, c} : v = Odd \/ VP!IsVersion(e, v)
  BY SameVersions
<1>3. VP!VersionsAreOrdered(e, a, b, c)
  BY <1>1, <1>2, Constants, VP!VersionsOrdered
<1> QED
  BY <1>3, SameOrdered

(* semver.org's chain. *)
Pre(i) == <<<<W(1)>>, <<W(1), N(1)>>, <<W(1), W(2)>>, <<W(2)>>, <<W(2), N(2)>>, <<W(2), N(11)>>, <<W(3)>>, <<>>>>[i]

LEMMA PreIs ==
    /\ Pre(1) = <<W(1)>> /\ Pre(2) = <<W(1), N(1)>> /\ Pre(3) = <<W(1), W(2)>> /\ Pre(4) = <<W(2)>>
    /\ Pre(5) = <<W(2), N(2)>> /\ Pre(6) = <<W(2), N(11)>> /\ Pre(7) = <<W(3)>> /\ Pre(8) = <<>>
  BY DEF Pre

LEMMA IdentifiersOfChain ==
    /\ \A r \in Nat : W(r) \in VP!Identifiers /\ N(r) \in VP!Identifiers
    /\ \A r \in Nat : VP!CompareIdentifier(W(r), W(r)) = 0
    /\ \A r, q \in Nat : VP!CompareIdentifier(N(r), W(q)) = -1
    /\ \A r, q \in Nat : r < q => /\ VP!CompareIdentifier(N(r), N(q)) = -1
                                  /\ VP!CompareIdentifier(W(r), W(q)) = -1
  BY DEF W, N, VP!Identifiers, VP!CompareIdentifier, VP!CompareDigits

LEMMA NpmChainIs ==
    ASSUME NEW i \in 1 .. 8
    PROVE  /\ NpmChain[i].core = <<1, 0, 0>> /\ NpmChain[i].pre = Pre(i)
           /\ Pre(i) = <<>> <=> i = 8
           /\ VP!IsVersion("npm", NpmChain[i])
<1>1. NpmChain[i].core = <<1, 0, 0>> /\ NpmChain[i].pre = Pre(i)
  BY DEF NpmChain, Npm, Pre
<1>2. Pre(i) \in Seq(VP!Identifiers) /\ (Pre(i) = <<>> <=> i = 8)
  <2>1. \A x, y \in VP!Identifiers : /\ <<x>> \in Seq(VP!Identifiers) /\ <<x>> # <<>>
                                     /\ <<x, y>> \in Seq(VP!Identifiers) /\ <<x, y>> # <<>>
    OBVIOUS
  <2>2. <<>> \in Seq(VP!Identifiers)
    OBVIOUS
  <2>3. i \in {1, 4, 7} \/ i \in {2, 3, 5, 6} \/ i = 8
    OBVIOUS
  <2>4. CASE i \in {1, 4, 7}
    BY <2>1, <2>4, PreIs, IdentifiersOfChain
  <2>5. CASE i \in {2, 3, 5, 6}
    BY <2>1, <2>5, PreIs, IdentifiersOfChain
  <2> QED
    BY <2>2, <2>3, <2>4, <2>5, PreIs
<1>3. <<1, 0, 0>> \in [1 .. 3 -> Nat]
  OBVIOUS
<1>4. NpmChain[i] \notin {Null, Odd}
  BY ReadingsConstants
<1>5. VP!IsVersion("npm", NpmChain[i])
  BY <1>1, <1>2, <1>3, <1>4 DEF VP!IsVersion, VP!Identifiers
<1> QED
  BY <1>1, <1>2, <1>5

LEMMA PreAscends ==
    /\ \A i \in {1, 2, 4, 5} : VP!At(Pre(i), Pre(i + 1), 1) = 0 /\ VP!At(Pre(i), Pre(i + 1), 2) = -1
    /\ \A i \in {3, 6} : VP!At(Pre(i), Pre(i + 1), 1) = -1
<1>1. /\ VP!CompareIdentifier(W(1), W(1)) = 0 /\ VP!CompareIdentifier(W(2), W(2)) = 0
      /\ VP!CompareIdentifier(N(1), W(2)) = -1 /\ VP!CompareIdentifier(N(2), N(11)) = -1
      /\ VP!CompareIdentifier(W(1), W(2)) = -1 /\ VP!CompareIdentifier(W(2), W(3)) = -1
  BY IdentifiersOfChain
<1>2. VP!At(Pre(1), Pre(2), 1) = 0 /\ VP!At(Pre(1), Pre(2), 2) = -1
  <2>1. /\ VP!At(<<W(1)>>, <<W(1), N(1)>>, 1) = VP!CompareIdentifier(W(1), W(1))
        /\ VP!At(<<W(1)>>, <<W(1), N(1)>>, 2) = -1
    BY DEF VP!At
  <2> QED
    BY <1>1, <2>1, PreIs
<1>3. VP!At(Pre(2), Pre(3), 1) = 0 /\ VP!At(Pre(2), Pre(3), 2) = -1
  <2>1. /\ VP!At(<<W(1), N(1)>>, <<W(1), W(2)>>, 1) = VP!CompareIdentifier(W(1), W(1))
        /\ VP!At(<<W(1), N(1)>>, <<W(1), W(2)>>, 2) = VP!CompareIdentifier(N(1), W(2))
    BY DEF VP!At
  <2> QED
    BY <1>1, <2>1, PreIs
<1>4. VP!At(Pre(3), Pre(4), 1) = -1
  <2>1. VP!At(<<W(1), W(2)>>, <<W(2)>>, 1) = VP!CompareIdentifier(W(1), W(2))
    BY DEF VP!At
  <2> QED
    BY <1>1, <2>1, PreIs
<1>5. VP!At(Pre(4), Pre(5), 1) = 0 /\ VP!At(Pre(4), Pre(5), 2) = -1
  <2>1. /\ VP!At(<<W(2)>>, <<W(2), N(2)>>, 1) = VP!CompareIdentifier(W(2), W(2))
        /\ VP!At(<<W(2)>>, <<W(2), N(2)>>, 2) = -1
    BY DEF VP!At
  <2> QED
    BY <1>1, <2>1, PreIs
<1>6. VP!At(Pre(5), Pre(6), 1) = 0 /\ VP!At(Pre(5), Pre(6), 2) = -1
  <2>1. /\ VP!At(<<W(2), N(2)>>, <<W(2), N(11)>>, 1) = VP!CompareIdentifier(W(2), W(2))
        /\ VP!At(<<W(2), N(2)>>, <<W(2), N(11)>>, 2) = VP!CompareIdentifier(N(2), N(11))
    BY DEF VP!At
  <2> QED
    BY <1>1, <2>1, PreIs
<1>7. VP!At(Pre(6), Pre(7), 1) = -1
  <2>1. VP!At(<<W(2), N(11)>>, <<W(3)>>, 1) = VP!CompareIdentifier(W(2), W(3))
    BY DEF VP!At
  <2> QED
    BY <1>1, <2>1, PreIs
<1>8. 1 + 1 = 2 /\ 2 + 1 = 3 /\ 3 + 1 = 4 /\ 4 + 1 = 5 /\ 5 + 1 = 6 /\ 6 + 1 = 7
  OBVIOUS
<1> QED
  BY <1>2, <1>3, <1>4, <1>5, <1>6, <1>7, <1>8

LEMMA NpmNeighbours ==
    ASSUME NEW i \in 1 .. 7, NEW a, a = NpmChain[i], NEW b, b = NpmChain[i + 1]
    PROVE  VP!Comparator("npm", a, b) = -1
<1>1. i \in 1 .. 8 /\ i + 1 \in 1 .. 8
  OBVIOUS
<1>2. /\ VP!IsVersion("npm", a) /\ a.core = <<1, 0, 0>> /\ a.pre = Pre(i) /\ Pre(i) # <<>>
  <2>1. i # 8
    OBVIOUS
  <2> QED
    BY <1>1, <2>1, NpmChainIs
<1>3. /\ VP!IsVersion("npm", b) /\ b.core = <<1, 0, 0>> /\ b.pre = Pre(i + 1)
      /\ Pre(i + 1) = <<>> <=> i = 7
  <2>1. i + 1 = 8 <=> i = 7
    OBVIOUS
  <2> QED
    BY <1>1, <2>1, NpmChainIs
<1>4. a.core = b.core
  BY <1>2, <1>3
<1>5. CASE i = 7
  BY <1>2, <1>3, <1>4, <1>5, Constants, VP!ReleaseAbove
<1>6. CASE i \in {3, 6}
  <2>1. VP!At(a.pre, b.pre, 1) = -1
    BY <1>2, <1>3, <1>6, PreAscends
  <2>2. 1 \in VP!Positions /\ \A j \in VP!Positions : ~(j < 1)
    BY DEF VP!Positions
  <2>3. a.pre # <<>> /\ b.pre # <<>>
    BY <1>2, <1>3, <1>6
  <2> QED
    BY <1>2, <1>3, <1>4, <2>1, <2>2, <2>3, Constants, VP!SemverBelow
<1>7. CASE i \in {1, 2, 4, 5}
  <2>1. VP!At(a.pre, b.pre, 1) = 0 /\ VP!At(a.pre, b.pre, 2) = -1
    BY <1>2, <1>3, <1>7, PreAscends
  <2>2. 2 \in VP!Positions /\ \A j \in VP!Positions : j < 2 => j = 1
    BY DEF VP!Positions
  <2>3. a.pre # <<>> /\ b.pre # <<>>
    BY <1>2, <1>3, <1>7
  <2>4. \A j \in VP!Positions : j < 2 => VP!At(a.pre, b.pre, j) = 0
    BY <2>1, <2>2
  <2> QED
    BY <1>2, <1>3, <1>4, <2>1, <2>2, <2>3, <2>4, Constants, VP!SemverBelow
<1>8. i \in {1, 2, 4, 5} \/ i \in {3, 6} \/ i = 7
  OBVIOUS
<1> QED
  BY <1>5, <1>6, <1>7, <1>8

LEMMA NpmChainAscends == V!OrderedLike("npm", NpmChain)
<1>1. /\ "npm" \in VP!Ecosystems /\ 8 \in Nat /\ DOMAIN NpmChain = 1 .. 8
      /\ \A i \in 1 .. 8 : VP!IsVersion("npm", NpmChain[i])
  BY NpmChainIs DEF VP!Ecosystems, NpmChain
<1>2. \A i \in 1 .. (8 - 1) : VP!Comparator("npm", NpmChain[i], NpmChain[i + 1]) = -1
  BY NpmNeighbours
<1> HIDE DEF NpmChain
<1>3. VP!OrderedLike("npm", NpmChain)
  BY <1>1, <1>2, Constants, VP!ChainAscends
<1> QED
  BY <1>3, SameChain

(* The chain of PEP 440: each version and what it compares by.             *)
IsPy(v, release, pre, post, dev) ==
    v.epoch = 0 /\ v.release = release /\ v.pre = pre /\ v.post = post /\ v.dev = dev

LEMMA PyIs ==
    ASSUME NEW release, NEW pre, NEW post, NEW dev PROVE IsPy(Py(release, pre, post, dev), release, pre, post, dev)
  BY DEF IsPy, Py

LEMMA PyChainIs ==
    /\ IsPy(PyChain[1], <<1>>, Null, Null, 1)
    /\ IsPy(PyChain[2], <<1>>, <<0, 1>>, Null, 1)
    /\ IsPy(PyChain[3], <<1>>, <<0, 1>>, Null, Null)
    /\ IsPy(PyChain[4], <<1>>, <<0, 1>>, 1, 1)
    /\ IsPy(PyChain[5], <<1>>, <<0, 1>>, 1, Null)
    /\ IsPy(PyChain[6], <<1>>, <<1, 1>>, Null, Null)
    /\ IsPy(PyChain[7], <<1>>, <<2, 1>>, Null, Null)
    /\ IsPy(PyChain[8], <<1>>, Null, Null, Null)
    /\ IsPy(PyChain[9], <<1, 0>>, Null, 1, 1)
    /\ IsPy(PyChain[10], <<1>>, Null, 1, Null)
    /\ IsPy(PyChain[11], <<1, 1>>, Null, Null, 1)
<1>1. DOMAIN PyChain = 1 .. 11
  BY DEF PyChain
<1>2. PyChain[1] = Py(<<1>>, Null, Null, 1)
  BY DEF PyChain
<1>3. PyChain[2] = Py(<<1>>, <<0, 1>>, Null, 1)
  BY DEF PyChain
<1>4. PyChain[3] = Py(<<1>>, <<0, 1>>, Null, Null)
  BY DEF PyChain
<1>5. PyChain[4] = Py(<<1>>, <<0, 1>>, 1, 1)
  BY DEF PyChain
<1>6. PyChain[5] = Py(<<1>>, <<0, 1>>, 1, Null)
  BY DEF PyChain
<1>7. PyChain[6] = Py(<<1>>, <<1, 1>>, Null, Null)
  BY DEF PyChain
<1>8. PyChain[7] = Py(<<1>>, <<2, 1>>, Null, Null)
  BY DEF PyChain
<1>9. PyChain[8] = Py(<<1>>, Null, Null, Null)
  BY DEF PyChain
<1>10. PyChain[9] = Py(<<1, 0>>, Null, 1, 1)
  BY DEF PyChain
<1>11. PyChain[10] = Py(<<1>>, Null, 1, Null)
  BY DEF PyChain
<1>12. PyChain[11] = Py(<<1, 1>>, Null, Null, 1)
  BY DEF PyChain
<1> QED
  BY <1>2, <1>3, <1>4, <1>5, <1>6, <1>7, <1>8, <1>9, <1>10, <1>11, <1>12, PyIs

LEMMA NullIs == Null # 1 /\ Null # <<0, 1>> /\ Null # <<1, 1>> /\ Null # <<2, 1>>
<1>1. 1 \in Int /\ <<0, 1>> \in Nat \X Nat /\ <<1, 1>> \in Nat \X Nat /\ <<2, 1>> \in Nat \X Nat
  OBVIOUS
<1> QED
  BY <1>1, ReadingsConstants

LEMMA PyKeys ==
    /\ VP!Pep440Key(PyChain[1]) = <<VP!Low, VP!Low, <<0, 1>>>>
    /\ VP!Pep440Key(PyChain[2]) = <<<<0, 1>>, VP!Low, <<0, 1>>>>
    /\ VP!Pep440Key(PyChain[3]) = <<<<0, 1>>, VP!Low, VP!High>>
    /\ VP!Pep440Key(PyChain[4]) = <<<<0, 1>>, <<0, 1>>, <<0, 1>>>>
    /\ VP!Pep440Key(PyChain[5]) = <<<<0, 1>>, <<0, 1>>, VP!High>>
    /\ VP!Pep440Key(PyChain[6]) = <<<<1, 1>>, VP!Low, VP!High>>
    /\ VP!Pep440Key(PyChain[7]) = <<<<2, 1>>, VP!Low, VP!High>>
    /\ VP!Pep440Key(PyChain[8]) = <<VP!High, VP!Low, VP!High>>
    /\ VP!Pep440Key(PyChain[9]) = <<VP!High, <<0, 1>>, <<0, 1>>>>
    /\ VP!Pep440Key(PyChain[10]) = <<VP!High, <<0, 1>>, VP!High>>
    /\ VP!Pep440Key(PyChain[11]) = <<VP!Low, VP!Low, <<0, 1>>>>
<1> USE NullIs, PyChainIs DEF IsPy, VP!Pep440Key
<1>1. VP!Pep440Key(PyChain[1]) = <<VP!Low, VP!Low, <<0, 1>>>>
  OBVIOUS
<1>2. VP!Pep440Key(PyChain[2]) = <<<<0, 1>>, VP!Low, <<0, 1>>>>
  OBVIOUS
<1>3. VP!Pep440Key(PyChain[3]) = <<<<0, 1>>, VP!Low, VP!High>>
  OBVIOUS
<1>4. VP!Pep440Key(PyChain[4]) = <<<<0, 1>>, <<0, 1>>, <<0, 1>>>>
  OBVIOUS
<1>5. VP!Pep440Key(PyChain[5]) = <<<<0, 1>>, <<0, 1>>, VP!High>>
  OBVIOUS
<1>6. VP!Pep440Key(PyChain[6]) = <<<<1, 1>>, VP!Low, VP!High>>
  OBVIOUS
<1>7. VP!Pep440Key(PyChain[7]) = <<<<2, 1>>, VP!Low, VP!High>>
  OBVIOUS
<1>8. VP!Pep440Key(PyChain[8]) = <<VP!High, VP!Low, VP!High>>
  OBVIOUS
<1>9. VP!Pep440Key(PyChain[9]) = <<VP!High, <<0, 1>>, <<0, 1>>>>
  OBVIOUS
<1>10. VP!Pep440Key(PyChain[10]) = <<VP!High, <<0, 1>>, VP!High>>
  OBVIOUS
<1>11. VP!Pep440Key(PyChain[11]) = <<VP!Low, VP!Low, <<0, 1>>>>
  OBVIOUS
<1> QED
  BY <1>1, <1>2, <1>3, <1>4, <1>5, <1>6, <1>7, <1>8, <1>9, <1>10, <1>11

LEMMA PyVersions == \A i \in 1 .. 11 : VP!IsVersion("pypi", PyChain[i])
<1>1. /\ <<1>> \in Seq(Nat) /\ <<1, 0>> \in Seq(Nat) /\ <<1, 1>> \in Seq(Nat)
      /\ <<0, 1>> \in (0 .. 2) \X Nat /\ <<1, 1>> \in (0 .. 2) \X Nat /\ <<2, 1>> \in (0 .. 2) \X Nat
  OBVIOUS
<1>2. \A i \in 1 .. 11 : PyChain[i] \notin {Null, Odd}
  BY ReadingsConstants
<1>3. \A i \in 1 .. 11 : i \in {1, 2, 3, 4, 5, 6, 7, 8, 9, 10, 11}
  OBVIOUS
<1>4. VP!IsVersion("pypi", PyChain[1])
  BY <1>1, <1>2, PyChainIs DEF IsPy, VP!IsVersion
<1>5. VP!IsVersion("pypi", PyChain[2])
  BY <1>1, <1>2, PyChainIs DEF IsPy, VP!IsVersion
<1>6. VP!IsVersion("pypi", PyChain[3])
  BY <1>1, <1>2, PyChainIs DEF IsPy, VP!IsVersion
<1>7. VP!IsVersion("pypi", PyChain[4])
  BY <1>1, <1>2, PyChainIs DEF IsPy, VP!IsVersion
<1>8. VP!IsVersion("pypi", PyChain[5])
  BY <1>1, <1>2, PyChainIs DEF IsPy, VP!IsVersion
<1>9. VP!IsVersion("pypi", PyChain[6])
  BY <1>1, <1>2, PyChainIs DEF IsPy, VP!IsVersion
<1>10. VP!IsVersion("pypi", PyChain[7])
  BY <1>1, <1>2, PyChainIs DEF IsPy, VP!IsVersion
<1>11. VP!IsVersion("pypi", PyChain[8])
  BY <1>1, <1>2, PyChainIs DEF IsPy, VP!IsVersion
<1>12. VP!IsVersion("pypi", PyChain[9])
  BY <1>1, <1>2, PyChainIs DEF IsPy, VP!IsVersion
<1>13. VP!IsVersion("pypi", PyChain[10])
  BY <1>1, <1>2, PyChainIs DEF IsPy, VP!IsVersion
<1>14. VP!IsVersion("pypi", PyChain[11])
  BY <1>1, <1>2, PyChainIs DEF IsPy, VP!IsVersion
<1> QED
  BY <1>3, <1>4, <1>5, <1>6, <1>7, <1>8, <1>9, <1>10, <1>11, <1>12, <1>13, <1>14

(* The field that decides between a version of the chain and the next. *)
Deciding(i) == <<1, 3, 2, 3, 1, 1, 1, 2, 3>>[i]

LEMMA PyFields ==
    \A i \in 1 .. 9 :
        LET k == VP!Pep440Key(PyChain[i])
            l == VP!Pep440Key(PyChain[i + 1])
            f == Deciding(i)
        IN  /\ f \in 1 .. 3 /\ VP!CompareField(k[f], l[f]) = -1
            /\ \A j \in 1 .. 3 : j < f => k[j] = l[j]
<1> DEFINE Key(i) == VP!Pep440Key(PyChain[i])
           Good(i) == /\ Deciding(i) \in 1 .. 3
                      /\ VP!CompareField(Key(i)[Deciding(i)], Key(i + 1)[Deciding(i)]) = -1
                      /\ \A j \in 1 .. 3 : j < Deciding(i) => Key(i)[j] = Key(i + 1)[j]
<1>1. Good(1)
  <2>1. Key(1) = <<VP!Low, VP!Low, <<0, 1>>>> /\ Key(1 + 1) = <<<<0, 1>>, VP!Low, <<0, 1>>>> /\ Deciding(1) = 1
    BY PyKeys DEF Deciding
  <2> HIDE DEF Key
  <2> QED
    BY <2>1 DEF VP!CompareField, VP!CompareDigits, VP!Low, VP!High
<1>2. Good(2)
  <2>1. Key(2) = <<<<0, 1>>, VP!Low, <<0, 1>>>> /\ Key(2 + 1) = <<<<0, 1>>, VP!Low, VP!High>> /\ Deciding(2) = 3
    BY PyKeys DEF Deciding
  <2> HIDE DEF Key
  <2> QED
    BY <2>1 DEF VP!CompareField, VP!CompareDigits, VP!Low, VP!High
<1>3. Good(3)
  <2>1. Key(3) = <<<<0, 1>>, VP!Low, VP!High>> /\ Key(3 + 1) = <<<<0, 1>>, <<0, 1>>, <<0, 1>>>> /\ Deciding(3) = 2
    BY PyKeys DEF Deciding
  <2> HIDE DEF Key
  <2> QED
    BY <2>1 DEF VP!CompareField, VP!CompareDigits, VP!Low, VP!High
<1>4. Good(4)
  <2>1. Key(4) = <<<<0, 1>>, <<0, 1>>, <<0, 1>>>> /\ Key(4 + 1) = <<<<0, 1>>, <<0, 1>>, VP!High>> /\ Deciding(4) = 3
    BY PyKeys DEF Deciding
  <2> HIDE DEF Key
  <2> QED
    BY <2>1 DEF VP!CompareField, VP!CompareDigits, VP!Low, VP!High
<1>5. Good(5)
  <2>1. Key(5) = <<<<0, 1>>, <<0, 1>>, VP!High>> /\ Key(5 + 1) = <<<<1, 1>>, VP!Low, VP!High>> /\ Deciding(5) = 1
    BY PyKeys DEF Deciding
  <2> HIDE DEF Key
  <2> QED
    BY <2>1 DEF VP!CompareField, VP!CompareDigits, VP!Low, VP!High
<1>6. Good(6)
  <2>1. Key(6) = <<<<1, 1>>, VP!Low, VP!High>> /\ Key(6 + 1) = <<<<2, 1>>, VP!Low, VP!High>> /\ Deciding(6) = 1
    BY PyKeys DEF Deciding
  <2> HIDE DEF Key
  <2> QED
    BY <2>1 DEF VP!CompareField, VP!CompareDigits, VP!Low, VP!High
<1>7. Good(7)
  <2>1. Key(7) = <<<<2, 1>>, VP!Low, VP!High>> /\ Key(7 + 1) = <<VP!High, VP!Low, VP!High>> /\ Deciding(7) = 1
    BY PyKeys DEF Deciding
  <2> HIDE DEF Key
  <2> QED
    BY <2>1 DEF VP!CompareField, VP!CompareDigits, VP!Low, VP!High
<1>8. Good(8)
  <2>1. Key(8) = <<VP!High, VP!Low, VP!High>> /\ Key(8 + 1) = <<VP!High, <<0, 1>>, <<0, 1>>>> /\ Deciding(8) = 2
    BY PyKeys DEF Deciding
  <2> HIDE DEF Key
  <2> QED
    BY <2>1 DEF VP!CompareField, VP!CompareDigits, VP!Low, VP!High
<1>9. Good(9)
  <2>1. Key(9) = <<VP!High, <<0, 1>>, <<0, 1>>>> /\ Key(9 + 1) = <<VP!High, <<0, 1>>, VP!High>> /\ Deciding(9) = 3
    BY PyKeys DEF Deciding
  <2> HIDE DEF Key
  <2> QED
    BY <2>1 DEF VP!CompareField, VP!CompareDigits, VP!Low, VP!High
<1> HIDE DEF Good
<1>10. \A i \in 1 .. 9 : i \in {1, 2, 3, 4, 5, 6, 7, 8, 9}
  OBVIOUS
<1>11. \A i \in 1 .. 9 : Good(i)
  BY <1>1, <1>2, <1>3, <1>4, <1>5, <1>6, <1>7, <1>8, <1>9, <1>10
<1> QED
  BY <1>11 DEF Good

LEMMA PyNeighbours ==
    ASSUME NEW i \in 1 .. 10, NEW a, a = PyChain[i], NEW b, b = PyChain[i + 1]
    PROVE  VP!Comparator("pypi", a, b) = -1
<1>1. VP!IsVersion("pypi", a) /\ VP!IsVersion("pypi", b)
  <2>1. i \in 1 .. 11 /\ i + 1 \in 1 .. 11
    OBVIOUS
  <2> QED
    BY <2>1, PyVersions
<1>2. \A j \in 1 .. 11 : PyChain[j].epoch = 0 /\ PyChain[j].release =
         IF j = 9 THEN <<1, 0>> ELSE IF j = 11 THEN <<1, 1>> ELSE <<1>>
  <2>1. \A j \in 1 .. 11 : j \in {1, 2, 3, 4, 5, 6, 7, 8, 9, 10, 11}
    OBVIOUS
  <2> QED
    BY <2>1, PyChainIs DEF IsPy
<1>3. a.epoch = b.epoch
  BY <1>2
<1>4. /\ \A j \in VP!Positions : VP!Part(<<1>>, j) = VP!Part(<<1, 0>>, j)
      /\ VP!Part(<<1>>, 1) = 1 /\ VP!Part(<<1, 1>>, 1) = 1
      /\ VP!Part(<<1>>, 2) = 0 /\ VP!Part(<<1, 1>>, 2) = 1
  BY DEF VP!Part, VP!Positions
<1>5. CASE i = 10
  <2>1. a.release = <<1>> /\ b.release = <<1, 1>>
    BY <1>2, <1>5
  <2>2. 2 \in VP!Positions /\ \A j \in VP!Positions : j < 2 => j = 1
    BY DEF VP!Positions
  <2>3. VP!CompareDigits(VP!Part(a.release, 2), VP!Part(b.release, 2)) = -1
    BY <1>4, <2>1 DEF VP!CompareDigits
  <2>4. \A j \in VP!Positions : j < 2 => VP!Part(a.release, j) = VP!Part(b.release, j)
    BY <1>4, <2>1, <2>2
  <2> QED
    BY <1>1, <1>3, <2>2, <2>3, <2>4, Constants, VP!PartBelow
<1>6. CASE i # 10
  <2>1. i \in 1 .. 9
    BY <1>6
  <2>2. \A j \in VP!Positions : VP!Part(a.release, j) = VP!Part(b.release, j)
    BY <1>2, <1>4, <2>1
  <2> QED
    BY <1>1, <1>3, <2>1, <2>2, PyFields, Constants, VP!FieldBelow
<1> QED
  BY <1>5, <1>6

LEMMA PyChainAscends == V!OrderedLike("pypi", PyChain)
<1>1. /\ "pypi" \in VP!Ecosystems /\ 11 \in Nat /\ DOMAIN PyChain = 1 .. 11
      /\ \A i \in 1 .. 11 : VP!IsVersion("pypi", PyChain[i])
  BY PyVersions DEF VP!Ecosystems, PyChain
<1>2. \A i \in 1 .. (11 - 1) : VP!Comparator("pypi", PyChain[i], PyChain[i + 1]) = -1
  BY PyNeighbours
<1>3. VP!OrderedLike("pypi", PyChain)
  BY <1>1, <1>2, Constants, VP!ChainAscends
<1> QED
  BY <1>3, SameChain

-----------------------------------------------------------------------------
(***************************************************************************)
(* The theorems.  What is read is an input of its kind, now and later.     *)
(***************************************************************************)
LEMMA ReadingInvariant == ReadingsSpec => []IsReading(input)
<1>1. IsReading(input) /\ [Read]_input => IsReading(input)'
  BY DEF Read
<1> QED
  BY <1>1, PTL DEF ReadingsSpec

LEMMA LaunchAsRead == ASSUME IsReading(input) PROVE LaunchIsKept
<1>1. input[1] = "launch" => IsCommand(input[2])
  BY DEF IsReading
<1> QED
  BY <1>1, PinIsRead, CanonicalIsTheSame DEF LaunchIsKept

LEMMA VersionsAsRead == ASSUME IsReading(input) PROVE VersionsInOrder
<1>1. ASSUME input[1] = "versions"
      PROVE  V!VersionsAreOrdered(input[2], input[3][1], input[3][2], input[3][3])
  <2>1. /\ input[2] \in {"npm", "pypi"}
        /\ \A i \in 1 .. 3 : input[3][i] = Odd \/ V!IsVersion(input[2], input[3][i])
    BY <1>1 DEF IsReading
  <2>2. 1 \in 1 .. 3 /\ 2 \in 1 .. 3 /\ 3 \in 1 .. 3
    OBVIOUS
  <2> QED
    BY <2>1, <2>2, ThreeVersions
<1>2. ASSUME input[1] = "chain" PROVE V!OrderedLike(input[2], input[3])
  <2>1. input = <<"chain", "npm", NpmChain>> \/ input = <<"chain", "pypi", PyChain>>
    BY <1>2 DEF IsReading
  <2>2. \/ input[2] = "npm" /\ input[3] = NpmChain
        \/ input[2] = "pypi" /\ input[3] = PyChain
    BY <2>1
  <2> QED
    BY <2>2, NpmChainAscends, PyChainAscends
<1> QED
  BY <1>1, <1>2 DEF VersionsInOrder

LEMMA SetAsRead == ASSUME IsReading(input) PROVE SetIsTold
<1>1. ASSUME input[1] = "set" PROVE F!FlowsAreTold(input[2])
  <2>1. IsListOf(input[2])
    BY <1>1 DEF IsReading
  <2> QED
    BY <2>1, FlowsTold DEF IsListOf
<1>2. ASSUME input[1] = "tools" PROVE F!CollisionsAreTold(input[2], input[3])
  <2>1. \A t \in input[2].tools \cup input[3].tools : t.norm \in Seq(Letters)
    BY <1>2 DEF IsReading
  <2> QED
    BY <2>1, CollisionsTold
<1> QED
  BY <1>1, <1>2 DEF SetIsTold

LEMMA NamesAsRead == ASSUME IsReading(input) PROVE LookalikeIsTold
<1>1. ASSUME input[1] = "edit" PROVE LK!EditsAreNamed(input[2], input[3])
  <2>1. input[2] \in Seq(Letters) /\ input[3] \in Seq(Letters)
    BY <1>1 DEF IsReading
  <2> QED
    BY <2>1, EditsNamed
<1>2. ASSUME input[1] = "name" PROVE LK!ImpersonationIsTold(input[2], input[3], input[4], input[5])
  <2>1. /\ LK!IsName(input[2]) /\ input[3] \in {"npm", "pypi", "oci"}
        /\ IsListOf(input[5]) /\ IsIndex(input[5]) /\ IsAnswered(input[2], input[3], input[5])
    BY <1>2 DEF IsReading
  <2> QED
    BY <2>1, ImpersonationTold DEF IsListOf
<1> QED
  BY <1>1, <1>2 DEF LookalikeIsTold

LEMMA ExitAsRead == ASSUME IsReading(input) PROVE ExitIsEarned
<1>1. ASSUME input[1] = "setup" PROVE StrictAuditIsEarned(input[2]) /\ StatusAgreesWithAudit(input[2])
  <2>1. Listable(input[2])
    BY <1>1 DEF IsReading, Listable
  <2> QED
    BY <2>1, StrictAudit, StatusAgrees
<1>2. ASSUME input[1] = "observe" PROVE O!ObserverExitIsEarned(input[2], input[3], input[4], input[5])
  <2>1. /\ input[2] \in O!Commands /\ input[3] # {} /\ \A a \in input[3] : IsAnswer(input[2], a)
        /\ input[4] \in BOOLEAN /\ input[5] \in BOOLEAN
    BY <1>2 DEF IsReading
  <2> QED
    BY <2>1, ObserverExitEarned
<1> QED
  BY <1>1, <1>2 DEF ExitIsEarned

(* Whatever a launch command is made of: when the program calls it pinned,  *)
(* or pins it, what is launched is that version; and the command it writes  *)
(* back runs the packages, versions and binary it read (install_cmd.cjs).   *)
THEOREM LaunchKept == ReadingsSpec => []LaunchIsKept
<1> QED
  BY LaunchAsRead, ReadingInvariant, PTL

(* Any three versions are in a total order with a maximum no less than any, *)
(* and the chains the two standards print ascend (versions.cjs).            *)
THEOREM VersionsKept == ReadingsSpec => []VersionsInOrder
<1> QED
  BY VersionsAsRead, ReadingInvariant, PTL

(* Every flow of a set of servers is told, as sure as its labels are, and   *)
(* every two tools of a name or nearly of one (flows.cjs).                  *)
THEOREM SetTold == ReadingsSpec => []SetIsTold
<1> QED
  BY SetAsRead, ReadingInvariant, PTL

(* A name one step from an entry's package is told, an entry's own name on  *)
(* another's package too, and the step is called what it is                 *)
(* (lookalike.cjs).                                                         *)
THEOREM LookalikeTold == ReadingsSpec => []LookalikeIsTold
<1> QED
  BY NamesAsRead, ReadingInvariant, PTL

(* A strict audit that exits 0 saw every server of both files pinned,       *)
(* vetted and in order; where the audit fails, so does `status`; and an     *)
(* observer's exit is what its answers say (audit_setup.cjs, status.cjs and *)
(* the commands that look at the registries).                               *)
THEOREM ExitEarned == ReadingsSpec => []ExitIsEarned
<1> QED
  BY ExitAsRead, ReadingInvariant, PTL
=============================================================================
