---------------------------- MODULE VaultDbProofs ---------------------------
(***************************************************************************)
(* What tools_database.json promises for every set of entries, releases,   *)
(* processes and days: VaultDb's type invariant, and that its evidence is  *)
(* sound, its word earned, its replays honest and its confirmations kept.  *)
(*                                                                         *)
(* And the two uses of lib/signing.cjs, the database that is released      *)
(* (SignedDb) and the audits that are shared (Audits), for any keys,       *)
(* files, layouts and projects.  Both rest on one observation: whatever is *)
(* edited, packed, released, fetched or moved between files, an envelope   *)
(* is one that some signer made, over what it signed on the day it signed. *)
(* What verifies is then what was signed, since the digest it names is     *)
(* that of the bytes read.                                                 *)
(***************************************************************************)
EXTENDS VaultDb, SignedDb, Audits, WellFoundedInduction, TLAPS

-----------------------------------------------------------------------------
(* The operators of Evidence. *)

(* The vocabulary: positive words are statuses, and no status is the        *)
(* absence of one.                                                          *)
LEMMA Vocabulary ==
    /\ PositiveStatuses \subseteq Statuses
    /\ NoStatus \notin Statuses
    /\ \A d \in Dims : \A s : IsPositive(d, s) => s \in PositiveStatuses
<1>1. PositiveStatuses \subseteq Statuses
  BY DEF Statuses, PositiveStatuses, BadStatuses
<1>2. NoStatus \notin Statuses
  BY DEF Statuses, PositiveStatuses, BadStatuses, NeutralStatuses, NoStatus
<1>3. ASSUME NEW d \in Dims, NEW s, IsPositive(d, s)
      PROVE  s \in PositiveStatuses
  <2>1. d \in AllDimensions
    BY EvidenceConstants
  <2> QED
    BY <1>3, <2>1 DEF IsPositive, PositiveByDimension, PositiveStatuses,
                      AllDimensions
<1> QED
  BY <1>1, <1>2, <1>3

LEMMA NotExaminedType == NotExamined \in Answers
BY DEF NotExamined, Answers, Never

LEMMA BuildEvidenceType ==
    ASSUME NEW checks \in [Dims -> Statuses \cup {NoStatus}],
           NEW now \in Nat, NEW id \in Ids \cup {NoId}
    PROVE  BuildEvidence(checks, now, id) \in EvidenceRecords
BY NotExaminedType DEF BuildEvidence, EvidenceRecords, Answers

LEMMA SmokeEvidenceType ==
    ASSUME NEW checks \in [Dims -> Statuses \cup {NoStatus}],
           NEW now \in Nat, NEW id \in Ids \cup {NoId}
    PROVE  SmokeEvidence(checks, now, id) \in EvidenceRecords
BY NotExaminedType DEF SmokeEvidence, EvidenceRecords, Answers

LEMMA MergeAnswerType ==
    ASSUME NEW prev \in Answers, NEW value \in Answers
    PROVE  MergeAnswer(prev, value) \in Answers
BY DEF MergeAnswer, Answers, LastConfirmed, Never

LEMMA MergeEvidenceType ==
    ASSUME NEW existing \in EvidenceRecords, NEW fresh \in EvidenceRecords
    PROVE  MergeEvidence(existing, fresh) \in EvidenceRecords
<1>1. NoEvidence.dims \in [Dims -> Answers]
  BY NotExaminedType DEF NoEvidence
<1>2. existing.dims \in [Dims -> Answers] /\ fresh.dims \in [Dims -> Answers]
  BY DEF EvidenceRecords
<1> DEFINE base == IF SameArtifact(existing, fresh)
                   THEN existing.dims ELSE NoEvidence.dims
<1>3. base \in [Dims -> Answers]
  BY <1>1, <1>2
<1>4. [d \in Dims |-> MergeAnswer(base[d], fresh.dims[d])] \in [Dims -> Answers]
  BY <1>2, <1>3, MergeAnswerType
<1>5. (IF fresh.artifact_id # NoId THEN fresh.artifact_id
       ELSE existing.artifact_id) \in Ids \cup {NoId}
  BY DEF EvidenceRecords
<1> QED
  BY <1>4, <1>5 DEF MergeEvidence, EvidenceRecords

LEMMA DeriveTrustType ==
    ASSUME NEW evidence, NEW now, NEW required
    PROVE  DeriveTrust(evidence, now, required) \in TrustWords
BY DEF DeriveTrust, TrustWords

-----------------------------------------------------------------------------
(* Shelf lives. *)

(* A policy's maxEvidenceAgeDays shortens shelf lives and lengthens none,   *)
(* whatever number it carries (lib/evidence.cjs maxAgeForPolicy).           *)
THEOREM PolicyNeverExtends ==
    ASSUME NEW cap \in Nat, NEW d \in AllDimensions
    PROVE  /\ MaxAgeForPolicy(cap)[d] <= DefaultMaxAge[d]
           /\ MaxAgeForPolicy(cap)[d] <= cap
           /\ MaxAgeForPolicy(cap)[d] \in Nat
<1>1. DefaultMaxAge[d] \in Nat
  BY DEF DefaultMaxAge, AllDimensions
<1> QED
  BY <1>1 DEF MaxAgeForPolicy

-----------------------------------------------------------------------------
(* The type invariant. *)

RunRecords == [kind : Kinds, at : Nat, snap : [Names -> Entries]]

LEMMA BusyRun ==
    ASSUME TypeOK, NEW w \in Writers, run[w].kind # "none"
    PROVE  run[w] \in RunRecords
BY DEF TypeOK, RunStates, Idle, RunRecords

LEMMA MergedType ==
    ASSUME TypeOK, NEW w \in Writers, run[w].kind # "none", NEW n \in Names,
           NEW checks \in [Dims -> Statuses \cup {NoStatus}]
    PROVE  /\ run[w].snap[n] \in Entries
           /\ Fresh(w, n, checks) \in EvidenceRecords
           /\ Merged(w, n, checks) \in EvidenceRecords
<1>1. run[w] \in RunRecords
  BY BusyRun
<1>2. run[w].snap[n] \in Entries /\ run[w].at \in Nat
  BY <1>1 DEF RunRecords
<1>3. /\ run[w].snap[n].evidence \in EvidenceRecords
      /\ run[w].snap[n].pin \in Ids \cup {NoId}
  BY <1>2, VaultDbConstants DEF Entries
<1>4. Fresh(w, n, checks) \in EvidenceRecords
  BY <1>2, <1>3, BuildEvidenceType DEF Fresh
<1>5. Merged(w, n, checks) \in EvidenceRecords
  BY <1>3, <1>4, MergeEvidenceType DEF Merged
<1> QED
  BY <1>2, <1>4, <1>5

(* Everything an eval comes back with is dated by the run.                  *)
LEMMA SmokeEvidenceLooks ==
    ASSUME NEW checks \in [Dims -> Statuses \cup {NoStatus}],
           NEW now \in Nat, NEW id \in Ids \cup {NoId},
           NEW look \in LooksOf(SmokeEvidence(checks, now, id))
    PROVE  look \in Looks /\ look.at = now
<1> DEFINE ev == SmokeEvidence(checks, now, id)
<1>1. PICK d \in Dims : Examined(ev.dims[d]) /\ look = Look(ev.artifact_id, d, ev.dims[d])
  BY DEF LooksOf
<1>2. checks[d] # NoStatus
  BY <1>1 DEF SmokeEvidence, Examined, NotExamined
<1>3. /\ ev.artifact_id = id
      /\ ev.dims[d].status = checks[d]
      /\ ev.dims[d].checked_at = now
  BY <1>2 DEF SmokeEvidence
<1> HIDE DEF ev
<1> QED
  BY <1>1, <1>2, <1>3 DEF Look, Looks

LEMMA BuildEvidenceLooks ==
    ASSUME NEW checks \in [Dims -> Statuses \cup {NoStatus}],
           NEW now \in Nat, NEW id \in Ids \cup {NoId}
    PROVE  LooksOf(BuildEvidence(checks, now, id)) \subseteq Looks
<1> DEFINE ev == BuildEvidence(checks, now, id)
<1> SUFFICES ASSUME NEW d \in Dims, Examined(ev.dims[d])
             PROVE  Look(ev.artifact_id, d, ev.dims[d]) \in Looks
  BY DEF LooksOf
<1>1. checks[d] # NoStatus
  BY DEF BuildEvidence, Examined, NotExamined
<1>2. ev.dims[d].status = checks[d] /\ ev.dims[d].checked_at = now
  BY <1>1 DEF BuildEvidence
<1>3. ev.artifact_id = id
  BY DEF BuildEvidence
<1> QED
  BY <1>1, <1>2, <1>3 DEF Look, Looks

(* What a run of any of the three kinds looked at has the type of looks.    *)
LEMMA FreshLooksType ==
    ASSUME TypeOK, NEW w \in Writers, run[w].kind # "none", NEW n \in Names,
           NEW checks \in [Dims -> Statuses \cup {NoStatus}]
    PROVE  LooksOf(Fresh(w, n, checks)) \subseteq Looks
<1>1. run[w] \in RunRecords
  BY BusyRun
<1>2. run[w].at \in Nat /\ run[w].snap[n].pin \in Ids \cup {NoId}
  BY <1>1, VaultDbConstants DEF RunRecords, Entries
<1> QED
  BY <1>2, BuildEvidenceLooks DEF Fresh

(* Whatever its kind, a run writes back an entry with the evidence of its   *)
(* copy, or with what it found merged into it.                              *)
LEMMA EntryWritten ==
    ASSUME TypeOK, NEW w \in Writers, run[w].kind # "none", NEW n \in Names,
           NEW checks \in [Dims -> Statuses \cup {NoStatus}],
           NEW entry \in {VerifiedEntry(w, n, checks),
                          AvailabilityEntry(w, n, checks),
                          SurveyEntry(w, n, checks)}
    PROVE  /\ entry \in Entries
           /\ entry.evidence \in {run[w].snap[n].evidence, Merged(w, n, checks)}
           /\ ~Nothing(checks) => entry.evidence = Merged(w, n, checks)
<1>1. /\ run[w].snap[n] \in Entries
      /\ Merged(w, n, checks) \in EvidenceRecords
  BY MergedType
<1> DEFINE found == Merged(w, n, checks)
<1>2. ASSUME NEW trust \in TrustWords
      PROVE  /\ [run[w].snap[n] EXCEPT !.evidence = found, !.trust = trust]
                    \in Entries
             /\ [run[w].snap[n] EXCEPT !.evidence = found, !.trust = trust]
                    .evidence = found
  BY <1>1 DEF Entries
<1>3. /\ [run[w].snap[n] EXCEPT !.evidence = found] \in Entries
      /\ [run[w].snap[n] EXCEPT !.evidence = found].evidence = found
  BY <1>1 DEF Entries
<1>4. "unverified" \in TrustWords /\ run[w].snap[n].trust \in TrustWords
  BY <1>1 DEF Entries, TrustWords
<1>5. CASE entry = VerifiedEntry(w, n, checks)
  BY <1>1, <1>2, <1>5, DeriveTrustType DEF VerifiedEntry
<1>6. CASE entry = AvailabilityEntry(w, n, checks)
  BY <1>1, <1>2, <1>4, <1>6 DEF AvailabilityEntry
<1>7. CASE entry = SurveyEntry(w, n, checks)
  BY <1>1, <1>3, <1>7 DEF SurveyEntry
<1> QED
  BY <1>5, <1>6, <1>7

LEMMA LegacyType ==
    /\ LegacyAnswers \in [Dims -> Answers]
    /\ \A d \in Dims : Examined(LegacyAnswers[d]) =>
            LegacyAnswers[d].checked_at = 0
<1>1. {"verified", "pass"} \subseteq Statuses
  BY DEF Statuses, PositiveStatuses
<1> QED
  BY <1>1, NotExaminedType DEF LegacyAnswers, Answers, Never, Examined,
                              NotExamined

LEMMA InitialEvidenceType ==
    ASSUME NEW pinned \in Pins, NEW evidence \in InitialEvidence(pinned)
    PROVE  /\ evidence \in EvidenceRecords
           /\ LooksOf(evidence) \subseteq Looks
           /\ \A d \in Dims : Examined(evidence.dims[d]) =>
                    evidence.dims[d].checked_at = 0
<1>1. pinned \in Ids \cup {NoId}
  BY VaultDbConstants
<1>2. CASE evidence = NoEvidence
  <2>1. NoEvidence \in EvidenceRecords
    BY NotExaminedType DEF NoEvidence, EvidenceRecords
  <2>2. \A d \in Dims : ~Examined(NoEvidence.dims[d])
    BY DEF NoEvidence, NotExamined, Examined
  <2> QED
    BY <1>2, <2>1, <2>2 DEF LooksOf
<1>3. ASSUME NEW id \in {pinned, NoId},
             evidence = [artifact_id |-> id, dims |-> LegacyAnswers]
      PROVE  /\ evidence \in EvidenceRecords
             /\ LooksOf(evidence) \subseteq Looks
             /\ \A d \in Dims : Examined(evidence.dims[d]) =>
                    evidence.dims[d].checked_at = 0
  <2>1. evidence \in EvidenceRecords
    BY <1>1, <1>3, LegacyType DEF EvidenceRecords
  <2>2. ASSUME NEW d \in Dims, Examined(evidence.dims[d])
        PROVE  /\ evidence.dims[d].checked_at = 0
               /\ Look(evidence.artifact_id, d, evidence.dims[d]) \in Looks
    <3>1. evidence.dims[d] \in Answers /\ evidence.dims[d].checked_at = 0
      BY <1>3, <2>2, LegacyType
    <3>2. evidence.dims[d].status \in Statuses
      BY <2>2, <3>1 DEF Answers, Examined
    <3> QED
      BY <1>1, <1>3, <3>1, <3>2 DEF Look, Looks
  <2> QED
    BY <2>1, <2>2 DEF LooksOf
<1> QED
  BY <1>2, <1>3 DEF InitialEvidence

LEMMA InitType == Init => TypeOK
<1> SUFFICES ASSUME Init PROVE TypeOK
  OBVIOUS
<1>1. \A n \in Names : /\ db[n] \in InitialEntries
                       /\ db[n].pin \in Pins
                       /\ db[n].evidence \in InitialEvidence(db[n].pin)
  BY DEF Init, InitialEntries
<1>2. db \in [Names -> Entries]
  <2> SUFFICES ASSUME NEW n \in Names PROVE db[n] \in Entries
    BY DEF Init
  <2>1. db[n].evidence \in EvidenceRecords
    BY <1>1, InitialEvidenceType
  <2> QED
    BY <1>1, <2>1 DEF InitialEntries, Entries, TrustWords
<1>3. looks \subseteq Looks
  BY <1>1, InitialEvidenceType DEF Init
<1>4. run \in [Writers -> RunStates]
  BY DEF Init, RunStates
<1> QED
  BY <1>2, <1>3, <1>4 DEF Init, TypeOK

(* writeDb keeps the types when the copy written is a database.             *)
LEMMA WriteDbType ==
    ASSUME TypeOK, NEW w \in Writers, NEW copy \in [Names -> Entries],
           WriteDb(w, copy)
    PROVE  /\ db' \in [Names -> Entries]
           /\ run' \in [Writers -> RunStates]
           /\ overwrote' \in BOOLEAN
<1>1. db' \in [Names -> Entries]
  BY DEF WriteDb
<1>2. run' \in [Writers -> RunStates]
  BY DEF WriteDb, TypeOK, RunStates
<1>3. overwrote' \in BOOLEAN
  BY DEF WriteDb, TypeOK
<1> QED
  BY <1>1, <1>2, <1>3

LEMMA NextType ==
    ASSUME TypeOK, [Next]_vars
    PROVE  TypeOK'
<1>1. CASE Tick
  BY <1>1 DEF Tick, TypeOK
<1>2. ASSUME NEW n \in Names, NEW pinned \in Pins, EditEntry(n, pinned)
      PROVE  TypeOK'
  <2>1. db' \in [Names -> Entries]
    BY <1>2 DEF EditEntry, TypeOK, Entries
  <2> QED
    BY <1>2, <2>1 DEF EditEntry, TypeOK
<1>3. ASSUME NEW w \in Writers, NEW kind \in Kinds, StartRun(w, kind)
      PROVE  TypeOK'
  <2>1. run' \in [Writers -> RunStates]
    BY <1>3 DEF StartRun, TypeOK, RunStates
  <2> QED
    BY <1>3, <2>1 DEF StartRun, TypeOK
<1>4. ASSUME NEW w \in Writers, EndRunUnwritten(w)
      PROVE  TypeOK'
  <2>1. run' \in [Writers -> RunStates]
    BY <1>4 DEF EndRunUnwritten, TypeOK, RunStates
  <2> QED
    BY <1>4, <2>1 DEF EndRunUnwritten, TypeOK
<1>5. ASSUME NEW w \in Writers, FinishVerify(w)
      PROVE  TypeOK'
  <2>1. PICK found \in [Names -> VerifyChecks] :
            /\ WriteDb(w, [n \in Names |-> VerifiedEntry(w, n, found[n])])
            /\ looks' = looks \cup
                    UNION {LooksOf(Fresh(w, n, found[n])) : n \in Names}
    BY <1>5 DEF FinishVerify
  <2>2. \A n \in Names : found[n] \in [Dims -> Statuses \cup {NoStatus}]
    BY VaultDbConstants
  <2>3. run[w].kind # "none"
    BY <1>5 DEF FinishVerify
  <2>4. ASSUME NEW n \in Names
        PROVE  /\ VerifiedEntry(w, n, found[n]) \in Entries
               /\ LooksOf(Fresh(w, n, found[n])) \subseteq Looks
    BY <2>2, <2>3, EntryWritten, FreshLooksType
  <2>5. /\ db' \in [Names -> Entries]
        /\ run' \in [Writers -> RunStates]
        /\ overwrote' \in BOOLEAN
    BY <2>1, <2>4, WriteDbType
  <2> QED
    BY <1>5, <2>1, <2>4, <2>5 DEF FinishVerify, TypeOK
<1>6. ASSUME NEW w \in Writers, FinishAvailability(w)
      PROVE  TypeOK'
  <2>1. PICK found \in [Names -> AvailabilityChecks] :
            /\ WriteDb(w, [n \in Names |-> AvailabilityEntry(w, n, found[n])])
            /\ looks' = looks \cup
                    UNION {LooksOf(Fresh(w, n, found[n])) : n \in Names}
    BY <1>6 DEF FinishAvailability
  <2>2. \A n \in Names : found[n] \in [Dims -> Statuses \cup {NoStatus}]
    BY VaultDbConstants
  <2>3. run[w].kind # "none"
    BY <1>6 DEF FinishAvailability
  <2>4. ASSUME NEW n \in Names
        PROVE  /\ AvailabilityEntry(w, n, found[n]) \in Entries
               /\ LooksOf(Fresh(w, n, found[n])) \subseteq Looks
    BY <2>2, <2>3, EntryWritten, FreshLooksType
  <2>5. /\ db' \in [Names -> Entries]
        /\ run' \in [Writers -> RunStates]
        /\ overwrote' \in BOOLEAN
    BY <2>1, <2>4, WriteDbType
  <2> QED
    BY <1>6, <2>1, <2>4, <2>5 DEF FinishAvailability, TypeOK
<1>7. ASSUME NEW w \in Writers, FinishSurvey(w)
      PROVE  TypeOK'
  <2>1. PICK found \in [Names -> SurveyChecks] :
            /\ WriteDb(w, [n \in Names |-> SurveyEntry(w, n, found[n])])
            /\ looks' = looks \cup
                    UNION {LooksOf(Fresh(w, n, found[n])) : n \in Names}
    BY <1>7 DEF FinishSurvey
  <2>2. \A n \in Names : found[n] \in [Dims -> Statuses \cup {NoStatus}]
    BY VaultDbConstants
  <2>3. run[w].kind # "none"
    BY <1>7 DEF FinishSurvey
  <2>4. ASSUME NEW n \in Names
        PROVE  /\ SurveyEntry(w, n, found[n]) \in Entries
               /\ LooksOf(Fresh(w, n, found[n])) \subseteq Looks
    BY <2>2, <2>3, EntryWritten, FreshLooksType
  <2>5. /\ db' \in [Names -> Entries]
        /\ run' \in [Writers -> RunStates]
        /\ overwrote' \in BOOLEAN
    BY <2>1, <2>4, WriteDbType
  <2> QED
    BY <1>7, <2>1, <2>4, <2>5 DEF FinishSurvey, TypeOK
<1>8. ASSUME NEW w \in Writers, FinishUpdate(w)
      PROVE  TypeOK'
  <2>1. run[w] \in RunRecords
    BY <1>8, BusyRun DEF FinishUpdate
  <2>2. PICK copy :
            /\ copy \in [Names -> Entries]
            /\ WriteDb(w, copy)
    <3>1. PICK upstream \in [Names -> Pins \ {NoId}] :
            WriteDb(w, [n \in Names |->
                [run[w].snap[n] EXCEPT
                    !.pin = IF run[w].snap[n].pin = NoId THEN NoId
                            ELSE upstream[n]]])
      BY <1>8 DEF FinishUpdate
    <3>2. ASSUME NEW n \in Names
          PROVE  [run[w].snap[n] EXCEPT
                    !.pin = IF run[w].snap[n].pin = NoId THEN NoId
                            ELSE upstream[n]] \in Entries
      <4>1. run[w].snap[n] \in Entries
        BY <2>1 DEF RunRecords
      <4> QED
        BY <4>1 DEF Entries
    <3> QED
      BY <3>1, <3>2
  <2>3. /\ db' \in [Names -> Entries]
        /\ run' \in [Writers -> RunStates]
        /\ overwrote' \in BOOLEAN
    BY <2>2, WriteDbType
  <2> QED
    BY <1>8, <2>3 DEF FinishUpdate, TypeOK
<1>9. ASSUME NEW w \in Writers, FinishEval(w)
      PROVE  TypeOK'
  <2>1. run[w] \in RunRecords
    BY <1>9, BusyRun DEF FinishEval
  <2>2. PICK outcome \in [Names -> EvalChecks \cup {NotRun}],
             at \in run[w].at .. day,
             filed \in SUBSET Names :
            /\ filed = {n \in Names : /\ outcome[n] # NotRun
                                      /\ Attributable(w, n)}
            /\ db' = [n \in Names |->
                    IF n \in filed
                    THEN [db[n] EXCEPT !.evidence =
                            MergeEvidence(@, SmokeOf(n, outcome[n], at))]
                    ELSE db[n]]
            /\ looks' = looks \cup
                    UNION {LooksOf(SmokeEvidence(outcome[n], at,
                                                 run[w].snap[n].pin)) :
                           n \in filed}
    BY <1>9 DEF FinishEval
  <2>3. at \in Nat
    BY <2>1 DEF TypeOK, RunRecords
  <2>4. \A n \in filed : outcome[n] \in [Dims -> Statuses \cup {NoStatus}]
    BY <2>2, VaultDbConstants
  <2>5. ASSUME NEW n \in filed
        PROVE  [db[n] EXCEPT !.evidence =
                    MergeEvidence(@, SmokeOf(n, outcome[n], at))] \in Entries
    <3>1. db[n] \in Entries
      BY DEF TypeOK
    <3>2. /\ db[n].pin \in Ids \cup {NoId}
          /\ db[n].evidence \in EvidenceRecords
      BY <3>1, VaultDbConstants DEF Entries
    <3>3. MergeEvidence(db[n].evidence, SmokeOf(n, outcome[n], at))
              \in EvidenceRecords
      BY <2>3, <2>4, <3>2, SmokeEvidenceType, MergeEvidenceType DEF SmokeOf
    <3> QED
      BY <3>1, <3>3 DEF Entries
  <2>6. db' \in [Names -> Entries]
    BY <2>2, <2>5 DEF TypeOK
  <2>7. looks' \subseteq Looks
    <3>1. \A n \in filed : run[w].snap[n].pin \in Ids \cup {NoId}
      BY <2>1, VaultDbConstants DEF RunRecords, Entries
    <3>2. looks \subseteq Looks
      BY DEF TypeOK
    <3>3. \A n \in filed :
            LooksOf(SmokeEvidence(outcome[n], at, run[w].snap[n].pin)) \subseteq Looks
      BY <2>3, <2>4, <3>1, SmokeEvidenceLooks
    <3> QED
      BY <2>2, <3>2, <3>3
  <2>8. run' \in [Writers -> RunStates]
    BY <1>9 DEF FinishEval, TypeOK, RunStates
  <2> QED
    BY <1>9, <2>6, <2>7, <2>8 DEF FinishEval, TypeOK
<1>10. CASE UNCHANGED vars
  BY <1>10 DEF vars, TypeOK
<1> QED
  BY <1>1, <1>2, <1>3, <1>4, <1>5, <1>6, <1>7, <1>8, <1>9, <1>10
     DEF Next, Finish

(* Every state of the database, of every process and of the history has     *)
(* the type TypeOK gives it: in particular no field of a record is ever     *)
(* anything but a word the checks emit and a day, whatever the processes    *)
(* interleave.                                                              *)
THEOREM TypeCorrect == Spec => []TypeOK
<1>1. Init => TypeOK
  BY InitType
<1>2. TypeOK /\ [Next]_vars => TypeOK'
  BY NextType
<1> QED
  BY <1>1, <1>2, PTL DEF Spec

-----------------------------------------------------------------------------
(* Soundness of the evidence: `Inductive` is preserved by every step as     *)
(* long as every launch command names an artifact.                          *)

Named == NoId \notin Pins

LEMMA MoreLooks ==
    ASSUME NEW L, NEW M, L \subseteq M, NEW evidence, RecordHeld(L, evidence)
    PROVE  RecordHeld(M, evidence)
BY DEF RecordHeld, RecordGiven, AnswerGiven

LEMMA LooksHold ==
    ASSUME NEW L, NEW evidence \in EvidenceRecords,
           LooksOf(evidence) \subseteq L, WellDated(evidence),
           \A d \in Dims : evidence.dims[d].verified_at # Never =>
                /\ evidence.dims[d].status \in PositiveStatuses
                /\ evidence.dims[d].verified_at = evidence.dims[d].checked_at
    PROVE  RecordHeld(L, evidence)
<1> SUFFICES ASSUME NEW d \in Dims, Examined(evidence.dims[d])
             PROVE  AnswerGiven(L, evidence.artifact_id, d, evidence.dims[d])
  BY DEF RecordHeld, RecordGiven
<1>1. Look(evidence.artifact_id, d, evidence.dims[d]) \in L
  BY DEF LooksOf
<1> QED
  BY <1>1 DEF AnswerGiven, Look

LEMMA BuildEvidenceHeld ==
    ASSUME NEW L, NEW checks \in [Dims -> Statuses \cup {NoStatus}],
           NEW now \in Nat, NEW id \in Ids \cup {NoId},
           LooksOf(BuildEvidence(checks, now, id)) \subseteq L
    PROVE  RecordHeld(L, BuildEvidence(checks, now, id))
<1> DEFINE ev == BuildEvidence(checks, now, id)
<1>1. ev \in EvidenceRecords
  BY BuildEvidenceType
<1>2. ASSUME NEW d \in Dims
      PROVE  /\ ev.dims[d].verified_at <= ev.dims[d].checked_at
             /\ ~Examined(ev.dims[d]) => ev.dims[d] = NotExamined
             /\ ev.dims[d].verified_at # Never =>
                  /\ ev.dims[d].status \in PositiveStatuses
                  /\ ev.dims[d].verified_at = ev.dims[d].checked_at
  BY <1>2 DEF BuildEvidence, NotExamined, Never, Examined
<1> QED
  BY <1>1, <1>2, LooksHold DEF WellDated

LEMMA SmokeEvidenceHeld ==
    ASSUME NEW L, NEW checks \in [Dims -> Statuses \cup {NoStatus}],
           NEW now \in Nat, NEW id \in Ids \cup {NoId},
           LooksOf(SmokeEvidence(checks, now, id)) \subseteq L
    PROVE  RecordHeld(L, SmokeEvidence(checks, now, id))
<1> DEFINE ev == SmokeEvidence(checks, now, id)
<1>1. ev \in EvidenceRecords
  BY SmokeEvidenceType
<1>2. \A d \in Dims : /\ ev.dims[d].verified_at = Never
                      /\ ev.dims[d].verified_at <= ev.dims[d].checked_at
                      /\ ~Examined(ev.dims[d]) => ev.dims[d] = NotExamined
  BY Vocabulary DEF SmokeEvidence, NotExamined, Never, Examined
<1> QED
  BY <1>1, <1>2, LooksHold DEF WellDated

(* mergeEvidence makes nothing up: an answer of the merged record is one of *)
(* the two records' answers about the same artifact, with the later of two  *)
(* confirmations that both took place.                                      *)
LEMMA MergeHeld ==
    ASSUME NEW L, NEW existing \in EvidenceRecords, NEW fresh \in EvidenceRecords,
           RecordHeld(L, existing), RecordHeld(L, fresh),
           fresh.artifact_id # NoId
    PROVE  RecordHeld(L, MergeEvidence(existing, fresh))
<1> DEFINE merged == MergeEvidence(existing, fresh)
           id     == fresh.artifact_id
           base   == IF SameArtifact(existing, fresh)
                     THEN existing.dims ELSE NoEvidence.dims
<1>1. merged.artifact_id = id
  BY DEF MergeEvidence
<1>2. /\ base \in [Dims -> Answers]
      /\ fresh.dims \in [Dims -> Answers]
  BY NotExaminedType DEF EvidenceRecords, NoEvidence
<1>3. \A d \in Dims : merged.dims[d] = MergeAnswer(base[d], fresh.dims[d])
  BY DEF MergeEvidence
<1>4. ASSUME NEW d \in Dims
      PROVE  /\ base[d].verified_at <= base[d].checked_at
             /\ ~Examined(base[d]) => base[d] = NotExamined
             /\ Examined(base[d]) => AnswerGiven(L, id, d, base[d])
  <2>1. CASE SameArtifact(existing, fresh)
    BY <2>1 DEF RecordHeld, RecordGiven, WellDated, SameArtifact
  <2>2. CASE ~SameArtifact(existing, fresh)
    BY <2>2 DEF NoEvidence, NotExamined, Examined, Never
  <2> QED
    BY <2>1, <2>2
<1>5. ASSUME NEW d \in Dims
      PROVE  /\ fresh.dims[d].verified_at <= fresh.dims[d].checked_at
             /\ ~Examined(fresh.dims[d]) => fresh.dims[d] = NotExamined
             /\ Examined(fresh.dims[d]) => AnswerGiven(L, id, d, fresh.dims[d])
  BY DEF RecordHeld, RecordGiven, WellDated
<1>6. ASSUME NEW d \in Dims
      PROVE  /\ merged.dims[d].verified_at <= merged.dims[d].checked_at
             /\ ~Examined(merged.dims[d]) => merged.dims[d] = NotExamined
             /\ Examined(merged.dims[d]) => AnswerGiven(L, id, d, merged.dims[d])
  <2> DEFINE prev  == base[d]
             value == fresh.dims[d]
  <2>1. prev \in Answers /\ value \in Answers
    BY <1>2
  <2>2. CASE MergeAnswer(prev, value) = prev
    BY <2>2, <1>3, <1>4
  <2>3. CASE MergeAnswer(prev, value) # prev
    <3>1. /\ Examined(value)
          /\ Examined(prev) => prev.checked_at <= value.checked_at
          /\ MergeAnswer(prev, value) =
                [value EXCEPT !.verified_at =
                    IF value.verified_at # Never THEN value.verified_at
                    ELSE LastConfirmed(prev)]
      BY <2>1, <2>3 DEF MergeAnswer, Answers, Never
    <3>2. CASE value.verified_at # Never
      <4>1. MergeAnswer(prev, value) = value
        BY <2>1, <3>1, <3>2 DEF Answers
      <4> QED
        BY <4>1, <1>3, <1>5
    <3>3. CASE value.verified_at = Never
      <4>1. /\ merged.dims[d].status = value.status
            /\ merged.dims[d].checked_at = value.checked_at
            /\ merged.dims[d].verified_at = LastConfirmed(prev)
        BY <1>3, <2>1, <3>1, <3>3 DEF Answers
      <4>2. /\ Look(id, d, merged.dims[d]) \in L
            /\ Examined(merged.dims[d])
        BY <1>5, <3>1, <4>1 DEF AnswerGiven, Look, Examined
      <4>3. CASE ~Examined(prev)
        <5>1. LastConfirmed(prev) = prev.verified_at
          BY <4>3, Vocabulary DEF LastConfirmed, Examined
        <5>2. prev.verified_at = Never
          BY <4>3, <1>4 DEF NotExamined
        <5> QED
          BY <4>1, <4>2, <5>1, <5>2, <2>1 DEF AnswerGiven, Answers, Never
      <4>4. CASE Examined(prev)
        <5>1. LastConfirmed(prev) <= prev.checked_at
          BY <1>4, <2>1 DEF LastConfirmed, Answers, Never
        <5>2. LastConfirmed(prev) # Never =>
                \E s \in PositiveStatuses :
                    [id |-> id, dim |-> d, status |-> s,
                     at |-> LastConfirmed(prev)] \in L
          BY <1>4, <4>4 DEF LastConfirmed, AnswerGiven, Look
        <5>3. LastConfirmed(prev) <= value.checked_at
          BY <3>1, <4>4, <5>1, <2>1 DEF LastConfirmed, Answers, Never
        <5> QED
          BY <4>1, <4>2, <5>2, <5>3 DEF AnswerGiven
      <4> QED
        BY <4>3, <4>4
    <3> QED
      BY <3>2, <3>3
  <2> QED
    BY <2>2, <2>3
<1> QED
  BY <1>1, <1>6 DEF RecordHeld, RecordGiven, WellDated

LEMMA InitHeld == Named /\ Init => Inductive
<1> SUFFICES ASSUME Named, Init PROVE Inductive
  OBVIOUS
<1>1. TypeOK
  BY InitType
<1>2. ASSUME NEW n \in Names
      PROVE  /\ db[n].evidence \in InitialEvidence(db[n].pin)
             /\ db[n].pin \in Pins
             /\ db[n].evidence \in EvidenceRecords
             /\ LooksOf(db[n].evidence) \subseteq looks
  BY <1>1, InitialEvidenceType DEF Init, InitialEntries
<1>3. ASSUME NEW n \in Names
      PROVE  RecordHeld(looks, db[n].evidence)
  <2> DEFINE evidence == db[n].evidence
  <2>1. \A d \in Dims :
            /\ evidence.dims[d].verified_at = Never
            /\ evidence.dims[d].verified_at <= evidence.dims[d].checked_at
            /\ ~Examined(evidence.dims[d]) => evidence.dims[d] = NotExamined
    BY <1>2 DEF InitialEvidence, NoEvidence, LegacyAnswers, NotExamined,
                Never, Examined, NoStatus
  <2> QED
    BY <1>2, <2>1, LooksHold DEF WellDated
<1>4. CopiesHeld
  BY DEF Init, Idle, CopiesHeld
<1>5. ASSUME NEW look \in looks
      PROVE  look.at <= day
  <2>1. PICK n \in Names : look \in LooksOf(db[n].evidence)
    BY DEF Init
  <2>2. PICK d \in Dims : /\ Examined(db[n].evidence.dims[d])
                          /\ look = Look(db[n].evidence.artifact_id, d,
                                         db[n].evidence.dims[d])
    BY <2>1 DEF LooksOf
  <2>3. look.at = 0
    BY <1>2, <2>2, InitialEvidenceType DEF Look
  <2> QED
    BY <2>3 DEF Init
<1> QED
  BY <1>1, <1>3, <1>4, <1>5 DEF Inductive

(* A run that merges what it found into its own copy keeps that copy sound. *)
LEMMA MergedHeld ==
    ASSUME Named, Inductive, NEW w \in Writers, run[w].kind # "none",
           NEW n \in Names, NEW checks \in [Dims -> Statuses \cup {NoStatus}],
           NEW L, looks \subseteq L, LooksOf(Fresh(w, n, checks)) \subseteq L
    PROVE  /\ RecordHeld(L, Merged(w, n, checks))
           /\ RecordHeld(L, run[w].snap[n].evidence)
<1>1. run[w] \in RunRecords
  BY BusyRun DEF Inductive
<1>2. /\ run[w].at \in Nat
      /\ run[w].snap[n] \in Entries
      /\ run[w].snap[n].evidence \in EvidenceRecords
      /\ run[w].snap[n].pin \in Ids
  BY <1>1, VaultDbConstants DEF RunRecords, Entries, Named
<1>3. RecordHeld(L, run[w].snap[n].evidence)
  BY MoreLooks DEF Inductive, CopiesHeld
<1>4. /\ RecordHeld(L, Fresh(w, n, checks))
      /\ Fresh(w, n, checks) \in EvidenceRecords
      /\ Fresh(w, n, checks).artifact_id # NoId
  <2>1. Fresh(w, n, checks).artifact_id = run[w].snap[n].pin
    BY DEF Fresh, BuildEvidence
  <2> QED
    BY <1>2, <2>1, BuildEvidenceHeld, BuildEvidenceType, EvidenceConstants
       DEF Fresh
<1> QED
  BY <1>2, <1>3, <1>4, MergeHeld DEF Merged

LEMMA FreshLooksDated ==
    ASSUME Inductive, NEW w \in Writers, run[w].kind # "none", NEW n \in Names,
           NEW checks \in [Dims -> Statuses \cup {NoStatus}],
           NEW look \in LooksOf(Fresh(w, n, checks))
    PROVE  look.at <= day
<1>1. PICK d \in Dims :
        /\ Examined(Fresh(w, n, checks).dims[d])
        /\ look = Look(Fresh(w, n, checks).artifact_id, d,
                       Fresh(w, n, checks).dims[d])
  BY DEF LooksOf
<1>2. Fresh(w, n, checks).dims[d].checked_at = run[w].at
  BY <1>1 DEF Fresh, BuildEvidence, Examined, NotExamined
<1> QED
  BY <1>1, <1>2 DEF Look, Inductive, CopiesHeld

(* Replacing the file by a sound copy keeps everything sound.               *)
LEMMA WrittenHeld ==
    ASSUME Inductive, TypeOK', NEW w \in Writers, NEW copy,
           copy \in [Names -> Entries], WriteDb(w, copy), day' = day,
           looks \subseteq looks', \A look \in looks' : look.at <= day,
           \A n \in Names : RecordHeld(looks', copy[n].evidence)
    PROVE  Inductive'
<1>1. \A n \in Names : RecordHeld(looks', db'[n].evidence)
  BY DEF WriteDb
<1>2. CopiesHeld'
  <2> SUFFICES ASSUME NEW v \in Writers, run'[v].kind # "none"
               PROVE  /\ run'[v].at <= day'
                      /\ \A n \in Names :
                            RecordHeld(looks', run'[v].snap[n].evidence)
    BY DEF CopiesHeld
  <2>1. run'[v] = run[v]
    BY DEF WriteDb, Inductive, TypeOK, Idle
  <2> QED
    BY <2>1, MoreLooks DEF Inductive, CopiesHeld
<1> QED
  BY <1>1, <1>2 DEF Inductive

LEMMA NextHeld ==
    ASSUME Named, Inductive, [Next]_vars
    PROVE  Inductive'
<1>0. TypeOK /\ TypeOK'
  BY NextType DEF Inductive
<1>1. CASE Tick
  <2>1. day \in Nat /\ day' = day + 1
    BY <1>0, <1>1 DEF Tick, TypeOK
  <2>2. ASSUME NEW at \in Nat, at <= day
        PROVE  at <= day'
    BY <2>1, <2>2
  <2>3. \A look \in looks : look.at \in Nat
    BY <1>0 DEF TypeOK, Looks
  <2>4. \A w \in Writers : run[w].kind # "none" => run[w].at \in Nat
    BY <1>0, BusyRun DEF RunRecords
  <2>5. db' = db /\ run' = run /\ looks' = looks
    BY <1>1 DEF Tick
  <2> QED
    BY <1>0, <2>2, <2>3, <2>4, <2>5 DEF Inductive, CopiesHeld
<1>2. ASSUME NEW n \in Names, NEW pinned \in Pins, EditEntry(n, pinned)
      PROVE  Inductive'
  <2>1. \A m \in Names : db'[m].evidence = db[m].evidence
    BY <1>0, <1>2 DEF EditEntry, TypeOK, Entries
  <2> QED
    BY <1>0, <1>2, <2>1 DEF EditEntry, Inductive, CopiesHeld
<1>3. ASSUME NEW w \in Writers, NEW kind \in Kinds, StartRun(w, kind)
      PROVE  Inductive'
  <2>1. ASSUME NEW v \in Writers, run'[v].kind # "none"
        PROVE  /\ run'[v].at <= day
               /\ \A n \in Names : RecordHeld(looks, run'[v].snap[n].evidence)
    <3>1. CASE v = w
      BY <1>0, <1>3, <3>1 DEF StartRun, Inductive, TypeOK
    <3>2. CASE v # w
      BY <1>0, <1>3, <2>1, <3>2 DEF StartRun, Inductive, CopiesHeld, TypeOK
    <3> QED
      BY <3>1, <3>2
  <2> QED
    BY <1>0, <1>3, <2>1 DEF StartRun, Inductive, CopiesHeld
<1>4. ASSUME NEW w \in Writers, EndRunUnwritten(w)
      PROVE  Inductive'
  <2>1. \A v \in Writers : run'[v].kind # "none" => run'[v] = run[v]
    BY <1>0, <1>4 DEF EndRunUnwritten, TypeOK, Idle
  <2> QED
    BY <1>0, <1>4, <2>1 DEF EndRunUnwritten, Inductive, CopiesHeld
<1>5. ASSUME NEW w \in Writers, NEW found, NEW copy, run[w].kind # "none",
             \A n \in Names : found[n] \in [Dims -> Statuses \cup {NoStatus}],
             looks' = looks \cup
                        UNION {LooksOf(Fresh(w, n, found[n])) : n \in Names},
             WriteDb(w, copy), copy \in [Names -> Entries], day' = day,
             \A n \in Names :
                copy[n].evidence \in {run[w].snap[n].evidence,
                                      Merged(w, n, found[n])}
      PROVE  Inductive'
  <2>1. \A look \in looks' : look.at <= day
    BY <1>5, FreshLooksDated DEF Inductive
  <2>2. \A n \in Names : RecordHeld(looks', copy[n].evidence)
    <3>1. SUFFICES ASSUME NEW n \in Names
                   PROVE  /\ RecordHeld(looks', Merged(w, n, found[n]))
                          /\ RecordHeld(looks', run[w].snap[n].evidence)
      BY <1>5
    <3>2. LooksOf(Fresh(w, n, found[n])) \subseteq looks'
      BY <1>5
    <3> QED
      BY <1>5, <3>2, MergedHeld
  <2> QED
    BY <1>0, <1>5, <2>1, <2>2, WrittenHeld
<1>6. ASSUME NEW w \in Writers, FinishVerify(w)
      PROVE  Inductive'
  <2>1. PICK found \in [Names -> VerifyChecks] :
            /\ WriteDb(w, [n \in Names |-> VerifiedEntry(w, n, found[n])])
            /\ looks' = looks \cup
                    UNION {LooksOf(Fresh(w, n, found[n])) : n \in Names}
    BY <1>6 DEF FinishVerify
  <2>2. \A n \in Names : found[n] \in [Dims -> Statuses \cup {NoStatus}]
    BY VaultDbConstants
  <2>3. run[w].kind # "none" /\ day' = day
    BY <1>6 DEF FinishVerify
  <2>4. ASSUME NEW n \in Names
        PROVE  /\ VerifiedEntry(w, n, found[n]) \in Entries
               /\ VerifiedEntry(w, n, found[n]).evidence \in
                    {run[w].snap[n].evidence, Merged(w, n, found[n])}
    BY <1>0, <2>2, <2>3, EntryWritten
  <2> QED
    BY <1>5, <2>1, <2>2, <2>3, <2>4
<1>7. ASSUME NEW w \in Writers, FinishAvailability(w)
      PROVE  Inductive'
  <2>1. PICK found \in [Names -> AvailabilityChecks] :
            /\ WriteDb(w, [n \in Names |-> AvailabilityEntry(w, n, found[n])])
            /\ looks' = looks \cup
                    UNION {LooksOf(Fresh(w, n, found[n])) : n \in Names}
    BY <1>7 DEF FinishAvailability
  <2>2. \A n \in Names : found[n] \in [Dims -> Statuses \cup {NoStatus}]
    BY VaultDbConstants
  <2>3. run[w].kind # "none" /\ day' = day
    BY <1>7 DEF FinishAvailability
  <2>4. ASSUME NEW n \in Names
        PROVE  /\ AvailabilityEntry(w, n, found[n]) \in Entries
               /\ AvailabilityEntry(w, n, found[n]).evidence \in
                    {run[w].snap[n].evidence, Merged(w, n, found[n])}
    BY <1>0, <2>2, <2>3, EntryWritten
  <2> QED
    BY <1>5, <2>1, <2>2, <2>3, <2>4
<1>8. ASSUME NEW w \in Writers, FinishSurvey(w)
      PROVE  Inductive'
  <2>1. PICK found \in [Names -> SurveyChecks] :
            /\ WriteDb(w, [n \in Names |-> SurveyEntry(w, n, found[n])])
            /\ looks' = looks \cup
                    UNION {LooksOf(Fresh(w, n, found[n])) : n \in Names}
    BY <1>8 DEF FinishSurvey
  <2>2. \A n \in Names : found[n] \in [Dims -> Statuses \cup {NoStatus}]
    BY VaultDbConstants
  <2>3. run[w].kind # "none" /\ day' = day
    BY <1>8 DEF FinishSurvey
  <2>4. ASSUME NEW n \in Names
        PROVE  /\ SurveyEntry(w, n, found[n]) \in Entries
               /\ SurveyEntry(w, n, found[n]).evidence \in
                    {run[w].snap[n].evidence, Merged(w, n, found[n])}
    BY <1>0, <2>2, <2>3, EntryWritten
  <2> QED
    BY <1>5, <2>1, <2>2, <2>3, <2>4
<1>9. ASSUME NEW w \in Writers, FinishUpdate(w)
      PROVE  Inductive'
  <2>1. PICK upstream \in [Names -> Pins \ {NoId}] :
            WriteDb(w, [n \in Names |->
                [run[w].snap[n] EXCEPT
                    !.pin = IF run[w].snap[n].pin = NoId THEN NoId
                            ELSE upstream[n]]])
    BY <1>9 DEF FinishUpdate
  <2> DEFINE copy == [n \in Names |->
                [run[w].snap[n] EXCEPT
                    !.pin = IF run[w].snap[n].pin = NoId THEN NoId
                            ELSE upstream[n]]]
  <2>2. run[w] \in RunRecords /\ run[w].kind # "none"
    BY <1>0, <1>9, BusyRun DEF FinishUpdate
  <2>3. ASSUME NEW n \in Names
        PROVE  /\ copy[n] \in Entries
               /\ copy[n].evidence = run[w].snap[n].evidence
    <3>1. run[w].snap[n] \in Entries
      BY <2>2 DEF RunRecords
    <3> QED
      BY <3>1 DEF Entries
  <2>4. day' = day /\ looks' = looks
    BY <1>9 DEF FinishUpdate
  <2>5. \A n \in Names : RecordHeld(looks', copy[n].evidence)
    BY <2>2, <2>3, <2>4 DEF Inductive, CopiesHeld
  <2>6. copy \in [Names -> Entries]
    BY <2>3
  <2>7. \A look \in looks' : look.at <= day
    BY <2>4 DEF Inductive
  <2> HIDE DEF copy
  <2> QED
    BY <1>0, <2>1, <2>4, <2>5, <2>6, <2>7, WrittenHeld DEF copy
<1>10. ASSUME NEW w \in Writers, FinishEval(w)
       PROVE  Inductive'
  <2>1. run[w] \in RunRecords /\ run[w].kind # "none" /\ day' = day
    BY <1>0, <1>10, BusyRun DEF FinishEval
  <2>2. PICK outcome \in [Names -> EvalChecks \cup {NotRun}],
             at \in run[w].at .. day,
             filed \in SUBSET Names :
            /\ filed = {n \in Names : /\ outcome[n] # NotRun
                                      /\ Attributable(w, n)}
            /\ db' = [n \in Names |->
                    IF n \in filed
                    THEN [db[n] EXCEPT !.evidence =
                            MergeEvidence(@, SmokeOf(n, outcome[n], at))]
                    ELSE db[n]]
            /\ looks' = looks \cup
                    UNION {LooksOf(SmokeEvidence(outcome[n], at,
                                                 run[w].snap[n].pin)) :
                           n \in filed}
    BY <1>10 DEF FinishEval
  <2>3. at \in Nat /\ at <= day
    BY <1>0, <2>1 DEF TypeOK, RunRecords
  <2>4. ASSUME NEW n \in filed
        PROVE  RecordHeld(looks', db'[n].evidence)
    <3>1. /\ outcome[n] \in [Dims -> Statuses \cup {NoStatus}]
          /\ run[w].snap[n].pin = db[n].pin
      BY <2>2, VaultDbConstants DEF Attributable
    <3>2. /\ db[n] \in Entries
          /\ db[n].pin \in Ids
          /\ db[n].evidence \in EvidenceRecords
      BY <1>0, VaultDbConstants DEF TypeOK, Entries, Named
    <3> DEFINE ev == SmokeOf(n, outcome[n], at)
    <3>3. ev \in EvidenceRecords /\ ev.artifact_id = db[n].pin
      BY <2>3, <3>1, <3>2, SmokeEvidenceType DEF SmokeOf, SmokeEvidence
    <3>4. LooksOf(ev) \subseteq looks'
      <4>1. ev = SmokeEvidence(outcome[n], at, run[w].snap[n].pin)
        BY <3>1 DEF SmokeOf
      <4> HIDE DEF ev
      <4> QED
        BY <2>2, <4>1
    <3>5. RecordHeld(looks', ev)
      BY <2>3, <3>1, <3>2, <3>4, SmokeEvidenceHeld DEF SmokeOf
    <3>6. RecordHeld(looks', db[n].evidence)
      BY <2>2, MoreLooks DEF Inductive
    <3>7. RecordHeld(looks', MergeEvidence(db[n].evidence, ev))
      BY <3>2, <3>3, <3>5, <3>6, MergeHeld, EvidenceConstants
    <3>8. db'[n].evidence = MergeEvidence(db[n].evidence, ev)
      BY <2>2, <3>2 DEF Entries
    <3> QED
      BY <3>7, <3>8
  <2>5. ASSUME NEW n \in Names \ filed
        PROVE  RecordHeld(looks', db'[n].evidence)
    <3>1. db'[n] = db[n]
      BY <2>2
    <3> QED
      BY <2>2, <3>1, MoreLooks DEF Inductive
  <2>6. CopiesHeld'
    <3> SUFFICES ASSUME NEW v \in Writers, run'[v].kind # "none"
                 PROVE  /\ run'[v].at <= day'
                        /\ \A n \in Names :
                              RecordHeld(looks', run'[v].snap[n].evidence)
      BY DEF CopiesHeld
    <3>1. run'[v] = run[v]
      BY <1>0, <1>10 DEF FinishEval, TypeOK, Idle
    <3>2. \A n \in Names : RecordHeld(looks', run[v].snap[n].evidence)
      BY <2>2, <3>1, MoreLooks DEF Inductive, CopiesHeld
    <3> QED
      BY <2>1, <3>1, <3>2 DEF Inductive, CopiesHeld
  <2>7. \A look \in looks' : look.at <= day'
    <3>1. ASSUME NEW n \in filed,
                 NEW look \in LooksOf(SmokeEvidence(outcome[n], at,
                                                    run[w].snap[n].pin))
          PROVE  look.at = at
      <4>1. outcome[n] \in [Dims -> Statuses \cup {NoStatus}]
        BY <2>2, VaultDbConstants
      <4>2. run[w].snap[n].pin \in Ids \cup {NoId}
        BY <2>1, VaultDbConstants DEF RunRecords, Entries
      <4> QED
        BY <2>3, <4>1, <4>2, SmokeEvidenceLooks
    <3> QED
      BY <2>1, <2>2, <2>3, <3>1 DEF Inductive
  <2> QED
    BY <1>0, <2>4, <2>5, <2>6, <2>7 DEF Inductive
<1>11. CASE UNCHANGED vars
  BY <1>0, <1>11 DEF vars, Inductive, CopiesHeld
<1> QED
  BY <1>1, <1>2, <1>3, <1>4, <1>6, <1>7, <1>8, <1>9, <1>10, <1>11
     DEF Next, Finish

LEMMA AlwaysInductive == Named => (Spec => []Inductive)
<1> SUFFICES ASSUME Named PROVE Spec => []Inductive
  OBVIOUS
<1>1. Init => Inductive
  BY InitHeld
<1>2. Inductive /\ [Next]_vars => Inductive'
  BY NextHeld
<1> QED
  BY <1>1, <1>2, PTL DEF Spec

(* Every answer filed under an artifact id was an answer about that         *)
(* artifact, on the day it says, for any number of processes and entries    *)
(* (lib/evidence.cjs mergeEvidence, mcp_eval.cjs attribution).              *)
THEOREM EvidenceIsSound == Named => (Spec => []EvidenceSound)
<1>1. Inductive => EvidenceSound
  BY DEF Inductive, EvidenceSound, RecordHeld
<1> QED
  BY <1>1, AlwaysInductive, PTL

-----------------------------------------------------------------------------
(* What the derived word means. *)

(* `verified`, asked at any instant of a sound record: each required check  *)
(* did check out, within its shelf life, and not after it was last looked   *)
(* at.                                                                      *)
LEMMA VerifiedConfirmed ==
    ASSUME NEW L, NEW evidence \in EvidenceRecords, RecordHeld(L, evidence),
           evidence.artifact_id # NoId, NEW now \in Nat, NEW required,
           DeriveTrust(evidence, now, required) = "verified",
           NEW d \in required
    PROVE  /\ d \in Dims
           /\ Examined(evidence.dims[d])
           /\ \E s \in PositiveStatuses :
                [id |-> evidence.artifact_id, dim |-> d, status |-> s,
                 at |-> AgeFrom(evidence.dims[d])] \in L
           /\ AgeFrom(evidence.dims[d]) \in Int
           /\ now - MaxAge[d] <= AgeFrom(evidence.dims[d])
           /\ AgeFrom(evidence.dims[d]) <= evidence.dims[d].checked_at
<1>1. /\ \A e \in required : e \in Dims /\ IsPositive(e, evidence.dims[e].status)
      /\ StaleDimensions(evidence, now)
            \cap (required \cup {"advisories"}) = {}
  BY DEF DeriveTrust
<1>2. d \in Dims /\ evidence.dims[d].status \in PositiveStatuses
  BY <1>1, Vocabulary
<1>3. Examined(evidence.dims[d])
  BY <1>2, Vocabulary DEF Examined
<1>4. AnswerGiven(L, evidence.artifact_id, d, evidence.dims[d])
  BY <1>2, <1>3 DEF RecordHeld, RecordGiven
<1>5. evidence.dims[d] \in Answers
  BY <1>2 DEF EvidenceRecords
<1>6. MaxAge[d] \in Nat
  BY <1>2, EvidenceConstants
<1>7. ~(now - AgeFrom(evidence.dims[d]) > MaxAge[d])
  BY <1>1, <1>2, <1>3 DEF StaleDimensions
<1>8. AgeFrom(evidence.dims[d]) \in Int
  BY <1>5 DEF AgeFrom, Answers, Never
<1>9. now - MaxAge[d] <= AgeFrom(evidence.dims[d])
  BY <1>6, <1>7, <1>8
<1>10. AgeFrom(evidence.dims[d]) <= evidence.dims[d].checked_at
  BY <1>2, <1>5 DEF RecordHeld, WellDated, AgeFrom, Answers, Never
<1>11. \E s \in PositiveStatuses :
                [id |-> evidence.artifact_id, dim |-> d, status |-> s,
                 at |-> AgeFrom(evidence.dims[d])] \in L
  BY <1>2, <1>4 DEF AnswerGiven, AgeFrom, Look
<1> QED
  BY <1>2, <1>3, <1>8, <1>9, <1>10, <1>11

(* The word `verified` is derived only while each required check of the     *)
(* artifact has checked out within its shelf life of the day it is asked    *)
(* (lib/evidence.cjs deriveTrust, staleDimensions).                         *)
THEOREM TheWordIsEarned == Named => (Spec => []VerifiedIsEarned)
<1>1. ASSUME Inductive PROVE VerifiedIsEarned
  <2> SUFFICES ASSUME NEW n \in Names, db[n].evidence.artifact_id # NoId,
                      VerifiedWhenAsked(n, day),
                      NEW d \in RequiredFor(EcosystemOf[db[n].pin])
               PROVE  ConfirmedWithin(db[n].evidence.artifact_id, d,
                                      day - MaxAge[d], day)
    BY DEF VerifiedIsEarned
  <2> DEFINE evidence == db[n].evidence
  <2>1. /\ evidence \in EvidenceRecords
        /\ day \in Nat
        /\ RecordHeld(looks, evidence)
    BY <1>1 DEF Inductive, TypeOK, Entries
  <2>2. /\ \E s \in PositiveStatuses :
                [id |-> evidence.artifact_id, dim |-> d, status |-> s,
                 at |-> AgeFrom(evidence.dims[d])] \in looks
        /\ day - MaxAge[d] <= AgeFrom(evidence.dims[d])
    BY <2>1, VerifiedConfirmed DEF VerifiedWhenAsked
  <2>3. \A look \in looks : look.at <= day
    BY <1>1 DEF Inductive
  <2> QED
    BY <2>2, <2>3 DEF ConfirmedWithin
<1> QED
  BY <1>1, AlwaysInductive, PTL

(* A tier above Experimental rests on the pinned release's own evidence:    *)
(* everything that would refute that has been asked before.                 *)
LEMMA TierRestsOnThePin ==
    ASSUME NEW pinned, NEW ecosystem, NEW evidence, NEW ran, NEW now,
           TierOf(pinned, ecosystem, evidence, ran, now)
                \in {"Core", "Recommended"}
    PROVE  /\ DeriveTrust(evidence, now, RequiredFor(ecosystem)) = "verified"
           /\ \/ AboutThis(pinned, evidence)
              \/ NothingRecorded(evidence)
<1>1. /\ ~NotAboutThis(pinned, evidence)
      /\ DeriveTrust(evidence, now, RequiredFor(ecosystem)) = "verified"
  BY DEF TierOf
<1> QED
  BY <1>1 DEF NotAboutThis

(* The word asks for something: an empty record never derives `verified`.   *)
LEMMA NothingIsNotVerified ==
    ASSUME NEW evidence, NothingRecorded(evidence), NEW now, NEW ecosystem
    PROVE  DeriveTrust(evidence, now, RequiredFor(ecosystem)) # "verified"
<1>1. SUFFICES ASSUME DeriveTrust(evidence, now, RequiredFor(ecosystem))
                        = "verified"
               PROVE  FALSE
  OBVIOUS
<1>2. /\ \A d \in RequiredFor(ecosystem) :
            d \in Dims /\ IsPositive(d, evidence.dims[d].status)
      /\ RequiredFor(ecosystem) # {}
  BY <1>1 DEF DeriveTrust
<1>3. PICK d \in RequiredFor(ecosystem) :
            d \in Dims /\ IsPositive(d, evidence.dims[d].status)
  BY <1>2
<1>4. evidence.dims[d].status \in Statuses
  BY <1>3, Vocabulary
<1>5. evidence.dims[d].status = NoStatus
  BY <1>3 DEF NothingRecorded, Examined
<1> QED
  BY <1>4, <1>5, Vocabulary

(* An entry ranks as Core or Recommended only while each required check of  *)
(* the release it pins now did check out within its shelf life              *)
(* (lib/tiers.cjs classifyEntry, evidenceBinding).                          *)
THEOREM TheTierIsEarned == Named => (Spec => []TierIsEarned)
<1>1. ASSUME Inductive PROVE TierIsEarned
  <2> SUFFICES ASSUME NEW n \in Names, NEW ran \in Ids \cup {NoId},
                      TierOf(db[n].pin, EcosystemOf[db[n].pin],
                             db[n].evidence, ran, day)
                          \in {"Core", "Recommended"}
               PROVE  /\ db[n].pin # NoId
                      /\ \A d \in RequiredFor(EcosystemOf[db[n].pin]) :
                            ConfirmedWithin(db[n].pin, d, day - MaxAge[d], day)
    BY DEF TierIsEarned
  <2> DEFINE evidence == db[n].evidence
             required == RequiredFor(EcosystemOf[db[n].pin])
  <2>1. /\ evidence \in EvidenceRecords
        /\ day \in Nat
        /\ RecordHeld(looks, evidence)
        /\ \A look \in looks : look.at <= day
    BY <1>1 DEF Inductive, TypeOK, Entries
  <2>2. /\ DeriveTrust(evidence, day, required) = "verified"
        /\ AboutThis(db[n].pin, evidence) \/ NothingRecorded(evidence)
    BY TierRestsOnThePin
  <2>3. db[n].pin # NoId /\ evidence.artifact_id = db[n].pin
    BY <2>2, NothingIsNotVerified DEF AboutThis
  <2>4. ASSUME NEW d \in required
        PROVE  ConfirmedWithin(db[n].pin, d, day - MaxAge[d], day)
    <3>1. /\ \E s \in PositiveStatuses :
                [id |-> evidence.artifact_id, dim |-> d, status |-> s,
                 at |-> AgeFrom(evidence.dims[d])] \in looks
          /\ day - MaxAge[d] <= AgeFrom(evidence.dims[d])
      BY <2>1, <2>2, <2>3, VerifiedConfirmed
    <3> QED
      BY <3>1, <2>1, <2>3 DEF ConfirmedWithin
  <2> QED
    BY <2>3, <2>4
<1> QED
  BY <1>1, AlwaysInductive, PTL

(* Dropping the later looks leaves a sound record, all of it dated by asOf. *)
LEMMA AsOfHeld ==
    ASSUME NEW L, NEW evidence \in EvidenceRecords, RecordHeld(L, evidence),
           NEW asOf \in Nat
    PROVE  /\ EvidenceAsOf(evidence, asOf) \in EvidenceRecords
           /\ EvidenceAsOf(evidence, asOf).artifact_id = evidence.artifact_id
           /\ RecordHeld(L, EvidenceAsOf(evidence, asOf))
           /\ \A d \in Dims :
                EvidenceAsOf(evidence, asOf).dims[d].checked_at <= asOf
<1> DEFINE then == EvidenceAsOf(evidence, asOf)
<1>1. /\ then \in EvidenceRecords
      /\ then.artifact_id = evidence.artifact_id
      /\ \A d \in Dims : then.dims[d] =
            IF evidence.dims[d].checked_at > asOf
            THEN NotExamined ELSE evidence.dims[d]
  BY NotExaminedType DEF EvidenceAsOf, EvidenceRecords
<1>2. \A d \in Dims : evidence.dims[d] \in Answers
  BY DEF EvidenceRecords
<1>3. ASSUME NEW d \in Dims
      PROVE  /\ then.dims[d].checked_at <= asOf
             /\ then.dims[d].verified_at <= then.dims[d].checked_at
             /\ ~Examined(then.dims[d]) => then.dims[d] = NotExamined
  BY <1>1, <1>2 DEF RecordHeld, WellDated, NotExamined, Answers, Never
<1>4. RecordGiven(L, then)
  BY <1>1 DEF RecordHeld, RecordGiven, Examined, NotExamined
<1> HIDE DEF then
<1>5. RecordHeld(L, then)
  BY <1>3, <1>4 DEF RecordHeld, WellDated
<1> QED
  BY <1>1, <1>3, <1>5 DEF then

(* A replay at an earlier day calls verified only what had been confirmed   *)
(* by then (lib/evidence.cjs evidenceAsOf under deriveTrust).               *)
THEOREM ReplaysAreHonest == Named => (Spec => []ReplayKnowsNoFuture)
<1>1. ASSUME Inductive PROVE ReplayKnowsNoFuture
  <2> SUFFICES ASSUME NEW n \in Names, NEW asOf \in 0 .. day,
                      db[n].evidence.artifact_id # NoId,
                      DeriveTrust(EvidenceAsOf(db[n].evidence, asOf), asOf,
                                  RequiredFor(EcosystemOf[db[n].pin]))
                          = "verified",
                      NEW d \in RequiredFor(EcosystemOf[db[n].pin])
               PROVE  ConfirmedWithin(db[n].evidence.artifact_id, d,
                                      asOf - MaxAge[d], asOf)
    BY DEF ReplayKnowsNoFuture
  <2> DEFINE then == EvidenceAsOf(db[n].evidence, asOf)
  <2>1. /\ db[n].evidence \in EvidenceRecords
        /\ asOf \in Nat
        /\ RecordHeld(looks, db[n].evidence)
    BY <1>1 DEF Inductive, TypeOK, Entries
  <2>2. /\ then \in EvidenceRecords
        /\ then.artifact_id = db[n].evidence.artifact_id
        /\ RecordHeld(looks, then)
        /\ \A e \in Dims : then.dims[e].checked_at <= asOf
    BY <2>1, AsOfHeld
  <2> HIDE DEF then
  <2>3. /\ d \in Dims
        /\ \E s \in PositiveStatuses :
                [id |-> then.artifact_id, dim |-> d, status |-> s,
                 at |-> AgeFrom(then.dims[d])] \in looks
        /\ AgeFrom(then.dims[d]) \in Int
        /\ asOf - MaxAge[d] <= AgeFrom(then.dims[d])
        /\ AgeFrom(then.dims[d]) <= then.dims[d].checked_at
    BY <2>1, <2>2, VerifiedConfirmed DEF then
  <2>4. then.dims[d].checked_at \in Int
    BY <2>2, <2>3 DEF EvidenceRecords, Answers, Never
  <2>5. AgeFrom(then.dims[d]) <= asOf
    BY <2>1, <2>2, <2>3, <2>4
  <2> QED
    BY <2>2, <2>3, <2>5 DEF ConfirmedWithin
<1> QED
  BY <1>1, AlwaysInductive, PTL

-----------------------------------------------------------------------------
(* The date of the last confirmation. *)

(* Evidence as the checks build it: a confirmation is dated by its look.    *)
JustLooked(fresh) ==
    /\ fresh \in EvidenceRecords
    /\ fresh.artifact_id # NoId
    /\ \A d \in Dims : fresh.dims[d].verified_at # Never =>
            fresh.dims[d].verified_at = fresh.dims[d].checked_at

LEMMA MergeKeepsConfirmation ==
    ASSUME NEW existing \in EvidenceRecords, WellDated(existing),
           NEW fresh, JustLooked(fresh), NEW d \in Dims,
           MergeEvidence(existing, fresh).artifact_id = existing.artifact_id
    PROVE  LastConfirmed(existing.dims[d])
                <= LastConfirmed(MergeEvidence(existing, fresh).dims[d])
<1> DEFINE prev  == existing.dims[d]
           value == fresh.dims[d]
<1>1. MergeEvidence(existing, fresh).dims[d] = MergeAnswer(prev, value)
  BY DEF MergeEvidence, SameArtifact, JustLooked
<1>2. prev \in Answers /\ value \in Answers
  BY DEF JustLooked, EvidenceRecords
<1>3. /\ prev.verified_at <= prev.checked_at
      /\ ~Examined(prev) => prev = NotExamined
      /\ value.verified_at # Never => value.verified_at = value.checked_at
  BY DEF WellDated, JustLooked
<1> HIDE DEF prev, value
<1>4. LastConfirmed(prev) \in Nat \cup {Never}
      /\ LastConfirmed(prev) <= prev.checked_at
  BY <1>2, <1>3 DEF LastConfirmed, Answers, Never
<1>5. ~Examined(prev) => LastConfirmed(prev) = Never
  BY <1>3, Vocabulary DEF LastConfirmed, NotExamined, Examined
<1>6. CASE MergeAnswer(prev, value) = prev
  BY <1>1, <1>4, <1>6 DEF prev, Never
<1>7. CASE MergeAnswer(prev, value) # prev
  <2>1. /\ Examined(prev) => prev.checked_at <= value.checked_at
        /\ MergeAnswer(prev, value) =
                [value EXCEPT !.verified_at =
                    IF value.verified_at # Never THEN value.verified_at
                    ELSE LastConfirmed(prev)]
    BY <1>2, <1>7 DEF MergeAnswer, Answers, Never
  <2> DEFINE merged == MergeAnswer(prev, value)
  <2>2. CASE value.verified_at # Never
    <3>1. merged.verified_at = value.checked_at
      BY <1>2, <1>3, <2>1, <2>2 DEF Answers
    <3>2. LastConfirmed(merged) = value.checked_at
      BY <1>2, <1>3, <2>2, <3>1 DEF LastConfirmed
    <3>3. LastConfirmed(prev) <= value.checked_at
      BY <1>2, <1>4, <1>5, <2>1 DEF Answers, Never
    <3> QED
      BY <1>1, <3>2, <3>3 DEF prev
  <2>3. CASE value.verified_at = Never
    <3>1. /\ merged.verified_at = LastConfirmed(prev)
          /\ merged.checked_at \in Nat \cup {Never}
      BY <1>2, <2>1, <2>3 DEF Answers
    <3>2. LastConfirmed(prev) <= LastConfirmed(merged)
      BY <1>4, <3>1 DEF LastConfirmed, Never
    <3> QED
      BY <1>1, <3>2 DEF prev
  <2> QED
    BY <2>2, <2>3
<1> QED
  BY <1>6, <1>7

(* The three kinds of run that record answers have this in common: each     *)
(* entry is written as its kind does, and what was seen of it is looked at. *)
LEMMA RecordingRun ==
    ASSUME NEW w \in Writers,
           FinishVerify(w) \/ FinishAvailability(w) \/ FinishSurvey(w)
    PROVE  \E found, entry :
            /\ \A m \in Names : found[m] \in [Dims -> Statuses \cup {NoStatus}]
            /\ WriteDb(w, [m \in Names |-> entry[m]])
            /\ looks' = looks \cup UNION {LooksOf(Fresh(w, m, found[m])) : m \in Names}
            /\ \A m \in Names : entry[m] \in {VerifiedEntry(w, m, found[m]),
                                              AvailabilityEntry(w, m, found[m]),
                                              SurveyEntry(w, m, found[m])}
<1>1. ASSUME NEW Found, Found \subseteq [Dims -> Statuses \cup {NoStatus}],
             NEW found \in [Names -> Found], NEW entry,
             entry = [m \in Names |-> entry[m]],
             WriteDb(w, entry),
             looks' = looks \cup UNION {LooksOf(Fresh(w, m, found[m])) : m \in Names},
             \A m \in Names : entry[m] \in {VerifiedEntry(w, m, found[m]),
                                            AvailabilityEntry(w, m, found[m]),
                                            SurveyEntry(w, m, found[m])}
      PROVE  \E f, e :
                /\ \A m \in Names : f[m] \in [Dims -> Statuses \cup {NoStatus}]
                /\ WriteDb(w, [m \in Names |-> e[m]])
                /\ looks' = looks \cup UNION {LooksOf(Fresh(w, m, f[m])) : m \in Names}
                /\ \A m \in Names : e[m] \in {VerifiedEntry(w, m, f[m]),
                                              AvailabilityEntry(w, m, f[m]),
                                              SurveyEntry(w, m, f[m])}
  BY <1>1
<1>2. CASE FinishVerify(w)
  <2>1. PICK found \in [Names -> VerifyChecks] :
            /\ WriteDb(w, [m \in Names |-> VerifiedEntry(w, m, found[m])])
            /\ looks' = looks \cup UNION {LooksOf(Fresh(w, m, found[m])) : m \in Names}
    BY <1>2 DEF FinishVerify
  <2>2. PICK entry : entry = [m \in Names |-> VerifiedEntry(w, m, found[m])]
    OBVIOUS
  <2>3. VerifyChecks \subseteq [Dims -> Statuses \cup {NoStatus}]
    BY VaultDbConstants
  <2>4. entry = [m \in Names |-> entry[m]] /\ \A m \in Names : entry[m] = VerifiedEntry(w, m, found[m])
    BY <2>2
  <2>5. WriteDb(w, entry)
    BY <2>1, <2>2
  <2> QED
    BY <1>1, <2>1, <2>3, <2>4, <2>5
<1>3. CASE FinishAvailability(w)
  <2>1. PICK found \in [Names -> AvailabilityChecks] :
            /\ WriteDb(w, [m \in Names |-> AvailabilityEntry(w, m, found[m])])
            /\ looks' = looks \cup UNION {LooksOf(Fresh(w, m, found[m])) : m \in Names}
    BY <1>3 DEF FinishAvailability
  <2>2. PICK entry : entry = [m \in Names |-> AvailabilityEntry(w, m, found[m])]
    OBVIOUS
  <2>3. AvailabilityChecks \subseteq [Dims -> Statuses \cup {NoStatus}]
    BY VaultDbConstants
  <2>4. entry = [m \in Names |-> entry[m]] /\ \A m \in Names : entry[m] = AvailabilityEntry(w, m, found[m])
    BY <2>2
  <2>5. WriteDb(w, entry)
    BY <2>1, <2>2
  <2> QED
    BY <1>1, <2>1, <2>3, <2>4, <2>5
<1>4. CASE FinishSurvey(w)
  <2>1. PICK found \in [Names -> SurveyChecks] :
            /\ WriteDb(w, [m \in Names |-> SurveyEntry(w, m, found[m])])
            /\ looks' = looks \cup UNION {LooksOf(Fresh(w, m, found[m])) : m \in Names}
    BY <1>4 DEF FinishSurvey
  <2>2. PICK entry : entry = [m \in Names |-> SurveyEntry(w, m, found[m])]
    OBVIOUS
  <2>3. SurveyChecks \subseteq [Dims -> Statuses \cup {NoStatus}]
    BY VaultDbConstants
  <2>4. entry = [m \in Names |-> entry[m]] /\ \A m \in Names : entry[m] = SurveyEntry(w, m, found[m])
    BY <2>2
  <2>5. WriteDb(w, entry)
    BY <2>1, <2>2
  <2> QED
    BY <1>1, <2>1, <2>3, <2>4, <2>5
<1> QED
  BY <1>2, <1>3, <1>4

(* What a step that replaces no unread file does to an entry's evidence:    *)
(* nothing, or one merge of evidence just looked at.                        *)
LEMMA EvidenceOfStep ==
    ASSUME Named, Inductive, [Next]_vars, ~overwrote', NEW n \in Names
    PROVE  \/ db'[n].evidence = db[n].evidence
           \/ \E fresh : /\ JustLooked(fresh)
                         /\ db'[n].evidence =
                                MergeEvidence(db[n].evidence, fresh)
<1>0. TypeOK
  BY DEF Inductive
<1>1. CASE Tick \/ UNCHANGED vars
  BY <1>1 DEF Tick, vars
<1>2. CASE \E m \in Names, pinned \in Pins : EditEntry(m, pinned)
  BY <1>0, <1>2 DEF EditEntry, TypeOK, Entries
<1>3. ASSUME NEW w \in Writers,
             (\E kind \in Kinds : StartRun(w, kind)) \/ EndRunUnwritten(w)
      PROVE  db'[n].evidence = db[n].evidence
  BY <1>3 DEF StartRun, EndRunUnwritten
<1>4. ASSUME NEW w \in Writers, run[w].kind # "none", NEW copy,
             WriteDb(w, [m \in Names |-> copy[m]]),
             NEW checks \in [Dims -> Statuses \cup {NoStatus}],
             copy[n].evidence \in {run[w].snap[n].evidence, Merged(w, n, checks)}
      PROVE  \/ db'[n].evidence = db[n].evidence
             \/ \E fresh : /\ JustLooked(fresh)
                           /\ db'[n].evidence =
                                  MergeEvidence(db[n].evidence, fresh)
  <2>1. run[w].snap = db
    BY <1>4 DEF WriteDb
  <2>2. db'[n].evidence = copy[n].evidence
    BY <1>4 DEF WriteDb
  <2>3. JustLooked(Fresh(w, n, checks))
    <3>1. Fresh(w, n, checks) \in EvidenceRecords
      BY <1>0, <1>4, MergedType
    <3>2. Fresh(w, n, checks).artifact_id # NoId
      BY <1>0, <2>1 DEF Fresh, BuildEvidence, TypeOK, Entries, Named
    <3>3. ASSUME NEW d \in Dims, Fresh(w, n, checks).dims[d].verified_at # Never
          PROVE  Fresh(w, n, checks).dims[d].verified_at =
                    Fresh(w, n, checks).dims[d].checked_at
      BY <3>3 DEF Fresh, BuildEvidence, NotExamined
    <3> QED
      BY <3>1, <3>2, <3>3 DEF JustLooked
  <2> QED
    BY <1>4, <2>1, <2>2, <2>3 DEF Merged
<1>5. ASSUME NEW w \in Writers,
             FinishVerify(w) \/ FinishAvailability(w) \/ FinishSurvey(w)
      PROVE  \/ db'[n].evidence = db[n].evidence
             \/ \E fresh : /\ JustLooked(fresh)
                           /\ db'[n].evidence =
                                  MergeEvidence(db[n].evidence, fresh)
  <2>1. run[w].kind # "none"
    BY <1>5 DEF FinishVerify, FinishAvailability, FinishSurvey
  <2>2. PICK found, entry :
            /\ \A m \in Names : found[m] \in [Dims -> Statuses \cup {NoStatus}]
            /\ WriteDb(w, [m \in Names |-> entry[m]])
            /\ \A m \in Names : entry[m] \in {VerifiedEntry(w, m, found[m]),
                                              AvailabilityEntry(w, m, found[m]),
                                              SurveyEntry(w, m, found[m])}
    BY <1>5, RecordingRun
  <2>3. entry[n].evidence \in
            {run[w].snap[n].evidence, Merged(w, n, found[n])}
    BY <1>0, <2>1, <2>2, EntryWritten
  <2> QED
    BY <1>4, <2>1, <2>2, <2>3
<1>6. ASSUME NEW w \in Writers, FinishUpdate(w)
      PROVE  db'[n].evidence = db[n].evidence
  <2>1. run[w].snap = db
    BY <1>6 DEF FinishUpdate, WriteDb
  <2>2. db[n] \in Entries
    BY <1>0 DEF TypeOK
  <2> QED
    BY <1>6, <2>1, <2>2 DEF FinishUpdate, WriteDb, Entries
<1>7. ASSUME NEW w \in Writers, FinishEval(w)
      PROVE  \/ db'[n].evidence = db[n].evidence
             \/ \E fresh : /\ JustLooked(fresh)
                           /\ db'[n].evidence =
                                  MergeEvidence(db[n].evidence, fresh)
  <2>1. run[w] \in RunRecords
    BY <1>0, <1>7, BusyRun DEF FinishEval
  <2>2. PICK outcome \in [Names -> EvalChecks \cup {NotRun}],
             at \in run[w].at .. day,
             filed \in SUBSET Names :
            /\ filed = {m \in Names : /\ outcome[m] # NotRun
                                      /\ Attributable(w, m)}
            /\ db' = [m \in Names |->
                    IF m \in filed
                    THEN [db[m] EXCEPT !.evidence =
                            MergeEvidence(@, SmokeOf(m, outcome[m], at))]
                    ELSE db[m]]
    BY <1>7 DEF FinishEval
  <2>3. at \in Nat
    BY <1>0, <2>1 DEF TypeOK, RunRecords
  <2>4. /\ db[n] \in Entries
        /\ db[n].pin \in Ids /\ db[n].pin # NoId
    BY <1>0, VaultDbConstants DEF TypeOK, Entries, Named
  <2>5. CASE n \in filed
    <3> DEFINE fresh == SmokeOf(n, outcome[n], at)
    <3>1. outcome[n] \in [Dims -> Statuses \cup {NoStatus}]
      BY <2>2, <2>5, VaultDbConstants
    <3>2. fresh \in EvidenceRecords
      BY <2>3, <2>4, <3>1, SmokeEvidenceType DEF SmokeOf
    <3>3. /\ fresh.artifact_id # NoId
          /\ \A d \in Dims : fresh.dims[d].verified_at = Never
      BY <2>4 DEF SmokeOf, SmokeEvidence, NotExamined
    <3>4. db'[n].evidence = MergeEvidence(db[n].evidence, fresh)
      BY <2>2, <2>4, <2>5 DEF Entries
    <3> HIDE DEF fresh
    <3> QED
      BY <3>2, <3>3, <3>4 DEF JustLooked
  <2>6. CASE n \notin filed
    BY <2>2, <2>6
  <2> QED
    BY <2>5, <2>6
<1> QED
  BY <1>1, <1>2, <1>3, <1>5, <1>6, <1>7 DEF Next, Finish

(* While a record is about one artifact, the day it last checked out does   *)
(* not move back, unless some process has replaced a file it had not read   *)
(* (lib/evidence.cjs mergeEvidence: the confirmation is carried forward).   *)
THEOREM ConfirmationIsKept == Named => (Spec => ConfirmationKept)
<1> SUFFICES ASSUME Named PROVE Spec => ConfirmationKept
  OBVIOUS
<1> DEFINE Kept ==
        ~overwrote' =>
            \A n \in Names :
                db'[n].evidence.artifact_id = db[n].evidence.artifact_id =>
                    \A d \in Dims :
                        LastConfirmed(db[n].evidence.dims[d])
                            <= LastConfirmed(db'[n].evidence.dims[d])
<1>1. ASSUME Inductive, [Next]_vars PROVE Kept
  <2> SUFFICES ASSUME ~overwrote', NEW n \in Names, NEW d \in Dims,
                      db'[n].evidence.artifact_id = db[n].evidence.artifact_id
               PROVE  LastConfirmed(db[n].evidence.dims[d])
                          <= LastConfirmed(db'[n].evidence.dims[d])
    OBVIOUS
  <2>1. db[n].evidence \in EvidenceRecords /\ WellDated(db[n].evidence)
    BY <1>1 DEF Inductive, TypeOK, Entries, RecordHeld
  <2>2. CASE db'[n].evidence = db[n].evidence
    <3>1. db[n].evidence.dims[d] \in Answers
      BY <2>1 DEF EvidenceRecords
    <3> QED
      BY <2>2, <3>1 DEF LastConfirmed, Answers, Never
  <2>3. CASE db'[n].evidence # db[n].evidence
    <3>1. PICK fresh : /\ JustLooked(fresh)
                       /\ db'[n].evidence =
                              MergeEvidence(db[n].evidence, fresh)
      BY <1>1, <2>3, EvidenceOfStep
    <3> QED
      BY <2>1, <3>1, MergeKeepsConfirmation
  <2> QED
    BY <2>2, <2>3
<1>2. Inductive /\ [Next]_vars => [Kept]_vars
  BY <1>1
<1>3. ConfirmationKept <=> [][Kept]_vars
  BY DEF ConfirmationKept
<1>4. Spec => []Inductive
  BY AlwaysInductive
<1> HIDE DEF Kept
<1> QED
  BY <1>2, <1>3, <1>4, PTL DEF Spec

-----------------------------------------------------------------------------
(* The newest answer. *)

LEMMA MergeMovesForward ==
    ASSUME NEW existing \in EvidenceRecords, existing.artifact_id # NoId,
           NEW fresh, JustLooked(fresh), NEW d \in Dims,
           MergeEvidence(existing, fresh).artifact_id = existing.artifact_id
    PROVE  LET merged == MergeEvidence(existing, fresh).dims[d]
           IN  /\ Examined(existing.dims[d]) =>
                      existing.dims[d].checked_at <= merged.checked_at
               /\ Examined(fresh.dims[d]) =>
                      fresh.dims[d].checked_at <= merged.checked_at
<1> DEFINE prev  == existing.dims[d]
           value == fresh.dims[d]
<1>1. MergeEvidence(existing, fresh).dims[d] = MergeAnswer(prev, value)
  BY DEF MergeEvidence, SameArtifact, JustLooked
<1>2. prev \in Answers /\ value \in Answers
  BY DEF JustLooked, EvidenceRecords
<1>3. CASE ~Examined(value) \/ (Examined(prev) /\ value.checked_at < prev.checked_at)
  BY <1>1, <1>2, <1>3 DEF MergeAnswer, Answers, Never
<1>4. CASE Examined(value) /\ ~(Examined(prev) /\ value.checked_at < prev.checked_at)
  <2>1. MergeAnswer(prev, value).checked_at = value.checked_at
    BY <1>2, <1>4 DEF MergeAnswer, Answers
  <2> QED
    BY <1>1, <1>2, <1>4, <2>1 DEF Answers, Never
<1> QED
  BY <1>3, <1>4

(* A new look at the artifact of one entry alone was merged into its record. *)
LEMMA LooksOfStep ==
    ASSUME Named, Inductive, [Next]_vars, ~overwrote', NEW n \in Names,
           NEW look \in looks' \ looks, AloneWith(n, look.id)
    PROVE  \E fresh : /\ JustLooked(fresh) /\ look \in LooksOf(fresh)
                      /\ db'[n].evidence = MergeEvidence(db[n].evidence, fresh)
<1>0. TypeOK
  BY DEF Inductive
<1>1. ASSUME NEW w \in Writers,
             FinishVerify(w) \/ FinishAvailability(w) \/ FinishSurvey(w)
      PROVE  \E fresh : /\ JustLooked(fresh) /\ look \in LooksOf(fresh)
                        /\ db'[n].evidence = MergeEvidence(db[n].evidence, fresh)
  <2>1. run[w].kind # "none"
    BY <1>1 DEF FinishVerify, FinishAvailability, FinishSurvey
  <2>2. PICK found, entry :
            /\ \A m \in Names : found[m] \in [Dims -> Statuses \cup {NoStatus}]
            /\ WriteDb(w, [m \in Names |-> entry[m]])
            /\ looks' = looks \cup UNION {LooksOf(Fresh(w, m, found[m])) : m \in Names}
            /\ \A m \in Names : entry[m] \in {VerifiedEntry(w, m, found[m]),
                                              AvailabilityEntry(w, m, found[m]),
                                              SurveyEntry(w, m, found[m])}
    BY <1>1, RecordingRun
  <2>3. run[w].snap = db /\ db'[n] = entry[n]
    BY <2>2 DEF WriteDb
  <2>4. PICK m \in Names : look \in LooksOf(Fresh(w, m, found[m]))
    BY <2>2
  <2>5. look.id = db[m].pin
    <3>1. Fresh(w, m, found[m]).artifact_id = db[m].pin
      BY <2>3 DEF Fresh, BuildEvidence
    <3> QED
      BY <2>4, <3>1 DEF LooksOf, Look
  <2>6. m = n
    BY <2>5 DEF AloneWith
  <2> DEFINE fresh == Fresh(w, n, found[n])
  <2>7. ~Nothing(found[n])
    BY <2>4, <2>6 DEF LooksOf, Fresh, BuildEvidence, Nothing, Examined, NotExamined
  <2>8. db'[n].evidence = MergeEvidence(db[n].evidence, fresh)
    BY <1>0, <2>1, <2>2, <2>3, <2>7, EntryWritten DEF Merged
  <2>9. fresh \in EvidenceRecords
    BY <1>0, <2>1, <2>2, MergedType
  <2>10. /\ fresh.artifact_id # NoId
         /\ \A d \in Dims : fresh.dims[d].verified_at # Never =>
                fresh.dims[d].verified_at = fresh.dims[d].checked_at
    BY <1>0, <2>3 DEF Fresh, BuildEvidence, NotExamined, TypeOK, Entries, Named
  <2> HIDE DEF fresh
  <2> QED
    BY <2>4, <2>6, <2>8, <2>9, <2>10 DEF JustLooked, fresh
<1>2. ASSUME NEW w \in Writers, FinishEval(w)
      PROVE  \E fresh : /\ JustLooked(fresh) /\ look \in LooksOf(fresh)
                        /\ db'[n].evidence = MergeEvidence(db[n].evidence, fresh)
  <2>1. run[w] \in RunRecords
    BY <1>0, <1>2, BusyRun DEF FinishEval
  <2>2. PICK outcome \in [Names -> EvalChecks \cup {NotRun}],
             at \in run[w].at .. day,
             filed \in SUBSET Names :
            /\ filed = {m \in Names : /\ outcome[m] # NotRun
                                      /\ Attributable(w, m)}
            /\ db' = [m \in Names |->
                    IF m \in filed
                    THEN [db[m] EXCEPT !.evidence =
                            MergeEvidence(@, SmokeOf(m, outcome[m], at))]
                    ELSE db[m]]
            /\ looks' = looks \cup
                    UNION {LooksOf(SmokeEvidence(outcome[m], at,
                                                 run[w].snap[m].pin)) :
                           m \in filed}
    BY <1>2 DEF FinishEval
  <2>3. PICK m \in filed :
            look \in LooksOf(SmokeEvidence(outcome[m], at, run[w].snap[m].pin))
    BY <2>2
  <2>4. run[w].snap[m].pin = db[m].pin /\ m \in Names
    BY <2>2 DEF Attributable
  <2>5. look.id = db[m].pin
    <3>1. SmokeEvidence(outcome[m], at, run[w].snap[m].pin).artifact_id = db[m].pin
      BY <2>4 DEF SmokeEvidence
    <3> QED
      BY <2>3, <3>1 DEF LooksOf, Look
  <2>6. m = n
    BY <2>4, <2>5 DEF AloneWith
  <2> DEFINE fresh == SmokeOf(n, outcome[n], at)
  <2>7. look \in LooksOf(fresh)
    BY <2>3, <2>4, <2>6 DEF SmokeOf
  <2>8. /\ db[n] \in Entries /\ db[n].pin \in Ids /\ db[n].pin # NoId
        /\ at \in Nat
    BY <1>0, <2>1, VaultDbConstants DEF TypeOK, Entries, Named, RunRecords
  <2>9. outcome[n] \in [Dims -> Statuses \cup {NoStatus}]
    BY <2>2, <2>6, VaultDbConstants
  <2>10. fresh \in EvidenceRecords
    BY <2>8, <2>9, SmokeEvidenceType DEF SmokeOf
  <2>11. /\ fresh.artifact_id # NoId
         /\ \A d \in Dims : fresh.dims[d].verified_at = Never
    BY <2>8 DEF SmokeOf, SmokeEvidence, NotExamined
  <2>12. db'[n].evidence = MergeEvidence(db[n].evidence, fresh)
    BY <2>2, <2>6, <2>8 DEF Entries
  <2> HIDE DEF fresh
  <2> QED
    BY <2>7, <2>10, <2>11, <2>12 DEF JustLooked
<1>3. ASSUME \/ Tick \/ UNCHANGED vars
             \/ \E m \in Names, pinned \in Pins : EditEntry(m, pinned)
             \/ \E w \in Writers : \/ \E kind \in Kinds : StartRun(w, kind)
                                   \/ EndRunUnwritten(w)
                                   \/ FinishUpdate(w)
      PROVE  FALSE
  BY <1>3 DEF Tick, vars, EditEntry, StartRun, EndRunUnwritten, FinishUpdate
<1> QED
  BY <1>1, <1>2, <1>3 DEF Next, Finish

(* While a record is about one artifact, an answer in it only gives way to  *)
(* a later look, and a newer look at it is not lost, unless some process    *)
(* has replaced a file it had not read (lib/evidence.cjs mergeEvidence:     *)
(* newest wins).                                                            *)
THEOREM NewestIsHeld == Named => (Spec => NewestAnswerHeld)
<1> SUFFICES ASSUME Named PROVE Spec => NewestAnswerHeld
  OBVIOUS
<1> DEFINE Held ==
        ~overwrote' =>
            \A n \in Names, d \in Dims :
                LET id  == db[n].evidence.artifact_id
                    was == db[n].evidence.dims[d]
                    is  == db'[n].evidence.dims[d]
                IN  id # NoId /\ db'[n].evidence.artifact_id = id =>
                        /\ Examined(was) => was.checked_at <= is.checked_at
                        /\ \A look \in looks' \ looks :
                              look.id = id /\ look.dim = d /\ AloneWith(n, id)
                                  => look.at <= is.checked_at
<1>1. ASSUME Inductive, [Next]_vars PROVE Held
  <2> SUFFICES ASSUME ~overwrote', NEW n \in Names, NEW d \in Dims,
                      db[n].evidence.artifact_id # NoId,
                      db'[n].evidence.artifact_id = db[n].evidence.artifact_id
               PROVE  /\ Examined(db[n].evidence.dims[d]) =>
                            db[n].evidence.dims[d].checked_at
                                <= db'[n].evidence.dims[d].checked_at
                      /\ \A look \in looks' \ looks :
                            look.id = db[n].evidence.artifact_id /\ look.dim = d
                                /\ AloneWith(n, db[n].evidence.artifact_id)
                            => look.at <= db'[n].evidence.dims[d].checked_at
    OBVIOUS
  <2>1. db[n].evidence \in EvidenceRecords
    BY <1>1 DEF Inductive, TypeOK, Entries
  <2>2. ASSUME Examined(db[n].evidence.dims[d])
        PROVE  db[n].evidence.dims[d].checked_at <= db'[n].evidence.dims[d].checked_at
    <3>1. CASE db'[n].evidence = db[n].evidence
      <4>1. db[n].evidence.dims[d] \in Answers
        BY <2>1 DEF EvidenceRecords
      <4> QED
        BY <3>1, <4>1 DEF Answers, Never
    <3>2. CASE db'[n].evidence # db[n].evidence
      <4>1. PICK fresh : /\ JustLooked(fresh)
                         /\ db'[n].evidence = MergeEvidence(db[n].evidence, fresh)
        BY <1>1, <3>2, EvidenceOfStep
      <4> QED
        BY <2>1, <2>2, <4>1, MergeMovesForward
    <3> QED
      BY <3>1, <3>2
  <2>3. ASSUME NEW look \in looks' \ looks,
               look.id = db[n].evidence.artifact_id, look.dim = d,
               AloneWith(n, db[n].evidence.artifact_id)
        PROVE  look.at <= db'[n].evidence.dims[d].checked_at
    <3>1. PICK fresh : /\ JustLooked(fresh) /\ look \in LooksOf(fresh)
                       /\ db'[n].evidence = MergeEvidence(db[n].evidence, fresh)
      BY <1>1, <2>3, LooksOfStep
    <3>2. Examined(fresh.dims[d]) /\ look.at = fresh.dims[d].checked_at
      BY <2>3, <3>1 DEF LooksOf, Look
    <3> QED
      BY <2>1, <3>1, <3>2, MergeMovesForward
  <2> QED
    BY <2>2, <2>3
<1>2. Inductive /\ [Next]_vars => [Held]_vars
  BY <1>1
<1>3. NewestAnswerHeld <=> [][Held]_vars
  BY DEF NewestAnswerHeld
<1>4. Spec => []Inductive
  BY AlwaysInductive
<1> HIDE DEF Held
<1> QED
  BY <1>2, <1>3, <1>4, PTL DEF Spec

-----------------------------------------------------------------------------
(* Only verify raises the word, and of the entry it holds; availability     *)
(* only takes it away; no other command touches it, unless a process has    *)
(* replaced a file it had not read (verify_integrity.cjs,                   *)
(* check_availability.cjs).                                                 *)
THEOREM OnlyVerifyRaises == Spec => OnlyEvidenceRaisesTheWord
<1> DEFINE Earned(n) ==
        \E w \in Writers :
            /\ run[w].kind = "verify"
            /\ db'[n].pin = db'[n].evidence.artifact_id \/ db'[n].pin = NoId
            /\ db'[n].trust =
                DeriveTrust(db'[n].evidence, run[w].at,
                            RequiredFor(EcosystemOf[db'[n].pin]))
           Raised ==
        ~overwrote' =>
            \A n \in Names :
                db'[n].trust # db[n].trust /\ db'[n].trust # "unverified" => Earned(n)
<1>1. ASSUME TypeOK, [Next]_vars PROVE Raised
  <2> SUFFICES ASSUME ~overwrote', NEW n \in Names,
                      db'[n].trust # db[n].trust, db'[n].trust # "unverified"
               PROVE  Earned(n)
    OBVIOUS
  <2>1. db[n] \in Entries /\ db[n].pin \in Ids \cup {NoId}
    BY <1>1, VaultDbConstants DEF TypeOK, Entries
  <2>2. ASSUME NEW w \in Writers, FinishVerify(w) PROVE Earned(n)
    <3>1. PICK found \in [Names -> VerifyChecks] :
              WriteDb(w, [m \in Names |-> VerifiedEntry(w, m, found[m])])
      BY <2>2 DEF FinishVerify
    <3>2. run[w].kind = "verify" /\ run[w].snap = db /\ db'[n] = VerifiedEntry(w, n, found[n])
      BY <2>2, <3>1 DEF FinishVerify, WriteDb
    <3> DEFINE evidence == Merged(w, n, found[n])
               word == DeriveTrust(evidence, run[w].at, RequiredFor(EcosystemOf[db[n].pin]))
    <3>3. db'[n] = [db[n] EXCEPT !.evidence = evidence, !.trust = word]
      BY <3>2 DEF VerifiedEntry
    <3> HIDE DEF evidence, word
    <3>4. db'[n].pin = db[n].pin /\ db'[n].evidence = evidence /\ db'[n].trust = word
      BY <2>1, <3>3 DEF Entries
    <3>5. db[n].pin # NoId => evidence.artifact_id = db[n].pin
      BY <3>2 DEF evidence, Merged, MergeEvidence, Fresh, BuildEvidence
    <3> QED
      BY <3>2, <3>4, <3>5 DEF word
  <2>3. ASSUME NEW w \in Writers, FinishAvailability(w) PROVE FALSE
    <3>1. PICK found \in [Names -> AvailabilityChecks] :
              WriteDb(w, [m \in Names |-> AvailabilityEntry(w, m, found[m])])
      BY <2>3 DEF FinishAvailability
    <3>2. run[w].snap = db /\ db'[n] = AvailabilityEntry(w, n, found[n])
      BY <3>1 DEF WriteDb
    <3> QED
      BY <2>1, <3>2 DEF AvailabilityEntry, Entries
  <2>4. ASSUME NEW w \in Writers, FinishSurvey(w) PROVE FALSE
    <3>1. PICK found \in [Names -> SurveyChecks] :
              WriteDb(w, [m \in Names |-> SurveyEntry(w, m, found[m])])
      BY <2>4 DEF FinishSurvey
    <3>2. run[w].snap = db /\ db'[n] = SurveyEntry(w, n, found[n])
      BY <3>1 DEF WriteDb
    <3> QED
      BY <2>1, <3>2 DEF SurveyEntry, Entries
  <2>5. ASSUME NEW w \in Writers, FinishUpdate(w) PROVE FALSE
    <3>1. run[w].snap = db
      BY <2>5 DEF FinishUpdate, WriteDb
    <3>2. PICK pinned : db'[n] = [db[n] EXCEPT !.pin = pinned]
      BY <2>5, <3>1 DEF FinishUpdate, WriteDb
    <3> QED
      BY <2>1, <3>2 DEF Entries
  <2>6. ASSUME NEW w \in Writers, FinishEval(w) PROVE FALSE
    <3>1. PICK evidence : db'[n] = [db[n] EXCEPT !.evidence = evidence] \/ db'[n] = db[n]
      BY <2>1, <2>6 DEF FinishEval
    <3> QED
      BY <2>1, <3>1 DEF Entries
  <2>7. ASSUME NEW m \in Names, NEW pinned \in Pins, EditEntry(m, pinned) PROVE FALSE
    BY <1>1, <2>1, <2>7 DEF EditEntry, TypeOK, Entries
  <2>8. ASSUME \/ Tick \/ UNCHANGED vars
               \/ \E w \in Writers : \/ \E kind \in Kinds : StartRun(w, kind)
                                     \/ EndRunUnwritten(w)
        PROVE  FALSE
    BY <2>8 DEF Tick, vars, StartRun, EndRunUnwritten
  <2> QED
    BY <1>1, <2>2, <2>3, <2>4, <2>5, <2>6, <2>7, <2>8 DEF Next, Finish
<1>2. TypeOK /\ [Next]_vars => [Raised]_vars
  BY <1>1
<1>3. OnlyEvidenceRaisesTheWord <=> [][Raised]_vars
  BY DEF OnlyEvidenceRaisesTheWord
<1>4. Spec => []TypeOK
  BY TypeCorrect
<1> HIDE DEF Raised
<1> QED
  BY <1>2, <1>3, <1>4, PTL DEF Spec

-----------------------------------------------------------------------------
(* What was signed (SignedDb, Audits).                                      *)

LEMMA Least ==
    ASSUME NEW S \in SUBSET Nat, S # {}
    PROVE  \E x \in S : \A y \in S : x <= y
<1> DEFINE R == {p \in Nat \X Nat : p[1] < p[2]}
<1>1. IsWellFoundedOn(R, Nat)
  BY NatLessThanWellFounded DEF OpToRel
<1> HIDE DEF R
<1>2. PICK x \in S : \A y \in S : <<y, x>> \notin R
  BY <1>1, WFMin
<1>3. ASSUME NEW y \in S PROVE x <= y
  <2>1. ~(y < x)
    BY <1>2 DEF R
  <2> QED
    BY <2>1
<1> QED
  BY <1>3

(* The key that is found is one of the document, under the id asked for.    *)
LEMMA KeyForFinds ==
    ASSUME NEW doc, DOMAIN doc \subseteq Nat, NEW kept, kept \subseteq DOMAIN doc, NEW id,
           KeyFor(doc, kept, id) # Null
    PROVE  \E i \in kept : doc[i].key_id = id /\ KeyFor(doc, kept, id) = doc[i]
<1> DEFINE named == {i \in kept : doc[i].key_id = id}
<1>1. named # {} /\ named \in SUBSET Nat
  BY DEF KeyFor
<1>2. \E i \in named : \A j \in named : i <= j
  BY <1>1, Least
<1>3. (CHOOSE i \in named : \A j \in named : i <= j) \in named
  BY <1>2
<1>4. KeyFor(doc, kept, id) = doc[CHOOSE i \in named : \A j \in named : i <= j]
  BY <1>1 DEF KeyFor
<1> QED
  BY <1>3, <1>4

(* What "verified" says of an envelope. *)
LEMMA VerifiedMeans ==
    ASSUME NEW bytes, NEW envelope, NEW doc, DOMAIN doc \subseteq Nat,
           NEW kept, kept \subseteq DOMAIN doc, NEW artifact,
           VerifyCanonical(bytes, envelope, doc, kept, artifact) = "verified"
    PROVE  /\ envelope.shape \notin {"absent", "malformed"}
           /\ envelope.artifact = artifact
           /\ envelope.sha256 = bytes
           /\ \E i \in kept :
                 /\ doc[i].key_id = envelope.key_id
                 /\ ~doc[i].revoked
                 /\ ~OutOfWindow(doc[i], envelope.signed_at)
<1> DEFINE entry == KeyFor(doc, kept, envelope.key_id)
<1>1. /\ envelope.shape \notin {"absent", "malformed"} /\ envelope.artifact = artifact
      /\ entry # Null /\ ~entry.revoked /\ ~OutOfWindow(entry, envelope.signed_at)
      /\ bytes = envelope.sha256
  BY DEF VerifyCanonical
<1>2. PICK i \in kept : doc[i].key_id = envelope.key_id /\ entry = doc[i]
  BY <1>1, KeyForFinds
<1> QED
  BY <1>1, <1>2

-----------------------------------------------------------------------------
(* The database. *)

(* Made by a signer: over this artifact, these bytes, by this key, that day.*)
Made(sig) ==
    \/ sig = NoSignature
    \/ sig = Malformed
    \/ \E s \in signings : sig = SignCanonical(s[2], s[1], Artifact, s[3])

KeyringEntries ==
    [key_id : Keys, valid_from : Nat \cup {Null}, valid_until : Nat \cup {Null},
     revoked : BOOLEAN, sound : BOOLEAN]

Files(f) ==
    /\ f = [db |-> f.db, sig |-> f.sig, keyring |-> f.keyring]
    /\ f.db = [value |-> f.db.value, layout |-> f.db.layout]
    /\ f.keyring \in Seq(KeyringEntries)
    /\ Made(f.sig)

DbInv ==
    /\ today \in Nat
    /\ Files(tree)
    /\ installed # Null => Files(installed)
    /\ \A package \in shipped : Files(package) /\ SignatureRule(package) = "verified"

LEMMA KeyringIndexed ==
    ASSUME NEW files, Files(files)
    PROVE  /\ DOMAIN files.keyring \subseteq Nat
           /\ TrustedKeys(files.keyring) \subseteq DOMAIN files.keyring
  BY DEF Files, TrustedKeys, NormalizeKeys

LEMMA VerifiedIsVouched ==
    ASSUME NEW files, Files(files), SignatureRule(files) = "verified"
    PROVE  Vouched(files)
<1>1. VerifyFile(files) = "verified"
  BY DEF SignatureRule
<1> DEFINE sig == files.sig
           kept == TrustedKeys(files.keyring)
<1>2. /\ sig.shape \notin {"absent", "malformed"} /\ sig.sha256 = Canonical(files.db)
      /\ \E i \in kept : /\ files.keyring[i].key_id = sig.key_id
                         /\ ~files.keyring[i].revoked
                         /\ ~OutOfWindow(files.keyring[i], sig.signed_at)
  BY <1>1, KeyringIndexed, VerifiedMeans DEF VerifyFile
<1>3. PICK s \in signings : sig = SignCanonical(s[2], s[1], Artifact, s[3])
  BY <1>2 DEF Files, Made, NoSignature, Malformed
<1>4. sig.key_id = s[1] /\ sig.sha256 = s[2] /\ sig.signed_at = s[3]
  BY <1>3 DEF SignCanonical
<1> QED
  BY <1>2, <1>4, KeyringIndexed DEF Vouched

LEMMA CheckMeans ==
    ASSUME NEW files, NEW where \in {"package", "hook", "tree"},
           NEW requireSet \in BOOLEAN, NEW allowUnsigned \in BOOLEAN,
           CheckDb(files, where, requireSet, allowUnsigned).proceed,
           \/ CheckDb(files, where, requireSet, allowUnsigned).state = "verified"
           \/ /\ where # "tree" \/ requireSet
              /\ TrustedKeys(files.keyring) # {}
              /\ ~allowUnsigned
    PROVE  \/ SignatureRule(files) = "verified"
           \/ /\ where = "hook" /\ ~requireSet
              /\ CheckDb(files, where, requireSet, allowUnsigned).state = "not-required"
              /\ files.db = clone
<1> DEFINE rule == SignatureRule(files)
           required == SignatureRequired(files, where, requireSet)
           effect == SignatureEffect(rule, required, allowUnsigned)
           check == CheckDb(files, where, requireSet, allowUnsigned)
<1>1. rule \in {"keyring-invalid", "not-configured", "verified", "absent", "invalid"}
  BY DEF SignatureRule
<1>2. rule = "not-configured" => TrustedKeys(files.keyring) = {}
  BY DEF SignatureRule
<1>3. /\ check.proceed <=> effect # "deny"
      /\ check.state = CASE effect = "deny"            -> "refused"
                         [] rule = "not-configured"    -> "not-configured"
                         [] rule = "absent" /\ ~required    -> "not-required"
                         [] rule # "not-configured" /\ effect = "warn" -> "unsigned-allowed"
                         [] OTHER                      -> "verified"
  BY DEF CheckDb, SignatureFails
<1>4. ~required => ~requireSet /\ where # "package" /\ (where = "hook" => files.db = clone)
  BY DEF SignatureRequired, HookAsks, PreCommitPin
<1> HIDE DEF rule, required
<1>5. CASE rule = "verified"
  BY <1>5 DEF rule
<1>6. CASE rule = "keyring-invalid"
  BY <1>3, <1>6 DEF SignatureEffect
<1>7. CASE rule = "not-configured"
  BY <1>2, <1>3, <1>7 DEF SignatureEffect
<1>8. CASE rule = "absent" /\ ~required
  BY <1>3, <1>4, <1>8 DEF SignatureEffect
<1>9. CASE rule \in {"absent", "invalid"} /\ ~(rule = "absent" /\ ~required)
  BY <1>3, <1>9 DEF SignatureEffect
<1> QED
  BY <1>1, <1>5, <1>6, <1>7, <1>8, <1>9

LEMMA FilesKept ==
    ASSUME signings \subseteq signings', NEW f, Files(f)
    PROVE  Files(f)'
  BY DEF Files, Made

(* A file of the working tree or of the package is replaced.                *)
LEMMA FilesWith ==
    ASSUME NEW f, Files(f)
    PROVE  /\ \A v, l : Files([f EXCEPT !.db = [value |-> v, layout |-> l]])
           /\ \A sig : Made(sig) => Files([f EXCEPT !.sig = sig])
           /\ \A keyring \in Seq(KeyringEntries) : Files([f EXCEPT !.keyring = keyring])
<1>1. f = [db |-> f.db, sig |-> f.sig, keyring |-> f.keyring]
  BY DEF Files
<1>2. ASSUME NEW v, NEW l PROVE Files([f EXCEPT !.db = [value |-> v, layout |-> l]])
  <2>1. PICK data : data = [value |-> v, layout |-> l]
    OBVIOUS
  <2>2. data = [value |-> data.value, layout |-> data.layout]
    BY <2>1
  <2>3. [f EXCEPT !.db = data] = [db |-> data, sig |-> f.sig, keyring |-> f.keyring]
    BY <1>1
  <2> QED
    BY <2>1, <2>2, <2>3 DEF Files
<1>3. ASSUME NEW sig, Made(sig) PROVE Files([f EXCEPT !.sig = sig])
  <2>1. [f EXCEPT !.sig = sig] = [db |-> f.db, sig |-> sig, keyring |-> f.keyring]
    BY <1>1
  <2> QED
    BY <1>3, <2>1 DEF Files
<1>4. ASSUME NEW keyring \in Seq(KeyringEntries) PROVE Files([f EXCEPT !.keyring = keyring])
  <2>1. [f EXCEPT !.keyring = keyring] = [db |-> f.db, sig |-> f.sig, keyring |-> keyring]
    BY <1>1
  <2> QED
    BY <2>1 DEF Files
<1> QED
  BY <1>2, <1>3, <1>4

LEMMA KeyringEdits ==
    ASSUME NEW f, Files(f), NEW on \in Nat
    PROVE  /\ \A k \in Keys :
                 Files([f EXCEPT !.keyring = Append(@, KeyringEntry(k, on))])
           /\ \A i \in DOMAIN f.keyring :
                 /\ Files([f EXCEPT !.keyring[i].valid_until = on])
                 /\ Files([f EXCEPT !.keyring[i].revoked = TRUE])
                 /\ Files([f EXCEPT !.keyring[i].sound = ~@])
<1>1. f.keyring \in Seq(KeyringEntries)
  BY DEF Files
<1>2. f = [db |-> f.db, sig |-> f.sig, keyring |-> f.keyring]
  BY DEF Files
<1>3. ASSUME NEW k \in Keys
      PROVE  Files([f EXCEPT !.keyring = Append(@, KeyringEntry(k, on))])
  <2>1. KeyringEntry(k, on) \in KeyringEntries
    BY DEF KeyringEntry, KeyringEntries
  <2>2. Append(f.keyring, KeyringEntry(k, on)) \in Seq(KeyringEntries)
    BY <1>1, <2>1
  <2>3. [f EXCEPT !.keyring = Append(@, KeyringEntry(k, on))]
          = [f EXCEPT !.keyring = Append(f.keyring, KeyringEntry(k, on))]
    BY <1>2
  <2> QED
    BY <2>2, <2>3, FilesWith
<1>4. ASSUME NEW i \in DOMAIN f.keyring, NEW e \in KeyringEntries
      PROVE  Files([f EXCEPT !.keyring = [f.keyring EXCEPT ![i] = e]])
  <2>1. [f.keyring EXCEPT ![i] = e] \in Seq(KeyringEntries)
    BY <1>1
  <2> QED
    BY <2>1, FilesWith
<1>5. ASSUME NEW i \in DOMAIN f.keyring
      PROVE  /\ Files([f EXCEPT !.keyring[i].valid_until = on])
             /\ Files([f EXCEPT !.keyring[i].revoked = TRUE])
             /\ Files([f EXCEPT !.keyring[i].sound = ~@])
  <2>1. PICK e \in KeyringEntries : e = f.keyring[i]
    BY <1>1
  <2>2. /\ [e EXCEPT !.valid_until = on] \in KeyringEntries
        /\ [e EXCEPT !.revoked = TRUE] \in KeyringEntries
        /\ [e EXCEPT !.sound = ~@] \in KeyringEntries
    BY DEF KeyringEntries
  <2>3. /\ [f EXCEPT !.keyring[i].valid_until = on] =
              [f EXCEPT !.keyring = [f.keyring EXCEPT ![i] = [e EXCEPT !.valid_until = on]]]
        /\ [f EXCEPT !.keyring[i].revoked = TRUE] =
              [f EXCEPT !.keyring = [f.keyring EXCEPT ![i] = [e EXCEPT !.revoked = TRUE]]]
        /\ [f EXCEPT !.keyring[i].sound = ~@] =
              [f EXCEPT !.keyring = [f.keyring EXCEPT ![i] = [e EXCEPT !.sound = ~@]]]
    BY <1>2, <2>1
  <2> QED
    BY <1>4, <2>2, <2>3
<1> QED
  BY <1>3, <1>5

LEMMA AcceptedIsVerified ==
    ASSUME NEW files, PackedAccepts(files)
    PROVE  SignatureRule(files) = "verified"
<1> DEFINE rule == SignatureRule(files)
<1>1. rule \in {"keyring-invalid", "not-configured", "verified", "absent", "invalid"}
  BY DEF SignatureRule
<1>2. SignatureEffect(rule, TRUE, FALSE) \notin {"deny", "warn", "unknown"}
  BY DEF PackedAccepts, SignatureFails
<1> HIDE DEF rule
<1>3. rule = "verified"
  BY <1>1, <1>2 DEF SignatureEffect
<1> QED
  BY <1>3 DEF rule

LEMMA PackedFiles ==
    ASSUME DbInv, NEW key, NEW f, f = Packed(key),
           <<key, Canonical(tree.db), today>> \in signings'
    PROVE  Files(f)'
<1>1. /\ f = [db |-> tree.db, sig |-> f.sig, keyring |-> tree.keyring]
      /\ f.sig = SignCanonical(Canonical(tree.db), key, Artifact, today)
  BY DEF Packed
<1>2. PICK s : s = <<key, Canonical(tree.db), today>>
  OBVIOUS
<1>3. f.sig = SignCanonical(s[2], s[1], Artifact, s[3]) /\ s \in signings'
  BY <1>1, <1>2
<1>4. Made(f.sig)'
  BY <1>3 DEF Made
<1>5. tree.db = [value |-> tree.db.value, layout |-> tree.db.layout]
      /\ tree.keyring \in Seq(KeyringEntries)
  BY DEF DbInv, Files
<1> QED
  BY <1>1, <1>4, <1>5 DEF Files

LEMMA DbInitHolds == DbInit => DbInv
<1> SUFFICES ASSUME DbInit PROVE DbInv
  OBVIOUS
<1>1. PICK v \in DbValues, l \in Layouts :
        tree = [db |-> [value |-> v, layout |-> l], sig |-> NoSignature, keyring |-> <<>>]
  BY DEF DbInit
<1>2. Files(tree)
  BY <1>1 DEF Files, Made
<1> QED
  BY <1>2 DEF DbInv, DbInit

(* The copies are as they should be when each is one that was, or is new    *)
(* and made of such.                                                        *)
LEMMA DbInvFrom ==
    ASSUME DbInv, signings \subseteq signings', today' \in Nat,
           \A f : f = tree' => f = tree \/ Files(f)',
           \A f : f = installed' => f = Null \/ f = installed \/ f \in shipped \/ Files(f)',
           \A f \in shipped' : f \in shipped \/ (Files(f)' /\ SignatureRule(f) = "verified")
    PROVE  DbInv'
<1>1. \A f : Files(f) => Files(f)'
  BY FilesKept
<1>2. Files(tree)'
  BY <1>1 DEF DbInv
<1>3. installed' # Null => Files(installed)'
  BY <1>1 DEF DbInv
<1>4. ASSUME NEW f \in shipped' PROVE Files(f)' /\ SignatureRule(f) = "verified"
  BY <1>1 DEF DbInv
<1>5. \A f \in shipped' : Files(f)' /\ SignatureRule(f) = "verified"
  BY <1>4, Zenon
<1>6. today' \in Nat
  OBVIOUS
<1> QED
  BY <1>2, <1>3, <1>5, <1>6, Zenon DEF DbInv

LEMMA DbStepKeeps == DbInv /\ [DbNext]_dbVars => DbInv'
<1> SUFFICES ASSUME DbInv, [DbNext]_dbVars PROVE DbInv'
  OBVIOUS
<1>1. today \in Nat /\ Files(tree) /\ (installed # Null => Files(installed))
  BY DEF DbInv
<1>2. CASE UNCHANGED dbVars \/ NextDay
  BY <1>1, <1>2, DbInvFrom DEF dbVars, NextDay
<1>3. CASE EditDb
  BY <1>1, <1>3, FilesWith, FilesKept, DbInvFrom DEF EditDb
<1>4. CASE EditKeyring
  <2>1. UNCHANGED <<today, shipped, installed, signings>>
    BY <1>4 DEF EditKeyring
  <2>2. ASSUME NEW k \in Keys,
               tree' = [tree EXCEPT !.keyring = Append(@, KeyringEntry(k, today))]
        PROVE  Files(tree')
    BY <1>1, <2>2, KeyringEdits
  <2>3. ASSUME NEW i \in DOMAIN tree.keyring,
               \/ tree' = [tree EXCEPT !.keyring[i].valid_until = today]
               \/ tree' = [tree EXCEPT !.keyring[i].revoked = TRUE]
               \/ tree' = [tree EXCEPT !.keyring[i].sound = ~@]
        PROVE  Files(tree')
    <3>1. /\ Files([tree EXCEPT !.keyring[i].valid_until = today])
          /\ Files([tree EXCEPT !.keyring[i].revoked = TRUE])
          /\ Files([tree EXCEPT !.keyring[i].sound = ~@])
      BY <1>1, KeyringEdits
    <3>2. CASE tree' = [tree EXCEPT !.keyring[i].valid_until = today]
      BY <3>1, <3>2
    <3>3. CASE tree' = [tree EXCEPT !.keyring[i].revoked = TRUE]
      BY <3>1, <3>3
    <3>4. CASE tree' = [tree EXCEPT !.keyring[i].sound = ~@]
      BY <3>1, <3>4
    <3> QED
      BY <2>3, <3>2, <3>3, <3>4
  <2>4. Files(tree')
    BY <1>4, <2>2, <2>3, Zenon DEF EditKeyring
  <2>5. \A f : f = tree' => Files(f)'
    BY <2>1, <2>4, FilesKept
  <2> QED
    BY <1>1, <2>1, <2>5, DbInvFrom
<1>5. CASE SetSecret
  BY <1>1, <1>5, DbInvFrom DEF SetSecret
<1>6. CASE \E k \in Keys : SignRead(k)
  BY <1>1, <1>6, DbInvFrom DEF SignRead
<1>7. CASE SignWrite
  <2>1. PICK s : s = <<signer.key, signer.bytes, signer.day>>
    OBVIOUS
  <2>2. PICK sig : sig = SignCanonical(signer.bytes, signer.key, Artifact, signer.day)
    OBVIOUS
  <2>3. /\ signings' = signings \cup {s} /\ tree' = [tree EXCEPT !.sig = sig]
        /\ sig = SignCanonical(s[2], s[1], Artifact, s[3])
        /\ UNCHANGED <<today, shipped, installed>>
    BY <1>7, <2>1, <2>2 DEF SignWrite
  <2>4. Made(sig)'
    BY <2>3 DEF Made
  <2>5. Files(tree)'
    <3>1. tree' = [db |-> tree.db, sig |-> sig, keyring |-> tree.keyring]
      BY <1>1, <2>3 DEF Files
    <3> QED
      BY <1>1, <2>4, <3>1 DEF Files
  <2> QED
    BY <1>1, <2>3, <2>5, DbInvFrom
<1>8. CASE Release
  <2>1. PICK f : f = Packed(secret)
    OBVIOUS
  <2>2. /\ shipped' = shipped \cup {f} /\ SignatureRule(f) = "verified"
        /\ signings' = signings \cup {<<secret, Canonical(tree.db), today>>}
        /\ UNCHANGED <<today, tree, installed>>
    BY <1>8, <2>1, AcceptedIsVerified DEF Release
  <2>3. Files(f)'
    BY <2>1, <2>2, PackedFiles
  <2> QED
    BY <1>1, <2>2, <2>3, DbInvFrom
<1>9. CASE Install
  BY <1>1, <1>9, DbInvFrom DEF Install
<1>10. CASE PreCommitInstall
  <2>1. installed' = [db |-> tree.db, sig |-> NoSignature, keyring |-> tree.keyring]
        /\ UNCHANGED <<today, tree, shipped, signings>>
    BY <1>10 DEF PreCommitInstall
  <2>2. \A f : f = installed' => Files(f)
    BY <1>1, <2>1 DEF Files, Made
  <2> QED
    BY <1>1, <2>1, <2>2, FilesKept, DbInvFrom
<1>11. CASE EditInstalled
  <2>1. UNCHANGED <<today, tree, shipped, signings>> /\ Files(installed)
    BY <1>1, <1>11 DEF EditInstalled
  <2>2. \A old \in shipped : Made(old.sig)
    BY DEF DbInv, Files
  <2>3. Made(NoSignature) /\ Made(Malformed)
    BY DEF Made
  <2>4. \A f : f = installed' => Files(f)
    BY <1>11, <2>1, <2>2, <2>3, FilesWith DEF EditInstalled
  <2> QED
    BY <1>1, <2>1, <2>4, FilesKept, DbInvFrom
<1> QED
  BY <1>2, <1>3, <1>4, <1>5, <1>6, <1>7, <1>8, <1>9, <1>10, <1>11 DEF DbNext

LEMMA DbInvariant == DbSpec => []DbInv
  BY DbInitHolds, DbStepKeeps, PTL DEF DbSpec

(* A command that goes on as "verified", or where a signature is required,  *)
(* reads a database that a key of its keyring signed while it was valid     *)
(* and that is not revoked there; only the hook of a pinned commit reads    *)
(* another, the one of that commit (checkDb, lib/db_signature.cjs).         *)
THEOREM OnlyTheSignedRuns == DbSpec => []RunsWhatWasSigned
<1>1. DbInv => RunsWhatWasSigned
  <2> SUFFICES ASSUME DbInv,
                      NEW where \in {"package", "hook", "tree"},
                      NEW requireSet \in BOOLEAN, NEW allowUnsigned \in BOOLEAN,
                      FilesAt(where) # Null,
                      NEW files, files = FilesAt(where),
                      CheckDb(files, where, requireSet, allowUnsigned).proceed,
                      \/ CheckDb(files, where, requireSet, allowUnsigned).state = "verified"
                      \/ /\ where # "tree" \/ requireSet
                         /\ TrustedKeys(files.keyring) # {}
                         /\ ~allowUnsigned
               PROVE  \/ Vouched(files)
                      \/ /\ where = "hook" /\ ~requireSet
                         /\ CheckDb(files, where, requireSet, allowUnsigned).state
                               = "not-required"
                         /\ files.db = clone
    BY DEF RunsWhatWasSigned
  <2>1. Files(files)
    BY DEF FilesAt, DbInv
  <2> QED
    BY <2>1, VerifiedIsVouched, CheckMeans
<1> QED
  BY <1>1, DbInvariant, PTL

(* What was released is accepted where it is installed, on every later on, *)
(* whatever is rotated, revoked or released afterwards and however the      *)
(* files are laid out (release.yml, verifyCanonical).                       *)
THEOREM ReleasesGoOn == DbSpec => []ReleasesRun
<1>1. DbInv => ReleasesRun
  <2> SUFFICES ASSUME DbInv, NEW package \in shipped, NEW l \in Layouts
               PROVE  CheckDb([package EXCEPT !.db.layout = l], "package", TRUE, FALSE).state
                        = "verified"
    BY DEF ReleasesRun
  <2>1. PICK q : q = [package EXCEPT !.db.layout = l]
    OBVIOUS
  <2>2. /\ package = [db |-> package.db, sig |-> package.sig, keyring |-> package.keyring]
        /\ package.db = [value |-> package.db.value, layout |-> package.db.layout]
        /\ SignatureRule(package) = "verified"
    BY DEF DbInv, Files
  <2>3. q.keyring = package.keyring /\ q.sig = package.sig /\ q.db.value = package.db.value
    BY <2>1, <2>2
  <2>4. VerifyFile(q) = VerifyFile(package)
    BY <2>3 DEF VerifyFile, Canonical
  <2>5. SignatureRule(q) = "verified"
    BY <2>2, <2>3, <2>4 DEF SignatureRule
  <2>6. CheckDb(q, "package", TRUE, FALSE).state = "verified"
    BY <2>5 DEF CheckDb, SignatureEffect, SignatureFails
  <2> QED
    BY <2>1, <2>6
<1> QED
  BY <1>1, DbInvariant, PTL

-----------------------------------------------------------------------------
(* Audits. *)

(* Signed by a project over records it made itself; the payload beside the  *)
(* signature may have been edited since.                                    *)
Exported(bundle) ==
    /\ bundle = [payload |-> bundle.payload, signature |-> bundle.signature]
    /\ bundle.payload = [audits |-> bundle.payload.audits, also |-> bundle.payload.also]
    /\ \E q \in Projects, n \in Nat : \E audits, also :
          /\ \A r \in audits : <<q, r>> \in recorded
          /\ bundle.signature =
                SignCanonical(Payload(audits, also), KeyOf(q, n), ExportArtifact, 1)

Held(entry) ==
    \/ entry = NoEntry
    \/ /\ entry = [shape |-> "entry", spec |-> entry.spec, sha256 |-> entry.sha256,
                   bundle |-> entry.bundle]
       /\ Exported(entry.bundle)

(* A fetch under way has an entry for each source it has done, unless one   *)
(* failed.                                                                  *)
Fetching(p, f) ==
    /\ f = [open |-> f.open, left |-> f.left, config |-> f.config, lock |-> f.lock,
            failed |-> f.failed]
    /\ f.left \subseteq DOMAIN f.config /\ DOMAIN f.config \subseteq DOMAIN PlaceOf[p]
    /\ \A s \in DOMAIN f.config : f.config[s].spec \in Projects
    /\ f.failed \in BOOLEAN
    /\ \A s \in DOMAIN f.lock : s \notin f.left /\ Held(f.lock[s])
    /\ ~f.failed => \A s \in DOMAIN f.config \ f.left :
          /\ s \in DOMAIN f.lock /\ f.lock[s].shape = "entry"
          /\ VerifyBundle(f.lock[s].bundle, f.config[s].public_key) = "verified"

Own(p, records)  == \A r \in records : <<p, r>> \in recorded
Published(bundle) == bundle = Null \/ Exported(bundle)

Source(s) ==
    /\ s = [spec |-> s.spec, public_key |-> s.public_key, criteria |-> s.criteria]
    /\ s.spec \in Projects

Sources(p, c) ==
    DOMAIN c \subseteq DOMAIN PlaceOf[p] /\ \A s \in DOMAIN c : Source(c[s])

Locked(p, l) ==
    /\ DOMAIN l = DOMAIN PlaceOf[p] /\ l = [s \in DOMAIN l |-> l[s]]
    /\ \A s \in DOMAIN l : Held(l[s])

Fetched(p, f) == f = NotFetching \/ Fetching(p, f)

Domains ==
    /\ DOMAIN local = Projects /\ DOMAIN place = Projects /\ DOMAIN config = Projects
    /\ DOMAIN fetch = Projects /\ DOMAIN lock = Projects
    /\ generation \in [Projects -> Nat]

AuditInv ==
    /\ Domains
    /\ \A p \in Projects :
          /\ Own(p, local[p]) /\ Published(place[p]) /\ Sources(p, config[p])
          /\ Locked(p, lock[p]) /\ Fetched(p, fetch[p])

LEMMA BundleMeans ==
    ASSUME NEW bundle, Exported(bundle), NEW key, VerifyBundle(bundle, key) = "verified"
    PROVE  \A r \in BundleAudits(bundle) : <<key[1], r>> \in recorded
<1> DEFINE doc == <<[KeyringEntry(key, Null) EXCEPT !.valid_from = Null]>>
           envelope == bundle.signature
<1>1. VerifyCanonical(bundle.payload, envelope, doc, {1}, ExportArtifact) = "verified"
  BY DEF VerifyBundle
<1>2. DOMAIN doc = {1} /\ doc[1].key_id = key
  BY DEF KeyringEntry
<1> HIDE DEF doc
<1>3. envelope.sha256 = bundle.payload /\ envelope.key_id = key
  BY <1>1, <1>2, VerifiedMeans
<1>3_1. PICK q \in Projects, n \in Nat : \E audits, also :
          /\ \A r \in audits : <<q, r>> \in recorded
          /\ envelope = SignCanonical(Payload(audits, also), KeyOf(q, n), ExportArtifact, 1)
  BY DEF Exported
<1>4. PICK audits, also :
          /\ \A r \in audits : <<q, r>> \in recorded
          /\ envelope = SignCanonical(Payload(audits, also), KeyOf(q, n), ExportArtifact, 1)
  BY <1>3_1
<1>5. bundle.payload = Payload(audits, also) /\ key = KeyOf(q, n)
  BY <1>3, <1>4 DEF SignCanonical
<1> QED
  BY <1>4, <1>5 DEF BundleAudits, Payload, KeyOf

LEMMA ImportsHold ==
    ASSUME AuditInv
    PROVE  ImportsAreFirstHand
<1> SUFFICES ASSUME NEW p \in Projects, NEW a \in InForce(p)
             PROVE  /\ <<config[p][a.source].public_key[1], a.record>> \in recorded
                    /\ a.record.artifact = pin
                    /\ a.accepted \subseteq config[p][a.source].criteria
                    /\ "safe-to-deploy" \in a.accepted => a.record.criteria = "safe-to-deploy"
  BY DEF ImportsAreFirstHand
<1>1. a \in LoadImportedAudits(p) /\ a.record.artifact = pin
  BY DEF InForce, AuditMatches
<1>2. PICK s \in DOMAIN config[p] :
          /\ EntryProblem(config[p][s], lock[p][s]) = "verified"
          /\ \E r \in BundleAudits(lock[p][s].bundle) :
                a = [record |-> r, source |-> s,
                     accepted |-> AcceptedCriteria(r.criteria, config[p][s].criteria)]
  BY <1>1 DEF LoadImportedAudits
<1> PICK r \in BundleAudits(lock[p][s].bundle) :
        a = [record |-> r, source |-> s,
             accepted |-> AcceptedCriteria(r.criteria, config[p][s].criteria)]
  BY <1>2
<1>3. lock[p][s].shape # "none" /\ Held(lock[p][s])
  BY <1>2 DEF EntryProblem, AuditInv, Sources, Locked
<1>4. Exported(lock[p][s].bundle)
  BY <1>3 DEF Held, NoEntry
<1>5. VerifyBundle(lock[p][s].bundle, config[p][s].public_key) = "verified"
  BY <1>2 DEF EntryProblem
<1>6. <<config[p][s].public_key[1], r>> \in recorded
  BY <1>2, <1>4, <1>5, BundleMeans
<1>7. a.accepted \subseteq config[p][s].criteria
      /\ ("safe-to-deploy" \in a.accepted => r.criteria = "safe-to-deploy")
  BY <1>2 DEF AcceptedCriteria, Implied
<1> QED
  BY <1>1, <1>2, <1>6, <1>7

LEMMA AuditInitHolds == AuditInit => AuditInv
<1> SUFFICES ASSUME AuditInit PROVE AuditInv
  OBVIOUS
<1>1. Domains
  BY DEF AuditInit, Domains
<1>2. ASSUME NEW p \in Projects
      PROVE  /\ Own(p, local[p]) /\ Published(place[p]) /\ Sources(p, config[p])
             /\ Locked(p, lock[p]) /\ Fetched(p, fetch[p])
  <2>1. PlaceOf[p] \in Seq(Projects)
    BY AuditsAssumption
  <2>2. \A s \in DOMAIN PlaceOf[p] : PlaceOf[p][s] \in Projects
    BY <2>1
  <2>3. Sources(p, config[p])
    BY <2>2 DEF AuditInit, Sources, Source
  <2>4. Locked(p, lock[p])
    BY DEF AuditInit, Locked, Held
  <2>5. Own(p, local[p]) /\ Published(place[p]) /\ Fetched(p, fetch[p])
    BY DEF AuditInit, Own, Published, Fetched
  <2> QED
    BY <2>3, <2>4, <2>5
<1> QED
  BY <1>1, <1>2 DEF AuditInv

LEMMA HeldOn ==
    ASSUME recorded \subseteq recorded'
    PROVE  /\ \A b : Exported(b) => Exported(b)'
           /\ \A e : Held(e) => Held(e)'
           /\ \A p, f : Fetched(p, f) => Fetched(p, f)'
           /\ \A p, r : Own(p, r) => Own(p, r)'
           /\ \A p, l : Locked(p, l) => Locked(p, l)'
<1>1. ASSUME NEW b, Exported(b) PROVE Exported(b)'
  BY <1>1 DEF Exported
<1>2. ASSUME NEW e, Held(e) PROVE Held(e)'
  BY <1>1, <1>2 DEF Held
<1>3. ASSUME NEW p, NEW f, Fetched(p, f) PROVE Fetched(p, f)'
  BY <1>2, <1>3 DEF Fetched, Fetching
<1>4. ASSUME NEW p, NEW r, Own(p, r) PROVE Own(p, r)'
  BY <1>4 DEF Own
<1>5. ASSUME NEW p, NEW l, Locked(p, l) PROVE Locked(p, l)'
  BY <1>2, <1>5 DEF Locked
<1> QED
  BY <1>1, <1>2, <1>3, <1>4, <1>5

(* What a step leaves alone stays as it should be.                          *)
LEMMA AuditInvFrom ==
    ASSUME AuditInv, recorded \subseteq recorded', Domains',
           \A p \in Projects :
              /\ \A x : x = local'[p] => x = local[p] \/ Own(p, x)'
              /\ \A x : x = place'[p] => x = place[p] \/ Exported(x)'
              /\ \A x : x = config'[p] => x = config[p] \/ Sources(p, x)
              /\ \A x : x = lock'[p] => x = lock[p] \/ Locked(p, x)'
              /\ \A x : x = fetch'[p] => x = fetch[p] \/ Fetched(p, x)'
    PROVE  AuditInv'
<1>1. ASSUME NEW p \in Projects
      PROVE  (/\ Own(p, local[p]) /\ Published(place[p]) /\ Sources(p, config[p])
              /\ Locked(p, lock[p]) /\ Fetched(p, fetch[p]))'
  <2>1. Own(p, local[p])'
    BY HeldOn DEF AuditInv
  <2>2. Published(place[p])'
    BY HeldOn DEF AuditInv, Published
  <2>3. Sources(p, config[p])'
    BY DEF AuditInv
  <2>4. Locked(p, lock[p])'
    BY HeldOn DEF AuditInv
  <2>5. Fetched(p, fetch[p])'
    BY HeldOn DEF AuditInv
  <2> QED
    BY <2>1, <2>2, <2>3, <2>4, <2>5
<1> QED
  BY <1>1 DEF AuditInv

LEMMA BundleExported ==
    ASSUME AuditInv, recorded' = recorded, NEW p \in Projects, NEW also, NEW b,
           b = Bundle(Payload(local[p], also), KeyOf(p, generation[p]))
    PROVE  Exported(b)'
<1>1. /\ b = [payload |-> b.payload, signature |-> b.signature]
      /\ b.payload = Payload(local[p], also)
      /\ b.signature = SignCanonical(Payload(local[p], also), KeyOf(p, generation[p]),
                                     ExportArtifact, 1)
  BY DEF Bundle
<1>2. b.payload = [audits |-> b.payload.audits, also |-> b.payload.also]
  BY <1>1 DEF Payload
<1>3. generation[p] \in Nat /\ \A r \in local[p] : <<p, r>> \in recorded
  BY DEF AuditInv, Domains, Own
<1> QED
  BY <1>1, <1>2, <1>3 DEF Exported

LEMMA SourceFetched ==
    ASSUME AuditInv, recorded' = recorded, NEW p \in Projects, NEW s, NEW reached,
           FetchSource(p, s, reached)
    PROVE  \A x : x = fetch'[p] => Fetched(p, x)'
<1> DEFINE f        == fetch[p]
           source   == f.config[s]
           bundle   == IF reached THEN place[source.spec] ELSE Null
           verified == bundle # Null /\ VerifyBundle(bundle, source.public_key) = "verified"
           entry    == [shape |-> "entry", spec |-> source.spec, sha256 |-> bundle,
                        bundle |-> bundle]
           done     == [t \in DOMAIN f.lock \cup (IF verified THEN {s} ELSE {}) |->
                           IF t = s THEN entry ELSE f.lock[t]]
<1>1. s \in f.left /\ DOMAIN fetch = Projects
  BY DEF FetchSource, AuditInv, Domains
<1>2. Fetching(p, f)
  BY <1>1 DEF AuditInv, Fetched, NotFetching
<1>3. f = [open |-> f.open, left |-> f.left, config |-> f.config, lock |-> f.lock,
           failed |-> f.failed]
  BY <1>2 DEF Fetching
<1>4. fetch'[p] = [f EXCEPT !.left = f.left \ {s}, !.failed = f.failed \/ ~verified,
                           !.lock = done]
  BY <1>1 DEF FetchSource
<1>5. source.spec \in Projects /\ s \in DOMAIN f.config
  BY <1>1, <1>2 DEF Fetching
<1>6. verified => /\ Held(entry) /\ entry.shape = "entry" /\ entry.bundle = bundle
                  /\ VerifyBundle(bundle, source.public_key) = "verified"
  <2>1. bundle # Null => Exported(bundle)
    BY <1>5 DEF AuditInv, Published
  <2> QED
    BY <2>1 DEF Held
<1>7. verified \in BOOLEAN
  OBVIOUS
<1>8. /\ DOMAIN done = DOMAIN f.lock \cup (IF verified THEN {s} ELSE {})
      /\ \A t \in DOMAIN f.lock : t # s /\ done[t] = f.lock[t]
      /\ verified => done[s] = entry
  BY <1>1, <1>2 DEF Fetching
<1> HIDE DEF verified, entry, done, bundle
<1>9. PICK x : x = fetch'[p]
  OBVIOUS
<1>10. x = [open |-> f.open, left |-> f.left \ {s}, config |-> f.config, lock |-> done,
            failed |-> f.failed \/ ~verified]
  BY <1>3, <1>4, <1>9
<1>11. /\ x.left = f.left \ {s} /\ x.config = f.config /\ x.lock = done
       /\ x.failed = (f.failed \/ ~verified) /\ x.open = f.open
  BY <1>10
<1>12. \A t \in DOMAIN done : t \notin x.left /\ Held(done[t])
  BY <1>2, <1>6, <1>8, <1>11 DEF Fetching
<1>13. ASSUME ~x.failed, NEW t \in DOMAIN x.config \ x.left
       PROVE  /\ t \in DOMAIN x.lock /\ x.lock[t].shape = "entry"
              /\ VerifyBundle(x.lock[t].bundle, x.config[t].public_key) = "verified"
  <2>1. ~f.failed /\ verified
    BY <1>2, <1>7, <1>11, <1>13 DEF Fetching
  <2>2. CASE t = s
    BY <1>6, <1>8, <1>11, <2>1, <2>2
  <2>3. CASE t # s
    <3>1. t \in DOMAIN f.config \ f.left
      BY <1>11, <1>13, <2>3
    <3>2. /\ t \in DOMAIN f.lock /\ f.lock[t].shape = "entry"
          /\ VerifyBundle(f.lock[t].bundle, f.config[t].public_key) = "verified"
      BY <1>2, <2>1, <3>1 DEF Fetching
    <3> QED
      BY <1>8, <1>11, <3>2
  <2> QED
    BY <2>2, <2>3
<1>14. x = [open |-> x.open, left |-> x.left, config |-> x.config, lock |-> x.lock,
            failed |-> x.failed]
  BY <1>10, <1>11
<1>15. Fetching(p, x)
  <2>1. x.failed \in BOOLEAN
    BY <1>2, <1>7, <1>11 DEF Fetching
  <2>2. x.left \subseteq DOMAIN x.config /\ DOMAIN x.config \subseteq DOMAIN PlaceOf[p]
        /\ \A t \in DOMAIN x.config : x.config[t].spec \in Projects
    BY <1>2, <1>11 DEF Fetching
  <2> QED
    BY <1>11, <1>12, <1>13, <1>14, <2>1, <2>2 DEF Fetching
<1> QED
  BY <1>9, <1>15, HeldOn DEF Fetched

LEMMA EntryUpdated ==
    ASSUME NEW e, NEW b, NEW sum,
           e = [shape |-> "entry", spec |-> e.spec, sha256 |-> e.sha256,
                bundle |-> e.bundle]
    PROVE  [e EXCEPT !.bundle = b, !.sha256 = sum]
             = [shape |-> "entry", spec |-> e.spec, sha256 |-> sum, bundle |-> b]
<1>1. PICK r : r = [e EXCEPT !.bundle = b]
  OBVIOUS
<1>2. r = [shape |-> "entry", spec |-> e.spec, sha256 |-> e.sha256, bundle |-> b]
  BY <1>1
<1>3. [r EXCEPT !.sha256 = sum]
        = [shape |-> "entry", spec |-> e.spec, sha256 |-> sum, bundle |-> b]
  BY <1>2
<1> QED
  BY <1>1, <1>3

LEMMA LockEdited ==
    ASSUME AuditInv, recorded' = recorded, NEW p \in Projects, EditLock(p)
    PROVE  \A x : x = lock'[p] => Locked(p, x)'
<1>1. DOMAIN lock = Projects /\ Locked(p, lock[p])
  BY DEF AuditInv, Domains
<1>2. PICK s \in DOMAIN lock[p] :
        /\ lock[p][s] # NoEntry
        /\ \/ \E c \in Criteria, fixSum \in BOOLEAN :
                LET held == lock[p][s].bundle
                    edited == [held EXCEPT !.payload.audits = @ \cup
                        {[who |-> lock[p][s].spec, artifact |-> pin, criteria |-> c]}]
                IN  lock' = [lock EXCEPT ![p][s].bundle = edited,
                        ![p][s].sha256 = IF fixSum THEN edited ELSE @]
           \/ \E t \in DOMAIN lock[p] : lock' = [lock EXCEPT ![p][s] = lock[p][t]]
           \/ \E q \in Projects :
                /\ place[q] # Null
                /\ lock' = [lock EXCEPT ![p][s].bundle = place[q],
                                        ![p][s].sha256 = place[q]]
  BY DEF EditLock
<1> DEFINE e == lock[p][s]
<1>3. /\ e = [shape |-> "entry", spec |-> e.spec, sha256 |-> e.sha256, bundle |-> e.bundle]
      /\ Exported(e.bundle)
  BY <1>1, <1>2 DEF Locked, Held
<1>4. ASSUME NEW n, Held(n), lock'[p] = [lock[p] EXCEPT ![s] = n]
      PROVE  Locked(p, lock[p])'
  <2>1. /\ DOMAIN lock'[p] = DOMAIN lock[p]
        /\ \A t \in DOMAIN lock[p] : lock'[p][t] = IF t = s THEN n ELSE lock[p][t]
        /\ lock'[p] = [t \in DOMAIN lock'[p] |-> lock'[p][t]]
    BY <1>4
  <2>2. PICK x : x = lock'[p]
    OBVIOUS
  <2>3. Locked(p, x)
    BY <1>1, <1>4, <2>1, <2>2 DEF Locked
  <2> QED
    BY <2>2, <2>3, HeldOn
<1> HIDE DEF e
<1>5. ASSUME NEW b, Exported(b), NEW sum
      PROVE  Held([e EXCEPT !.bundle = b, !.sha256 = sum])
  <2>1. [e EXCEPT !.bundle = b, !.sha256 = sum]
          = [shape |-> "entry", spec |-> e.spec, sha256 |-> sum, bundle |-> b]
    BY <1>3, EntryUpdated
  <2> QED
    BY <1>5, <2>1 DEF Held
<1>6. ASSUME NEW more, NEW b, b = [e.bundle EXCEPT !.payload.audits = @ \cup more]
      PROVE  Exported(b)
  <2>1. /\ e.bundle = [payload |-> e.bundle.payload, signature |-> e.bundle.signature]
        /\ e.bundle.payload = [audits |-> e.bundle.payload.audits,
                               also |-> e.bundle.payload.also]
    BY <1>3 DEF Exported
  <2>2. PICK payload : payload = [e.bundle.payload EXCEPT !.audits = @ \cup more]
    OBVIOUS
  <2>3. payload = [audits |-> payload.audits, also |-> payload.also]
    BY <2>1, <2>2
  <2>4. b = [payload |-> payload, signature |-> e.bundle.signature]
    BY <1>6, <2>1, <2>2
  <2> QED
    BY <1>3, <2>3, <2>4 DEF Exported
<1>7. CASE \E c \in Criteria, fixSum \in BOOLEAN :
              LET held == lock[p][s].bundle
                  edited == [held EXCEPT !.payload.audits = @ \cup
                        {[who |-> lock[p][s].spec, artifact |-> pin, criteria |-> c]}]
              IN  lock' = [lock EXCEPT ![p][s].bundle = edited,
                        ![p][s].sha256 = IF fixSum THEN edited ELSE @]
  <2>1. PICK c \in Criteria, fixSum \in BOOLEAN :
              LET held == lock[p][s].bundle
                  edited == [held EXCEPT !.payload.audits = @ \cup
                        {[who |-> lock[p][s].spec, artifact |-> pin, criteria |-> c]}]
              IN  lock' = [lock EXCEPT ![p][s].bundle = edited,
                        ![p][s].sha256 = IF fixSum THEN edited ELSE @]
    BY <1>7
  <2>2. PICK b : b = [e.bundle EXCEPT !.payload.audits = @ \cup
                        {[who |-> lock[p][s].spec, artifact |-> pin, criteria |-> c]}]
    OBVIOUS
  <2>3. PICK sum : sum = IF fixSum THEN b ELSE e.sha256
    OBVIOUS
  <2>4. lock'[p] = [lock[p] EXCEPT ![s] = [e EXCEPT !.bundle = b, !.sha256 = sum]]
    BY <1>1, <1>2, <1>3, <2>1, <2>2, <2>3 DEF e
  <2>5. Exported(b)
    BY <1>6, <2>2
  <2> QED
    BY <1>4, <1>5, <2>4, <2>5
<1>8. ASSUME NEW t \in DOMAIN lock[p], lock' = [lock EXCEPT ![p][s] = lock[p][t]]
      PROVE  Locked(p, lock[p])'
  BY <1>1, <1>4, <1>8 DEF Locked
<1>9. ASSUME NEW q \in Projects, place[q] # Null,
             lock' = [lock EXCEPT ![p][s].bundle = place[q], ![p][s].sha256 = place[q]]
      PROVE  Locked(p, lock[p])'
  <2>1. lock'[p] = [lock[p] EXCEPT ![s] = [e EXCEPT !.bundle = place[q], !.sha256 = place[q]]]
    BY <1>1, <1>2, <1>3, <1>9 DEF e
  <2>2. Exported(place[q])
    BY <1>9 DEF AuditInv, Published
  <2> QED
    BY <1>4, <1>5, <2>1, <2>2
<1>10. Locked(p, lock[p])'
  BY <1>2, <1>7, <1>8, <1>9
<1> QED
  BY <1>10

LEMMA ConfigEdited ==
    ASSUME AuditInv, NEW p \in Projects, EditConfig(p)
    PROVE  \A x : x = config'[p] => Sources(p, x)
<1>1. DOMAIN config = Projects /\ Sources(p, config[p])
  BY DEF AuditInv, Domains
<1>2. PICK s \in DOMAIN config[p] :
        \/ \E q \in Projects \ {p} : config' =
                [config EXCEPT ![p][s].public_key = KeyOf(q, generation[q])]
        \/ \E q \in Projects \ {p} : config' = [config EXCEPT ![p][s].spec = q]
        \/ config' = [config EXCEPT ![p][s].criteria = {"safe-to-run"}]
        \/ config' = [config EXCEPT ![p] = [t \in DOMAIN @ \ {s} |-> @[t]]]
  BY DEF EditConfig
<1>3. PICK e : e = config[p][s]
  OBVIOUS
<1>4. /\ e = [spec |-> e.spec, public_key |-> e.public_key, criteria |-> e.criteria]
      /\ e.spec \in Projects
  BY <1>1, <1>3 DEF Sources, Source
<1>5. ASSUME NEW n, Source(n), config'[p] = [config[p] EXCEPT ![s] = n]
      PROVE  Sources(p, config'[p])
  <2>1. /\ DOMAIN config'[p] = DOMAIN config[p]
        /\ \A t \in DOMAIN config[p] : config'[p][t] = IF t = s THEN n ELSE config[p][t]
    BY <1>5
  <2> QED
    BY <1>1, <1>5, <2>1 DEF Sources
<1>6. ASSUME NEW k PROVE Source([e EXCEPT !.public_key = k])
  <2>1. [e EXCEPT !.public_key = k]
          = [spec |-> e.spec, public_key |-> k, criteria |-> e.criteria]
    BY <1>4
  <2> QED
    BY <1>4, <2>1 DEF Source
<1>7. ASSUME NEW q \in Projects PROVE Source([e EXCEPT !.spec = q])
  <2>1. [e EXCEPT !.spec = q]
          = [spec |-> q, public_key |-> e.public_key, criteria |-> e.criteria]
    BY <1>4
  <2> QED
    BY <2>1 DEF Source
<1>8. ASSUME NEW c PROVE Source([e EXCEPT !.criteria = c])
  <2>1. [e EXCEPT !.criteria = c]
          = [spec |-> e.spec, public_key |-> e.public_key, criteria |-> c]
    BY <1>4
  <2> QED
    BY <1>4, <2>1 DEF Source
<1>9. ASSUME NEW q, config' = [config EXCEPT ![p][s].public_key = KeyOf(q, generation[q])]
      PROVE  Sources(p, config'[p])
  BY <1>1, <1>3, <1>5, <1>6, <1>9
<1>10. ASSUME NEW q \in Projects, config' = [config EXCEPT ![p][s].spec = q]
       PROVE  Sources(p, config'[p])
  BY <1>1, <1>3, <1>5, <1>7, <1>10
<1>11. ASSUME config' = [config EXCEPT ![p][s].criteria = {"safe-to-run"}]
       PROVE  Sources(p, config'[p])
  BY <1>1, <1>3, <1>5, <1>8, <1>11
<1>12. ASSUME config' = [config EXCEPT ![p] = [t \in DOMAIN @ \ {s} |-> @[t]]]
       PROVE  Sources(p, config'[p])
  BY <1>1, <1>12 DEF Sources
<1>13. Sources(p, config'[p])
  BY <1>2, <1>9, <1>10, <1>11, <1>12
<1> QED
  BY <1>13

LEMMA FetchWritten ==
    ASSUME AuditInv, recorded' = recorded, NEW p \in Projects, FetchEnds(p)
    PROVE  \A x : x = lock'[p] => x = lock[p] \/ Locked(p, x)'
<1>1. /\ DOMAIN lock = Projects /\ Locked(p, lock[p])
      /\ Fetching(p, fetch[p])
  BY DEF AuditInv, Domains, FetchEnds, Fetched, NotFetching
<1>2. CASE fetch[p].failed
  BY <1>2 DEF FetchEnds
<1>3. CASE ~fetch[p].failed
  <2>1. lock'[p] = [s \in DOMAIN lock[p] |-> IF s \in DOMAIN fetch[p].lock
                                           THEN fetch[p].lock[s] ELSE NoEntry]
    BY <1>1, <1>3 DEF FetchEnds
  <2>2. PICK x : x = lock'[p]
    OBVIOUS
  <2>3. /\ DOMAIN x = DOMAIN PlaceOf[p] /\ x = [s \in DOMAIN x |-> x[s]]
        /\ \A s \in DOMAIN x : x[s] = IF s \in DOMAIN fetch[p].lock
                                     THEN fetch[p].lock[s] ELSE NoEntry
    BY <1>1, <2>1, <2>2 DEF Locked
  <2>4. \A s \in DOMAIN x : Held(x[s])
    BY <1>1, <2>3 DEF Fetching, Held
  <2>5. Locked(p, x)
    BY <2>3, <2>4 DEF Locked
  <2> QED
    BY <2>2, <2>5, HeldOn
<1> QED
  BY <1>2, <1>3

LEMMA FetchStarted ==
    ASSUME AuditInv, NEW p \in Projects, StartFetch(p), recorded' = recorded
    PROVE  \A x : x = fetch'[p] => Fetched(p, x)'
<1>1. DOMAIN fetch = Projects /\ Sources(p, config[p])
  BY DEF AuditInv, Domains
<1>2. PICK x : x = fetch'[p]
  OBVIOUS
<1>3. x = [open |-> TRUE, left |-> DOMAIN config[p], config |-> config[p],
           lock |-> <<>>, failed |-> FALSE]
  BY <1>1, <1>2 DEF StartFetch
<1>4. /\ x.open = TRUE /\ x.left = DOMAIN config[p] /\ x.config = config[p]
      /\ x.failed = FALSE /\ x.lock = <<>>
  BY <1>3
<1>5. x = [open |-> x.open, left |-> x.left, config |-> x.config, lock |-> x.lock,
           failed |-> x.failed]
  BY <1>3, <1>4
<1>6. Fetching(p, x)
  <2>1. /\ DOMAIN x.config \subseteq DOMAIN PlaceOf[p]
        /\ \A t \in DOMAIN x.config : x.config[t].spec \in Projects
    BY <1>1, <1>4 DEF Sources, Source
  <2>2. DOMAIN x.lock = {}
    BY <1>4
  <2>3. DOMAIN x.config \ x.left = {}
    BY <1>4
  <2> QED
    BY <1>4, <1>5, <2>1, <2>2, <2>3 DEF Fetching
<1> QED
  BY <1>2, <1>6, HeldOn DEF Fetched

LEMMA AuditStepKeeps == AuditInv /\ [AuditNext]_auditVars => AuditInv'
<1> SUFFICES ASSUME AuditInv, [AuditNext]_auditVars PROVE AuditInv'
  OBVIOUS
<1>1. Domains
  BY DEF AuditInv
<1>2. CASE UNCHANGED auditVars \/ MovePin
  BY <1>1, <1>2, AuditInvFrom DEF auditVars, MovePin, Domains
<1>3. ASSUME NEW p \in Projects, NEW c \in Criteria, Add(p, c) PROVE AuditInv'
  <2>1. PICK r : r = [who |-> p, artifact |-> pin, criteria |-> c]
    OBVIOUS
  <2>2. /\ local' = [local EXCEPT ![p] = @ \cup {r}]
        /\ recorded' = recorded \cup {<<p, r>>}
        /\ UNCHANGED <<generation, place, config, fetch, lock>>
    BY <1>3, <2>1 DEF Add
  <2>3. Domains'
    BY <1>1, <2>2 DEF Domains
  <2>4. Own(p, local[p] \cup {r})'
    <3>1. \A q \in local[p] \cup {r} : <<p, q>> \in recorded'
      BY <2>2 DEF AuditInv, Own
    <3>2. local'[p] \cup {r} = local[p] \cup {r}
      BY <1>1, <2>2 DEF Domains
    <3> QED
      BY <3>1, <3>2 DEF Own
  <2>5. \A q \in Projects : \A x : x = local'[q] => x = local[q] \/ Own(q, x)'
    <3>1. local'[p] = local'[p] \cup {r}
      BY <1>1, <2>2 DEF Domains
    <3> QED
      BY <1>1, <2>2, <2>4, <3>1 DEF Domains
  <2> QED
    BY <2>2, <2>3, <2>5, AuditInvFrom
<1>4. ASSUME NEW p \in Projects, Export(p) \/ ForeignExport(p) PROVE AuditInv'
  <2>1. PICK also : place' = [place EXCEPT ![p] =
                                Bundle(Payload(local[p], also), KeyOf(p, generation[p]))]
    BY <1>4 DEF Export, ForeignExport
  <2>2. UNCHANGED <<local, generation, config, fetch, lock, recorded>>
    BY <1>4 DEF Export, ForeignExport
  <2>3. PICK b : b = Bundle(Payload(local[p], also), KeyOf(p, generation[p]))
    OBVIOUS
  <2>4. Exported(b)'
    BY <2>2, <2>3, BundleExported
  <2>5. Domains'
    BY <1>1, <2>1, <2>2 DEF Domains
  <2> QED
    BY <1>1, <2>1, <2>2, <2>3, <2>4, <2>5, AuditInvFrom DEF Domains
<1>5. ASSUME NEW p \in Projects, NewKey(p) PROVE AuditInv'
  BY <1>1, <1>5, AuditInvFrom DEF NewKey, Domains
<1>6. ASSUME NEW p \in Projects, StartFetch(p) PROVE AuditInv'
  <2>1. /\ UNCHANGED <<local, generation, place, config, lock, recorded>>
        /\ DOMAIN fetch' = Projects
        /\ \A q \in Projects : q # p => fetch'[q] = fetch[q]
    BY <1>1, <1>6 DEF StartFetch, Domains
  <2>2. Domains'
    BY <1>1, <2>1 DEF Domains
  <2> QED
    BY <1>6, <2>1, <2>2, FetchStarted, AuditInvFrom
<1>7. ASSUME NEW p \in Projects, FetchEnds(p) PROVE AuditInv'
  <2>1. /\ UNCHANGED <<local, generation, place, config, recorded>>
        /\ DOMAIN fetch' = Projects /\ DOMAIN lock' = Projects
        /\ \A q \in Projects : q # p => fetch'[q] = fetch[q] /\ lock'[q] = lock[q]
        /\ fetch'[p] = NotFetching
    BY <1>1, <1>7 DEF FetchEnds, Domains
  <2>2. Domains'
    BY <1>1, <2>1 DEF Domains
  <2>3. Fetched(p, NotFetching)'
    BY DEF Fetched, NotFetching
  <2>4. \A x : x = fetch'[p] => Fetched(p, x)'
    BY <2>1, HeldOn DEF Fetched
  <2> QED
    BY <1>7, <2>1, <2>2, <2>4, FetchWritten, AuditInvFrom
<1>8. ASSUME NEW p \in Projects, NEW s, NEW reached, FetchSource(p, s, reached)
      PROVE  AuditInv'
  <2>1. /\ UNCHANGED <<local, generation, place, config, lock, recorded>>
        /\ DOMAIN fetch' = Projects
        /\ \A q \in Projects : q # p => fetch'[q] = fetch[q]
    BY <1>1, <1>8 DEF FetchSource, Domains
  <2>2. Domains'
    BY <1>1, <2>1 DEF Domains
  <2> QED
    BY <1>8, <2>1, <2>2, SourceFetched, AuditInvFrom
<1>9. ASSUME NEW p \in Projects, EditConfig(p) PROVE AuditInv'
  <2>1. /\ UNCHANGED <<local, generation, place, fetch, lock, recorded>>
        /\ DOMAIN config' = Projects
        /\ \A q \in Projects : q # p => config'[q] = config[q]
    BY <1>1, <1>9 DEF EditConfig, Domains
  <2>2. Domains'
    BY <1>1, <2>1 DEF Domains
  <2> QED
    BY <1>9, <2>1, <2>2, ConfigEdited, AuditInvFrom
<1>10. ASSUME NEW p \in Projects, EditLock(p) PROVE AuditInv'
  <2>1. /\ UNCHANGED <<local, generation, place, fetch, config, recorded>>
        /\ DOMAIN lock' = Projects
        /\ \A q \in Projects : q # p => lock'[q] = lock[q]
    BY <1>1, <1>10 DEF EditLock, Domains
  <2>2. Domains'
    BY <1>1, <2>1 DEF Domains
  <2> QED
    BY <1>10, <2>1, <2>2, LockEdited, AuditInvFrom
<1> QED
  BY <1>2, <1>3, <1>4, <1>5, <1>6, <1>7, <1>8, <1>9, <1>10 DEF AuditNext

LEMMA AuditInvariant == AuditSpec => []AuditInv
  BY AuditInitHolds, AuditStepKeeps, PTL DEF AuditSpec

(* An imported audit in force was recorded by the project whose key the     *)
(* config names, for the artifact pinned now, and counts for no more than   *)
(* that project said and this one trusts it for (loadImportedAudits).       *)
THEOREM ImportsComeFirstHand == AuditSpec => []ImportsAreFirstHand
  BY ImportsHold, AuditInvariant, PTL

LEMMA OnlyFetchEnds ==
    ASSUME [AuditNext]_auditVars, lock' # lock, fetch' # fetch
    PROVE  \E q \in Projects : FetchEnds(q)
<1>1. ~MovePin /\ ~UNCHANGED auditVars
  BY DEF MovePin, auditVars
<1>2. ASSUME NEW q \in Projects, NEW c \in Criteria, Add(q, c) PROVE FALSE
  BY <1>2 DEF Add
<1>3. ASSUME NEW q \in Projects,
             Export(q) \/ ForeignExport(q) \/ NewKey(q) \/ StartFetch(q)
      PROVE  FALSE
  BY <1>3 DEF Export, ForeignExport, NewKey, StartFetch
<1>4. ASSUME NEW q \in Projects, NEW s, NEW reached, FetchSource(q, s, reached)
      PROVE  FALSE
  BY <1>4 DEF FetchSource
<1>5. ASSUME NEW q \in Projects, EditConfig(q) \/ EditLock(q) PROVE FALSE
  BY <1>5 DEF EditConfig, EditLock
<1> QED
  BY <1>1, <1>2, <1>3, <1>4, <1>5 DEF AuditNext

(* A fetch writes a lock in which every source it set out to read has an    *)
(* entry that verified under the key it was told, or leaves the lock alone  *)
(* (audits.cjs fetch).                                                      *)
THEOREM FetchIsWhole == AuditSpec => LockIsWhole
<1>1. ASSUME AuditInv, [AuditNext]_auditVars,
             NEW p \in Projects, lock'[p] # lock[p], fetch'[p] # fetch[p],
             NEW s \in DOMAIN fetch[p].config
      PROVE  /\ lock'[p][s].shape = "entry"
             /\ VerifyBundle(lock'[p][s].bundle, fetch[p].config[s].public_key) = "verified"
  <2>1. lock' # lock /\ fetch' # fetch
    BY <1>1
  <2>2. PICK q \in Projects : FetchEnds(q)
    BY <1>1, <2>1, OnlyFetchEnds
  <2>3. Domains
    BY <1>1 DEF AuditInv
  <2>4. q = p
    BY <1>1, <2>2, <2>3 DEF FetchEnds, Domains
  <2>5. /\ Fetching(p, fetch[p]) /\ ~fetch[p].failed /\ fetch[p].left = {}
        /\ DOMAIN lock[p] = DOMAIN PlaceOf[p]
    <3>1. fetch[p].open /\ fetch[p].left = {}
      BY <2>2, <2>4 DEF FetchEnds
    <3>2. fetch[p] # NotFetching
      BY <3>1 DEF NotFetching
    <3>3. Fetched(p, fetch[p]) /\ Locked(p, lock[p])
      BY <1>1 DEF AuditInv
    <3>4. ~fetch[p].failed
      BY <2>1, <2>2, <2>4 DEF FetchEnds
    <3> QED
      BY <3>1, <3>2, <3>3, <3>4 DEF Fetched, Locked
  <2>6. lock'[p] = [t \in DOMAIN lock[p] |-> IF t \in DOMAIN fetch[p].lock
                                           THEN fetch[p].lock[t] ELSE NoEntry]
    BY <2>2, <2>3, <2>4, <2>5 DEF FetchEnds, Domains
  <2>7. s \in DOMAIN lock[p] /\ s \in DOMAIN fetch[p].lock
        /\ fetch[p].lock[s].shape = "entry"
        /\ VerifyBundle(fetch[p].lock[s].bundle, fetch[p].config[s].public_key) = "verified"
    BY <1>1, <2>5 DEF Fetching
  <2> QED
    BY <2>6, <2>7
<1>2. AuditInv /\ [AuditNext]_auditVars =>
        [\A p \in Projects :
            (lock'[p] # lock[p] /\ fetch'[p] # fetch[p]) =>
                \A s \in DOMAIN fetch[p].config :
                    /\ lock'[p][s].shape = "entry"
                    /\ VerifyBundle(lock'[p][s].bundle,
                            fetch[p].config[s].public_key) = "verified"]_auditVars
  BY <1>1
<1> QED
  BY <1>2, AuditInvariant, PTL DEF AuditSpec, LockIsWhole
=============================================================================
