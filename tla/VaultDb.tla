------------------------------ MODULE VaultDb -------------------------------
(***************************************************************************)
(* The life of tools_database.json: the commands that read the whole file, *)
(* look at registries and feeds for a while, and write the whole file back *)
(* (scripts/lib/db_io.cjs has no lock and no compare-and-swap).            *)
(*                                                                         *)
(* A run is one process.  It reads the file and the clock when it starts;  *)
(* everything it records is dated by that instant and computed from that   *)
(* snapshot.  `mcp_eval` is the exception: it re-reads the file when its   *)
(* servers have been run.                                                  *)
(*                                                                         *)
(* `looks` and `overwrote` are history variables: what the checks really   *)
(* answered, and whether some run has replaced a file it had not read.     *)
(***************************************************************************)
EXTENDS Tier

CONSTANTS
    Names,      \* entries of the database
    Pins,       \* what an entry may install: ids, or NoId for a launch
                \* command the typed model cannot read
    EcosystemOf,\* [Pins -> Ecosystems]
    Writers,    \* processes that may be running at once
    MaxDay,     \* bound on the clock
    MaxRuns,    \* bound on the number of runs that record something
    VerifyChecks, AvailabilityChecks, SurveyChecks, EvalChecks
                \* check results a run of each kind may come back with

VARIABLES
    day,        \* the wall clock, in days
    db,         \* the file: [Names -> entry]
    run,        \* [Writers -> what the process holds]
    runs,       \* how many runs have recorded something (bound only)
    looks,      \* history: every answer a run came back with
    overwrote   \* history: some run replaced a file it had not read

vars == <<day, db, run, runs, looks, overwrote>>

ASSUME VaultDbConstants ==
    /\ Pins \subseteq Ids \cup {NoId}
    /\ EcosystemOf \in [Pins -> Ecosystems]
    /\ MaxDay \in Nat /\ MaxRuns \in Nat
    /\ {"artifact", "availability", "smoke"} \subseteq Dims
    /\ VerifyChecks \cup AvailabilityChecks \cup SurveyChecks \cup EvalChecks
         \subseteq [Dims -> Statuses \cup {NoStatus}]
    /\ \A c \in EvalChecks :
        /\ c["smoke"] \in {"pass", "fail", "skipped"}
        /\ \A d \in Dims \ {"smoke", "tool_descriptions"} : c[d] = NoStatus

Entries == [pin : Pins, trust : TrustWords, evidence : EvidenceRecords]

Kinds == {"verify", "availability", "survey", "update", "eval"}

Idle == [kind |-> "none"]

Look(id, d, answer) ==
    [id |-> id, dim |-> d, status |-> answer.status, at |-> answer.checked_at]

Looks == [id : Ids \cup {NoId}, dim : Dims, status : Statuses, at : Nat]

LooksOf(evidence) ==
    {Look(evidence.artifact_id, d, evidence.dims[d]) :
        d \in {e \in Dims : Examined(evidence.dims[e])}}

-----------------------------------------------------------------------------
(* An entry starts as a proposal nobody has checked, or as a record of day  *)
(* 0 in an older shape: positive answers without verified_at, filed under   *)
(* the artifact or under none.                                              *)

LegacyAnswers == [d \in Dims |->
    CASE d = "artifact" ->
            [status |-> "verified", checked_at |-> 0, verified_at |-> Never]
      [] d = "smoke" ->
            [status |-> "pass", checked_at |-> 0, verified_at |-> Never]
      [] OTHER -> NotExamined]

InitialEvidence(pin) ==
    {NoEvidence} \cup
    {[artifact_id |-> id, dims |-> LegacyAnswers] : id \in {pin, NoId}}

InitialEntries ==
    {e \in [pin : Pins, trust : {"candidate"},
            evidence : UNION {InitialEvidence(p) : p \in Pins}] :
        e.evidence \in InitialEvidence(e.pin)}

Init ==
    /\ day = 0
    /\ db \in [Names -> InitialEntries]
    /\ run = [w \in Writers |-> Idle]
    /\ runs = 0
    /\ looks = UNION {LooksOf(db[n].evidence) : n \in Names}
    /\ overwrote = FALSE

Tick ==
    /\ day < MaxDay
    /\ day' = day + 1
    /\ UNCHANGED <<db, run, runs, looks, overwrote>>

(* A contributor's pull request edits an entry's launch command. *)
EditEntry(n, pin) ==
    /\ pin # db[n].pin
    /\ runs < MaxRuns
    /\ runs' = runs + 1
    /\ db' = [db EXCEPT ![n].pin = pin]
    /\ UNCHANGED <<day, run, looks, overwrote>>

(* The command reads the database and the clock once. *)
StartRun(w, kind) ==
    /\ run[w].kind = "none"
    /\ runs < MaxRuns
    /\ runs' = runs + 1
    /\ run' = [run EXCEPT ![w] = [kind |-> kind, at |-> day, snap |-> db]]
    /\ UNCHANGED <<day, db, looks, overwrote>>

(* The process dies, or ends with nothing to write. *)
EndRunUnwritten(w) ==
    /\ run[w].kind # "none"
    /\ run' = [run EXCEPT ![w] = Idle]
    /\ UNCHANGED <<day, db, runs, looks, overwrote>>

(* writeDb: the process's own copy of the whole file replaces the file. *)
WriteDb(w, copy) ==
    /\ db' = copy
    /\ overwrote' = (overwrote \/ run[w].snap # db)
    /\ run' = [run EXCEPT ![w] = Idle]

Fresh(w, n, checks) ==
    BuildEvidence(checks, run[w].at, run[w].snap[n].pin)

Merged(w, n, checks) ==
    MergeEvidence(run[w].snap[n].evidence, Fresh(w, n, checks))

Nothing(checks) == \A d \in Dims : checks[d] = NoStatus

(* verify --record-evidence: merge what was established, derive the word. *)
VerifiedEntry(w, n, checks) ==
    LET entry    == run[w].snap[n]
        evidence == Merged(w, n, checks)
    IN  IF Nothing(checks) THEN entry
        ELSE [entry EXCEPT
                !.evidence = evidence,
                !.trust = DeriveTrust(evidence, run[w].at,
                                      RequiredFor(EcosystemOf[entry.pin]))]

(* A launch nothing routes establishes one thing: that its artifact is not  *)
(* verified.                                                                *)
Unroutable == [d \in Dims |-> IF d = "artifact" THEN "unverified" ELSE NoStatus]

FinishVerify(w) ==
    /\ run[w].kind = "verify"
    /\ \E found \in [Names -> VerifyChecks] :
        /\ \E n \in Names : ~Nothing(found[n])
        /\ \A n \in Names : run[w].snap[n].pin = NoId => found[n] = Unroutable
        /\ WriteDb(w, [n \in Names |-> VerifiedEntry(w, n, found[n])])
        /\ looks' = looks \cup
                UNION {LooksOf(Fresh(w, n, found[n])) : n \in Names}
    /\ UNCHANGED <<day, runs>>

(* check_availability --write: may downgrade the word and nothing else. *)
Blocking == {"gone", "version-gone", "yanked"}

(* Mutants of AvailabilityEntry: the word is derived again from the merged  *)
(* record; the word becomes the registry's own.                             *)
AvailabilityEntryRederiving(w, n, checks) ==
    LET entry    == run[w].snap[n]
        evidence == Merged(w, n, checks)
    IN  IF Nothing(checks) THEN entry
        ELSE [entry EXCEPT
                !.evidence = evidence,
                !.trust = DeriveTrust(evidence, run[w].at,
                                      RequiredFor(EcosystemOf[entry.pin]))]

AvailabilityEntryEchoing(w, n, checks) ==
    IF Nothing(checks) THEN run[w].snap[n]
    ELSE [run[w].snap[n] EXCEPT !.evidence = Merged(w, n, checks),
                                !.trust = checks["availability"]]

AvailabilityEntry(w, n, checks) ==
    LET entry == run[w].snap[n]
    IN  IF Nothing(checks) THEN entry
        ELSE [entry EXCEPT
                !.evidence = Merged(w, n, checks),
                !.trust = IF checks["availability"] \in Blocking
                          THEN "unverified" ELSE entry.trust]

FinishAvailability(w) ==
    /\ run[w].kind = "availability"
    /\ \E found \in [Names -> AvailabilityChecks] :
        /\ \E n \in Names : ~Nothing(found[n])
        /\ \A n \in Names : run[w].snap[n].pin = NoId => Nothing(found[n])
        /\ WriteDb(w, [n \in Names |-> AvailabilityEntry(w, n, found[n])])
        /\ looks' = looks \cup
                UNION {LooksOf(Fresh(w, n, found[n])) : n \in Names}
    /\ UNCHANGED <<day, runs>>

(* check_identity / check_posture --write: one dimension, never the word. *)
SurveyEntry(w, n, checks) ==
    IF Nothing(checks) THEN run[w].snap[n]
    ELSE [run[w].snap[n] EXCEPT !.evidence = Merged(w, n, checks)]

FinishSurvey(w) ==
    /\ run[w].kind = "survey"
    /\ \E found \in [Names -> SurveyChecks] :
        /\ \E n \in Names : ~Nothing(found[n])
        /\ WriteDb(w, [n \in Names |-> SurveyEntry(w, n, found[n])])
        /\ looks' = looks \cup
                UNION {LooksOf(Fresh(w, n, found[n])) : n \in Names}
    /\ UNCHANGED <<day, runs>>

(* verify --update, docker-drift --write: move the pin to what the          *)
(* registry serves now; the evidence and the word stay as they are.         *)
FinishUpdate(w) ==
    /\ run[w].kind = "update"
    /\ \E upstream \in [Names -> Pins \ {NoId}] :
        /\ WriteDb(w, [n \in Names |->
                [run[w].snap[n] EXCEPT
                    !.pin = IF run[w].snap[n].pin = NoId THEN NoId
                            ELSE upstream[n]]])
    /\ UNCHANGED <<day, runs, looks>>

(* mcp_eval --record-evidence: the servers ran what the snapshot launched;  *)
(* the file is read again, and an answer is filed under the entry's id only *)
(* if the entry still launches what ran.  An unattributable result goes to  *)
(* `smoke_unattributed`, beside the evidence; that field is not modelled.   *)
(* NotRun stands for an entry that was not run or whose run could not be    *)
(* tied to an artifact.                                                     *)
Attributable(w, n) ==
    /\ run[w].snap[n].pin # NoId
    /\ run[w].snap[n].pin = db[n].pin

NotRun == [d \in Dims |-> NoStatus]

SmokeOf(n, checks, at) == SmokeEvidence(checks, at, db[n].pin)

FinishEval(w) ==
    /\ run[w].kind = "eval"
    /\ \E outcome \in [Names -> EvalChecks \cup {NotRun}],
          at \in run[w].at .. day :
        LET filed == {n \in Names : outcome[n] # NotRun /\ Attributable(w, n)}
        IN  /\ db' = [n \in Names |->
                    IF n \in filed
                    THEN [db[n] EXCEPT !.evidence =
                            MergeEvidence(@, SmokeOf(n, outcome[n], at))]
                    ELSE db[n]]
            /\ looks' = looks \cup
                    UNION {LooksOf(SmokeEvidence(outcome[n], at,
                                                 run[w].snap[n].pin)) :
                           n \in filed}
    /\ run' = [run EXCEPT ![w] = Idle]
    /\ UNCHANGED <<day, runs, overwrote>>

Finish(w) ==
    \/ FinishVerify(w)
    \/ FinishAvailability(w)
    \/ FinishSurvey(w)
    \/ FinishUpdate(w)
    \/ FinishEval(w)

Next ==
    \/ Tick
    \/ \E n \in Names, pin \in Pins : EditEntry(n, pin)
    \/ \E w \in Writers :
        \/ \E kind \in Kinds : StartRun(w, kind)
        \/ EndRunUnwritten(w)
        \/ Finish(w)

Spec == Init /\ [][Next]_vars

-----------------------------------------------------------------------------
RunStates ==
    {Idle} \cup [kind : Kinds, at : Nat, snap : [Names -> Entries]]

TypeOK ==
    /\ day \in Nat
    /\ db \in [Names -> Entries]
    /\ run \in [Writers -> RunStates]
    /\ runs \in Nat
    /\ looks \subseteq Looks
    /\ overwrote \in BOOLEAN

(* An answer a record carries was given: by a look at this dimension of the *)
(* artifact the record names, on the day it says, and its last confirmation *)
(* was a look that did check out.                                           *)
AnswerGiven(answered, id, d, answer) ==
    /\ Look(id, d, answer) \in answered
    /\ answer.verified_at # Never =>
        \E s \in PositiveStatuses :
            [id |-> id, dim |-> d, status |-> s, at |-> answer.verified_at]
                \in answered

RecordGiven(answered, evidence) ==
    evidence.artifact_id # NoId =>
        \A d \in Dims : Examined(evidence.dims[d]) =>
            AnswerGiven(answered, evidence.artifact_id, d, evidence.dims[d])

(* No evidence is made up, moved to another release or dated by another     *)
(* day: every answer filed under an artifact id was an answer about that    *)
(* artifact, whatever the runs overlap, whichever process dies and however  *)
(* often the pin moves.  (mergeEvidence, and mcp_eval's attribution.)       *)
EvidenceSound == \A n \in Names : RecordGiven(looks, db[n].evidence)

(* What makes the soundness of the file inductive: the copies the processes *)
(* hold are sound as well, no date lies ahead of the clock, no answer was   *)
(* confirmed later than it was looked at, and what was not examined has no  *)
(* dates.                                                                   *)
WellDated(evidence) ==
    \A d \in Dims :
        /\ evidence.dims[d].verified_at <= evidence.dims[d].checked_at
        /\ ~Examined(evidence.dims[d]) => evidence.dims[d] = NotExamined

RecordHeld(answered, evidence) ==
    RecordGiven(answered, evidence) /\ WellDated(evidence)

CopiesHeld ==
    \A w \in Writers : run[w].kind # "none" =>
        /\ run[w].at <= day
        /\ \A n \in Names : RecordHeld(looks, run[w].snap[n].evidence)

Inductive ==
    /\ TypeOK
    /\ \A n \in Names : RecordHeld(looks, db[n].evidence)
    /\ CopiesHeld
    /\ \A look \in looks : look.at <= day

(* The word `verified` is only ever derived when each required check of     *)
(* this artifact did check out within its shelf life of the day asked.      *)
(* (deriveTrust over staleDimensions and isPositive.)                       *)
VerifiedWhenAsked(n, now) ==
    DeriveTrust(db[n].evidence, now, RequiredFor(EcosystemOf[db[n].pin]))
        = "verified"

ConfirmedWithin(id, d, from, to) ==
    \E look \in looks : /\ look.id = id /\ look.dim = d
                        /\ look.status \in PositiveStatuses
                        /\ from <= look.at /\ look.at <= to

VerifiedIsEarned ==
    \A n \in Names :
        db[n].evidence.artifact_id # NoId /\ VerifiedWhenAsked(n, day) =>
            \A d \in RequiredFor(EcosystemOf[db[n].pin]) :
                ConfirmedWithin(db[n].evidence.artifact_id, d,
                                day - MaxAge[d], day)

(* An entry ranks as Core or Recommended only while each required check of  *)
(* the very release it pins now did check out within its shelf life,        *)
(* whatever was seen to run and however the pin has moved since.            *)
(* (tiers.cjs: the evidence "has to be about *these* bytes".)               *)
TierIsEarned ==
    \A n \in Names, ran \in Ids \cup {NoId} :
        TierOf(db[n].pin, EcosystemOf[db[n].pin], db[n].evidence, ran, day)
                \in {"Core", "Recommended"}
            => /\ db[n].pin # NoId
               /\ \A d \in RequiredFor(EcosystemOf[db[n].pin]) :
                    ConfirmedWithin(db[n].pin, d, day - MaxAge[d], day)

(* A replay at an earlier day leans on no look made after it: what it calls *)
(* verified had been confirmed by then.  (evidenceAsOf.)                    *)
ReplayKnowsNoFuture ==
    \A n \in Names, asOf \in 0 .. day :
        LET then == EvidenceAsOf(db[n].evidence, asOf)
        IN  /\ db[n].evidence.artifact_id # NoId
            /\ DeriveTrust(then, asOf, RequiredFor(EcosystemOf[db[n].pin]))
                   = "verified"
            => \A d \in RequiredFor(EcosystemOf[db[n].pin]) :
                ConfirmedWithin(db[n].evidence.artifact_id, d,
                                asOf - MaxAge[d], asOf)

(* While a record is about one artifact, an answer in it only ever gives    *)
(* way to a later look, and a look newer than the answer it holds is not    *)
(* lost; unless a process replaced a file it had not read.  (mergeEvidence: *)
(* newest wins.  A record that was about another artifact in between has    *)
(* forgotten: an eval begun before may then file what is older than a look  *)
(* of the past.)                                                            *)
AloneWith(n, id) == \A m \in Names \ {n} : db[m].pin # id

NewestAnswerHeld ==
    [][~overwrote' =>
        \A n \in Names, d \in Dims :
            LET id  == db[n].evidence.artifact_id
                was == db[n].evidence.dims[d]
                is  == db'[n].evidence.dims[d]
            IN  id # NoId /\ db'[n].evidence.artifact_id = id =>
                    /\ Examined(was) => was.checked_at <= is.checked_at
                    /\ \A look \in looks' \ looks :
                          look.id = id /\ look.dim = d /\ AloneWith(n, id)
                              => look.at <= is.checked_at]_vars

(* A result that confirms nothing replaces the status and never the date of *)
(* the last confirmation: while a record is about one artifact, the day it  *)
(* last checked out does not move back.  (mergeEvidence: carried forward.)  *)
ConfirmationKept ==
    [][~overwrote' =>
        \A n \in Names :
            db'[n].evidence.artifact_id = db[n].evidence.artifact_id =>
                \A d \in Dims :
                    LastConfirmed(db[n].evidence.dims[d])
                        <= LastConfirmed(db'[n].evidence.dims[d])]_vars

(* Only the run that collects the full evidence may say `verified`, and it  *)
(* says so of evidence about the entry it holds; availability only ever     *)
(* takes the word away.  (check_availability.cjs, verify_integrity.cjs.)    *)
OnlyEvidenceRaisesTheWord ==
    [][~overwrote' =>
        \A n \in Names :
            db'[n].trust # db[n].trust /\ db'[n].trust # "unverified" =>
                \E w \in Writers :
                    /\ run[w].kind = "verify"
                    /\ db'[n].pin = db'[n].evidence.artifact_id
                       \/ db'[n].pin = NoId
                    /\ db'[n].trust =
                        DeriveTrust(db'[n].evidence, run[w].at,
                                    RequiredFor(EcosystemOf[db'[n].pin]))]_vars
=============================================================================
