---------------------------- MODULE SmokeProofs -----------------------------
(***************************************************************************)
(* Proofs about Smoke.tla, for every set of entries, surfaces and words,   *)
(* every limit and every bound.                                            *)
(*                                                                         *)
(* What a run stores was said of one entry after the other, so everything  *)
(* rests on one invariant of the process: each result it holds is honest   *)
(* of itself (Honest) and against the stored one (the drift), the first    *)
(* attempt it keeps aside is a failure of the sandbox, and whatever made   *)
(* it believe so was an outage.                                            *)
(***************************************************************************)
EXTENDS Smoke, TLAPS

Active == InSession \cup {"picking", "pause", "aborted"}

Freshes == UNION {[S -> Results] : S \in SUBSET Names}

Runs == [stage : Active, picked : SUBSET Names, sandbox : BOOLEAN,
         fresh : Freshes, streak : 0 .. SandboxLimit,
         alive : {"unasked", "yes", "no"}, name : Names \cup {""},
         first : Results \cup {NoFirst}, serving : BOOLEAN]

(* What a result says of itself: its status and its class agree, and it is  *)
(* the sandbox's failure only for a server that did not answer, in a        *)
(* process that saw an outage.                                              *)
Honest(r, sandbox, down) ==
    /\ r.status = "pass" => r.class \in {"none", "NO_TOOLS"}
    /\ r.status = "skip" => r.class \in {"NEEDS_ARGS", "refused", "launcher",
                                         "SANDBOX_UNAVAILABLE"}
    /\ r.class = "SANDBOX_UNAVAILABLE" => ~r.boot /\ (sandbox => down)

(* A result that is stored, against the one it takes the place of. *)
Storable(r, prior, sandbox, down) ==
    /\ Honest(r, sandbox, down)
    /\ r.class = "SANDBOX_UNAVAILABLE" => r.status = "skip"
    /\ r.drift = SurfaceDrift(prior, r)

RunInv ==
    /\ run \in Runs
    /\ DOMAIN run.fresh \subseteq run.picked
    /\ ~docker => outage
    /\ run.alive = "no" => outage
    /\ run.stage # "aborted" => run.streak < SandboxLimit
    /\ run.stage \in InSession \cup {"pause"} =>
          run.name \in run.picked \ DOMAIN run.fresh
    /\ run.first # NoFirst =>
          /\ run.first.class = "SANDBOX_UNAVAILABLE"
          /\ Honest(run.first, run.sandbox, outage)
    /\ \A n \in DOMAIN run.fresh :
          Storable(run.fresh[n], results[n], run.sandbox, outage)

StateTypeOK ==
    /\ docker \in BOOLEAN
    /\ entry \in [Names -> Entries]
    /\ results \in [Names -> Results \cup {NoResult}]
    /\ outage \in BOOLEAN

EndedTypeOK ==
    \/ run = Idle
    \/ run \in [stage : {"ended"}, strict : BOOLEAN, exit : 0 .. 2]

IInv == StateTypeOK /\ (EndedTypeOK \/ RunInv)

-----------------------------------------------------------------------------
(* Facts about the parts of a run. *)

LEMMA LimitTyped == SandboxLimit \in Nat /\ SandboxLimit > 0
<1>1. SandboxLimit \in Nat \ {0}
  BY SmokeConstants
<1> QED
  BY <1>1

LEMMA FreshIsAFunction ==
    ASSUME NEW f \in Freshes
    PROVE  /\ f = [n \in DOMAIN f |-> f[n]]
           /\ DOMAIN f \subseteq Names
           /\ \A n \in DOMAIN f : f[n] \in Results
  BY DEF Freshes

LEMMA FreshGrows ==
    ASSUME NEW f \in Freshes, NEW name \in Names, NEW r \in Results
    PROVE  [n \in DOMAIN f \cup {name} |-> IF n = name THEN r ELSE f[n]]
              \in Freshes
<1> DEFINE S == DOMAIN f \cup {name}
<1>1. S \in SUBSET Names
  BY FreshIsAFunction
<1>2. \A n \in S : (IF n = name THEN r ELSE f[n]) \in Results
  BY FreshIsAFunction
<1>3. [n \in S |-> IF n = name THEN r ELSE f[n]] \in [S -> Results]
  BY <1>2
<1> QED
  BY <1>1, <1>3 DEF Freshes

LEMMA NoFreshYet == [n \in {} |-> NoResult] \in Freshes
<1>1. [n \in {} |-> NoResult] \in [{} -> Results]
  OBVIOUS
<1>2. {} \in SUBSET Names
  OBVIOUS
<1> QED
  BY <1>1, <1>2 DEF Freshes

LEMMA EntriesTyped ==
    ASSUME StateTypeOK, NEW n \in Names
    PROVE  entry[n].kind \in Kinds /\ entry[n].identity \in Identities
  BY SmokeEntries DEF StateTypeOK

(* The drift of a result is one of its words and depends on nothing else    *)
(* that finalize writes.                                                    *)
LEMMA DriftTyped ==
    ASSUME NEW prior, NEW r
    PROVE  SurfaceDrift(prior, r) \in Drifts
  BY DEF SurfaceDrift, ArtifactChange, Drifts, NoDrift

LEMMA FinalizedIsStorable ==
    ASSUME NEW name \in Names, NEW r \in Results,
           NEW sandbox \in BOOLEAN, NEW down \in BOOLEAN,
           Honest(r, sandbox, down),
           r.class = "SANDBOX_UNAVAILABLE" => r.status = "skip"
    PROVE  /\ Finalized(name, r) \in Results
           /\ Storable(Finalized(name, r), results[name], sandbox, down)
<1> DEFINE d == SurfaceDrift(results[name], r)
           f == Finalized(name, r)
<1>1. d \in Drifts
  BY DriftTyped
<1>2. f = [r EXCEPT !.drift = d]
  BY DEF Finalized
<1> HIDE DEF d, f
<1>3. f \in Results
  BY <1>1, <1>2 DEF Results
<1>4. /\ f.status = r.status /\ f.class = r.class /\ f.boot = r.boot
      /\ f.surface = r.surface /\ f.identity = r.identity /\ f.drift = d
  BY <1>2 DEF Results
<1>5. r # NoResult /\ f # NoResult
  <2>1. r.status # "absent" /\ f.status # "absent"
    BY <1>3 DEF Results, Statuses
  <2> QED
    BY <2>1 DEF NoResult
<1>6. SurfaceDrift(results[name], f) = d
  BY <1>4, <1>5 DEF SurfaceDrift, HasSurface, d
<1>7. Storable(f, results[name], sandbox, down)
  BY <1>4, <1>6 DEF Storable, Honest
<1> QED
  BY <1>3, <1>7 DEF f

-----------------------------------------------------------------------------
(* What the end of an attempt makes of the run. *)

Going == InSession \cup {"picking", "pause"}

LEMMA RecordedKeeps ==
    ASSUME StateTypeOK, RunInv, run.stage \in Going,
           NEW name \in run.picked, NEW r \in Results,
           Honest(r, run.sandbox, outage),
           r.class = "SANDBOX_UNAVAILABLE" => r.status = "skip",
           NEW streak \in 0 .. SandboxLimit,
           NEW alive \in {"unasked", "yes", "no"}, alive = "no" => outage,
           run' = Recorded(name, r, streak, alive),
           UNCHANGED <<docker, results, outage>>
    PROVE  RunInv'
<1> DEFINE f == Finalized(name, r)
           g == [n \in DOMAIN run.fresh \cup {name} |->
                    IF n = name THEN f ELSE run.fresh[n]]
           stage == IF streak >= SandboxLimit THEN "aborted" ELSE "picking"
<1>1. /\ run \in Runs /\ name \in Names
      /\ run.fresh \in Freshes /\ run.sandbox \in BOOLEAN
      /\ DOMAIN run.fresh \subseteq run.picked
  BY DEF RunInv, Runs
<1>2. f \in Results /\ Storable(f, results[name], run.sandbox, outage)
  BY <1>1, FinalizedIsStorable DEF StateTypeOK
<1> HIDE DEF f
<1>3. g \in Freshes
  BY <1>1, <1>2, FreshGrows
<1>4. /\ DOMAIN g = DOMAIN run.fresh \cup {name}
      /\ \A n \in DOMAIN g : g[n] = IF n = name THEN f ELSE run.fresh[n]
  OBVIOUS
<1>5. run' = [run EXCEPT !.stage = stage, !.fresh = g, !.streak = streak,
                        !.alive = alive, !.name = "", !.first = NoFirst,
                        !.serving = FALSE]
  BY DEF Recorded, f
<1>6. stage \in {"aborted", "picking"} /\ (stage = "picking" => streak < SandboxLimit)
  BY LimitTyped
<1> HIDE DEF g, stage
<1>7. /\ run'.stage = stage /\ run'.picked = run.picked
      /\ run'.sandbox = run.sandbox /\ run'.fresh = g /\ run'.streak = streak
      /\ run'.alive = alive /\ run'.name = "" /\ run'.first = NoFirst
      /\ run'.serving = FALSE
  BY <1>1, <1>5 DEF Runs
<1>8. run' \in Runs
  BY <1>1, <1>3, <1>5, <1>6 DEF Runs, Active
<1>9. \A n \in DOMAIN g : Storable(g[n], results[n], run.sandbox, outage)
  BY <1>2, <1>4 DEF RunInv
<1>10. (~docker => outage) /\ DOMAIN g \subseteq run.picked
  BY <1>1, <1>4 DEF RunInv
<1>11. stage \notin InSession \cup {"pause"}
  BY <1>6 DEF InSession
<1> QED
  BY <1>6, <1>7, <1>8, <1>9, <1>10, <1>11 DEF RunInv

LEMMA AttemptedKeeps ==
    ASSUME StateTypeOK, RunInv, run.stage \in InSession,
           NEW r \in Results, Honest(r, run.sandbox, outage),
           r.status # "skip",
           r.class = "SANDBOX_UNAVAILABLE" /\ run.sandbox => outage,
           NEW alive \in {"unasked", "yes", "no"}, alive = "no" => outage,
           run' = Attempted(r, alive),
           UNCHANGED <<docker, results, outage>>
    PROVE  RunInv'
<1>1. /\ run \in Runs /\ run.name \in run.picked
      /\ run.stage \in Going /\ run.streak \in 0 .. SandboxLimit - 1
  <2>1. run.stage # "aborted" /\ run.stage \in Going
    BY DEF InSession, Going
  <2>2. run.streak \in 0 .. SandboxLimit /\ run.streak < SandboxLimit
    BY <2>1 DEF RunInv, Runs
  <2>3. run.streak \in 0 .. SandboxLimit - 1
    BY <2>2, LimitTyped
  <2> QED
    BY <2>1, <2>3 DEF RunInv
<1>2. 0 \in 0 .. SandboxLimit /\ run.streak + 1 \in 0 .. SandboxLimit
  BY <1>1, LimitTyped
<1>3. CASE r.class # "SANDBOX_UNAVAILABLE"
  <2>1. run' = Recorded(run.name, r, 0, alive)
    BY <1>3 DEF Attempted
  <2> QED
    BY <1>1, <1>2, <1>3, <2>1, RecordedKeeps
<1>4. CASE /\ r.class = "SANDBOX_UNAVAILABLE"
           /\ run.sandbox /\ run.first = NoFirst
  <2>1. run' = [run EXCEPT !.stage = "pause", !.alive = alive,
                           !.serving = FALSE, !.first = r]
    BY <1>4 DEF Attempted
  <2>2. run' \in Runs
    BY <1>1, <2>1 DEF Runs, Active
  <2>3. /\ run'.stage = "pause" /\ run'.picked = run.picked
        /\ run'.sandbox = run.sandbox /\ run'.fresh = run.fresh
        /\ run'.streak = run.streak /\ run'.alive = alive
        /\ run'.name = run.name /\ run'.first = r
    BY <1>1, <2>1 DEF Runs
  <2>4. run.name \in run.picked \ DOMAIN run.fresh
    BY DEF RunInv
  <2>5. run.streak < SandboxLimit
    BY <1>1, LimitTyped
  <2> QED
    BY <1>4, <2>2, <2>3, <2>4, <2>5 DEF RunInv
<1>5. CASE /\ r.class = "SANDBOX_UNAVAILABLE"
           /\ ~(run.sandbox /\ run.first = NoFirst)
  <2> DEFINE q == IF run.first = NoFirst THEN r ELSE run.first
  <2>1. /\ q \in Results /\ q.class = "SANDBOX_UNAVAILABLE"
        /\ Honest(q, run.sandbox, outage)
    BY <1>1, <1>5 DEF RunInv, Runs
  <2> HIDE DEF q
  <2> DEFINE s == [q EXCEPT !.status = "skip"]
  <2>2. s \in Results /\ s.status = "skip" /\ s.class = q.class
        /\ s.boot = q.boot
    BY <2>1 DEF Results, Statuses
  <2>3. Honest(s, run.sandbox, outage)
    BY <2>1, <2>2 DEF Honest
  <2>4. run' = Recorded(run.name, s, run.streak + 1, alive)
    BY <1>5 DEF Attempted, q
  <2> HIDE DEF s
  <2> QED
    BY <1>1, <1>2, <2>2, <2>3, <2>4, RecordedKeeps
<1> QED
  BY <1>3, <1>4, <1>5

-----------------------------------------------------------------------------
(* The attempt itself. *)

LEMMA ResultTyped ==
    ASSUME StateTypeOK, run.name \in Names,
           NEW status \in Statuses, NEW class \in Classes, NEW boot \in BOOLEAN,
           NEW surface \in Surfaces \cup {NoSurface}
    PROVE  /\ Result(status, class, boot, surface) \in Results
           /\ Result(status, class, boot, surface).status = status
           /\ Result(status, class, boot, surface).class = class
           /\ Result(status, class, boot, surface).boot = boot
<1>1. entry[run.name].identity \in Identities
  BY EntriesTyped
<1>2. NoDrift \in Drifts
  BY DEF Drifts
<1> QED
  BY <1>1, <1>2 DEF Result, Results

LEMMA ClassTyped ==
    ASSUME NEW boot \in BOOLEAN, NEW word
    PROVE  /\ ClassOf(boot, word) \in
                  {"SANDBOX_UNAVAILABLE", "TIMEOUT", "NEEDS_ENV", "NEEDS_NET", "CRASH"}
           /\ ClassOf(boot, word) = "SANDBOX_UNAVAILABLE" => ~boot
  BY DEF ClassOf

LEMMA SessionTyped ==
    ASSUME RunInv, run.stage \in InSession
    PROVE  /\ run.name \in Names /\ run.sandbox \in BOOLEAN
           /\ run.alive \in {"unasked", "yes", "no"}
           /\ run.alive = "no" => outage
  BY DEF RunInv, Runs

(* A failure under --sandbox is the sandbox's only if docker was down.      *)
LEMMA FailedKeeps ==
    ASSUME StateTypeOK, RunInv, run.stage \in InSession, NEW word \in Words,
           Failed(word), UNCHANGED <<docker, results, outage>>
    PROVE  RunInv'
<1> DEFINE boot  == run.stage = "tools/list"
           class == ClassOf(boot, word)
           asked == class = "SANDBOX_UNAVAILABLE" /\ run.sandbox
           alive == IF ~asked THEN run.alive ELSE IF Alive THEN "yes" ELSE "no"
           believed == Believed(run.sandbox, class, Alive)
           r == Result("fail", believed, boot, NoSurface)
<1>1. /\ run.name \in Names /\ run.sandbox \in BOOLEAN
      /\ run.alive \in {"unasked", "yes", "no"} /\ (run.alive = "no" => outage)
  BY SessionTyped
<1>2. boot \in BOOLEAN /\ run' = Attempted(r, alive)
  BY DEF Failed
<1>3. /\ class \in {"SANDBOX_UNAVAILABLE", "TIMEOUT", "NEEDS_ENV", "NEEDS_NET", "CRASH"}
      /\ class = "SANDBOX_UNAVAILABLE" => ~boot
  BY ClassTyped
<1>4. ~Alive => outage
  BY <1>1 DEF Alive, RunInv, StateTypeOK
<1> HIDE DEF boot, class
<1>5. alive \in {"unasked", "yes", "no"} /\ (alive = "no" => outage)
  BY <1>1, <1>4
<1>6. /\ believed \in Classes
      /\ believed = "SANDBOX_UNAVAILABLE" =>
            ~boot /\ (run.sandbox => outage)
  BY <1>1, <1>3, <1>4 DEF Believed, Classes
<1> HIDE DEF believed, alive
<1>7. "fail" \in Statuses /\ NoSurface \in Surfaces \cup {NoSurface}
  BY DEF Statuses
<1>8. /\ r \in Results /\ r.status = "fail" /\ r.class = believed /\ r.boot = boot
  BY <1>1, <1>2, <1>6, <1>7, ResultTyped
<1> HIDE DEF r
<1>9. Honest(r, run.sandbox, outage)
  BY <1>6, <1>8 DEF Honest
<1> QED
  BY <1>2, <1>5, <1>6, <1>8, <1>9, AttemptedKeeps

(* A session whose outcome is no infrastructure failure at all.             *)
LEMMA OutcomeKeeps ==
    ASSUME StateTypeOK, RunInv, run.stage \in InSession,
           NEW status \in {"pass", "fail"}, NEW boot \in BOOLEAN,
           NEW class \in Classes \ {"SANDBOX_UNAVAILABLE"},
           status = "pass" => class \in {"none", "NO_TOOLS"},
           NEW surface \in Surfaces \cup {NoSurface},
           run' = Attempted(Result(status, class, boot, surface), run.alive),
           UNCHANGED <<docker, results, outage>>
    PROVE  RunInv'
<1>1. /\ run.name \in Names /\ run.sandbox \in BOOLEAN
      /\ run.alive \in {"unasked", "yes", "no"} /\ (run.alive = "no" => outage)
  BY SessionTyped
<1>2. PICK r : r = Result(status, class, boot, surface)
  OBVIOUS
<1>3. r \in Results /\ r.status = status /\ r.class = class
  <2>1. status \in Statuses
    BY DEF Statuses
  <2> QED
    BY <1>1, <1>2, <2>1, ResultTyped
<1>4. Honest(r, run.sandbox, outage)
  BY <1>3 DEF Honest
<1> QED
  BY <1>1, <1>2, <1>3, <1>4, AttemptedKeeps

LEMMA NotLaunchedKeeps ==
    ASSUME StateTypeOK, RunInv, run.stage \in Going, NEW name \in run.picked,
           NotLaunched(name), UNCHANGED <<docker, results, outage>>
    PROVE  RunInv'
<1>1. /\ name \in Names /\ run.alive \in {"unasked", "yes", "no"}
      /\ run.alive = "no" => outage
  BY DEF RunInv, Runs
<1>2. PICK class \in Unlaunched(entry[name].kind) :
         run' = Recorded(name, Skipped(name, class), 0, run.alive)
  BY DEF NotLaunched
<1>3. class \in {"NEEDS_ARGS", "refused", "launcher"}
  BY <1>2 DEF Unlaunched
<1>4. PICK r : r = Skipped(name, class)
  OBVIOUS
<1>5. r \in Results /\ r.class = class /\ r.status = "skip"
  <2>1. entry[name].identity \in Identities
    BY <1>1, EntriesTyped
  <2> QED
    BY <1>3, <1>4, <2>1 DEF Skipped, Results, Statuses, Classes, Drifts
<1>6. Honest(r, run.sandbox, outage) /\ r.class # "SANDBOX_UNAVAILABLE"
  BY <1>3, <1>5 DEF Honest
<1>7. 0 \in 0 .. SandboxLimit
  BY LimitTyped
<1> QED
  BY <1>1, <1>2, <1>4, <1>5, <1>6, <1>7, RecordedKeeps

LEMMA AttemptKeeps ==
    ASSUME StateTypeOK, RunInv, NEW name \in Names, Attempt(name)
    PROVE  RunInv'
<1>1. /\ run.stage \in {"picking", "pause"} /\ run.stage \in Going
      /\ name \in run.picked \ DOMAIN run.fresh
  BY DEF Attempt, RunInv, Going
<1>2. UNCHANGED <<docker, results, outage>>
  BY DEF Attempt
<1>3. CASE NotLaunched(name)
  BY <1>1, <1>2, <1>3, NotLaunchedKeeps
<1>4. CASE Launched(name)
  <2>1. PICK serving \in BOOLEAN :
           run' = [run EXCEPT !.stage = "initialize", !.name = name,
                              !.serving = serving]
    BY <1>4 DEF Launched, StateTypeOK
  <2>2. run \in Runs
    BY DEF RunInv
  <2>3. run' \in Runs
    BY <2>1, <2>2 DEF Runs, Active, InSession
  <2>4. /\ run'.stage = "initialize" /\ run'.picked = run.picked
        /\ run'.sandbox = run.sandbox /\ run'.fresh = run.fresh
        /\ run'.streak = run.streak /\ run'.alive = run.alive
        /\ run'.name = name /\ run'.first = run.first
    BY <2>1, <2>2 DEF Runs
  <2>5. run.stage # "aborted"
    BY <1>1
  <2> QED
    BY <1>1, <1>2, <2>3, <2>4, <2>5 DEF RunInv
<1> QED
  BY <1>3, <1>4 DEF Attempt

-----------------------------------------------------------------------------
(* The invariant. *)

LEMMA BetweenOrRunning ==
    ASSUME EndedTypeOK \/ RunInv
    PROVE  /\ run.stage \in Between => EndedTypeOK
           /\ run.stage \notin Between => RunInv
           /\ RunInv => run.stage \notin Between
<1>1. EndedTypeOK => run.stage \in Between
  BY DEF EndedTypeOK, Between, Idle
<1>2. RunInv => run.stage \in Active
  BY DEF RunInv, Runs
<1>3. \A stage \in Active : stage \notin Between
  BY DEF Active, InSession, Between
<1> QED
  BY <1>1, <1>2, <1>3

LEMMA InitHolds == Init => IInv
<1> SUFFICES ASSUME Init PROVE IInv
  OBVIOUS
<1>1. PICK old \in {NoResult} \cup {OldResult(s) : s \in Surfaces \ {Empty}} :
         results = [n \in Names |-> old]
  BY DEF Init
<1>2. old \in Results \cup {NoResult}
  <2>1. ASSUME NEW s \in Surfaces PROVE OldResult(s) \in Results
    <3>1. "pass" \in Statuses /\ "none" \in Classes /\ NoDrift \in Drifts
      BY DEF Statuses, Classes, Drifts
    <3> QED
      BY <3>1 DEF OldResult, Results
  <2> QED
    BY <1>1, <2>1
<1> QED
  BY <1>1, <1>2 DEF Init, IInv, StateTypeOK, EndedTypeOK

LEMMA SomeoneElseKeeps ==
    ASSUME IInv, DockerChanges \/ (\E n \in Names, new \in Entries : EditEntry(n, new))
    PROVE  IInv'
<1>1. CASE DockerChanges
  <2>1. StateTypeOK' /\ results' = results /\ outage' = TRUE
    BY <1>1 DEF DockerChanges, IInv, StateTypeOK
  <2>2. CASE run.stage \in Between
    <3>1. run' = run /\ EndedTypeOK
      BY <1>1, <2>2, BetweenOrRunning
         DEF DockerChanges, IInv, Between, InSession
    <3> QED
      BY <2>1, <3>1 DEF IInv, EndedTypeOK
  <2>3. CASE run.stage \notin Between
    <3>1. RunInv /\ run \in Runs
      BY <2>3, BetweenOrRunning DEF IInv, RunInv
    <3>2. run' \in Runs
      BY <1>1, <3>1 DEF DockerChanges, Runs
    <3>3. /\ run'.stage = run.stage /\ run'.picked = run.picked
          /\ run'.sandbox = run.sandbox /\ run'.fresh = run.fresh
          /\ run'.streak = run.streak /\ run'.alive = run.alive
          /\ run'.name = run.name /\ run'.first = run.first
      BY <1>1, <3>1 DEF DockerChanges, Runs
    <3>4. \A n \in DOMAIN run.fresh :
             Storable(run.fresh[n], results[n], run.sandbox, TRUE)
      BY <3>1 DEF RunInv, Storable, Honest
    <3>5. run.first # NoFirst => /\ run.first.class = "SANDBOX_UNAVAILABLE"
                                 /\ Honest(run.first, run.sandbox, TRUE)
      BY <3>1 DEF RunInv, Honest
    <3>6. RunInv'
      BY <2>1, <3>1, <3>2, <3>3, <3>4, <3>5 DEF RunInv
    <3> QED
      BY <2>1, <3>6 DEF IInv
  <2> QED
    BY <2>2, <2>3
<1>2. ASSUME NEW n \in Names, NEW new \in Entries, EditEntry(n, new)
      PROVE  IInv'
  <2>1. EndedTypeOK /\ run' = run
    BY <1>2, BetweenOrRunning DEF EditEntry, IInv
  <2>2. StateTypeOK'
    BY <1>2 DEF EditEntry, IInv, StateTypeOK
  <2> QED
    BY <2>1, <2>2 DEF IInv, EndedTypeOK
<1> QED
  BY <1>1, <1>2

LEMMA StartKeeps ==
    ASSUME IInv, NEW picked \in Picks, NEW sandbox \in BOOLEAN,
           Start(picked, sandbox)
    PROVE  IInv'
<1>1. StateTypeOK' /\ results' = results /\ docker' = docker /\ outage' = ~docker
  BY DEF Start, IInv, StateTypeOK
<1>2. /\ run'.stage = "picking" /\ run'.picked = picked /\ run'.sandbox = sandbox
      /\ run'.fresh = [n \in {} |-> NoResult] /\ run'.streak = 0
      /\ run'.alive = "unasked" /\ run'.first = NoFirst
  BY DEF Start
<1>3. picked \in SUBSET Names
  BY SmokeConstants
<1>4. 0 \in 0 .. SandboxLimit /\ 0 < SandboxLimit
  BY LimitTyped
<1>5. run' \in Runs
  BY <1>3, <1>4, NoFreshYet DEF Start, Runs, Active
<1>6. DOMAIN run'.fresh = {}
  BY <1>2
<1>7. RunInv'
  BY <1>1, <1>2, <1>4, <1>5, <1>6 DEF RunInv, InSession
<1> QED
  BY <1>1, <1>7 DEF IInv

LEMMA SessionKeeps ==
    ASSUME IInv, AnswersInitialize \/ AnswersToolsList \/ Exits \/ TimesOut
    PROVE  IInv' /\ RunInv'
<1>1. run.stage \in InSession
  BY DEF AnswersInitialize, AnswersToolsList, Exits, TimesOut, InSession
<1>2. StateTypeOK /\ RunInv /\ run \in Runs
  BY <1>1, BetweenOrRunning DEF IInv, InSession, Between, RunInv
<1>3. UNCHANGED <<docker, entry, results, outage>>
  BY DEF AnswersInitialize, AnswersToolsList, Exits, TimesOut, Unmoved
<1>4. StateTypeOK'
  BY <1>2, <1>3 DEF StateTypeOK
<1>5. NoSurface \in Surfaces \cup {NoSurface}
  OBVIOUS
<1>6. ASSUME NEW word \in Words, Failed(word) PROVE RunInv'
  BY <1>1, <1>2, <1>3, <1>6, FailedKeeps
<1>7. CASE AnswersInitialize /\ run' = [run EXCEPT !.stage = "tools/list"]
  <2>1. run' \in Runs
    BY <1>2, <1>7 DEF Runs, Active, InSession
  <2>2. /\ run'.stage = "tools/list" /\ run'.picked = run.picked
        /\ run'.sandbox = run.sandbox /\ run'.fresh = run.fresh
        /\ run'.streak = run.streak /\ run'.alive = run.alive
        /\ run'.name = run.name /\ run'.first = run.first
    BY <1>2, <1>7 DEF Runs
  <2>3. run.stage # "aborted"
    BY <1>1 DEF InSession
  <2>4. RunInv'
    BY <1>1, <1>2, <1>3, <2>1, <2>2, <2>3 DEF RunInv
  <2> QED
    BY <1>4, <2>4 DEF IInv
<1>8. ASSUME NEW word \in Words,
             run' = Attempted(Result("fail", ClassOf(TRUE, word), TRUE, NoSurface),
                              run.alive)
      PROVE  RunInv'
  <2>1. ClassOf(TRUE, word) \in Classes \ {"SANDBOX_UNAVAILABLE"}
    BY ClassTyped DEF Classes
  <2> QED
    BY <1>1, <1>2, <1>3, <1>5, <1>8, <2>1, OutcomeKeeps
<1>9. ASSUME NEW s \in Surfaces,
             run' = Attempted(Result("pass", IF s = Empty THEN "NO_TOOLS" ELSE "none",
                                     TRUE, s), run.alive)
      PROVE  RunInv'
  <2>1. PICK class \in {"none", "NO_TOOLS"} :
           run' = Attempted(Result("pass", class, TRUE, s), run.alive)
    BY <1>9
  <2>2. class \in Classes \ {"SANDBOX_UNAVAILABLE"}
    BY DEF Classes
  <2> QED
    BY <1>1, <1>2, <1>3, <2>1, <2>2, OutcomeKeeps
<1>10. CASE TimesOut
  <2>1. PICK boot \in BOOLEAN :
           run' = Attempted(Result("fail", "TIMEOUT", boot, NoSurface), run.alive)
    BY <1>10 DEF TimesOut
  <2>2. "TIMEOUT" \in Classes \ {"SANDBOX_UNAVAILABLE"}
    BY DEF Classes
  <2>3. RunInv'
    BY <1>1, <1>2, <1>3, <1>5, <2>1, <2>2, OutcomeKeeps
  <2> QED
    BY <1>4, <2>3 DEF IInv
<1>11. CASE AnswersInitialize
  BY <1>4, <1>7, <1>8, <1>11 DEF AnswersInitialize, IInv
<1>12. CASE AnswersToolsList
  BY <1>4, <1>6, <1>9, <1>12 DEF AnswersToolsList, IInv
<1>13. CASE Exits
  BY <1>4, <1>6, <1>13 DEF Exits, IInv
<1> QED
  BY <1>10, <1>11, <1>12, <1>13

LEMMA WriteKeeps ==
    ASSUME IInv, NEW strict \in BOOLEAN, Write(strict)
    PROVE  IInv'
<1>1. StateTypeOK /\ RunInv
  BY BetweenOrRunning DEF IInv, Write, Between
<1>2. run.fresh \in Freshes
  BY <1>1 DEF RunInv, Runs
<1>3. results' \in [Names -> Results \cup {NoResult}]
  BY <1>1, <1>2, FreshIsAFunction DEF Write, Stored, StateTypeOK
<1>4. StateTypeOK'
  BY <1>1, <1>3 DEF Write, StateTypeOK
<1>5. Exit(run.picked, run.fresh, run.stage = "aborted", strict) \in 0 .. 2
  BY DEF Exit
<1>6. EndedTypeOK'
  BY <1>5 DEF Write, EndedTypeOK
<1> QED
  BY <1>4, <1>6 DEF IInv

LEMMA StepHolds == IInv /\ [Next]_vars => IInv'
<1> SUFFICES ASSUME IInv, [Next]_vars PROVE IInv'
  OBVIOUS
<1>1. CASE UNCHANGED vars
  BY <1>1 DEF vars, IInv, StateTypeOK, EndedTypeOK, RunInv
<1>2. ASSUME NEW n \in Names, Attempt(n) PROVE IInv'
  <2>1. run.stage \notin Between
    BY <1>2 DEF Attempt, Between
  <2>2. StateTypeOK /\ RunInv
    BY <2>1, BetweenOrRunning DEF IInv
  <2>3. StateTypeOK'
    BY <1>2, <2>2 DEF Attempt, StateTypeOK
  <2>4. RunInv'
    BY <1>2, <2>2, AttemptKeeps
  <2> QED
    BY <2>3, <2>4 DEF IInv
<1>3. CASE Dies
  BY <1>3 DEF Dies, Unmoved, IInv, StateTypeOK, EndedTypeOK
<1>4. CASE DockerChanges \/ (\E n \in Names, new \in Entries : EditEntry(n, new))
  BY <1>4, SomeoneElseKeeps
<1>5. CASE AnswersInitialize \/ AnswersToolsList \/ Exits \/ TimesOut
  BY <1>5, SessionKeeps
<1> QED
  BY <1>1, <1>2, <1>3, <1>4, <1>5, StartKeeps, WriteKeeps DEF Next, Proceeds

LEMMA Invariant == Spec => []IInv
  BY InitHolds, StepHolds, PTL DEF Spec

-----------------------------------------------------------------------------
(* What it gives. *)

LEMMA InvGivesTypes == IInv => TypeOK
<1> SUFFICES ASSUME IInv PROVE RunTypeOK
  BY DEF IInv, StateTypeOK, TypeOK
<1>1. CASE run.stage \in Between
  <2>1. EndedTypeOK
    BY <1>1, BetweenOrRunning DEF IInv
  <2> QED
    BY <2>1 DEF EndedTypeOK, RunTypeOK, Idle
<1>2. CASE run.stage \notin Between
  <2>1. RunInv /\ run \in Runs
    BY <1>2, BetweenOrRunning DEF IInv, RunInv
  <2>2. /\ run.stage \in InSession \cup {"picking", "pause", "aborted"}
        /\ run.picked \subseteq Names /\ run.streak \in 0 .. SandboxLimit
        /\ run.alive \in {"unasked", "yes", "no"}
        /\ run.first \in Results \cup {NoFirst}
        /\ {run.sandbox, run.serving} \subseteq BOOLEAN
        /\ run.fresh \in Freshes
    BY <2>1 DEF Runs, Active
  <2>3. \A n \in DOMAIN run.fresh : run.fresh[n] \in Results
    BY <2>2, FreshIsAFunction
  <2>4. DOMAIN run.fresh \subseteq run.picked
    BY <2>1 DEF RunInv
  <2> QED
    BY <1>2, <2>2, <2>3, <2>4 DEF RunTypeOK, Between
<1> QED
  BY <1>1, <1>2

(* A failure is set aside as the sandbox's only for a server that never     *)
(* answered and, under --sandbox, only if docker really was down while the  *)
(* process ran (smokeEntry, classifyFailure, dockerIsAlive); and every      *)
(* variable keeps its type.                                                 *)
THEOREM AsideForAnOutage == Spec => []SkippedForAnOutage
<1>1. IInv => SkippedForAnOutage
  <2> SUFFICES ASSUME IInv, run.stage \notin Between, NEW n \in DOMAIN run.fresh,
                      run.fresh[n].class = "SANDBOX_UNAVAILABLE"
               PROVE  /\ ~run.fresh[n].boot /\ run.fresh[n].status = "skip"
                      /\ run.sandbox => outage
    BY InvGivesTypes DEF SkippedForAnOutage
  <2>1. Storable(run.fresh[n], results[n], run.sandbox, outage)
    BY BetweenOrRunning DEF IInv, RunInv
  <2> QED
    BY <2>1 DEF Storable, Honest
<1> QED
  BY <1>1, Invariant, PTL

(* Results change only when a run writes them. *)
LEMMA OnlyAWriteStores ==
    ASSUME IInv, [Next]_vars, results' # results
    PROVE  /\ RunInv /\ run.stage \notin Between /\ run.fresh \in Freshes
           /\ results' = Stored(results, run.fresh)
<1>1. \E strict \in BOOLEAN : Write(strict)
  BY DEF Next, vars, Proceeds, DockerChanges, EditEntry, Start, Attempt,
         AnswersInitialize, AnswersToolsList, Exits, TimesOut, Dies, Unmoved
<1>2. run.stage \notin Between /\ results' = Stored(results, run.fresh)
  BY <1>1 DEF Write, Between
<1>3. RunInv /\ run.fresh \in Freshes
  BY <1>2, BetweenOrRunning DEF IInv, RunInv, Runs
<1> QED
  BY <1>2, <1>3

(* A run that stops early, or is killed, costs no entry it did not get to   *)
(* its stored result (mcp_eval.cjs main, "an early stop deleted the stored  *)
(* results of every entry the run never got to").                           *)
THEOREM NothingUnreachedIsLost == Spec => UnreachedKept
<1>1. ASSUME IInv, [Next]_vars, NEW n \in Names, results'[n] # results[n]
      PROVE  run.stage \notin Between /\ n \in DOMAIN run.fresh
  BY <1>1, OnlyAWriteStores DEF Stored
<1>2. IInv /\ [Next]_vars =>
         \A n \in Names : results'[n] # results[n] =>
            run.stage \notin Between /\ n \in DOMAIN run.fresh
  BY <1>1
<1> QED
  BY <1>2, Invariant, PTL DEF Spec, UnreachedKept

LEMMA IdentityTyped ==
    ASSUME NEW i \in Identities
    PROVE  /\ i = [artifact |-> i.artifact, launch |-> i.launch]
           /\ i.launch # "not recorded"
  BY SmokeConstants

(* The four answers of artifactChangedBetween. *)
LEMMA UnexplainedIsTheSame ==
    ASSUME NEW p \in Identities \cup {NoIdentity},
           NEW q \in Identities \cup {NoIdentity},
           ArtifactChange(p, q) = "unexplained"
    PROVE  q = p /\ q.artifact # NoId
<1>1. /\ p # NoIdentity /\ p.launch = q.launch /\ p.artifact = q.artifact
      /\ q.artifact # NoId
  BY DEF ArtifactChange
<1>2. q # NoIdentity
  <2>1. p.launch # "not recorded"
    BY <1>1, IdentityTyped
  <2>2. NoIdentity.launch = "not recorded"
    BY DEF NoIdentity
  <2> QED
    BY <1>1, <2>1, <2>2
<1>3. /\ p = [artifact |-> p.artifact, launch |-> p.launch]
      /\ q = [artifact |-> q.artifact, launch |-> q.launch]
  BY <1>1, <1>2, IdentityTyped
<1> QED
  BY <1>1, <1>3

LEMMA ChangeIsSomeDrift ==
    ASSUME NEW p, NEW q
    PROVE  ArtifactChange(p, q) # NoDrift
  BY DEF ArtifactChange, NoDrift

(* A server seen with another surface than the stored one is reported, also *)
(* when only the retry saw it, and the change is called unexplained only    *)
(* between two runs of one artifact under one launch (finalize,             *)
(* surfaceDrift, artifactChangedBetween).                                   *)
THEOREM DriftIsNotCoerced == Spec => DriftIsTold
<1>1. ASSUME IInv, [Next]_vars, NEW n \in Names, results'[n] # results[n],
             HasSurface(results[n]), HasSurface(results'[n])
      PROVE  /\ (results'[n].drift = NoDrift)
                    = (results'[n].surface = results[n].surface)
             /\ results'[n].drift = "unexplained" =>
                  /\ results'[n].identity = results[n].identity
                  /\ results'[n].identity.artifact # NoId
  <2>1. /\ RunInv /\ run.fresh \in Freshes
        /\ results' = Stored(results, run.fresh)
    BY <1>1, OnlyAWriteStores
  <2>2. n \in DOMAIN run.fresh /\ results'[n] = run.fresh[n]
    BY <1>1, <2>1 DEF Stored
  <2>3. results'[n] \in Results
    BY <2>1, <2>2, FreshIsAFunction
  <2>4. results[n] \in Results
    BY <1>1 DEF IInv, StateTypeOK, HasSurface
  <2>5. results'[n].drift = SurfaceDrift(results[n], results'[n])
    BY <2>1, <2>2 DEF RunInv, Storable
  <2>6. results'[n].drift =
           IF results[n].surface # results'[n].surface
           THEN ArtifactChange(results[n].identity, results'[n].identity)
           ELSE NoDrift
    BY <1>1, <2>5 DEF SurfaceDrift
  <2>7. /\ results[n].identity \in Identities \cup {NoIdentity}
        /\ results'[n].identity \in Identities \cup {NoIdentity}
    BY <2>3, <2>4 DEF Results
  <2>8. (results'[n].drift = NoDrift) = (results'[n].surface = results[n].surface)
    BY <2>6, ChangeIsSomeDrift
  <2>9. ASSUME results'[n].drift = "unexplained"
        PROVE  /\ results'[n].identity = results[n].identity
               /\ results'[n].identity.artifact # NoId
    <3>1. ArtifactChange(results[n].identity, results'[n].identity) = "unexplained"
      BY <2>6, <2>9 DEF NoDrift
    <3> QED
      BY <2>7, <3>1, UnexplainedIsTheSame
  <2> QED
    BY <2>8, <2>9
<1>2. IInv /\ [Next]_vars =>
         \A n \in Names :
            LET before == results[n]
                after  == results'[n]
            IN  after # before /\ HasSurface(before) /\ HasSurface(after) =>
                /\ (after.drift = NoDrift) = (after.surface = before.surface)
                /\ after.drift = "unexplained" =>
                    /\ after.identity = before.identity
                    /\ after.identity.artifact # NoId
  BY <1>1
<1> QED
  BY <1>2, Invariant, PTL DEF Spec, DriftIsTold

LEMMA OnlyAWriteEnds ==
    ASSUME IInv, Next, run.stage \notin Between, run'.stage = "ended"
    PROVE  \E strict \in BOOLEAN : Write(strict)
<1>1. StateTypeOK /\ RunInv /\ run \in Runs
  BY BetweenOrRunning DEF IInv, RunInv
<1>2. ~RunInv'
  BY DEF RunInv, Runs, Active, InSession
<1>3. ~DockerChanges
  <2>1. DockerChanges => run'.stage = run.stage
    BY <1>1 DEF DockerChanges, Runs
  <2> QED
    BY <2>1 DEF Between
<1>4. \A n \in Names : ~Attempt(n)
  BY <1>1, <1>2, AttemptKeeps
<1>5. ~(AnswersInitialize \/ AnswersToolsList \/ Exits \/ TimesOut)
  BY <1>2, SessionKeeps
<1>6. ~Dies
  BY DEF Dies, Idle
<1>7. ~(\E n \in Names, new \in Entries : EditEntry(n, new))
  BY DEF EditEntry
<1>8. ~(\E picked \in Picks, sandbox \in BOOLEAN : Start(picked, sandbox))
  BY DEF Start
<1> QED
  BY <1>3, <1>4, <1>5, <1>6, <1>7, <1>8 DEF Next, Proceeds

(* A run that ends well did what was asked: not everything went unchecked   *)
(* and, under --strict, every entry that can be launched as written passed  *)
(* (evalDecision, exitCode: "a run that did not deliver what was asked      *)
(* for").                                                                   *)
THEOREM WellMeansDone == Spec => ExitIsHonest
<1>1. ASSUME IInv, Next, run.stage \notin Between, run'.stage = "ended"
      PROVE  LET asked  == {n \in run.picked : n \in DOMAIN run.fresh
                                                  => ~Unaskable(run.fresh[n])}
                 passed == {n \in DOMAIN run.fresh : run.fresh[n].status = "pass"}
             IN  run'.exit = 0 =>
                     /\ asked # {} => Answered(run.fresh) # {}
                     /\ run'.strict => asked = passed
  <2> DEFINE asked  == {n \in run.picked : n \in DOMAIN run.fresh
                                              => ~Unaskable(run.fresh[n])}
             passed == {n \in DOMAIN run.fresh : run.fresh[n].status = "pass"}
  <2>1. RunInv /\ run \in Runs /\ DOMAIN run.fresh \subseteq run.picked
    BY <1>1, BetweenOrRunning DEF IInv, RunInv
  <2>2. PICK aborted \in BOOLEAN :
           run'.exit = Exit(run.picked, run.fresh, aborted, run'.strict)
    <3>1. PICK strict \in BOOLEAN : Write(strict)
      BY <1>1, OnlyAWriteEnds
    <3>2. /\ run'.strict = strict
          /\ run'.exit = Exit(run.picked, run.fresh, run.stage = "aborted", strict)
      BY <3>1 DEF Write
    <3>3. (run.stage = "aborted") \in BOOLEAN
      OBVIOUS
    <3> QED
      BY <3>2, <3>3
  <2>3. \A n \in DOMAIN run.fresh :
           /\ run.fresh[n].status \in Statuses
           /\ run.fresh[n].status = "pass" => run.fresh[n].class \in {"none", "NO_TOOLS"}
           /\ run.fresh[n].status = "skip" =>
                 run.fresh[n].class \in {"NEEDS_ARGS", "refused", "launcher",
                                         "SANDBOX_UNAVAILABLE"}
    <3>1. run.fresh \in Freshes
      BY <2>1 DEF Runs
    <3> QED
      BY <2>1, <3>1, FreshIsAFunction DEF RunInv, Storable, Honest, Results
  <2>4. ASSUME NotRun(run.picked, run.fresh) = {}, NEW n \in asked
        PROVE  n \in DOMAIN run.fresh /\ run.fresh[n].status \in {"pass", "fail"}
    <3>1. n \in DOMAIN run.fresh
      BY <2>4 DEF NotRun
    <3>2. run.fresh[n].class \notin {"launcher", "SANDBOX_UNAVAILABLE",
                                     "NEEDS_ARGS", "refused"}
      BY <2>4, <3>1 DEF NotRun, Unaskable
    <3> QED
      BY <2>3, <3>1, <3>2 DEF Statuses
  <2>5. ASSUME run'.exit = 0, asked # {} PROVE Answered(run.fresh) # {}
    <3>1. SUFFICES ASSUME Answered(run.fresh) = {} PROVE FALSE
      OBVIOUS
    <3>2. NotRun(run.picked, run.fresh) = {}
      BY <2>2, <2>5, <3>1 DEF Exit
    <3>3. \A n \in asked : n \in Answered(run.fresh)
      BY <2>4, <3>2 DEF Answered
    <3> QED
      BY <2>5, <3>1, <3>3
  <2>6. ASSUME run'.exit = 0, run'.strict PROVE asked = passed
    <3>1. /\ NotRun(run.picked, run.fresh) = {}
          /\ \A n \in DOMAIN run.fresh : run.fresh[n].status # "fail"
      BY <2>2, <2>6 DEF Exit
    <3>2. asked \subseteq passed
      BY <2>4, <3>1
    <3>3. passed \subseteq asked
      BY <2>1, <2>3 DEF Unaskable
    <3> QED
      BY <3>2, <3>3
  <2> QED
    BY <2>5, <2>6
<1>2. IInv /\ [Next]_vars =>
         (run.stage \notin Between /\ run'.stage = "ended" =>
            LET asked  == {n \in run.picked : n \in DOMAIN run.fresh
                                                => ~Unaskable(run.fresh[n])}
                passed == {n \in DOMAIN run.fresh : run.fresh[n].status = "pass"}
            IN  run'.exit = 0 =>
                    /\ asked # {} => Answered(run.fresh) # {}
                    /\ run'.strict => asked = passed)
  <2>1. ASSUME run' = run PROVE ~(run.stage \notin Between /\ run'.stage = "ended")
    BY <2>1 DEF Between
  <2> QED
    BY <1>1, <2>1 DEF vars
<1> QED
  BY <1>2, Invariant, PTL DEF Spec, ExitIsHonest
=============================================================================
