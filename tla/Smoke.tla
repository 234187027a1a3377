------------------------------- MODULE Smoke --------------------------------
(***************************************************************************)
(* scripts/mcp_eval.cjs over lib/mcp_stdio.cjs: start each picked server   *)
(* in a container (or on the host), speak `initialize` and `tools/list`,   *)
(* say of a failure what it was, retry once what the sandbox failed, give  *)
(* up when it keeps failing, and store the results.                        *)
(*                                                                         *)
(* A line of the server is handled as it is read, so saying and reading    *)
(* are one step; lines that are not JSON or carry another id change        *)
(* nothing.  A message with the wanted id is the answer, whoever asked.    *)
(* One process runs at a time.  `outage` is history: docker was down at    *)
(* some moment of the process.                                             *)
(***************************************************************************)
EXTENDS Integers, FiniteSets

CONSTANTS
    Names,          \* entries of the database
    Picks,          \* what a run may be asked for: all, or those of a name
    Identities,     \* what an entry may launch: [artifact, launch]
    Entries,        \* what an entry may be: [kind, identity]
    NoId,           \* the launch names no artifact, or not the entry's own
    Surfaces,       \* fingerprints of a tools/list answer
    Empty,          \* the one of an empty list
    Words,          \* what a failing process's text reads like
    SandboxLimit,   \* sandbox failures in a row that stop a run (3 in the code)
    MaxPicked,      \* bounds: entries picked by all runs together,
                    \* changes of the docker daemon, edits of entries
    MaxFlips,
    MaxEdits

VARIABLES
    docker,     \* the daemon is up
    entry,      \* [Names -> [kind, identity]]
    results,    \* eval_results.json: [Names -> result]
    run,        \* the process
    outage,     \* history: docker was down while the process ran
    picks, flips, edits      \* counters (bounds only)

vars == <<docker, entry, results, run, outage, picks, flips, edits>>

ASSUME SmokeConstants ==
    /\ \A i \in Identities :
          /\ i = [artifact |-> i.artifact, launch |-> i.launch]
          /\ i.launch # "not recorded"
    /\ Picks \subseteq (SUBSET Names) \ {{}}
    /\ Empty \in Surfaces
    /\ Words \subseteq {"docker", "env", "net", "timeout", "other"}
    /\ SandboxLimit \in Nat \ {0}
    /\ MaxPicked \in Nat /\ MaxFlips \in Nat /\ MaxEdits \in Nat

(* An entry's command may need an argument by hand, or be one the sandbox   *)
(* cannot rebuild.                                                          *)
Kinds == {"server", "needs-args", "unjailable"}

ASSUME SmokeEntries == Entries \subseteq [kind : Kinds, identity : Identities]

Statuses == {"pass", "fail", "skip"}
Classes == {"none", "TIMEOUT", "NEEDS_ENV", "NEEDS_NET", "NEEDS_ARGS",
            "NO_TOOLS", "SANDBOX_UNAVAILABLE", "CRASH", "launcher", "refused"}

NoSurface  == "no surface"
NoIdentity == [artifact |-> NoId, launch |-> "not recorded"]
NoDrift    == "none"
Drifts     == {NoDrift, "artifact changed", "unexplained", "not recorded"}

(* `class` also tells the skips apart that the code tells by error_code.    *)
Results ==
    [status : Statuses, class : Classes, boot : BOOLEAN,
     surface : Surfaces \cup {NoSurface},
     identity : Identities \cup {NoIdentity}, drift : Drifts]

NoResult == [status |-> "absent"]

-----------------------------------------------------------------------------
(* What a failure was. *)

(* Mutant of ClassOf: the words count, whatever the process did before.     *)
ClassOfWords(boot, word) ==
    CASE word = "docker"  -> "SANDBOX_UNAVAILABLE"
      [] word = "timeout" -> "TIMEOUT"
      [] word = "env"     -> "NEEDS_ENV"
      [] word = "net"     -> "NEEDS_NET"
      [] OTHER            -> "CRASH"

(* classifyFailure of a failed handshake.  Once the server has answered,    *)
(* its words cannot make it an infrastructure failure.                      *)
ClassOf(boot, word) ==
    CASE word = "docker" /\ ~boot -> "SANDBOX_UNAVAILABLE"
      [] word = "timeout"         -> "TIMEOUT"
      [] word = "env"             -> "NEEDS_ENV"
      [] word = "net"             -> "NEEDS_NET"
      [] OTHER                    -> "CRASH"

(* Mutant of Believed: the probe is not asked.                              *)
BelievedAtOnce(sandbox, class, alive) == class

(* A claimed infrastructure failure under --sandbox counts if docker        *)
(* agrees; dockerIsAlive answers once per process.                          *)
Believed(sandbox, class, alive) ==
    IF class = "SANDBOX_UNAVAILABLE" /\ sandbox /\ alive THEN "CRASH" ELSE class

Alive == IF run.alive = "unasked" THEN docker ELSE run.alive = "yes"

Result(status, class, boot, surface) ==
    [status |-> status, class |-> class, boot |-> boot, surface |-> surface,
     identity |-> entry[run.name].identity, drift |-> NoDrift]

-----------------------------------------------------------------------------
(* The surface against the last recorded one. *)

(* Mutant of ArtifactChange: what is not recorded is taken for equal.       *)
ArtifactChangeHasty(prior, fresh) ==
    IF prior # NoIdentity /\ prior.launch # fresh.launch
    THEN "artifact changed" ELSE "unexplained"

(* artifactChangedBetween: yes, no, or it cannot be told.                   *)
ArtifactChange(prior, fresh) ==
    IF prior = NoIdentity THEN "not recorded"
    ELSE IF \/ prior.launch # fresh.launch
            \/ /\ NoId \notin {prior.artifact, fresh.artifact}
               /\ prior.artifact # fresh.artifact
    THEN "artifact changed"
    ELSE IF NoId \in {prior.artifact, fresh.artifact} THEN "not recorded"
    ELSE "unexplained"

HasSurface(result) == result # NoResult /\ result.surface # NoSurface

SurfaceDrift(prior, fresh) ==
    IF /\ HasSurface(prior) /\ HasSurface(fresh)
       /\ prior.surface # fresh.surface
    THEN ArtifactChange(prior.identity, fresh.identity) ELSE NoDrift

Finalized(name, result) ==
    [result EXCEPT !.drift = SurfaceDrift(results[name], result)]

-----------------------------------------------------------------------------
(* The run. *)

Idle == [stage |-> "idle"]
NoFirst == [status |-> "none"]

Between == {"idle", "ended"}
InSession == {"initialize", "tools/list"}

OldResult(surface) ==
    [status |-> "pass", class |-> "none", boot |-> TRUE, surface |-> surface,
     identity |-> NoIdentity, drift |-> NoDrift]

(* There is no snapshot, or one of an older version, without identities.    *)
Init ==
    /\ docker \in BOOLEAN
    /\ entry \in [Names -> Entries]
    /\ \E old \in {NoResult} \cup {OldResult(s) : s \in Surfaces \ {Empty}} :
            results = [n \in Names |-> old]
    /\ run = Idle
    /\ outage = FALSE
    /\ picks = 0 /\ flips = 0 /\ edits = 0

(* The daemon goes down, with every container, or comes back (external).    *)
DockerChanges ==
    /\ flips < MaxFlips
    /\ flips' = flips + 1
    /\ docker' = ~docker
    /\ outage' = TRUE
    /\ run' = IF run.stage \in InSession /\ run.sandbox
              THEN [run EXCEPT !.serving = FALSE] ELSE run
    /\ UNCHANGED <<entry, results, picks, edits>>

(* A pull request edits the entry.  A process holds the entries it picked,  *)
(* so that an edit while it runs is one after it.                           *)
EditEntry(n, new) ==
    /\ run.stage \in Between
    /\ edits < MaxEdits
    /\ edits' = edits + 1
    /\ entry[n] # new
    /\ entry' = [entry EXCEPT ![n] = new]
    /\ UNCHANGED <<docker, results, run, outage, picks, flips>>

Start(picked, sandbox) ==
    /\ run.stage \in Between
    /\ picks + Cardinality(picked) <= MaxPicked
    /\ picks' = picks + Cardinality(picked)
    /\ run' = [stage |-> "picking", picked |-> picked, sandbox |-> sandbox,
               fresh |-> [n \in {} |-> NoResult], streak |-> 0,
               alive |-> "unasked", name |-> "", first |-> NoFirst,
               serving |-> FALSE]
    /\ outage' = ~docker
    /\ UNCHANGED <<docker, entry, results, flips, edits>>

(* Mutant of Recorded: the run stops one failure later.                     *)
RecordedLate(name, result, streak, alive) ==
    [run EXCEPT !.stage = IF streak > SandboxLimit THEN "aborted" ELSE "picking",
                !.fresh = [n \in DOMAIN @ \cup {name} |->
                            IF n = name THEN Finalized(name, result) ELSE @[n]],
                !.streak = streak, !.alive = alive, !.name = "",
                !.first = NoFirst, !.serving = FALSE]

(* The result of an attempt that was to be recorded: its place in the       *)
(* report, the count of failures in a row, and the early stop.              *)
Recorded(name, result, streak, alive) ==
    [run EXCEPT !.stage = IF streak >= SandboxLimit THEN "aborted" ELSE "picking",
                !.fresh = [n \in DOMAIN @ \cup {name} |->
                            IF n = name THEN Finalized(name, result) ELSE @[n]],
                !.streak = streak, !.alive = alive, !.name = "",
                !.first = NoFirst, !.serving = FALSE]

(* Mutant of Attempted: a sandbox failure is retried until it goes away.    *)
AttemptedForEver(result, alive) ==
    IF result.class = "SANDBOX_UNAVAILABLE" /\ run.sandbox
    THEN [run EXCEPT !.stage = "pause", !.alive = alive, !.serving = FALSE,
                     !.first = result]
    ELSE Recorded(run.name, result, 0, alive)

(* The first attempt that the sandbox failed is tried again; when the       *)
(* second fails the same way the first is recorded, as a skip.              *)
Attempted(result, alive) ==
    IF result.class # "SANDBOX_UNAVAILABLE"
    THEN Recorded(run.name, result, 0, alive)
    ELSE IF run.sandbox /\ run.first = NoFirst
    THEN [run EXCEPT !.stage = "pause", !.alive = alive, !.serving = FALSE,
                     !.first = result]
    ELSE Recorded(run.name,
                  [(IF run.first = NoFirst THEN result ELSE run.first)
                    EXCEPT !.status = "skip"],
                  run.streak + 1, alive)

(* Where a launch ends before a process is there.                           *)
Unlaunched(kind) ==
    IF kind = "needs-args" THEN {"NEEDS_ARGS"}
    ELSE IF kind = "unjailable" /\ run.sandbox THEN {"refused"}
    ELSE {"launcher"}

Skipped(name, class) ==
    [status |-> "skip", class |-> class, boot |-> FALSE, surface |-> NoSurface,
     identity |-> entry[name].identity, drift |-> NoDrift]

NotLaunched(name) ==
    \E class \in Unlaunched(entry[name].kind) :
        run' = Recorded(name, Skipped(name, class), 0, run.alive)

(* The process is there; in the sandbox the server is only if the daemon    *)
(* and the image are.                                                       *)
Launched(name) ==
    /\ entry[name].kind # "needs-args"
    /\ ~(entry[name].kind = "unjailable" /\ run.sandbox)
    /\ \E serving \in IF ~run.sandbox THEN {TRUE}
                      ELSE IF docker THEN BOOLEAN ELSE {FALSE} :
        run' = [run EXCEPT !.stage = "initialize", !.name = name,
                           !.serving = serving]

Attempt(name) ==
    /\ \/ /\ run.stage = "picking"
          /\ name \in run.picked \ DOMAIN run.fresh
       \/ run.stage = "pause" /\ name = run.name
    /\ NotLaunched(name) \/ Launched(name)
    /\ UNCHANGED <<docker, entry, results, outage, picks, flips, edits>>

(* The session ends in a failure that reads like `word`. *)
Failed(word) ==
    LET boot  == run.stage = "tools/list"
        class == ClassOf(boot, word)
        asked == class = "SANDBOX_UNAVAILABLE" /\ run.sandbox
        alive == IF ~asked THEN run.alive ELSE IF Alive THEN "yes" ELSE "no"
    IN  run' = Attempted(Result("fail", Believed(run.sandbox, class, Alive),
                                boot, NoSurface), alive)

Unmoved == UNCHANGED <<docker, entry, results, outage, picks, flips, edits>>

(* initialize is answered; an error ends the handshake after it was reached. *)
AnswersInitialize ==
    /\ run.stage = "initialize" /\ run.serving
    /\ \/ run' = [run EXCEPT !.stage = "tools/list"]
       \/ \E word \in Words :
            run' = Attempted(Result("fail", ClassOf(TRUE, word), TRUE, NoSurface),
                             run.alive)
    /\ Unmoved

(* tools/list is answered with tools, or with an error or no array of tools *)
(* at all: the class PROTOCOL given to the last is overwritten by the       *)
(* classification that follows both.                                        *)
AnswersToolsList ==
    /\ run.stage = "tools/list" /\ run.serving
    /\ \/ \E s \in Surfaces :
            run' = Attempted(Result("pass", IF s = Empty THEN "NO_TOOLS" ELSE "none",
                                    TRUE, s), run.alive)
       \/ \E word \in Words : Failed(word)
    /\ Unmoved

(* The process ends and its stdout with it. *)
Exits ==
    /\ run.stage \in InSession
    /\ \E word \in Words \ {"timeout"} : Failed(word)
    /\ Unmoved

(* The time for the whole handshake is over. *)
TimesOut ==
    /\ run.stage \in InSession
    /\ run' = Attempted(Result("fail", "TIMEOUT", run.stage = "tools/list",
                               NoSurface), run.alive)
    /\ Unmoved

-----------------------------------------------------------------------------
(* The report. *)

Answered(fresh) == {n \in DOMAIN fresh : fresh[n].status \in {"pass", "fail"}}

(* Mutant of NotRun: a launcher that is not installed is no gap.            *)
NotRunSandboxOnly(picked, fresh) ==
    (picked \ DOMAIN fresh) \cup
    {n \in DOMAIN fresh : fresh[n].class = "SANDBOX_UNAVAILABLE"}

NotRun(picked, fresh) ==
    (picked \ DOMAIN fresh) \cup
    {n \in DOMAIN fresh : fresh[n].class \in {"launcher", "SANDBOX_UNAVAILABLE"}}

(* evalDecision and exitCode, without the switches for drift and scan.      *)
Exit(picked, fresh, aborted, strict) ==
    LET gap     == aborted \/ NotRun(picked, fresh) # {}
        nothing == Answered(fresh) = {}
        failed  == \E n \in DOMAIN fresh : fresh[n].status = "fail"
    IN  IF strict /\ (failed \/ (gap /\ ~nothing)) THEN 1
        ELSE IF gap /\ nothing THEN 2 ELSE 0

(* Mutant of Stored: the planned list is taken for what was attempted.      *)
StoredPlanned(old, fresh) ==
    [n \in Names |-> IF n \in DOMAIN fresh THEN fresh[n]
                     ELSE IF n \in run.picked THEN NoResult ELSE old[n]]

(* Results of entries this run did not touch are kept.                      *)
Stored(old, fresh) ==
    [n \in Names |-> IF n \in DOMAIN fresh THEN fresh[n] ELSE old[n]]

(* --strict matters here and nowhere earlier.                               *)
Write(strict) ==
    /\ \/ run.stage = "aborted"
       \/ run.stage = "picking" /\ run.picked = DOMAIN run.fresh
    /\ results' = Stored(results, run.fresh)
    /\ run' = [stage |-> "ended", strict |-> strict,
               exit |-> Exit(run.picked, run.fresh, run.stage = "aborted", strict)]
    /\ UNCHANGED <<docker, entry, outage, picks, flips, edits>>

(* The process is killed: nothing is written. *)
Dies ==
    /\ run.stage \notin Between
    /\ run' = Idle
    /\ Unmoved

Proceeds ==
    \/ TimesOut
    \/ \E strict \in BOOLEAN : Write(strict)
    \/ \E n \in Names : Attempt(n)

Next ==
    \/ DockerChanges
    \/ \E n \in Names, new \in Entries : EditEntry(n, new)
    \/ \E picked \in Picks, sandbox \in BOOLEAN :
        Start(picked, sandbox)
    \/ AnswersInitialize \/ AnswersToolsList \/ Exits
    \/ Proceeds
    \/ Dies

(* The timer fires, and the event loop runs what follows. *)
Spec == Init /\ [][Next]_vars /\ WF_vars(Proceeds)

-----------------------------------------------------------------------------
RunTypeOK ==
    CASE run.stage = "idle"  -> run = Idle
      [] run.stage = "ended" ->
            run.strict \in BOOLEAN /\ run.exit \in 0 .. 2
      [] OTHER ->
            /\ run.stage \in InSession \cup {"picking", "pause", "aborted"}
            /\ run.picked \subseteq Names /\ DOMAIN run.fresh \subseteq run.picked
            /\ \A n \in DOMAIN run.fresh : run.fresh[n] \in Results
            /\ run.streak \in 0 .. SandboxLimit
            /\ run.alive \in {"unasked", "yes", "no"}
            /\ run.first \in Results \cup {NoFirst}
            /\ {run.sandbox, run.serving} \subseteq BOOLEAN

TypeOK ==
    /\ docker \in BOOLEAN
    /\ entry \in [Names -> Entries]
    /\ results \in [Names -> Results \cup {NoResult}]
    /\ outage \in BOOLEAN
    /\ RunTypeOK

(* A failure is set aside as the sandbox's, and counts towards stopping the *)
(* run, only for a server that never answered and, under --sandbox, only if *)
(* docker really was down while the process ran.  (smokeEntry: "a hostile   *)
(* entry would just print" the words.)                                      *)
SkippedForAnOutage ==
    /\ TypeOK
    /\ run.stage \notin Between =>
          \A n \in DOMAIN run.fresh :
              run.fresh[n].class = "SANDBOX_UNAVAILABLE" =>
                  /\ ~run.fresh[n].boot
                  /\ run.fresh[n].status = "skip"
                  /\ run.sandbox => outage

(* A run that stops early, or is killed, costs no entry it did not get to   *)
(* its stored result.  (main: "an early stop deleted the stored results of  *)
(* every entry the run never got to".)                                      *)
UnreachedKept ==
    [][\A n \in Names : results'[n] # results[n] =>
            run.stage \notin Between /\ n \in DOMAIN run.fresh]_vars

(* A server seen with another surface than the stored one is reported, also *)
(* when only the retry saw it, and the change is called unexplained only    *)
(* between two runs of one artifact under one launch.  (finalize,           *)
(* surfaceDrift: "Readers must not coerce it".)                             *)
DriftIsTold ==
    [][\A n \in Names :
        LET before == results[n]
            after  == results'[n]
        IN  after # before /\ HasSurface(before) /\ HasSurface(after) =>
            /\ (after.drift = NoDrift) = (after.surface = before.surface)
            /\ after.drift = "unexplained" =>
                /\ after.identity = before.identity
                /\ after.identity.artifact # NoId]_vars

(* A run that ends well did what was asked: not everything went unchecked   *)
(* and, under --strict, every entry that can be launched as written passed. *)
(* (evalDecision: "a run that did not deliver what was asked for".)         *)
Unaskable(result) == result.class \in {"NEEDS_ARGS", "refused"}

ExitIsHonest ==
    [][run.stage \notin Between /\ run'.stage = "ended" =>
        LET asked  == {n \in run.picked : n \in DOMAIN run.fresh
                                            => ~Unaskable(run.fresh[n])}
            passed == {n \in DOMAIN run.fresh : run.fresh[n].status = "pass"}
        IN  run'.exit = 0 =>
                /\ asked # {} => Answered(run.fresh) # {}
                /\ run'.strict => asked = passed]_vars

(* Every run ends, whatever the servers and docker do. *)
RunEnds == run.stage \notin Between ~> run.stage \in Between
=============================================================================
