--------------------------- MODULE FindingReports ---------------------------
(***************************************************************************)
(* .github/scripts/finding_reports.cjs: drafts for the authors of entries  *)
(* with a finding, written by a maintainer's run from what is stored - the *)
(* evidence, the newest eval, the plan `mcp-vault upgrade --json` printed  *)
(* earlier - while verify, eval and refreshes go on and move the pin.  One *)
(* entry moves; the records of the others stay as they are.  The drafts    *)
(* and their index go to a directory, file by file, and the run may be     *)
(* killed at any of them.                                                  *)
(***************************************************************************)
EXTENDS Upgrade

CONSTANTS
    Entry,          \* the entry that moves
    Others,         \* name |-> [pin, evidence, drift, repo]: the rest
    HasRepo,        \* the entry's source_url is a GitHub repository
    MaxAge,         \* dimension |-> its shelf life in days
    LastDay,
    MaxRuns, MaxTurns   \* bounds on the runs and on what happens between them

Names == DOMAIN Others \cup {Entry}
Dims == DOMAIN MaxAge

IsEvidence(e) == e = Null \/ (DOMAIN e.dims \subseteq Dims /\ \A d \in DOMAIN e.dims : e.dims[d].on \in Nat)
IsDrift(d) == d = Null \/ d.on \in Nat

ASSUME FindingReportsConstants ==
    /\ Entry \notin DOMAIN Others /\ "index" \notin Names
    /\ {"advisories", "availability", "smoke"} \subseteq Dims
    /\ \A d \in Dims : MaxAge[d] \in Nat
    /\ \A n \in DOMAIN Others : IsEvidence(Others[n].evidence) /\ IsDrift(Others[n].drift)
    /\ {LastDay, MaxRuns, MaxTurns} \subseteq Nat

VARIABLES
    evidence,       \* Null, or [of, dims: dimension |-> [status, on]]: the entry's
    eval,           \* Null, or [of, on, drift]: its newest eval
    upgradeFile,    \* the row `upgrade --json` printed, or Null
    today,
    dir,            \* the output directory: name |-> content
    run,            \* the run under way
    runs, turns     \* how many so far (bounds)
reportVars == <<adviceVars, evidence, eval, upgradeFile, today, dir, run, runs, turns>>
stored == <<evidence, eval, upgradeFile, today>>

Resting == [pc |-> "idle"]

ReportsInit ==
    /\ UpgradeInit
    /\ evidence = Null /\ eval = Null /\ upgradeFile = Null
    /\ today = 1 /\ dir = <<>> /\ run = Resting /\ runs = 0 /\ turns = 0

-----------------------------------------------------------------------------
(* Mutant: the evidence is the entry's, whatever release it was taken of. *)
EvidenceAboutEntry(tool) == IF tool.evidence = Null THEN {} ELSE DOMAIN tool.evidence.dims

(* The stored evidence about what the entry installs today; of a release   *)
(* before it, only that the very name is gone.                             *)
EvidenceAboutArtifact(tool) ==
    LET e == tool.evidence IN
    IF e = Null THEN {}
    ELSE {d \in DOMAIN e.dims :
            e.of = tool.pin \/ (d = "availability" /\ e.dims[d].status = "gone")}

(* Which answers are an author's business, and the draft they belong in. *)
TypeOf(dim, status) ==
    CASE dim = "advisories" /\ status \in {"vulnerable", "advisories-present"} -> "advisory"
      [] dim \in {"source_binding", "registry"} /\ status \in {"mismatch", "contradicted", "withdrawn"} -> "identity"
      [] dim = "dependencies" /\ status = "hooks" -> "dependency-hooks"
      [] dim = "availability" /\ status \in {"gone", "version-gone", "yanked", "deprecated"} -> "availability"
      [] OTHER -> Null

IsStale(dim, on, day) == day > on + MaxAge[dim]

(***************************************************************************)
(* The findings of one entry on a day: one for each such answer, and one   *)
(* for a surface that moved while the artifact did not.  A plan made for   *)
(* another version is not used; one whose feed did not answer has no IDs.  *)
(***************************************************************************)
PlanFor(tool, row) == IF row # Null /\ row.current = tool.pin THEN row ELSE Null

FindingsFor(tool, row, day) ==
    LET e == tool.evidence
        plan == PlanFor(tool, row)
        told == {d \in EvidenceAboutArtifact(tool) : TypeOf(d, e.dims[d].status) # Null}
        fact(type, dim, status, of, on) ==
            [type |-> type, dim |-> dim, status |-> status, of |-> of, on |-> on,
             stale |-> IsStale(dim, on, day), plan |-> IF type = "advisory" THEN plan ELSE Null]
        read(d) == fact(TypeOf(d, e.dims[d].status), d, e.dims[d].status, e.of, e.dims[d].on)
    IN  {read(d) : d \in told}
        \cup (IF tool.drift # Null /\ tool.drift.unexplained
              THEN {fact("surface-unexplained", "smoke", "drift", tool.drift.of, tool.drift.on)} ELSE {})

AdvisoriesMissing(f) ==
    f.type = "advisory" /\ (f.plan = Null \/ f.plan.vulns = Null)

Target(f) == IF f.plan # Null /\ f.plan.state = "upgrade" THEN f.plan.target ELSE Null

Draft(name, tool, row, day) ==
    LET findings == FindingsFor(tool, row, day)
    IN  [name |-> name, pin |-> tool.pin, day |-> day, findings |-> findings,
         ready |-> /\ tool.repo
                   /\ \A f \in findings : ~f.stale /\ ~AdvisoriesMissing(f)]

(* buildReports: an entry without a finding is not in the output at all. *)
Database ==
    LET drift == IF eval = Null THEN Null
                 ELSE [of |-> eval.of, on |-> eval.on, unexplained |-> eval.drift]
        entry == [pin |-> pin, evidence |-> evidence, drift |-> drift, repo |-> HasRepo]
    IN  [n \in Names |-> IF n = Entry THEN entry ELSE Others[n]]

BuildReports ==
    LET draft(n) == Draft(n, Database[n], IF n = Entry THEN upgradeFile ELSE Null, today)
    IN  {d \in {draft(n) : n \in DOMAIN Database} : d.findings # {}}

-----------------------------------------------------------------------------
(***************************************************************************)
(* writeReports.  A directory that is not empty must hold an index of an   *)
(* earlier run and nothing it does not list; then everything in it goes,   *)
(* and the drafts are written, the index after them.  In which order the   *)
(* directory is listed and the drafts are written no property asks; which  *)
(* names the index listed (`ours`) is kept for the properties.             *)
(***************************************************************************)
Theirs == [kind |-> "theirs"]       \* a file this did not write
Torn == [kind |-> "torn"]           \* one whose write was cut short
DraftFile(d) == [kind |-> "draft", draft |-> d]
IndexFile(drafts) == [kind |-> "index", drafts |-> drafts]

Readable == "index" \in DOMAIN dir /\ dir["index"].kind = "index"
Listed == IF Readable THEN dir["index"].drafts ELSE {}
Ours == IF Readable THEN {"index"} \cup {d.name : d \in Listed} ELSE {}

(* Mutant: a directory with an index is this program's own. *)
StartReportsAnywhere ==
    /\ run.pc = "idle" /\ runs < MaxRuns
    /\ runs' = runs + 1
    /\ run' = IF DOMAIN dir # {} /\ ~Readable
              THEN Resting
              ELSE [pc |-> "write", built |-> BuildReports, ours |-> Ours, left |-> DOMAIN dir,
                    todo |-> {d.name : d \in BuildReports}]
    /\ UNCHANGED <<adviceVars, stored, dir, turns>>

StartReports ==
    /\ run.pc = "idle" /\ runs < MaxRuns
    /\ runs' = runs + 1
    /\ run' = IF DOMAIN dir # {} /\ (~Readable \/ DOMAIN dir \ Ours # {})
              THEN Resting
              ELSE [pc |-> "write", built |-> BuildReports, ours |-> Ours, left |-> DOMAIN dir,
                    todo |-> {d.name : d \in BuildReports}]
    /\ UNCHANGED <<adviceVars, stored, dir, turns>>

RemoveOne ==
    /\ run.pc = "write"
    /\ \E f \in run.left :
          /\ dir' = [g \in DOMAIN dir \ {f} |-> dir[g]]
          /\ run' = [run EXCEPT !.left = @ \ {f}]
    /\ UNCHANGED <<adviceVars, stored, runs, turns>>

With(f, content) == [g \in DOMAIN dir \cup {f} |-> IF g = f THEN content ELSE dir[g]]

WriteDraft ==
    /\ run.pc = "write" /\ run.left = {}
    /\ \E f \in run.todo :
          /\ dir' = With(f, DraftFile(CHOOSE d \in run.built : d.name = f))
          /\ run' = [run EXCEPT !.todo = @ \ {f}]
    /\ UNCHANGED <<adviceVars, stored, runs, turns>>

WriteIndex ==
    /\ run.pc = "write" /\ run.left = {} /\ run.todo = {}
    /\ dir' = With("index", IndexFile(run.built))
    /\ run' = Resting
    /\ UNCHANGED <<adviceVars, stored, runs, turns>>

(* Killed: the file it was at may be cut short. *)
Kill ==
    /\ run.pc = "write"
    /\ run' = Resting
    /\ \/ dir' = dir
       \/ /\ run.left = {}
          /\ \E f \in IF run.todo = {} THEN {"index"} ELSE run.todo : dir' = With(f, Torn)
    /\ UNCHANGED <<adviceVars, stored, runs, turns>>

-----------------------------------------------------------------------------
(* What the rest of the project does meanwhile, when no report is written. *)
(* An answer about today's pin: what is stored of another release goes.    *)
Merged(dim, status) ==
    LET known == IF evidence # Null /\ evidence.of = pin THEN evidence.dims ELSE <<>>
    IN  [of |-> pin,
         dims |-> [d \in DOMAIN known \cup {dim} |->
                     IF d = dim THEN [status |-> status, on |-> today] ELSE known[d]]]

(* verify --record-evidence, and availability --write: each its dimension. *)
Verify ==
    /\ evidence' = Merged("advisories", IF OsvFor(pin) = {} THEN "clean" ELSE "vulnerable")
    /\ UNCHANGED <<adviceVars, eval, upgradeFile, today, dir>>

CheckAvailability ==
    /\ evidence' = Merged("availability", IF published = {} THEN "gone"
                                          ELSE IF pin \in published THEN "present" ELSE "version-gone")
    /\ UNCHANGED <<adviceVars, eval, upgradeFile, today, dir>>

Eval ==
    /\ \E drift \in BOOLEAN : eval' = [of |-> pin, on |-> today, drift |-> drift]
    /\ UNCHANGED <<adviceVars, evidence, upgradeFile, today, dir>>

(* verify --update: the pin moves; evidence and eval stay as they are. *)
ApplyRefresh ==
    /\ \E v \in published \ {pin, Odd} : pin' = v
    /\ UNCHANGED <<feed, published, advice, stored, dir>>

SaveUpgrade ==
    /\ advice.pc = "done" /\ upgradeFile' = advice
    /\ UNCHANGED <<adviceVars, evidence, eval, today, dir>>

NextDay ==
    /\ today < LastDay /\ today' = today + 1
    /\ UNCHANGED <<adviceVars, evidence, eval, upgradeFile, dir>>

(* The maintainer puts a file there, edits a draft, or empties it. *)
TouchDirectory ==
    /\ \/ \E f \in Names \cup {"index"} : dir' = With(f, Theirs)
       \/ dir # <<>> /\ dir' = <<>>
    /\ UNCHANGED <<adviceVars, stored>>

Meanwhile ==
    /\ run.pc = "idle" /\ runs < MaxRuns
    /\ \/ /\ AskNow \/ AskPublished \/ AskTarget \/ AskLatest
          /\ UNCHANGED <<stored, dir, turns>>
       \/ /\ turns < MaxTurns /\ turns' = turns + 1
          /\ \/ /\ StartUpgrade \/ MoveFeed
                /\ UNCHANGED <<stored, dir>>
             \/ Verify \/ CheckAvailability \/ Eval \/ ApplyRefresh \/ SaveUpgrade \/ NextDay \/ TouchDirectory
    /\ UNCHANGED <<run, runs>>

ReportsNext == StartReports \/ RemoveOne \/ WriteDraft \/ WriteIndex \/ Kill \/ Meanwhile

ReportsSpec == ReportsInit /\ [][ReportsNext]_reportVars

-----------------------------------------------------------------------------
(***************************************************************************)
(* A draft called ready is fresh on the day it was built: what it takes    *)
(* from the stored evidence is about what the entry installed then, or     *)
(* that the very name is gone; its advisories are the feed's answer about  *)
(* that version, and the release it points to was asked about and had      *)
(* none.  Of what an eval saw only the freshness is said: it may be of the *)
(* release before (DriftIsOfToday).  (finding_reports.cjs: a finding that  *)
(* was fixed last week is the worst thing to put in somebody's tracker.)   *)
(***************************************************************************)
OfEval(f) == f.type = "surface-unexplained"

ReadyIsCurrent ==
    run.pc = "write" =>
       \A d \in run.built : d.ready =>
          \A f \in d.findings :
             /\ d.day <= f.on + MaxAge[f.dim]
             /\ OfEval(f) \/ f.of = d.pin \/ (f.type = "availability" /\ f.status = "gone")
             /\ f.type = "advisory" => f.plan # Null /\ f.plan.current = d.pin
             /\ Target(f) # Null => Target(f) \in f.plan.clean

(***************************************************************************)
(* Whenever an index can be read, every draft beside it is one it lists,   *)
(* as it lists it - after any number of kills, between any two writes; and *)
(* a run never removes or replaces somebody's file under a name that no    *)
(* index listed.  (writeReports: "this must not delete what it did not     *)
(* write".  A draft that was edited goes with the rest: EditsAreKept.)     *)
(***************************************************************************)
Kept(f) == f \in DOMAIN dir' /\ dir'[f] = Theirs

DirectoryIsKept ==
    [][/\ (Readable /\ run.pc = "idle") =>
             \A f \in DOMAIN dir : dir[f].kind = "draft" => dir[f].draft \in Listed
       /\ run.pc = "write" =>
             \A f \in DOMAIN dir \ run.ours : dir[f] = Theirs => Kept(f)]_reportVars

(* The same of every file somebody put there. *)
EditsAreKept ==
    [][run.pc = "write" => \A f \in DOMAIN dir : dir[f] = Theirs => Kept(f)]_reportVars

(***************************************************************************)
(* A draft says of no artifact what was seen of the one before it.         *)
(* (finding_reports.cjs: "only evidence about the artifact the entry       *)
(* installs today".)                                                       *)
(***************************************************************************)
DriftIsOfToday ==
    run.pc = "write" =>
       \A d \in run.built : \A f \in d.findings :
          f.type = "surface-unexplained" => f.of = d.pin
=============================================================================
