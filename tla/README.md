# Verification of mcp-skills-vault

TLA+ models of the vault's scripts, the TLC runs that check them on small instances,
and theorems about them proved with TLAPS. Paths are relative to
`src/mcp-ecosystem-intelligence/scripts/` unless they start with `src/`; `PROJECT.json`
("map") gives the lines every definition was translated from.

1. [The system](#1-the-system)
2. [The modules](#2-the-modules)
3. [Runs, bounds, fairness](#3-runs-bounds-fairness)
4. [What is proved](#4-what-is-proved)
5. [Where code and documentation disagree](#5-where-code-and-documentation-disagree)
6. [What is not modelled](#6-what-is-not-modelled)
7. [Plan](#7-plan)

## 1. The system

The vault is a set of Node scripts without a server and without a lock: every command is
a process that reads JSON files, asks registries or starts MCP servers for seconds to
minutes, and writes whole JSON files back. Its files are the state of the system:

| file | written by | read by |
|---|---|---|
| `tools_database.json` | verify, availability, identity, posture, docker-drift, eval, refresh_scores, pull requests | everything |
| `eval_results.json` | eval | lock, approve, gate, token_budget, reports |
| `mcp.lock.json` | lock, approve | gate, lock --check |
| policy files (managed, extended, project) | people | every command that decides |
| `tools_database.json.sig`, the keyring | sign_db, the release job | every command of an installed package |
| audits, import config, import lock | audits add / fetch, people | the decision engine |
| the configs of five hosts | install, the hosts, people | install, audit, status, lock, eval --installed |
| drafts for authors | finding_reports | a maintainer |

plus the HTTP cache directory that all processes of a user share. The behaviours that
are hard follow from that: read-work-write cycles that overlap; copies that are stale
when they are written; answers about one release met under another after a pin moved;
dates (shelf lives, `--as-of`) read in the wrong direction; an outage that reads as an
answer; a failure of the environment blamed on a server; policies layered over each
other.

### Components

For each: the state it keeps; its operations; what it interacts with; what is hard; what
makes it correct.

* **Stored evidence** (`lib/evidence.cjs`). No state of its own: a record is one status
  with `checked_at` and `verified_at` per dimension, and an artifact id. Operations:
  build, merge, age, derive the word, replay at an instant. Called by every writer of
  the database. Hard: merging in the wrong order, across releases, over a result that
  confirms nothing. Correct: no answer is made up, moved, or read before it was given.
* **The vetted database** (`lib/db_io.cjs` and the `--record-evidence` / `--write` ends of
  verify, availability, identity, posture, docker-drift, eval). State: the file and each
  process's copy. Hard: overlapping processes, one dying, a pin edited meanwhile, eval
  reading twice. Correct: as above, for the file; `trust` and the tier are earned.
* **HTTP with an on-disk cache** (`lib/http.cjs`). State: cache records; the request under
  way. Operations: fresh hit, conditional request, 304, retry, stale fallback. Shared
  between processes through the directory. Hard: a 304 that confirms a copy another
  process replaced, exhausted retries, a body cut short. Correct: what is not marked
  stale is recent.
* **Is it still published** (`check_availability.cjs`). Two requests in a row; the verdict
  must tell an outage from an absence. Writes the `availability` dimension.
* **Tool approvals** (`lib/tool_approval.cjs`, `approve.cjs`, `lib/surface.cjs`). State:
  `tool_approvals` in the lock file. Hard: lock running for minutes beside approve;
  partial approvals; an upgrade in between. Correct: nothing reaches the model that
  nobody approved.
* **Lock file** (`lock.cjs`, `lib/lockfile.cjs`, `lib/deps.cjs`). State: servers with their
  frozen trees, approvals, and the vendored trees. Operations: lock, `--check`, `--vendor`.
  Hard: a server that did not resolve, two under one name, a killed write. Correct: a
  check or a vendoring that ends well is about the trees that were locked.
* **Decision engine and rule table** (`lib/finding.cjs`, `lib/policy_rules.cjs`,
  `lib/findings_from.cjs`, `lib/run_decision.cjs`, `explain.cjs`). Pure: findings and facts
  to outcomes, outcomes to an exit code. Hard: precedence of rows, `unknown` under a
  threshold, flags. Correct: tightening a policy never admits more.
* **Policy** (`lib/policy.cjs`, `lib/org_policy.cjs`). State: up to three files. Operations:
  normalise, find, extend, merge, conflicts. Hard: implied defaults, lists per layer,
  broken or missing files. Correct: every layer holds; what loads is what was written.
* **Integrity gate** (`verify_integrity.cjs`, `lib/npm_signatures.cjs`, `lib/oci.cjs`,
  `lib/tarball.cjs`). State of a run: the feeds' answers, by package or by position; the
  manifests; report lines; failure counters beside the decision. Hard: one of many requests
  silent; a severity nobody could read; two answers about one advisory; two ways of
  counting. Correct: what reads OK was seen and was good, a confirmed advisory is never
  unsaid, and both ways of counting agree.
* **Behavioural smoke** (`mcp_eval.cjs`, `lib/mcp_stdio.cjs`). State: `eval_results.json`,
  the session under way, failures in a row, docker's answer. Hard: timers against
  answers, retry, early stop, who is to blame. Correct: section 2, Smoke.
* **Database signature** (`lib/signing.cjs`, `lib/db_signature.cjs`, `sign_db.cjs`,
  `check_signature.cjs`, `src/bin/`). State: the working tree's database, signature and
  keyring; the released packages; what a user has installed. Hard: windows of validity,
  revocation, a signature read before and written after an edit. Correct: a command goes on
  only over bytes a trusted key signed, and a release is accepted by its own package.
* **Audits** (`lib/audits.cjs`, `audits.cjs`). State: a project's own audits, the sources it
  imports from, the lock of what it fetched. Hard: keys and criteria that change after a
  fetch, bundles that hold other people's audits, a fetch that fails half way. Correct: an
  imported audit was made by the project whose key signed it.
* **Tiers and scores** (`lib/tiers.cjs`, `lib/scores.cjs`, `refresh_scores.cjs`, ...). Pure
  functions of an entry and an instant. Correct: a tier is about these bytes.
* **Flows, shadowing, budget** (`lib/flows.cjs`, `lib/budget.cjs`). Pure functions of a set
  of servers' tools. Hard: legs spread over several servers; order. Correct: every set that
  holds both ends is told, and names only servers that hold one.
* **Launch commands and host configs** (`lib/install_cmd.cjs`, `lib/hosts.cjs`,
  `lib/installed.cjs`, `lib/entry_match.cjs`, `orchestrate.cjs`). State: the config files of
  five hosts. Hard: the install's order of check, pin, backup and write, and three readers
  of one command line. Correct: no server is lost, and what is written is read back as what
  was judged.
* **Reports on a setup** (`audit_setup.cjs`, `status.cjs`, ...). Pure readings of host
  configs, database, policy and settings. Hard: configs that do not parse, rows one report
  has and the other lacks. Correct: an exit 0 was earned, and status fails where audit does.
* **Observers** (`check_availability`, `check_identity`, `check_posture`,
  `check_capabilities`, `suggest_upgrade`, `check_docker_drift`, `check_license_drift`). Each
  asks a service one question per entry. Hard: some answers missing, or all. Correct: a
  finding is told whatever else failed, and an outage does not read as clean.
* **Upgrade advice** (`suggest_upgrade.cjs`, `lib/versions.cjs`). Three questions to two
  services while both change. Correct: a recommended target was asked about.
* **Drafts for authors** (`src/.github/scripts/finding_reports.cjs`). State: the output
  directory. Hard: plans, evals and evidence of another day and release; a run killed
  between two files. Correct: a ready draft holds nothing stale, and what it takes from evidence and
  plans is about the release pinned today.
* **Lookalikes** (`lib/lookalike.cjs`). Pure: names reduced and compared.
* Other **content scanners** (`lib/tool_scan.cjs`, `lib/secrets.cjs`), **discovery and
  registry ingest** (`discover.cjs`, `registry_ingest.cjs`, `lib/registry_snapshot.cjs`, ...),
  **badges, SBOM, wrappers**, **clock** (`lib/clock.cjs`), **runner health**
  (`ci_health.cjs`), **command line** (`src/bin/mcp-vault.cjs`), **workflows**
  (`src/.github/`): readers, renderers, text patterns and dispatch. `PROJECT.json` says of
  each what is modelled or why it is not.

## 2. The modules

```
Evidence ──> Tier ─┬> VaultDb ──> MCVaultDb, VaultDbProofs
                   └> OrgPolicy ──> Decision ──> PolicyInForce ──> MCPolicyInForce, GateProofs
Gate ──> MCGate, GateProofs
Smoke ──> MCSmoke, MCSmokeBaseline, SmokeProofs
ToolApproval ──> MCToolApproval, HostFilesProofs
Signing ─┬> SignedDb ─┬> MCSignedArtifacts, VaultDbProofs
         └> Audits ───┘
Http ──> Availability ──> RegistryProofs
Versions ─┬> VersionProofs ──> RegistryProofs
          ├> Observers
          └> Upgrade ──> FindingReports ──> MCAdvice, RegistryProofs
Launch ─┬> LaunchProofs ──> HostFilesProofs, ReadingsProofs
        └> HostConfig ─┬> Install ───────┬> MCHostFiles, HostFilesProofs
                       │      ServerLock ┘
                       └> SetupAudit ──> Readings ──> MCReadings, ReadingsProofs
Flows, Lookalike
```

Each arrow is an EXTENDS. `Gate` also instantiates `AdvisoryLook`, the abstract
specification it implements; `SetupAudit` instantiates `Flows` and `Lookalike`, and
`Readings` instantiates `Lookalike`, `Versions` and `Observers`. The run of Availability needs no
MC module. No module declares a RECURSIVE operator. A definition called
"Mutant of X" beside X is a plausible bug in X; the mutation check puts it in X's place
and expects the property named in `PROJECT.json` to break.

**Evidence** (pure). `lib/evidence.cjs`: what a look records (`BuildEvidence`,
`SmokeEvidence`), how two records merge per dimension and per artifact (`MergeAnswer`,
`SameArtifact`, `MergeEvidence`), shelf lives (`StaleDimensions`, `MaxAgeForPolicy`), the
word (`DeriveTrust`), the replay (`EvidenceAsOf`). Days are integers; statuses are those the
code writes.

**Tier** (pure). `lib/tiers.cjs`: `TierOf` a record at a day, with the binding of evidence
to the artifact.

**VaultDb**. The database as the commands write it. `db` is the file; `run[w]` a process
with the instant and the copy it started from. `StartRun` reads (`readDb`), `Finish`
computes every entry and writes the whole file (`WriteDb`); `EndRunUnwritten` is a process
that dies or has nothing to write; `EditEntry` is a pull request; `Tick` the clock. The
kinds: *verify* (`VerifiedEntry`: merge, then derive the word), *availability* (merge, and
only ever take the word away), *survey* (identity and posture: merge, word untouched),
*update* (docker-drift: moves the pin), *eval* (re-reads the file when its servers have
run, and drops what it cannot attribute: `Attributable`). Network and servers are the
check results a run may come back with. `looks` records every answer that was really
given, `overwrote` whether a process replaced a file it had not read; both are history,
nothing reads them but properties.

**Http** and **Availability**. A request is `request()` with its attempts: `Request` (cache
hit or not), `Respond`/`CutShort` (what `once` resolves with, or a body that never ends),
`Receive` (304, 200, retry, give up). `Availability` composes it: a look asks for the
version, and after a definitive absence for the package. `doc` and `last` are what the
registry serves and served.

**ToolApproval**. One server's approvals. `lock` and `approve` are two-step processes (read;
write), `Eval` replaces the recorded surface, `Upgrade` the launched artifact. `GateAnswer`
is the org model every gate command asks. `signed`
records what a person approved.

**OrgPolicy**, **Decision** (pure) and **PolicyInForce**. `OrgPolicy` is what a file says
once normalised, and `mergeStricter` with its conflicts over the managed, the extended and
the project's file. `Decision` is `decide()` over the rows that judge an entry from its
record. In `PolicyInForce` people write keys, erase them, empty, break or remove files, and
the properties ask what is in force in each resulting state.

**Smoke**. One `mcp_eval` process over the picked entries, and what it
leaves in `eval_results.json`. Stages: *picking* (the loop of `main`), *initialize* and
*tools/list* (the session of `smokeEntry`), *pause* (before the retry), *aborted*, *ended*
(with the exit code). `Attempt` goes as far as a process that was started, or to a skip;
`AnswersInitialize`, `AnswersToolsList`, `Exits`, `TimesOut` end or advance the session;
each runs through `ClassOf` (classifyFailure), `Believed` (the docker probe), `Attempted`
(retry, skip, failures in a row) and `Recorded` (drift, early stop) in that order, as one
step, since the event loop does. The container may go with the daemon (`DockerChanges`).
`MCSmokeBaseline` adds a history variable, `last`: the last surface that was recorded.

**Gate** and **AdvisoryLook**. One live run of `verify_integrity.cjs`. `run` is the
invocation (servers, flags, policy keys); `todo` the questions still to ask, out of an `Agenda` that `Before` puts
in the order `main` awaits them, one action each (`Take` removes the one whose `Turn` it is): `FetchNpmAdvisories`, `FetchOsvAdvisories`,
`FetchGhsaAdvisories`, `FetchSnykAdvisories`, `EnrichOsvVulns` (the record behind a stub),
`FetchManifest`, `ResolveTree`. An answer is kept where the code keeps it: `Read` returns
what a processor reads back, which for npm, GHSA and Snyk is the last answer about any
server of the package. `Process` is `processNpm`, `processPypi`, `processDocker` or an
early return: report lines with the findings their tags stand for (`TagModel`), the
counters, the evidence that is recorded. `Judge` adds stale stored evidence (`Aged`), takes
the decision over the lines (`DecisionFails`) and settles the counters (`Settled`).
`AdvisoryLook` is what is promised of one server's advisories, without keys, ids, batches
or merging: feeds are heard, then the worst thing said is concluded. The requests of a
stage run concurrently in the code; their answers are stored by question and read after the
last, so that the order of arrival cannot be seen and the model asks them in turn.

**Signing** (pure), **SignedDb** and **Audits**. `Signing` is `lib/signing.cjs`: the keyring as
it is read (`NormalizeKeys`: windows, revocation, ids that must be the key's own) and what
it makes of an envelope (`VerifyCanonical`, in the order of the code's refusals). An
envelope is the key, the value and the day it was made over; it verifies when all three
agree. `SignedDb` has three copies of the files: the working tree (edits, `SignRead` and
`SignWrite` with anything in between, rotation), the releases (`Release` is the steps of
release.yml in their order, with the package's own check) and the package of a user. A
package comes from a release, or from `PreCommitInstall`, which packs a commit and whose hook
reads the database of its clone: `VerifyFile` and `SignatureRequired` say who asks for what,
`HookAsks` which question the hook puts. `Audits` is the life of a record: `Add`, `Export`,
`NewKey`, `StartFetch`/`FetchSource`/`FetchEnds`, edits of config and lock, and `InForce`, what
the decision engine reads of the lock (`LoadImportedAudits`).

**Launch** (pure), **HostConfig** and **Install**. A command line is a runner and a sequence of
options and words. `ParseLaunch` reads it, `PinInstallCmd`, `RepinInstallCmd` and
`CanonicalInstallCmd` write it again. `HostConfig` is the files of five hosts: `HostScopes`, the
two keys a list may stand under, the reading with its order and its refusals, the entry a
launch is (`MatchLaunch`; `NamesOne` is when an entry's command and version agree on an artifact at
all). A list of the wrong type is replaced by a write, but an array is kept, and the server with it
is not in what is written (`Entered`). `Install` composes them as processes: an install reads the entry, a child
`verify` reads the database again and judges, the budget is checked, then the config is
read, backed up and written - each a step of its own, with other installs and changes of
the database between. `copied` is history: the file each install last copied.

**ServerLock**. The targets of a setup in the order they are read, what each resolves to
(`registry`, which changes while nobody looks), `mcp.lock.json` as it is written - truncated,
then filled - and the vendored trees. `lock`, `--check` and `--vendor` read, resolve server by
server, compare (`DiffLock`) and exit; any of them may be killed. `npm ci` is many steps: it empties
what is installed (`VendorOne`), puts the packages there (`InstallPackage`) and ends well or not
(`EndInstall`); killed or failed, it leaves those it got to.

**Flows** and **Lookalike** (pure). `Flows` labels tools by words and hints, unites labels per
server, and finds the sets that hold every leg of a kind; shadowing compares the names of
two servers. `Lookalike` reduces a name (separators, confusable letters, affixes, scope) and
says by which technique it resembles which entry.

**SetupAudit** (pure). `audit` and `status` over one setup: the files read, a row for each server,
the set, the findings and both exit codes.

**Versions** (pure), **Upgrade** and **FindingReports**. `Versions` is `lib/versions.cjs`: semver
and PEP 440 comparison and what is built on them. `Upgrade` is one entry's advice: `AskNow`,
`AskPublished`, `AskTarget`, `AskLatest`, each answered by the world of that moment or not at
all, and `PlanUpgrade` between them. `FindingReports` writes drafts from what is stored -
evidence, the newest eval, a plan printed earlier - while all three change. Evidence is a status
and a date for each dimension; `Verify` merges the advisories and `CheckAvailability` whether the
name and the version are still there, as `lib/evidence.cjs` does (`Merged`).
`BuildReports` is the decision per entry, `RemoveOne`, `WriteDraft` and `WriteIndex` the directory,
file by file, in any order among the drafts, with a kill at any of them. Between two runs the
maintainer may put a file under any name, a listed one too, or empty the directory
(`TouchDirectory`).

**Observers** (pure). For each of the seven observers: the row it makes of an answer, the findings
of its rows, and `ObserverExit`: `EffectOf`, `OutcomeFails` and `DecideRun`, the part of the
decision engine they all go through.

**Readings**. What these pure modules promise, as one specification: a behaviour is one input (a
command line, versions, a set of servers, two names, a setup, the answers of a service) and
nothing changes it. `IsReading` says what an input of each kind may be, of whatever size;
`MCReadings` enumerates small ones, the proofs take them all.

## 3. Runs, bounds, fairness

Runs that must pass:

| run | properties | hazard |
|---|---|---|
| `two_processes` (VaultDb) | `EvidenceSound` no answer made up or moved to another release; `VerifiedIsEarned`, `TierIsEarned`; `ReplayKnowsNoFuture`; `NewestAnswerHeld` in a step that leaves the record about its artifact, an answer yields only to a later look; `ConfirmationKept`; `OnlyEvidenceRaisesTheWord` | overlap, crash, moved pins, dates |
| `shared_cache` (Availability) | `CacheIsHonest` what is stamped or unmarked was true then; `VerdictIsEarned` an outage is no absence; `LookEnds` (liveness) | two processes, one cache, retries |
| `overlapping_runs` (ToolApproval) | `AllowedWasApproved`; `ApprovalSettles` an approval is whole, or keeps what nobody named | lock against approve |
| `three_files` (PolicyInForce) | `EveryLayerHolds`; `WrittenIsEnforced` | edits of layered files |
| `eval_runs` (Smoke) | `SkippedForAnOutage`; `UnreachedKept`; `DriftIsTold`; `ExitIsHonest`; `RunEnds` (liveness) | lying servers, outages, kills |
| `live_runs` (Gate) | `PassIsEarned` what reads OK, or is let through by a run that fails on the unchecked, was seen and was good, and the counters agree with the decision; `KnownIsRefused`; `ImplementsLook` (refinement of AdvisoryLook) | silent feeds, unread severities, order of judgement |
| `signed_artifacts` (SignedDb, Audits) | `RunsWhatWasSigned` a command that goes on reads bytes a key of its keyring signed while it was valid; `ReleasesRun` no later day, rotation or release turns a release off; `ImportsAreFirstHand`; `LockIsWhole` | rotation, revocation, edits between two steps, half a fetch |
| `host_files` (Install, ServerLock) | `NothingLost` where the file did not move between the copy and the write; `WrittenIsReadBack` what is written is read as what was judged, or the file, its list being an array, as broken; `CheckedIsLocked`; `VendoredWasLocked` only packages of a locked tree, all of them when it ends well | installs that overlap, hosts that edit, killed writes, half an `npm ci`, packages published meanwhile |
| `readings` (Launch, Versions, Flows, Lookalike, SetupAudit, Observers) | `LaunchIsKept` a pin is read back as itself; `VersionsInOrder` a total order, the standards'; `SetIsTold`; `LookalikeIsTold`; `ExitIsEarned` what a strict audit, status and the observers exit with | inputs nobody wrote a test for, some answers missing |
| `advice` (Upgrade, FindingReports) | `UpgradeIsConfirmed`; `ReadyIsCurrent` nothing stale, and no evidence, advisories or plan of another release, in a draft called ready; `DirectoryIsKept` | services that change between questions, moved pins, killed runs |

A type invariant is a run's property where a mutant can break it (`two_processes`,
`overlapping_runs`); the other modules' are conjuncts of their first property. Runs that must find
a violation are in section 5.

Bounds, and why they reach the interesting cases:

* `two_processes`: one entry (merges never look across entries), two releases it may pin,
  two processes, three recorded runs, days 0 to 2 with shelf lives of one day, so that an
  answer can be fresh, at its last day, and stale. Two processes are the fewest of which
  one overwrites the other; three runs the fewest for answer, later answer, stale write.
  The dimensions are one of each role in the code: two that are required, one that
  blocks, one that only eval writes, one that only the survey writes.
* `shared_cache`: two processes, two urls (version, package), one retry (`Retries`; 3 in
  the code: the loop treats each alike), `Ttl` 1, time 0 to 1, one change of the registry,
  two looks. A change plus a tick is what makes a cached copy wrong and then expired.
* `overlapping_runs`: two processes (symmetric, as are the artifacts), two releases, two
  approvals, surfaces that differ by an added, a removed and a changed tool.
* `three_files`: two edits from starting states in which files may already stand over each
  other; the values in `MCWrites` are for every key one that loosens and one that
  tightens, and one that is malformed. Entries in `MCSubjects` are variations of one good
  entry, each refused by a row of its own.
* `eval_runs`: three servers, all or one of them picked, one flip of the daemon, one edit.
  `SandboxLimit` is 2 where the code has 3: what matters is that it is larger than one
  (one failure must not stop the run) and that a run holds more entries than the limit
  (so that an early stop leaves one unreached). One run over four entries with the code's
  limit of 3 (`Picks` the four at once, no edit, without the liveness property; 4.1 million
  states) holds the same properties and is kept out of the suite for its length. `Words` are reduced to docker's words and others, since the
  remaining classes are told apart by no property.
* `live_runs`: every kind of server alone under nine sets of flags and five of policy keys,
  and pairs of different packages; two unwelcome answers per run (`MaxTrouble`), which is
  what one needs for a confirmed advisory beside a silent feed, a mismatch beside a tarball
  that cannot be read, two feeds on one advisory. `two_releases` is the same model over one
  pair, two releases of one package.

* `signed_artifacts`: two keys (symmetric), a day before, in and after a window, four edits,
  two releases: the fewest in which the second rotates or revokes the key of the first. Three
  projects in a chain (a to b to c, and a to c), two records, two fetches, two other turns; c
  records nothing of its own (`OnlyReads`), since nobody imports from it. A behaviour is about
  one of the two subjects, which share no file. Signatures are over the value and the day; the
  layout of the file (line ends) is kept, because the digest must not depend on it.
* `host_files`: two installers, one entry in three states, four (host, scope) targets, one
  change of the database between two reads, configs that are missing, broken, or have a list of the
  wrong type or an array for one; two roots and a launch without a tree, four trees
  that differ by version, bytes, hook and a second copy (two packages, so that `npm ci` can stop
  half way), setups with two servers and with one
  name twice, three commands and two turns of the world. Again one subject per behaviour.
* `readings`: every command line of up to three words; version triples over cores that differ
  in width (9 and 10) and every kind of suffix, and the chains of semver.org and PEP 440; sets of
  two and three servers over categories, hints, one-tool surfaces and findings; names of up to
  three letters against entries of two and three (`MinCore` and the length thresholds are
  scaled with them); two host files over two entries; for every observer two or three rows
  over all the answers it tells apart, with and without `--strict` and `--write`. `outage_is_clean`
  is the same model with the property of section 5.
* `advice`: five releases and one that cannot be read, four advisories (two with a fix, one
  without, one with a fix that cannot be read), seven feeds; for the drafts one entry that
  moves between releases, one that stands, three days with shelf lives of one, two runs, five turns
  (any file put under any name among them), registries that have all of three releases, have lost
  the first, or have nothing.

`CHECK_DEADLOCK FALSE` where stated: the bounds, or people who stop editing, end the
behaviour. In the unbounded system there is always another run.

Fairness. `Availability`: an exchange of a request ends (the code's time limit of 10 s)
and the event loop runs what follows; the registry, the clock and the body that is cut
short are not fair, and a look whose body was cut short may hang (`hung`), which is what
`lib/http.cjs` does. `Smoke`: weak fairness of `Proceeds`, that is, the timer of the
handshake fires and the event loop goes on to the next entry and to the report; servers,
docker, people and death have no fairness. The other specifications state none and have
no liveness property: their commands end by themselves (a bounded number of awaited
requests, each with the time limit of `Http`), and what overlaps them is people.

## 4. What is proved

TLAPS checks the theorems below for every value of the constants that meets the modules'
`ASSUME`s; TLC evaluates the same assumptions on each run. Most of them say of what kind a
constant is. Those that say more, or what Null may not be:

* `TreesAssumption` (ServerLock): a tree is not empty and has one copy of a package at a version,
  since npm gives every copy the same bytes.
* `SmokeConstants`, `GateConstants`, `AuditsAssumption`, `FindingReportsConstants`,
  `InstallConstants`, `PolicyInForceConstants`: the inputs a run starts from are records of the
  shape the code builds, the servers of one gate run are finitely many, and people write what a
  policy file may hold, or what cannot be read.
* `AbsentIsApart` (ToolApproval), `VersionsConstants`, `LaunchConstants`, `HostConfigConstants`,
  `ReadingsConstants`: the value that stands for nothing is no
  document, no approval, no name, no technique, no sign of a comparison and not the version that
  cannot be read.
* `UpgradeConstants`: releases and fixes are what the parsers of `versions.cjs` return
  (`IsVersion`) or cannot be read, and a list of the registry and an answer of the feed are finite.

Some hypotheses are left in the statements. `Named` (VaultDb: every launch command names an
artifact) and `Apart` (Gate: no two servers of a run are releases of one package) are needed:
section 5 and `Gate_two_releases.cfg` show what happens without them, and the passing runs satisfy
them. `PlainEntry` (Install: an entry's command names its package once, by a word of its own) is
needed as well: pinInstallCmd calls `npx -y --package=pkg pkg` pinned when it pinned the second word
(section 5). `MCHostFiles` has it as an assumption TLC evaluates, and the 112 commands of
`tools_database.json` are written so. `NoObjects`, `RemoteIsNoLaunch` (Install) and `NullIsApart`
(PolicyInForce) say that what stands for a missing file, a server reached by URL or an unwritten key is
not itself a function, a list or a bound. They quantify over all sets, so that TLC cannot evaluate
them; with the model values the runs take they hold.

### Stored evidence and the database (VaultDbProofs)

* `PolicyNeverExtends`: a policy's shelf lives only shorten the defaults. `TypeCorrect`.
* `EvidenceIsSound`, `TheWordIsEarned`, `TheTierIsEarned`, `ReplaysAreHonest`, `NewestIsHeld`,
  `OnlyVerifyRaises`, `ConfirmationIsKept`: every property of `two_processes`.

`EvidenceSound` is not inductive: it speaks of the file only, and a process may write a
copy. `Inductive` (VaultDb) adds that every copy a process holds is as sound as the file
(`CopiesHeld`), that no date is ahead of the clock or of the instant of its process, that
no answer was confirmed later than it was looked at, and that what was not examined has
no dates (`WellDated`). A merge of two sound records is sound because answers are taken
over only under one artifact id; a write puts sound copies in the file; `looks` only
grows. `VerifiedIsEarned`, `TierIsEarned` and `ReplayKnowsNoFuture` follow from
`Inductive` by the shelf-life arithmetic.

`NewestAnswerHeld` is a property of a step, and so it must be: over whole histories it is false, for
a pin may move away and back, and the answers given before the first move are gone by then. The
proof compares what a process merges with what the file has: a process that finds the file as it
read it holds the file's record, and a merge under one artifact keeps the later look. A process that
replaced a file it had not read (`overwrote`) is exempt, which is the lost update of
`db_io.cjs` and not a gap of the proof.

### Approvals (HostFilesProofs)

* `ApprovalTypes`; `NothingUnapproved`: `Spec => []AllowedWasApproved`, with an `Inductive` that
  extends the claim to what every process has read: each tool of an approval was signed for, on its
  day and with its print, and for the approval's artifact as long as no approval was made
  for a launch without an id (`ApprovalHeld`).
* `ApprovalsSettle`: `ApprovalSettles`, of the step in which an approve run writes. That it makes the
  gate allow needs an invariant of its own, `Dated`: no approval in the file, or in a copy a run
  holds, is dated after today, for the gate asks only what was approved by then.

### The lock file and the configs (HostFilesProofs)

* `VendoredIsLocked`: `LockSpec => VendoredWasLocked`. Two claims, one about the state (what is
  vendored are packages of one tree that was locked for that server, however `npm ci` ended) and one
  about the step in which `--vendor` exits 0 (the whole tree, for every target). `IInv` follows the file:
  what is in the lock, or in the copy a run holds, was written by a lock that resolved it
  (`LockIsRecorded`, `Recorded` of a run's copy), and of a vendor run's targets each is still to do
  or installed whole from that copy, while the one under way has packages of it only (`VendorIsAhead`,
  `VendorStep`), so that with none left to do all are.
* `CheckPassesOnLocked`: `LockSpec => CheckedIsLocked`. `CheckIsAhead`: the targets done so far have
  a record each under the last launch of their name, and while there is no error each is resolved or
  has no tree. That `DiffLock` finds nothing must then mean equal trees: two trees that have the same
  packages by name and version, and no difference of bytes, are one (`TreesAssumption`).
* `NothingIsLost`: `InstallSpec => NothingLost`, an action property. `FilesHeld`: an install that is
  about to write holds a file it read, and unless that was no file, its copy is among the backups.
  Backups only grow; whether the file has moved since is part of the property (`Unmoved`), because
  the code does not look again.
* `WrittenIsRead`: `InstallSpec => WrittenIsReadBack`, whatever overlaps. Writer and reader meet in
  the parser: `SpecsHeld` follows what an install is about to write to the entry it was made of, as
  the database had it when the install read it; that the command a host is given is read as it was
  written is `CanonicalIsTheSame`, and that it is the pin is `PinIsRead` (both of LaunchProofs). The
  rest is which of a file's two keys is written and which is read (`WriterWrites`). Where the list
  was an array, nothing is entered, and the theorem says that the file is one every reader refuses
  (`ArrayIsUnread`); a VS Code file with both keys is left out of the property.

### The cache, the verdict, upgrades and the drafts (RegistryProofs)

* `TheCacheIsHonest`, `TheVerdictIsEarned`: `Spec => []CacheIsHonest` and `[]VerdictIsEarned` of
  Availability, any number of processes sharing the cache. `IInv` dates everything: what a server
  has, it serves now (`HistoryKept`); a cache record, also the one a request carries, was served at
  its stamp (`RecordServed`); a response on its way was true in its tick (`ResponseTrue`); and a look is
  tied to the request it waits for (`LookTrue`). The step that needs it is the 304: it confirms the
  record the request carries, whatever another process has put in its place.
* `ReadyDraftsAreCurrent`: `ReportsSpec => []ReadyIsCurrent`. Four claims about a ready draft:
  everything in it is within its shelf life on the day it is built; what comes from the stored
  evidence is about the release it names, or that the very name is gone; its advisories are the feed's
  answer about that release; the release it points to was asked about. Of the drift an eval saw
  only the first is claimed, because the rest is false of it (`DriftIsOfToday`, section 5). `ReadyInv` carries the claim through
  the stored plan: a row that says `upgrade` names a target the feed was asked about (`Asked`), in
  the advice under way and in the file the drafts are made from.
* `DirectoryKept`: `ReportsSpec => DirectoryIsKept`. While a run writes, every file is its own or
  still to be removed (`WriteHeld`), and the index comes last; killed anywhere, the
  directory has no index, or one that lists the drafts beside it (`DirHeld`). What a run found listed
  (`run.ours`) it may delete, whoever wrote it last; nothing else.
* `OnlyTheConfirmed`: `UpgradeSpec => []UpgradeIsConfirmed`, and `OnlyTheConfirmedIsReported` the same
  for `ReportsSpec`. `UpgradeInv` follows the questions: once a target is chosen it is past every fix
  and the least that is, of what the registry had listed, and the latest is past them as well
  (`TargetHeld`). Both are claims about a maximum and a minimum, which mean nothing without the order:
  "past the largest fix" is "past every fix" because the comparison is transitive.

### Smoke (SmokeProofs)

* `AsideForAnOutage`, `NothingUnreachedIsLost`, `DriftIsNotCoerced`, `WellMeansDone`: every safety
  property of `eval_runs`. `RunInv`: each result the run holds is honest of itself (`Honest`: a
  failure of the sandbox was of a server that had not answered, in a process that saw an outage) and
  its drift is against the stored result (`Storable`); the first attempt kept for the retry is such a
  failure; docker is believed down only if it was. Nobody writes the stored results while the run is
  under way, so that a drift stays one until it is stored.

### The gate (GateProofs)

* `OkIsEarned`, `WhatIsKnownIsRefused`: `Spec => []PassIsEarned` and `[]KnownIsRefused`.
* `GateImplementsLook`: `Spec => ImplementsLook`, the refinement of AdvisoryLook, one behaviour per
  server, step by step: a question answered is a feed heard, `Process` is the conclusion, everything
  else stutters.

A run is a straight line whose difficulty is in its data. `IInv` is the order (`Ordered`: what is
done comes before what is to do), what was heard (`HeardInv`: a feed that is asked is pending exactly
while its question is on the agenda; a stub is never left once the details were fetched) and the
reports (`ReportInv`: open, then `Sound` of what was heard, then `Final`). That `Process` yields a sound
report is a statement about the lines of one server, proved apart for npm, PyPI and docker.

### Signatures and audits (VaultDbProofs)

* `OnlyTheSignedRuns`, `ReleasesGoOn`: `DbSpec => []RunsWhatWasSigned` and `[]ReleasesRun`. `DbInv`:
  every signature that is anywhere, in the tree, a release or a package, is absent, malformed or made
  by a signer over the value, with the key and on the day it says (`Made`), and every release
  verifies by its own files.
* `ImportsComeFirstHand`, `FetchIsWhole`: `AuditSpec => []ImportsAreFirstHand` and `LockIsWhole`.
  `AuditInv`: the signature of every bundle, published, fetched or locked, is one a project made over
  records of its own (`Exported`), whatever was edited beside it, and a fetch under way has a
  verified entry for each source it has done (`Fetching`).

### Policy (GateProofs)

* `MergeIsStricter`: `mergeStricter` of two policies is a policy, for each key at least as strict as
  the base, and as the layer where that wrote the key. Proved per kind of key: ranks, numbers, sets,
  licence lists, shelf lives.
* `EveryLayerIsHeld`: `PolicySpec => []EveryLayerHolds`. `CoversEach` is what the merge of some layers is, and
  `Over` keeps it: it covers what each layer spoke, has nothing in its lists that no layer put there,
  and an allow list comes with `default: deny`. A row that refuses under one policy refuses under a
  stricter one, row by row of `Decision`.
* `WhatIsWrittenIsEnforced`: `PolicySpec => []WrittenIsEnforced`: normalisation of a file without errors
  changes no written key, and the merge without a conflict takes none from the project.

### Versions (VersionProofs)

* `VersionsOrdered`: `VersionsAreOrdered` of any three versions of an ecosystem, whatever they are
  made of. A comparison is the first of some signs that is not 0, and of three versions the signs
  at one position are a `Triangle`: what the signs of a total order can be. First signs of
  triangles are one (`DecidedTriangle`), and so is one comparison after another (`ThenTriangle`),
  which is all that semver and PEP 440 do. The maximum is a recursive function of the position; that
  it exists, and what it is (`MaxSoFar`), is proved by the least position that had it otherwise,
  which needs no induction theorem.

### Launch commands (LaunchProofs)

* `PinIsRead`: `PinnedIsThePin` of any command of any length: what pinInstallCmd calls pinned is read
  by parseLaunch as the vetted package at the version it was pinned to.
* `CanonicalIsTheSame`: `CanonicalRunsTheSame` of any command: written back in the shape every command
  reads, it runs the same package at the same version, and as many packages.

`Options`, the loop over the arguments, is a recursive function. That such a function exists is
shown from the last argument backwards; that there is only one, by the last argument at which two
would differ (a greatest element in place of an induction). From there on it is "the function that
satisfies its equation", and three things are read off it: what one package named by position leaves
of it, what it says of arguments that were changed only where they name a package (the pin), and what
it says of a `-p` for each package followed by the binary (the canonical command).

### Readings (ReadingsProofs)

Every property of `readings`, of `ReadingsSpec`, that is for an input of any size. Reading changes
nothing, so that each is a statement about operators.

* `LaunchKept`: `[]LaunchIsKept`, by the two theorems above.
* `VersionsKept`: `[]VersionsInOrder`: `VersionsOrdered`, and the two chains the standards print. Of those
  each version is compared with the next one only; that the rest follows is transitivity.
* `SetTold`: `[]SetIsTold`. A flow is told if every leg of its kind is strong somewhere, it is sure exactly
  then, and the servers it names have all its legs (`FlowHolds`); colliding and nearly colliding names
  are told either way round.
* `LookalikeTold`: `[]LookalikeIsTold`. `EditsNamed`: a distance of one is one edit, and it is called by
  the edit's name; `ImpersonationTold`: a package one edit from an entry's, or spelled as an entry is
  shown, is told, and an entry's own is not.
* `ExitEarned`: `[]ExitIsEarned`: what a strict audit that passes has seen (`StrictAudit`); that status
  fails where the audit does (`StatusAgrees`), which takes the set the audit judges as a part of the one
  status judges, and that what a policy says of a set it says of every larger one (`JudgedOfMore`); and
  the exit of each observer, command by command (`ObserverExitEarned`).

`SetTold` and `LookalikeTold` need what a table of edit distances says (flows.cjs editDistance, lookalike.cjs
damerauLevenshtein). A cell depends on cells of a smaller sum of indices, so that there is one table
(`TableExists`, `FillFirst`, `FillNext`); and by the first cell that would say something else, a cell is 0
exactly where the prefixes are equal, and at most 1 exactly where they are one edit apart (`TableSays`).

### Left to TLC, and why

`LookEnds` (Availability) and `RunEnds` (Smoke): they are liveness under fairness, and fairness is ENABLED,
which is beyond the prover. Every other property a passing run checks is a theorem above. What the
runs that expect a violation show is TLC's counterexample.

## 5. Where code and documentation disagree

Runs that exhibit one (the quotations are in `PROJECT.json`, "findings"):

| run | what it shows |
|---|---|
| `two_releases` | feed answers are kept by package, so of two servers with different releases of one package the first is judged by the answer about the second |
| `outage_is_clean` | `upgrade` exits 0, with `--strict` too, when its source answered for none of the entries it was asked about (`capabilities` decides in the same way; the run asks about `upgrade` only) |

Properties that TLC refutes when they stand in place of those of a run's configuration, or in
a configuration kept beside the runs (`Smoke_lost_baseline.cfg`):

| property | with | what it shows |
|---|---|---|
| `EvidenceSound` | `two_processes` with `Ids = {"p1"}`, `Pins = {"p1", NoId}`, `Writers = {"w1"}` | a look at a launch without an artifact id is filed under the id of the stored record |
| `PublishedIsCurrent` (Availability) | `shared_cache` | a definitive 404 is answered from a cached copy of any age, and availability does not look at `stale` |
| `LockLeavesApprovals` (ToolApproval) | `overlapping_runs` | lock writes back the approvals it read before it resolved; an approval made meanwhile is gone |
| `ProjectOnlyTightens` (PolicyInForce) | `three_files` | a project's allow list replaces an organisation's `default: deny` that names no list |
| `ChangedSurfaceIsReported` (MCSmokeBaseline) | `Smoke_lost_baseline.cfg` | a failed run erases the surface the next one would be compared with |
| `DriftIsOfToday` (FindingReports) | `advice` | a draft headed with the new release tells of the drift an eval saw on the old one: modelFor takes the eval's `surface_drift` as it stands (finding_reports.cjs 186-193), though the evidence beside it is compared with the artifact (32-35) |
| `EditsAreKept` (FindingReports) | `advice` | a draft somebody edited is deleted by the next run: writeReports compares names with the index and no contents (finding_reports.cjs 488-492), against "this must not delete what it did not write" |
| `WrittenIsThere` (Install) | `host_files` | install reports `updated` and the server is not in the file: an existing `"mcpServers": []` is an object to hosts.cjs 159-163, the server is set on the array by name, and JSON.stringify leaves it out |
| `InstalledWasJudged` (Install) | `host_files` | the entry may move between the read that is written and the child `verify` that judges it |
| `ConfiguredIsChecked` (ServerLock) | `host_files` | of two launches under one name, in two project hosts, lock and `lock --check` see only the last |

Others met while reading and not made a run (the step is modelled where the component is,
or the component is not modelled yet):

* `verify --offline` merges `artifact: unverified` (`offline-pin-present`) into the record it
  judges (verify_integrity.cjs 1447, 2018-2030), so `trust: ["verified"]` can never pass
  offline, while explain allows the same entry (src/docs/COMPATIBILITY.md:131-133).
* explain, orchestrate, lock and status do not check `loaded.ok`: over a project policy that
  does not parse they decide by the defaults, where verify stops with 2
  (verify_integrity.cjs 1513-1519).
* verify --offline reports a missing pin (`unknown`) for an entry without version or
  integrity and warns of a docker tag under `docker: tag`; explain reports neither.
* An organisation's *unwritten* default acts as a bar for the project in mergeStricter;
  `EveryLayerHolds` is therefore stated over what a layer wrote.
* Smoke: a tools/list answer that is no array is given the class PROTOCOL (mcp_eval.cjs 797)
  and overwritten by the classification that follows (879), so PROTOCOL is never stored;
  an image that cannot be pulled while docker is up is recorded as CRASH (892-895),
  although mcp_stdio.cjs:261-266 wants it set aside; docker is probed once per process;
  under `--unsafe` its words are believed without a probe; an `eval_results.json` that does
  not parse is read as empty and replaced.
* A smoke pass carries no `verified_at` (lib/evidence.cjs 205-214), so mergeEvidence keeps the
  date of the previous pass and a server that passes every week ages from its first one.
* `lock --check` (lock.cjs 382) and `approve` (approve.cjs 118) find the recorded surface by
  server name, the gate also by artifact (lib/org_policy.cjs 556-563): for a surface recorded
  on another artifact they answer differently, against src/docs/HOW-IT-DECIDES.md:227-228.
* The integrity gate (verify_integrity.cjs unless said otherwise):
  an OSV record whose severity cannot be scored (CVSS v4 alone) is UNKNOWN and not
  `unresolved`, so the entry reads OK with `advisories-present`, exactly as for a low one (1118-1126;
  `mild` in Gate stands for both); a launch without a version
  is asked about as `0.0.0` at OSV, GHSA and Snyk (1793-1794), though the comment above says such
  an entry is left out of the query; `--deep` without a stored pin records
  `artifact: verified` beside its `pin/missing` line, and a `--deep` whose download fails
  overwrites a metadata `mismatch` by `unverified` (the FAIL line stays); the npm manifest
  lookup takes a stale cached copy (604-606), so a 404 is not told while one exists; a failed
  manifest lookup drops advisories the feeds already confirmed; feed bodies of an unexpected
  shape are read as no advisories (442, 477); an image by digest without `--deep` reads OK
  though its artifact is unverified, and one by tag is a warning under `--fail-unverified`
  too; `license/undeclared` is a note of severity medium, so that `--strict` refuses by the
  decision what the processor did not count (the loop at 2272 reconciles them); under
  `provenance: require` a bound attestation is refused, as a comment in
  lib/policy_rules.cjs:287-289 admits.
* `verify --update` and docker-drift move the pin and leave the word; a smoke `skipped`
  replaces a recorded `fail`; approve's stale write also reverts lock's other section;
  `writeFileSync` truncates first (lib/db_io.cjs:43), so that a kill leaves a torn file, which
  every later reader refuses.
* Observers: under `--repos` a GitHub lookup that failed replaces a relocation the registry
  reported, and no finding is left (check_availability.cjs 319-326); `repo-gone` and
  `archived` are recorded and are no finding; docker-drift counts skipped images as checked,
  so that one skip beside one failed registry exits 1 where nothing was compared (92-93).
* Lock: `launch` is recorded and never compared, though lock.cjs says "exit 1 on any
  difference"; `lock --check --entry X` reports every other server as removed; `lock` exits 0
  and writes a record without a tree for a server that did not resolve.
* Launch: pinInstallCmd calls `npx -y --package=pkg pkg`, `uvx --from=pkg pkg`, a uvx range and several
  `-p` pinned when one specifier is; a VS Code file with both keys hides the servers under the
  second (installed.cjs 111-112); two installs that overlap in one file lose the first's server,
  and backups are named by the millisecond.
* Setup: an unpinned launch passes a strict audit; a disabled project server hides an enabled
  global one of the same name in audit; the budget sums by name, so that two servers of one name
  count once. flows.cjs says that hints and scans only ever add a label, but `readOnlyHint` beside
  `openWorldHint` takes `public_sink` away.
* Advice: a target can be below the pin when the only fix named is of an older branch; a draft is
  ready with no advisory ids when a newer plan says `clear` (finding_reports.cjs 46-48); a run
  that is killed between two files leaves a directory that every later run refuses.
* release.yml 172-174 says that an empty keyring "warns and publishes unsigned"; the step after it
  (182-194) wants a signature that verifies in the package, so that nothing is published.

## 6. What is not modelled

* The contents that only patterns look at (tool descriptions, secrets, capabilities in a
  tarball, spellings of a licence), search and ranking of orchestrate, and everything that is
  layout: there is no state in them, and a model would restate the patterns.
* Cryptography: a signature verifies under the key that made it over what it was made over;
  hashes are equal or not.
* Of the gate: `--offline` (Decision has its rows), `--update`, `--no-policy`,
  `--fail-families`, licences, health and trust words in the policy, findings about names
  and launches (Lookalike and Launch have them as readings), unreadable host configs (exit 2).
* `lock --diff`, which prints what `--check` compares; how npm resolves a tree; the TOML of codex
  beyond the refusal to write it; the narrowing flows proposes; token_budget's report.
* `discover`, `registry_ingest` and `export_subregistry`: they page through remote lists and write
  candidate files that people review. `ci_health`, `badge`, `sbom`, `generate_wrapper`,
  `calculate_health`, `list_entries`, `adoption.cjs`: one pass from input to output, no state.
* In the models: redirects of `Http`; a torn database (every reader stops; the torn lock file
  is modelled); several evals at once (the later one loses the earlier one's results, as the
  database's writers do in VaultDb); the switches of eval that turn a drift or a scan into a
  failure; approvals and servers of one lock file are two models.

## 7. Plan

Done, model-checked and proved: the evidence and the database; the approvals; the cache and the
verdict over it; the policy; the smoke; the live gate and its refinement; signatures and audits; the
install and the lock file; the advice and the drafts; launches and host configs; sets of servers,
lookalikes, audit and status; the observers.

What would add most next:

1. **Gate**: offline runs and `--update` beside the live ones, `--fail-families`, and the result of a
   run as the input of VaultDb's `verify` in place of `VerifyChecks`.
2. **ServerLock** and **ToolApproval** over one file, so that the stale write of `approve` meets the
   trees.

New properties join a passing run of the module they compose with where one exists.
