------------------------------- MODULE Audits -------------------------------
(***************************************************************************)
(* lib/audits.cjs and audits.cjs: projects record audits of the artifact   *)
(* the database pins, export them signed, import those of others through a *)
(* lock file, and read imports from that lock only.                        *)
(*                                                                         *)
(* Exports are published at a place each (`specs`); what a place serves is *)
(* what was last put there.                                                *)
(***************************************************************************)
EXTENDS Signing, FiniteSets

CONSTANTS
    Projects,       \* those that record, export and import audits
    PlaceOf,        \* [Projects -> Seq(Projects)]: where the sources its config
                    \* names at first publish, the names in sorted order
    MaxRecords,     \* bound on the audits recorded
    MaxFetches,     \* bound on the fetches
    MaxTurns        \* bound on the other turns: pins moved, keys made, and
                    \* configs and locks edited by hand

ASSUME AuditsAssumption == PlaceOf \in [Projects -> Seq(Projects)]

VARIABLES
    pin,        \* the artifact (package, version, integrity) pinned today
    local,      \* [Projects -> the records of .mcp-vault.audits.json]
    generation, \* [Projects -> which of its keys it signs with]
    place,      \* [Projects -> the bundle it publishes, or Null]
    config,     \* [Projects -> [source -> [spec, public_key, criteria]]]
    fetch,      \* [Projects -> an `audits fetch` under way]
    lock,       \* [Projects -> .mcp-vault.imports.lock.json: [source -> entry]]
    recorded,   \* <<project, record>> of every `audits add`  (history)
    fetches,    \* number of fetches  (bound only)
    turns       \* number of other turns  (bound only)

auditVars == <<pin, local, generation, place, config, fetch, lock, recorded, fetches, turns>>

KeyOf(project, n) == <<project, n>>
ExportArtifact == "mcp-vault-audits"
NoEntry == [shape |-> "none"]
NotFetching == [left |-> {}, open |-> FALSE]

Criteria == {"safe-to-run", "safe-to-deploy"}
Implied(criterion) ==
    IF criterion = "safe-to-deploy" THEN Criteria ELSE {criterion}

AcceptedCriteria(criterion, trusted) == Implied(criterion) \cap trusted

(***************************************************************************)
(* Bundles.  `also` is whatever a payload holds beside "audits": another   *)
(* program could put its own imports there.                                *)
(***************************************************************************)
Payload(audits, also) == [audits |-> audits, also |-> also]

Bundle(payload, key) ==
    [payload |-> payload,
     signature |-> SignCanonical(payload, key, ExportArtifact, 1)]

VerifyBundle(bundle, publicKey) ==
    IF bundle.payload.also # {} THEN "transitive"
    ELSE VerifyCanonical(bundle.payload, bundle.signature,
            <<[KeyringEntry(publicKey, Null) EXCEPT !.valid_from = Null]>>,
            {1}, ExportArtifact)

(* The records of a bundle that verified. *)
BundleAudits(bundle) == bundle.payload.audits

(* Mutant: a bundle was verified when it was fetched, and that is enough. *)
EntryProblemOnce(source, entry) ==
    CASE entry.shape = "none" -> "not-fetched"
      [] entry.shape # "none" /\ entry.spec # source.spec -> "stale-lock"
      [] OTHER -> IF entry.sha256 # entry.bundle THEN "lock-tampered" ELSE "verified"

(***************************************************************************)
(* loadImportedAudits: every entry of the lock is held against the config  *)
(* of this moment, and verified again under the key the config names.      *)
(***************************************************************************)
EntryProblem(source, entry) ==
    CASE entry.shape = "none" -> "not-fetched"
      [] entry.shape # "none" /\ entry.spec # source.spec -> "stale-lock"
      [] OTHER ->
            IF entry.sha256 # entry.bundle THEN "lock-tampered"
            ELSE VerifyBundle(entry.bundle, source.public_key)

LoadImportedAudits(p) ==
    UNION {{[record |-> a, source |-> s,
             accepted |-> AcceptedCriteria(a.criteria, config[p][s].criteria)] :
                a \in {r \in BundleAudits(lock[p][s].bundle) :
                    AcceptedCriteria(r.criteria, config[p][s].criteria) # {}}} :
           s \in {t \in DOMAIN config[p] :
                    EntryProblem(config[p][t], lock[p][t]) = "verified"}}

(* Same package, same version, same bytes. *)
AuditMatches(audit, subject) == audit.artifact = subject

(* auditsFor: the imported ones in force for the database's entry. *)
InForce(p) == {a \in LoadImportedAudits(p) : AuditMatches(a.record, pin)}

(***************************************************************************)
(* Actions.                                                                *)
(***************************************************************************)
AuditInit ==
    /\ pin = 1
    /\ local = [p \in Projects |-> {}]
    /\ generation = [p \in Projects |-> 1]
    /\ place = [p \in Projects |-> Null]
    /\ config = [p \in Projects |-> [s \in DOMAIN PlaceOf[p] |->
            [spec |-> PlaceOf[p][s], public_key |-> KeyOf(PlaceOf[p][s], 1),
             criteria |-> Criteria]]]
    /\ fetch = [p \in Projects |-> NotFetching]
    /\ lock = [p \in Projects |-> [s \in DOMAIN PlaceOf[p] |-> NoEntry]]
    /\ recorded = {}
    /\ fetches = 0 /\ turns = 0

Turn ==
    /\ turns < MaxTurns
    /\ turns' = turns + 1

(* The entry moves to another release: the audits of the old one stay. *)
MovePin ==
    /\ Turn
    /\ pin' = pin + 1
    /\ UNCHANGED <<local, generation, place, config, fetch, lock, recorded, fetches>>

(* `audits add`: a record of the pinned artifact, kept once. *)
Add(p, criterion) ==
    LET record == [who |-> p, artifact |-> pin, criteria |-> criterion]
    IN  /\ Cardinality(recorded) < MaxRecords
        /\ record \notin local[p]
        /\ local' = [local EXCEPT ![p] = @ \cup {record}]
        /\ recorded' = recorded \cup {<<p, record>>}
    /\ UNCHANGED <<pin, generation, place, config, fetch, lock, fetches, turns>>

(* `audits export --out` and the upload: local records only. *)
Export(p) ==
    /\ local[p] # {}
    /\ place' = [place EXCEPT ![p] =
            Bundle(Payload(local[p], {}), KeyOf(p, generation[p]))]
    /\ UNCHANGED <<pin, local, generation, config, fetch, lock, recorded, fetches, turns>>

(* Another program's export, which carries along what it imports. *)
ForeignExport(p) ==
    /\ \E also \in {{a.record : a \in LoadImportedAudits(p)}} :
        /\ also # {}
        /\ place' = [place EXCEPT ![p] =
                Bundle(Payload(local[p], also), KeyOf(p, generation[p]))]
    /\ UNCHANGED <<pin, local, generation, config, fetch, lock, recorded, fetches, turns>>

(* `audits keygen`: the next export is signed with another key. *)
NewKey(p) ==
    /\ Turn
    /\ generation' = [generation EXCEPT ![p] = @ + 1]
    /\ UNCHANGED <<pin, local, place, config, fetch, lock, recorded, fetches>>

(***************************************************************************)
(* `audits fetch`: reads the config, then every source in turn; the lock   *)
(* is written when all verified and left as it was when one did not.       *)
(***************************************************************************)
StartFetch(p) ==
    /\ fetches < MaxFetches
    /\ fetches' = fetches + 1
    /\ ~fetch[p].open
    /\ DOMAIN config[p] # {}
    /\ fetch' = [fetch EXCEPT ![p] =
            [open |-> TRUE, left |-> DOMAIN config[p], config |-> config[p],
             lock |-> <<>>, failed |-> FALSE]]
    /\ UNCHANGED <<pin, local, generation, place, config, lock, recorded, turns>>

(* One source: unreachable, refused, or verified and kept. *)
FetchSource(p, s, reached) ==
    LET source == fetch[p].config[s]
        bundle == IF reached THEN place[source.spec] ELSE Null
        verified == bundle # Null /\ VerifyBundle(bundle, source.public_key) = "verified"
        entry == [shape |-> "entry", spec |-> source.spec, sha256 |-> bundle,
                  bundle |-> bundle]
    IN  /\ s \in fetch[p].left /\ \A t \in fetch[p].left : s <= t
        /\ fetch' = [fetch EXCEPT ![p].left = @ \ {s},
                ![p].failed = @ \/ ~verified,
                ![p].lock = [t \in DOMAIN @ \cup (IF verified THEN {s} ELSE {}) |->
                                IF t = s THEN entry ELSE @[t]]]
        /\ UNCHANGED <<pin, local, generation, place, config, lock, recorded, fetches, turns>>

(* Mutant: what did verify is written. *)
FetchEndsPartly(p) ==
    /\ fetch[p].open /\ fetch[p].left = {}
    /\ fetch' = [fetch EXCEPT ![p] = NotFetching]
    /\ lock' = [lock EXCEPT ![p] = [s \in DOMAIN @ |->
                IF s \in DOMAIN fetch[p].lock THEN fetch[p].lock[s] ELSE NoEntry]]
    /\ UNCHANGED <<pin, local, generation, place, config, recorded, fetches, turns>>

FetchEnds(p) ==
    /\ fetch[p].open /\ fetch[p].left = {}
    /\ fetch' = [fetch EXCEPT ![p] = NotFetching]
    /\ lock' = IF fetch[p].failed THEN lock
               ELSE [lock EXCEPT ![p] = [s \in DOMAIN @ |->
                        IF s \in DOMAIN fetch[p].lock THEN fetch[p].lock[s]
                        ELSE NoEntry]]
    /\ UNCHANGED <<pin, local, generation, place, config, recorded, fetches, turns>>

(* The config is edited: another key, place or trust, or a source dropped. *)
EditConfig(p) ==
    /\ Turn
    /\ \E s \in DOMAIN config[p] :
        \/ \E q \in Projects \ {p} : config' =
                [config EXCEPT ![p][s].public_key = KeyOf(q, generation[q])]
        \/ \E q \in Projects \ {p} : config' = [config EXCEPT ![p][s].spec = q]
        \/ config' = [config EXCEPT ![p][s].criteria = {"safe-to-run"}]
        \/ config' = [config EXCEPT ![p] =
                [t \in DOMAIN @ \ {s} |-> @[t]]]
    /\ UNCHANGED <<pin, local, generation, place, fetch, lock, recorded, fetches>>

(* The lock is edited, or merged with another branch's: a record slipped   *)
(* into a bundle, an entry that another source's place served, one lost.   *)
EditLock(p) ==
    /\ Turn
    /\ \E s \in DOMAIN lock[p] :
        /\ lock[p][s] # NoEntry
        /\ \/ \E c \in Criteria, fixSum \in BOOLEAN :
                LET held == lock[p][s].bundle
                    edited == [held EXCEPT !.payload.audits = @ \cup
                        {[who |-> lock[p][s].spec, artifact |-> pin, criteria |-> c]}]
                IN  lock' = [lock EXCEPT ![p][s].bundle = edited,
                        ![p][s].sha256 = IF fixSum THEN edited ELSE @]
           \/ \E t \in DOMAIN lock[p] : lock' = [lock EXCEPT ![p][s] = lock[p][t]]
           \/ \E q \in Projects :
                /\ place[q] # Null
                /\ lock' = [lock EXCEPT ![p][s].bundle = place[q],
                                        ![p][s].sha256 = place[q]]
    /\ UNCHANGED <<pin, local, generation, place, config, fetch, recorded, fetches>>

AuditNext ==
    \/ MovePin
    \/ \E p \in Projects :
        \/ \E c \in Criteria : Add(p, c)
        \/ Export(p) \/ ForeignExport(p) \/ NewKey(p)
        \/ StartFetch(p) \/ FetchEnds(p)
        \/ \E s \in DOMAIN PlaceOf[p], reached \in BOOLEAN : FetchSource(p, s, reached)
        \/ EditConfig(p) \/ EditLock(p)

AuditSpec == AuditInit /\ [][AuditNext]_auditVars

-----------------------------------------------------------------------------
(***************************************************************************)
(* ImportsAreFirstHand: an imported audit in force was recorded by the     *)
(* very project whose key the config names, for exactly the artifact the   *)
(* database pins now, and counts for no more than that project said and    *)
(* this one trusts it for - through exports, key changes, stale or edited  *)
(* locks, and chains of projects that import from each other.              *)
(***************************************************************************)
ImportsAreFirstHand ==
    \A p \in Projects : \A a \in InForce(p) :
        /\ <<config[p][a.source].public_key[1], a.record>> \in recorded
        /\ a.record.artifact = pin
        /\ a.accepted \subseteq config[p][a.source].criteria
        /\ "safe-to-deploy" \in a.accepted => a.record.criteria = "safe-to-deploy"

(***************************************************************************)
(* LockIsWhole: a fetch replaces the lock whole, with one entry for every  *)
(* source it set out to read, each verified under the key it was told, or  *)
(* leaves it alone.                                                        *)
(***************************************************************************)
LockIsWhole ==
    [][\A p \in Projects :
        (lock'[p] # lock[p] /\ fetch'[p] # fetch[p]) =>
            \A s \in DOMAIN fetch[p].config :
                /\ lock'[p][s].shape = "entry"
                /\ VerifyBundle(lock'[p][s].bundle,
                        fetch[p].config[s].public_key) = "verified"]_auditVars
=============================================================================
