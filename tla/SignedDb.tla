------------------------------ MODULE SignedDb ------------------------------
(***************************************************************************)
(* The signature of the database from sign_db.cjs to a command that reads  *)
(* the database: lib/db_signature.cjs, check_signature.cjs, the row        *)
(* db/signature of lib/policy_rules.cjs, bin/mcp-vault.cjs, and the        *)
(* release workflow that calls them.                                       *)
(*                                                                         *)
(* Three copies of the files exist: the maintainer's working tree, the     *)
(* released packages, and the package a user has installed: a release, or  *)
(* what pre-commit installs of a commit for its hook.                      *)
(***************************************************************************)
EXTENDS Signing, FiniteSets

CONSTANTS
    DbValues,   \* what the database can say
    Layouts,    \* how its file can be written
    LastDay,    \* bound on the clock
    MaxEdits,   \* bound on edits and on signatures by hand
    MaxReleases \* bound on the releases

VARIABLES
    today,      \* the clock of every process
    tree,       \* the working tree: [db, sig, keyring]
    secret,     \* the release key in CI's secrets, or Null
    signer,     \* a `sign_db` under way in the working tree
    shipped,    \* the packages released
    installed,  \* the package a user has: [db, sig, keyring], or Null
    clone,      \* the database in pre-commit's clone it is from, or Null
    signings,   \* every signature made: <<key, value, day>>  (history)
    dbEdits     \* number of those  (bound only)

dbVars == <<today, tree, secret, signer, shipped, installed, clone, signings, dbEdits>>

Artifact == "tools_database.json"
NotSigning == [stage |-> "idle"]

(***************************************************************************)
(* The check of one file before a command reads it.                        *)
(***************************************************************************)
VerifyFile(files) ==
    VerifyCanonical(Canonical(files.db), files.sig, files.keyring,
            TrustedKeys(files.keyring), Artifact)

(* The rule of the finding that signatureFindings makes of it. *)
SignatureRule(files) ==
    IF ~KeyringOk(files.keyring) THEN "keyring-invalid"
    ELSE IF TrustedKeys(files.keyring) = {} THEN "not-configured"
    ELSE LET code == VerifyFile(files)
         IN  CASE code = "verified"     -> "verified"
               [] code = "no-signature" -> "absent"
               [] OTHER                 -> "invalid"

(* Is the package what pre-commit installed of the commit its `rev:` pins, *)
(* with the database of that commit to the byte?                           *)
PreCommitPin(files) == clone # Null /\ files.db = clone

(* The hook's entry asks the command line to accept that, which asks the   *)
(* same again, and only for files that carry no signature.                 *)
HookAsks(files) == files.sig.shape = "absent" /\ PreCommitPin(files)

(* Where the program runs: a working tree does without a signature, and    *)
(* the hook of a pinned commit, while MCP_VAULT_REQUIRE_SIGNED_DB is not   *)
(* set.                                                                    *)
SignatureRequired(files, place, requireSet) ==
    \/ requireSet
    \/ place = "package"
    \/ place = "hook" /\ ~HookAsks(files)

(* The row db/signature. *)
SignatureEffect(rule, required, allowUnsigned) ==
    CASE rule = "verified"                -> "allow"
      [] rule = "keyring-invalid"         -> "deny"
      [] rule = "not-configured"          -> "unknown"
      [] rule = "absent" /\ ~required     -> "allow"
      [] rule \in {"absent", "invalid"} /\ allowUnsigned
            /\ ~(rule = "absent" /\ ~required) -> "warn"
      [] OTHER                            -> "deny"

(* An unknown fails under --strict, a warning too. *)
SignatureFails(effect, strict) ==
    effect = "deny" \/ (strict /\ effect \in {"warn", "unknown"})

(* checkDb, what the wrapper asks of each database before a command reads  *)
(* it: whether to go on, and the label of the decision.                    *)
CheckDb(files, place, requireSet, allowUnsigned) ==
    LET rule == SignatureRule(files)
        required == SignatureRequired(files, place, requireSet)
        effect == SignatureEffect(rule, required, allowUnsigned)
    IN  [proceed |-> ~SignatureFails(effect, FALSE),
         state |-> CASE SignatureFails(effect, FALSE)   -> "refused"
                     [] rule = "not-configured"         -> "not-configured"
                     [] rule = "absent" /\ ~required    -> "not-required"
                     [] rule # "not-configured" /\ effect = "warn"
                                                        -> "unsigned-allowed"
                     [] OTHER                           -> "verified"]

(***************************************************************************)
(* Actions.                                                                *)
(***************************************************************************)
DbInit ==
    /\ today = 1
    /\ \E v \in DbValues, l \in Layouts, k \in Keys :
        /\ v = CHOOSE x \in DbValues : TRUE
        /\ tree = [db |-> [value |-> v, layout |-> l], sig |-> NoSignature,
                   keyring |-> <<>>]
        /\ secret \in {Null, k}
    /\ signer = NotSigning
    /\ shipped = {} /\ installed = Null /\ clone = Null
    /\ signings = {} /\ dbEdits = 0

NextDay ==
    /\ today < LastDay
    /\ today' = today + 1
    /\ UNCHANGED <<tree, secret, signer, shipped, installed, clone, signings, dbEdits>>

CountEdit ==
    /\ dbEdits < MaxEdits
    /\ dbEdits' = dbEdits + 1

(* A commit changes what the database says, or how its file is written.    *)
EditDb ==
    /\ CountEdit
    /\ \E v \in DbValues, l \in Layouts :
        tree' = [tree EXCEPT !.db = [value |-> v, layout |-> l]]
    /\ UNCHANGED <<today, secret, signer, shipped, installed, clone, signings>>

(* A keyring edit: the entry --keygen prints, a retirement, a revocation,  *)
(* or a slip that leaves an entry whose id is not its key's.               *)
EditKeyring ==
    /\ CountEdit
    /\ \/ \E k \in Keys :
            tree' = [tree EXCEPT !.keyring = Append(@, KeyringEntry(k, today))]
       \/ \E i \in DOMAIN tree.keyring :
            \/ tree' = [tree EXCEPT !.keyring[i].valid_until = today]
            \/ tree' = [tree EXCEPT !.keyring[i].revoked = TRUE]
            \/ tree' = [tree EXCEPT !.keyring[i].sound = ~@]
    /\ UNCHANGED <<today, secret, signer, shipped, installed, clone, signings>>

SetSecret ==
    /\ CountEdit
    /\ secret' \in Keys \ {secret}
    /\ UNCHANGED <<today, tree, signer, shipped, installed, clone, signings>>

(***************************************************************************)
(* `sign_db` in the working tree, with any key file: signFile reads the    *)
(* database and then writes beside it; a commit may come in between.       *)
(***************************************************************************)
SignRead(key) ==
    /\ CountEdit
    /\ signer = NotSigning
    /\ KeyringOk(tree.keyring)
    /\ signer' = [stage |-> "sign", key |-> key, day |-> today,
                  bytes |-> Canonical(tree.db)]
    /\ UNCHANGED <<today, tree, secret, shipped, installed, clone, signings>>

SignWrite ==
    /\ signer.stage = "sign"
    /\ tree' = [tree EXCEPT !.sig =
            SignCanonical(signer.bytes, signer.key, Artifact, signer.day)]
    /\ signings' = signings \cup {<<signer.key, signer.bytes, signer.day>>}
    /\ signer' = NotSigning
    /\ UNCHANGED <<today, secret, shipped, installed, clone, dbEdits>>

(***************************************************************************)
(* The release job signs a checkout of its own, which holds no signature   *)
(* (none is committed): `sign_db --release`, then the packed command line  *)
(* run with `signature --strict` where no .git is.  Either stops the job.  *)
(***************************************************************************)
Packed(key) ==
    [db |-> tree.db, keyring |-> tree.keyring,
     sig |-> SignCanonical(Canonical(tree.db), key, Artifact, today)]

ReleaseSigns ==
    /\ KeyringOk(tree.keyring)
    /\ TrustedKeys(tree.keyring) # {}
    /\ secret # Null
    /\ VerifyFile(Packed(secret)) = "verified"

PackedAccepts(files) ==
    /\ files.sig.shape # "absent"
    /\ ~SignatureFails(SignatureEffect(SignatureRule(files), TRUE, FALSE), TRUE)

Release ==
    /\ Cardinality(shipped) < MaxReleases
    /\ ReleaseSigns
    /\ PackedAccepts(Packed(secret))
    /\ shipped' = shipped \cup {Packed(secret)}
    /\ signings' = signings \cup {<<secret, Canonical(tree.db), today>>}
    /\ UNCHANGED <<today, tree, secret, signer, installed, clone, dbEdits>>

(* npm install of a release, new or old. *)
Install ==
    /\ installed' \in shipped \ {installed}
    /\ clone' = Null
    /\ UNCHANGED <<today, tree, secret, signer, shipped, signings, dbEdits>>

(* pre-commit clones the commit a `rev:` pins and packs it: the database   *)
(* and the keyring of the commit, and no signature, which git ignores.     *)
PreCommitInstall ==
    /\ CountEdit
    /\ installed' = [db |-> tree.db, sig |-> NoSignature, keyring |-> tree.keyring]
    /\ clone' = tree.db
    /\ UNCHANGED <<today, tree, secret, signer, shipped, signings>>

(* The user's copy is rewritten by a tool, or edited, or given another .sig. *)
EditInstalled ==
    /\ installed # Null
    /\ CountEdit
    /\ \/ \E v \in DbValues, l \in Layouts :
            installed' = [installed EXCEPT !.db = [value |-> v, layout |-> l]]
       \/ \E old \in shipped : installed' = [installed EXCEPT !.sig = old.sig]
       \/ installed' \in {[installed EXCEPT !.sig = s] : s \in {NoSignature, Malformed}}
    /\ UNCHANGED <<today, tree, secret, signer, shipped, clone, signings>>

DbNext ==
    \/ NextDay \/ EditDb \/ EditKeyring \/ SetSecret
    \/ \E k \in Keys : SignRead(k)
    \/ SignWrite \/ Release \/ Install \/ PreCommitInstall \/ EditInstalled

DbSpec == DbInit /\ [][DbNext]_dbVars

-----------------------------------------------------------------------------
(***************************************************************************)
(* RunsWhatWasSigned: a command that goes on as "verified", or that goes   *)
(* on where a signature is required, with keys shipped and no override,    *)
(* reads a database some signer really signed, with a key its own keyring  *)
(* lists, does not revoke, and had in force on the day of the signature -  *)
(* whatever was edited, released and copied in between.  The hook alone    *)
(* takes another database: the one of the commit pre-commit cloned, and    *)
(* never when it is a release, or was edited since.                        *)
(***************************************************************************)
Vouched(files) ==
    \E s \in signings, i \in DOMAIN files.keyring :
        /\ s[1] = files.keyring[i].key_id
        /\ s[2] = Canonical(files.db)
        /\ ~files.keyring[i].revoked
        /\ ~OutOfWindow(files.keyring[i], s[3])

FilesAt(place) == IF place = "tree" THEN tree ELSE installed

RunsWhatWasSigned ==
    \A place \in {"package", "hook", "tree"}, requireSet, allowUnsigned \in BOOLEAN :
        FilesAt(place) # Null =>
            LET files == FilesAt(place)
                check == CheckDb(files, place, requireSet, allowUnsigned)
            IN  (/\ check.proceed
                 /\ \/ check.state = "verified"
                    \/ /\ place # "tree" \/ requireSet
                       /\ TrustedKeys(files.keyring) # {}
                       /\ ~allowUnsigned)
                    => \/ Vouched(files)
                       \/ /\ place = "hook" /\ ~requireSet
                          /\ check.state = "not-required"
                          /\ files.db = clone

(***************************************************************************)
(* ReleasesRun: what was released is accepted where it is installed, on    *)
(* every later day and however its files are laid out: no rotation or      *)
(* revocation in a later release, and no day that passes, turns it off.    *)
(***************************************************************************)
ReleasesRun ==
    \A package \in shipped, l \in Layouts :
        CheckDb([package EXCEPT !.db.layout = l], "package", TRUE, FALSE).state
            = "verified"
=============================================================================
