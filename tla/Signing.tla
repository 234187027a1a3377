------------------------------- MODULE Signing -------------------------------
(***************************************************************************)
(* lib/signing.cjs: Ed25519 signatures over canonical JSON.  A key pair is *)
(* named by the id of its public half; a signature value is the key that   *)
(* made it and the message it covers, so it checks under that key and over *)
(* that message only (external: the crypto module).  Days are numbers.     *)
(***************************************************************************)
EXTENDS Naturals, Sequences

CONSTANTS
    Keys,       \* key ids
    Null        \* an absent date, file or key

(* Mutant: the bytes of the file are what is signed. *)
CanonicalOfText(file) == [text |-> file.value, laid_out |-> file.layout]

(***************************************************************************)
(* A JSON file is a value in a layout (white space, escapes, line ends).   *)
(* Only the value reaches the canonical bytes.                             *)
(***************************************************************************)
Canonical(file) == file.value

(* No file, and a file that is not an envelope of this format. *)
NoSignature == [shape |-> "absent"]
Malformed   == [shape |-> "malformed"]

(* Every field of the envelope but the signature. *)
SignedMessage(envelope) ==
    <<envelope.key_id, envelope.artifact, envelope.sha256, envelope.signed_at>>

SignCanonical(bytes, key, artifact, day) ==
    LET message == <<key, artifact, bytes, day>>
    IN  [shape |-> "envelope", key_id |-> key, artifact |-> artifact,
         sha256 |-> bytes, signed_at |-> day,
         signature |-> [by |-> key, over |-> message]]

(***************************************************************************)
(* Keyrings.  A document is unreadable or a sequence of entries; `sound`   *)
(* is that an entry's algorithm, id and dates are what they must be.       *)
(***************************************************************************)
KeyringEntry(key, validFrom) ==
    [key_id |-> key, valid_from |-> validFrom, valid_until |-> Null,
     revoked |-> FALSE, sound |-> TRUE]

Usable(entry) ==
    /\ entry.sound
    /\ \/ entry.valid_from = Null \/ entry.valid_until = Null
       \/ entry.valid_until >= entry.valid_from

(* The entries kept, by their place in the document. *)
NormalizeKeys(doc) == {i \in DOMAIN doc : Usable(doc[i])}

KeyringOk(doc) == doc # Null /\ NormalizeKeys(doc) = DOMAIN doc

TrustedKeys(doc) == IF doc = Null THEN {} ELSE NormalizeKeys(doc)

(* keys.find: the first entry of that id. *)
KeyFor(doc, kept, id) ==
    LET named == {i \in kept : doc[i].key_id = id}
    IN  IF named = {} THEN Null
        ELSE doc[CHOOSE i \in named : \A j \in named : i <= j]

OutOfWindow(entry, day) ==
    \/ entry.valid_from # Null /\ day < entry.valid_from
    \/ entry.valid_until # Null /\ day > entry.valid_until

(* Mutant: the digest in the envelope is taken at its word. *)
VerifyCanonicalUndigested(bytes, envelope, doc, kept, artifact) ==
    IF envelope.shape = "absent" THEN "no-signature"
    ELSE IF envelope.shape = "malformed" THEN "malformed"
    ELSE LET entry == KeyFor(doc, kept, envelope.key_id)
         IN  IF envelope.artifact # artifact THEN "artifact-mismatch"
             ELSE IF entry = Null THEN "unknown-key"
             ELSE IF entry.revoked THEN "revoked-key"
             ELSE IF OutOfWindow(entry, envelope.signed_at) THEN "key-not-valid"
             ELSE IF envelope.signature.by # entry.key_id
                     \/ envelope.signature.over # SignedMessage(envelope)
                  THEN "bad-signature"
             ELSE "verified"

(***************************************************************************)
(* verifyCanonical: the checks in the code's order; the first that fails   *)
(* is the code.                                                            *)
(***************************************************************************)
VerifyCanonical(bytes, envelope, doc, kept, artifact) ==
    IF envelope.shape = "absent" THEN "no-signature"
    ELSE IF envelope.shape = "malformed" THEN "malformed"
    ELSE LET entry == KeyFor(doc, kept, envelope.key_id)
         IN  IF envelope.artifact # artifact THEN "artifact-mismatch"
             ELSE IF entry = Null THEN "unknown-key"
             ELSE IF entry.revoked THEN "revoked-key"
             ELSE IF OutOfWindow(entry, envelope.signed_at) THEN "key-not-valid"
             ELSE IF bytes # envelope.sha256 THEN "digest-mismatch"
             ELSE IF envelope.signature.by # entry.key_id
                     \/ envelope.signature.over # SignedMessage(envelope)
                  THEN "bad-signature"
             ELSE "verified"
=============================================================================
