------------------------- MODULE MCSignedArtifacts -------------------------
(***************************************************************************)
(* Both uses of signatures, one per behaviour: SignedDb and Audits share   *)
(* no file and no key, so what one does is decided without the other.      *)
(***************************************************************************)
EXTENDS SignedDb, Audits, TLC

VARIABLE part   \* which of the two a behaviour is about

vars == <<part, dbVars, auditVars>>

Init ==
    /\ DbInit /\ AuditInit
    /\ tree.db.layout = "lf"
    /\ part \in {"database", "audits"}
    /\ part = "audits" => secret = Null

Database == part = "database" /\ DbNext /\ UNCHANGED <<part, auditVars>>
Exchange == part = "audits" /\ AuditNext /\ UNCHANGED <<part, dbVars>>
Next == Database \/ Exchange

Spec == Init /\ [][Next]_vars

(* A publishes, B imports from A and publishes, C imports from both. *)
MCPlaceOf == [p \in {"a", "b", "c"} |->
    CASE p = "a" -> <<>> [] p = "b" -> <<"a">> [] p = "c" -> <<"a", "b">>]

(* What C records itself reaches nobody: nobody imports from it. *)
OnlyReads == local["c"] = {}

Symmetry == Permutations(Keys)
=============================================================================
