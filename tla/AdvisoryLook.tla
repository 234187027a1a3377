---------------------------- MODULE AdvisoryLook ----------------------------
(***************************************************************************)
(* What the gate promises about one server's advisories, however the four  *)
(* feeds are asked, keyed, merged and read: a confirmed high advisory is   *)
(* never unsaid, a feed that did not answer is never read as "none", and   *)
(* `clean` needs every feed that was asked.  Gate.tla implements it for    *)
(* every server of a run.                                                  *)
(***************************************************************************)
CONSTANT Feeds

VARIABLES
    told,       \* [Feeds -> what the feed said about this server's version]
    verdict     \* what is concluded about its advisories

vars == <<told, verdict>>

Answers == {"silent", "none", "mild", "hard", "unread"}

(* "unread": there is an advisory and its severity could not be read. *)

Says(answer) == \E f \in Feeds : told[f] = answer

Conclusion ==
    IF Says("hard") THEN "vulnerable"
    ELSE IF Says("silent") \/ Says("unread") THEN "unverified"
    ELSE IF Says("mild") THEN "advisories-present"
    ELSE "clean"

Init ==
    /\ told \in [Feeds -> {"pending", "unasked"}]
    /\ verdict = "open"

Hear ==
    /\ verdict = "open"
    /\ told' \in [Feeds -> Answers \cup {"pending", "unasked"}]
    /\ \A f \in Feeds :
        told'[f] # told[f] => told[f] = "pending" /\ told'[f] \in Answers
    /\ UNCHANGED verdict

Conclude ==
    /\ verdict = "open"
    /\ ~Says("pending")
    /\ verdict' = Conclusion
    /\ UNCHANGED told

(* No manifest, or a run that asks no feed: nothing is said of advisories.  *)
SayNothing ==
    /\ verdict = "open"
    /\ verdict' = "nothing"
    /\ UNCHANGED told

Next == Hear \/ Conclude \/ SayNothing

Spec == Init /\ [][Next]_vars
=============================================================================
