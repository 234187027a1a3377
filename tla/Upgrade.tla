------------------------------- MODULE Upgrade -------------------------------
(***************************************************************************)
(* `mcp-vault upgrade` (suggest_upgrade.cjs) for one entry: the advisories *)
(* that apply to the pin, the shortest published version past every fix    *)
(* they name, and a second look at that version.  Three questions to two   *)
(* services, each of which may fail, while the world they describe moves.  *)
(***************************************************************************)
EXTENDS Versions, SequencesExt

CONSTANTS
    Ecosystem,
    Releases,       \* versions that exist, and Odd
    Fixes,          \* advisory |-> the versions it names as fixed
    Feeds,          \* what the feed may say: advisory |-> versions affected
    Published       \* what the registry may list: sets of releases

ASSUME UpgradeConstants ==
    /\ Null \notin {"clear", "upgrade"}
    /\ Ecosystem \in {"npm", "pypi"}
    /\ \A v \in Releases : v = Odd \/ IsVersion(Ecosystem, v)
    /\ \A p \in Published : p \subseteq Releases /\ IsFiniteSet(p)
    /\ \A f \in Feeds : DOMAIN f \subseteq DOMAIN Fixes /\ IsFiniteSet(DOMAIN f)
    /\ \A a \in DOMAIN Fixes :
          IsFiniteSet(Fixes[a]) /\ \A v \in Fixes[a] : v = Odd \/ IsVersion(Ecosystem, v)

VARIABLES
    pin,            \* the version the database pins
    feed,           \* OSV: advisory |-> the versions it applies to
    published,      \* the registry's list
    advice          \* the run under way, or its row
adviceVars == <<pin, feed, published, advice>>

NoAdvice == [pc |-> "idle", state |-> Null]

UpgradeInit ==
    /\ pin \in Releases \ {Odd}
    /\ feed \in Feeds /\ published \in Published
    /\ advice = NoAdvice

(* OSV's answer about one exact version. *)
OsvFor(v) == {a \in DOMAIN feed : v \in feed[a]}

Row(r, state) == [r EXCEPT !.pc = "done", !.state = state]

StartUpgrade ==
    /\ advice.pc \in {"idle", "done"}
    /\ advice' = [pc |-> "now", state |-> Null, current |-> pin, vulns |-> {}, listed |-> {},
                  target |-> Null, latest |-> Null,
                  clean |-> {}, passed |-> {}]
    /\ UNCHANGED <<pin, feed, published>>

(* `clean` and `passed`, what was answered about whom, are for properties.  *)
AskNow ==
    /\ advice.pc = "now"
    /\ LET now == OsvFor(advice.current) IN
       \/ advice' = Row([advice EXCEPT !.vulns = Null], "unknown")
       \/ advice' = IF now = {} THEN Row([advice EXCEPT !.clean = {advice.current}], "clear")
                    ELSE [advice EXCEPT !.pc = "list", !.vulns = now]
    /\ UNCHANGED <<pin, feed, published>>

(***************************************************************************)
(* planUpgrade.  Each advisory names the versions that fix it, or none; of *)
(* all, the largest is needed, and the smallest release that reaches it is *)
(* the target.  An advisory with no fix is listed, not resolved.           *)
(***************************************************************************)
FixedVersions(vulns) == UNION {Fixes[a] : a \in vulns}

Candidates(listed, needed) ==
    {v \in listed : /\ ~IsPrerelease(Ecosystem, v)
                    /\ v # Odd /\ Comparator(Ecosystem, v, needed) >= 0}

Shortest(S) == CHOOSE v \in S : \A w \in S : Comparator(Ecosystem, v, w) <= 0

PlanUpgrade(r, listed) ==
    LET targets == FixedVersions(r.vulns)
        needed == MaxVersion(Ecosystem, SetToSeq(targets))
        near == Candidates(listed, needed)
        latest == MaxVersion(Ecosystem, SetToSeq({v \in listed : ~IsPrerelease(Ecosystem, v)}))
    IN  IF targets = {} THEN Row(r, "no-fix")
        ELSE IF Odd \in targets THEN Row(r, "unknown")
        ELSE IF near = {} THEN Row(r, "no-fix")
        ELSE [r EXCEPT !.pc = "target", !.listed = listed, !.target = Shortest(near), !.latest = latest]

AskPublished ==
    /\ advice.pc = "list"
    /\ advice' = Row(advice, "unknown") \/ advice' = PlanUpgrade(advice, published)
    /\ UNCHANGED <<pin, feed, published>>

(* Mutant: no answer about the target is no advisory. *)
AskTargetTrusting ==
    /\ advice.pc = "target"
    /\ \/ advice' = Row(advice, "upgrade")
       \/ advice' = IF OsvFor(advice.target) = {}
                    THEN Row([advice EXCEPT !.clean = {advice.target}], "upgrade")
                    ELSE IF advice.latest \notin {Null, advice.target}
                    THEN [advice EXCEPT !.pc = "latest", !.passed = {advice.target}]
                    ELSE Row(advice, "no-clean-target")
    /\ UNCHANGED <<pin, feed, published>>

(* "Fixed in" is per advisory: the target is asked about as well. *)
AskTarget ==
    /\ advice.pc = "target"
    /\ \/ advice' = Row(advice, "upgrade-unconfirmed")
       \/ advice' = IF OsvFor(advice.target) = {}
                    THEN Row([advice EXCEPT !.clean = {advice.target}], "upgrade")
                    ELSE IF advice.latest \notin {Null, advice.target}
                    THEN [advice EXCEPT !.pc = "latest", !.passed = {advice.target}]
                    ELSE Row(advice, "no-clean-target")
    /\ UNCHANGED <<pin, feed, published>>

AskLatest ==
    /\ advice.pc = "latest"
    /\ \/ advice' = Row(advice, "no-clean-target")
       \/ /\ OsvFor(advice.latest) = {}
          /\ advice' = Row([advice EXCEPT !.target = advice.latest, !.clean = {advice.latest}], "upgrade")
    /\ UNCHANGED <<pin, feed, published>>

(* An advisory is published or withdrawn; a release appears or goes. *)
MoveFeed ==
    /\ \/ \E f \in Feeds : feed # f /\ feed' = f /\ UNCHANGED published
       \/ \E p \in Published : published # p /\ published' = p /\ UNCHANGED feed
    /\ UNCHANGED <<pin, advice>>

UpgradeNext == StartUpgrade \/ AskNow \/ AskPublished \/ AskTarget \/ AskLatest \/ MoveFeed

UpgradeSpec == UpgradeInit /\ [][UpgradeNext]_adviceVars

-----------------------------------------------------------------------------
(***************************************************************************)
(* A version is recommended only when the registry listed it, it is no     *)
(* pre-release, it is past every fix any applying advisory names, and the  *)
(* feed said, when asked about it, that nothing applies; and "clear" is    *)
(* the feed's answer about the pin, never a question that failed.  A       *)
(* shorter move is passed over only when it had advisories of its own.     *)
(* (suggest_upgrade.cjs: a recommendation resting on a check that failed   *)
(* is the bug this repo keeps finding; "the *shortest* safe move".)        *)
(***************************************************************************)
UpgradeIsConfirmed ==
    LET fixed == FixedVersions(advice.vulns)
        reach(v) == v # Odd /\ ~IsPrerelease(Ecosystem, v)
                       /\ \A f \in fixed : Comparator(Ecosystem, v, f) >= 0
        below(v) == {w \in advice.listed : reach(w) /\ Comparator(Ecosystem, w, v) < 0}
    IN  /\ advice.state = "clear" => advice.current \in advice.clean
        /\ advice.state = "upgrade" =>
              /\ advice.target \in advice.clean \cap advice.listed
              /\ reach(advice.target)
              /\ below(advice.target) # {} =>
                    \E w \in advice.passed \cap below(advice.target) : below(w) = {}
=============================================================================
