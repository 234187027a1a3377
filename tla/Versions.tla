------------------------------ MODULE Versions ------------------------------
(***************************************************************************)
(* lib/versions.cjs: the order of npm versions (semver 2.0.0) and of PyPI  *)
(* versions (a subset of PEP 440), which upgrade advice rests on.          *)
(*                                                                         *)
(* A version is the record its parser returns.  npm: `core`, three         *)
(* numbers, and `pre`, a sequence of identifiers, each a number or a word  *)
(* [word, rank].  PyPI: epoch, release, pre (<<letter rank, number>>),     *)
(* post, dev - Null where absent - and the local label.  A string the      *)
(* parser does not take is Odd.  Comparing digit strings is comparing      *)
(* numbers; words are compared by their rank.                              *)
(***************************************************************************)
EXTENDS Integers, Sequences, FiniteSets

CONSTANTS
    Null,
    Odd     \* a version string no parser takes

(* What the parsers return.                                                 *)
IsVersion(ecosystem, v) ==
    /\ v \notin {Null, Odd}
    /\ ecosystem = "npm" =>
          v.core \in [1 .. 3 -> Nat] /\ v.pre \in Seq([word : BOOLEAN, rank : Nat])
    /\ ecosystem = "pypi" =>
          /\ v.epoch \in Nat /\ v.release \in Seq(Nat)
          /\ v.pre = Null \/ v.pre \in (0 .. 2) \X Nat
          /\ v.post = Null \/ v.post \in Nat
          /\ v.dev = Null \/ v.dev \in Nat

ASSUME VersionsConstants == Null # Odd /\ Null \notin {-1, 0, 1}

CompareDigits(a, b) == IF a < b THEN -1 ELSE IF a > b THEN 1 ELSE 0

(* What decides first: the first of some comparisons that is not a tie. *)
FirstOf(c) ==
    LET decided == {i \in DOMAIN c : c[i] # 0}
    IN  IF decided = {} THEN 0 ELSE c[CHOOSE i \in decided : \A j \in decided : i <= j]

Longer(s, t) == IF Len(s) > Len(t) THEN Len(s) ELSE Len(t)

(* An identifier of a pre-release: numbers first, in order, then words. *)
CompareIdentifier(p, q) ==
    IF p.word # q.word THEN (IF q.word THEN -1 ELSE 1) ELSE CompareDigits(p.rank, q.rank)

CompareSemver(a, b) ==
    LET core == [i \in 1 .. 3 |-> CompareDigits(a.core[i], b.core[i])]
        pre == [i \in 1 .. Longer(a.pre, b.pre) |->
                   IF i > Len(a.pre) THEN -1 ELSE IF i > Len(b.pre) THEN 1
                   ELSE CompareIdentifier(a.pre[i], b.pre[i])]
    IN  IF Odd \in {a, b} THEN Null
        ELSE IF FirstOf(core) # 0 THEN FirstOf(core)
        ELSE IF (a.pre = <<>>) # (b.pre = <<>>) THEN (IF a.pre = <<>> THEN 1 ELSE -1)
        ELSE FirstOf(pre)

(***************************************************************************)
(* The fields of a PEP 440 version in the order they decide, as pairs that *)
(* compare by their first part: an absent field is below or above all.     *)
(***************************************************************************)
Low == <<-1, 0>>
High == <<9, 0>>
(* Mutant: a bare development release has no rule of its own. *)
Pep440KeyPlain(v) ==
    <<IF v.pre = Null THEN High ELSE v.pre,
      IF v.post = Null THEN Low ELSE <<0, v.post>>,
      IF v.dev = Null THEN High ELSE <<0, v.dev>>>>

Pep440Key(v) ==
    <<IF v.pre = Null /\ v.post = Null /\ v.dev # Null THEN Low ELSE IF v.pre = Null THEN High ELSE v.pre,
      IF v.post = Null THEN Low ELSE <<0, v.post>>,
      IF v.dev = Null THEN High ELSE <<0, v.dev>>>>

CompareField(f, g) ==
    IF f[1] # g[1] THEN CompareDigits(f[1], g[1]) ELSE CompareDigits(f[2], g[2])

ComparePep440(a, b) ==
    LET at(s, i) == IF i > Len(s) THEN 0 ELSE s[i]
        release == [i \in 1 .. Longer(a.release, b.release) |->
                       CompareDigits(at(a.release, i), at(b.release, i))]
        field == [i \in 1 .. 3 |-> CompareField(Pep440Key(a)[i], Pep440Key(b)[i])]
    IN  IF Odd \in {a, b} THEN Null
        ELSE IF a.epoch # b.epoch THEN CompareDigits(a.epoch, b.epoch)
        ELSE IF FirstOf(release) # 0 THEN FirstOf(release)
        ELSE FirstOf(field)

Comparator(ecosystem, a, b) ==
    IF ecosystem = "npm" THEN CompareSemver(a, b) ELSE ComparePep440(a, b)

(* The largest of a list, its first if several are; Null if one is Odd.     *)
(* A list of one is never compared.                                        *)
MaxVersion(ecosystem, list) ==
    LET better(best, v) ==
            IF best = Null THEN Null
            ELSE LET c == Comparator(ecosystem, v, best)
                 IN  IF c = Null THEN Null ELSE IF c > 0 THEN v ELSE best
        upTo[i \in DOMAIN list] ==
            IF i = 1 THEN list[1] ELSE better(upTo[i - 1], list[i])
    IN  IF list = <<>> THEN Null ELSE upTo[Len(list)]

IsPrerelease(ecosystem, v) ==
    v # Odd /\ IF ecosystem = "npm" THEN v.pre # <<>> ELSE v.pre # Null \/ v.dev # Null

(* One release, whichever way it is spelled; Null when one is not read. *)
SameVersion(ecosystem, a, b) ==
    LET c == Comparator(ecosystem, a, b)
    IN  IF Null \in {a, b} \/ c = Null THEN Null
        ELSE c = 0 /\ (ecosystem = "pypi" => a.local = b.local)

-----------------------------------------------------------------------------
(***************************************************************************)
(* Of any three versions, the comparison is a total order of what can be   *)
(* read, consistent with "spelled the same", and the maximum is no less    *)
(* than any of them; with one that cannot be read there is no maximum.     *)
(* (versions.cjs: a comparator that guesses is worse than one that         *)
(* abstains.)                                                              *)
(***************************************************************************)
VersionsAreOrdered(ecosystem, a, b, c) ==
    LET cmp(x, y) == Comparator(ecosystem, x, y)
        best == MaxVersion(ecosystem, <<a, b, c>>)
    IN  IF Odd \in {a, b, c} THEN best = Null
        ELSE /\ cmp(a, b) = -cmp(b, a)
             /\ cmp(a, b) <= 0 /\ cmp(b, c) <= 0 => cmp(a, c) <= 0
             /\ SameVersion(ecosystem, a, b) => cmp(a, c) = cmp(b, c)
             /\ \A x \in {a, b, c} : cmp(best, x) >= 0

(***************************************************************************)
(* The order is the one the two standards print: each chain, written down  *)
(* from the documents, is ascending.  (versions.cjs: the first version of  *)
(* the PEP 440 comparison ordered every combination wrongly.)              *)
(***************************************************************************)
OrderedLike(ecosystem, chain) ==
    \A i, j \in DOMAIN chain : Comparator(ecosystem, chain[i], chain[j]) = CompareDigits(i, j)
=============================================================================
