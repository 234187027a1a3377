---------------------------- MODULE VersionProofs ----------------------------
(***************************************************************************)
(* The order of versions is total, for versions of any length, and a chain *)
(* of which each version is below the next is in order from end to end:    *)
(* what upgrade advice and the readings rest on.                           *)
(***************************************************************************)
EXTENDS Versions, SequencesExt, FiniteSetTheorems, WellFoundedInduction, TLAPS

(***************************************************************************)
(* The order of versions.  A comparison is a sign, the first of some signs *)
(* that is not 0.  Of the three signs x of a to b, y of b to c and z of a  *)
(* to c, those of a total order are a triangle; first signs of triangles   *)
(* are one, and so are the comparisons of the two standards.               *)
(***************************************************************************)
Signs == {-1, 0, 1}
Positions == Nat \ {0}

Triangle(x, y, z) ==
    /\ x \in Signs /\ y \in Signs /\ z \in Signs
    /\ x = 0 => z = y
    /\ y = 0 => z = x
    /\ x = y => z = x

LEMMA Least ==
    ASSUME NEW S \in SUBSET Nat, S # {}
    PROVE  \E x \in S : \A y \in S : x <= y
<1> DEFINE R == {p \in Nat \X Nat : p[1] < p[2]}
<1>1. IsWellFoundedOn(R, Nat)
  BY NatLessThanWellFounded DEF OpToRel
<1> HIDE DEF R
<1>2. PICK x \in S : \A y \in S : <<y, x>> \notin R
  BY <1>1, WFMin
<1>3. \A y \in S : ~(y < x)
  BY <1>2 DEF R
<1> QED
  BY <1>3

(* The sign r is what the signs f come to.                                  *)
Decides(f, r) ==
    \/ r = 0 /\ \A i \in Positions : f[i] = 0
    \/ /\ r \in {-1, 1}
       /\ \E i \in Positions : f[i] = r /\ \A j \in Positions : j < i => f[j] = 0

LEMMA DecidedOnce ==
    ASSUME NEW f, NEW x, NEW y, Decides(f, x), Decides(f, y) PROVE x = y
  BY DEF Decides, Positions

LEMMA DecidesSigns == ASSUME NEW f, NEW x, Decides(f, x) PROVE x \in Signs
  BY DEF Decides, Signs

LEMMA DecidedTriangle ==
    ASSUME NEW f, NEW g, NEW h,
           \A i \in Positions : Triangle(f[i], g[i], h[i]),
           NEW x, NEW y, NEW z, Decides(f, x), Decides(g, y), Decides(h, z)
    PROVE  Triangle(x, y, z)
<1>1. x \in Signs /\ y \in Signs /\ z \in Signs
  BY DecidesSigns
<1>2. ASSUME x = 0 PROVE z = y
  <2>1. \A i \in Positions : f[i] = 0
    BY <1>2 DEF Decides
  <2>2. \A i \in Positions : h[i] = g[i]
    BY <2>1 DEF Triangle
  <2>3. Decides(h, y)
    BY <2>2 DEF Decides
  <2> QED
    BY <2>3, DecidedOnce
<1>3. ASSUME y = 0 PROVE z = x
  <2>1. \A i \in Positions : g[i] = 0
    BY <1>3 DEF Decides
  <2>2. \A i \in Positions : h[i] = f[i]
    BY <2>1 DEF Triangle
  <2>3. Decides(h, x)
    BY <2>2 DEF Decides
  <2> QED
    BY <2>3, DecidedOnce
<1>4. ASSUME x = y, x # 0 PROVE z = x
  <2>1. PICK i \in Positions : f[i] = x /\ \A k \in Positions : k < i => f[k] = 0
    BY <1>4 DEF Decides
  <2>2. PICK j \in Positions : g[j] = x /\ \A k \in Positions : k < j => g[k] = 0
    BY <1>4 DEF Decides
  <2>3. PICK k \in Positions : k <= i /\ k <= j /\ (k = i \/ k = j)
    BY DEF Positions
  <2>4. h[k] = x
    BY <1>4, <2>1, <2>2, <2>3 DEF Triangle, Positions
  <2>5. \A l \in Positions : l < k => h[l] = 0
    BY <2>1, <2>2, <2>3 DEF Triangle, Positions
  <2>6. Decides(h, x)
    BY <1>1, <1>4, <2>4, <2>5 DEF Decides, Signs
  <2> QED
    BY <2>6, DecidedOnce
<1> QED
  BY <1>1, <1>2, <1>3, <1>4 DEF Triangle

(* FirstOf decides what it is given, with no sign where it has none.        *)
Padded(c) == [i \in Positions |-> IF i \in DOMAIN c THEN c[i] ELSE 0]

LEMMA FirstDecides ==
    ASSUME NEW n \in Nat, NEW c, DOMAIN c = 1 .. n, \A i \in 1 .. n : c[i] \in Signs
    PROVE  Decides(Padded(c), FirstOf(c))
<1> DEFINE decided == {i \in DOMAIN c : c[i] # 0}
<1>1. CASE decided = {}
  <2>1. FirstOf(c) = 0
    BY <1>1 DEF FirstOf
  <2> QED
    BY <1>1, <2>1 DEF Decides, Padded
<1>2. CASE decided # {}
  <2>1. \E i \in decided : \A j \in decided : i <= j
    <3>1. decided \in SUBSET Nat
      OBVIOUS
    <3> QED
      BY <1>2, <3>1, Least
  <2>2. PICK i \in decided : i = CHOOSE k \in decided : \A j \in decided : k <= j
    BY <2>1
  <2>3. \A j \in decided : i <= j
    BY <2>1, <2>2
  <2>4. FirstOf(c) = c[i]
    BY <1>2, <2>2 DEF FirstOf
  <2>5. c[i] \in {-1, 1} /\ i \in Positions
    BY DEF Signs, Positions
  <2>6. \A j \in Positions : j < i => Padded(c)[j] = 0
    BY <2>3, <2>5 DEF Padded, Positions
  <2> QED
    BY <2>4, <2>5, <2>6 DEF Decides, Padded
<1> QED
  BY <1>1, <1>2

LEMMA DigitsTriangle ==
    ASSUME NEW a \in Int, NEW b \in Int, NEW c \in Int
    PROVE  /\ Triangle(CompareDigits(a, b), CompareDigits(b, c), CompareDigits(a, c))
           /\ CompareDigits(a, b) = -CompareDigits(b, a)
           /\ CompareDigits(a, b) = 0 <=> a = b
  BY DEF CompareDigits, Triangle, Signs

(* One comparison after another. *)
Then(x, y) == IF x # 0 THEN x ELSE y

LEMMA ThenTriangle ==
    ASSUME NEW x, NEW y, NEW z, Triangle(x, y, z), NEW u, NEW v, NEW w, Triangle(u, v, w)
    PROVE  Triangle(Then(x, u), Then(y, v), Then(z, w))
  BY DEF Triangle, Then, Signs

(* npm.                                                                    *)
CoreSigns(a, b) == [i \in 1 .. 3 |-> CompareDigits(a.core[i], b.core[i])]
Bare(a, b) ==
    IF (a.pre = <<>>) # (b.pre = <<>>) THEN (IF a.pre = <<>> THEN 1 ELSE -1) ELSE 0
PreSigns(a, b) ==
    [i \in 1 .. Longer(a.pre, b.pre) |->
        IF i > Len(a.pre) THEN -1 ELSE IF i > Len(b.pre) THEN 1
        ELSE CompareIdentifier(a.pre[i], b.pre[i])]

LEMMA SemverIs ==
    ASSUME NEW a, NEW b, a # Odd, b # Odd
    PROVE  CompareSemver(a, b) =
              Then(FirstOf(CoreSigns(a, b)), Then(Bare(a, b), FirstOf(PreSigns(a, b))))
  BY DEF CompareSemver, CoreSigns, PreSigns, Bare, Then

Identifiers == [word : BOOLEAN, rank : Nat]

LEMMA IdentifierTriangle ==
    ASSUME NEW p \in Identifiers, NEW q \in Identifiers, NEW r \in Identifiers
    PROVE  /\ Triangle(CompareIdentifier(p, q), CompareIdentifier(q, r), CompareIdentifier(p, r))
           /\ CompareIdentifier(p, p) = 0
<1>1. p.word \in BOOLEAN /\ q.word \in BOOLEAN /\ r.word \in BOOLEAN
  BY DEF Identifiers
<1>2. p.rank \in Int /\ q.rank \in Int /\ r.rank \in Int
  BY DEF Identifiers
<1>3. /\ Triangle(CompareDigits(p.rank, q.rank), CompareDigits(q.rank, r.rank),
                  CompareDigits(p.rank, r.rank))
      /\ CompareDigits(p.rank, p.rank) = 0
  BY <1>2, DigitsTriangle
<1> QED
  BY <1>1, <1>3 DEF CompareIdentifier, Triangle, Signs

(* Of two sequences at a position, the one that has none there is below.    *)
At(s, t, i) ==
    IF i > Len(s) THEN (IF i > Len(t) THEN 0 ELSE -1)
    ELSE IF i > Len(t) THEN 1 ELSE CompareIdentifier(s[i], t[i])

LEMMA PreTriangle ==
    ASSUME NEW s \in Seq(Identifiers), NEW t \in Seq(Identifiers), NEW u \in Seq(Identifiers),
           NEW i \in Positions
    PROVE  Triangle(At(s, t, i), At(t, u, i), At(s, u, i))
<1>1. \A v \in Seq(Identifiers) : Len(v) \in Nat /\ (i <= Len(v) => v[i] \in Identifiers)
  BY DEF Positions
<1>2. CASE i <= Len(s) /\ i <= Len(t) /\ i <= Len(u)
  <2>1. s[i] \in Identifiers /\ t[i] \in Identifiers /\ u[i] \in Identifiers
    BY <1>1, <1>2
  <2>2. /\ At(s, t, i) = CompareIdentifier(s[i], t[i])
        /\ At(t, u, i) = CompareIdentifier(t[i], u[i])
        /\ At(s, u, i) = CompareIdentifier(s[i], u[i])
    BY <1>1, <1>2 DEF At, Positions
  <2> QED
    BY <2>1, <2>2, IdentifierTriangle
<1>3. ASSUME NEW v \in Seq(Identifiers), NEW w \in Seq(Identifiers) PROVE At(v, w, i) \in Signs
  <2>1. CASE i <= Len(v) /\ i <= Len(w)
    BY <1>1, <2>1, IdentifierTriangle DEF At, Triangle, Positions
  <2>2. CASE ~(i <= Len(v) /\ i <= Len(w))
    BY <1>1, <2>2 DEF At, Signs, Positions
  <2> QED
    BY <2>1, <2>2
<1>4. CASE ~(i <= Len(s) /\ i <= Len(t) /\ i <= Len(u))
  <2>1. At(s, t, i) \in Signs /\ At(t, u, i) \in Signs /\ At(s, u, i) \in Signs
    BY <1>3
  <2> QED
    BY <1>1, <1>4, <2>1 DEF At, Triangle, Signs, Positions
<1> QED
  BY <1>2, <1>4

LEMMA PreSignsAre ==
    ASSUME NEW a, NEW b, a.pre \in Seq(Identifiers), b.pre \in Seq(Identifiers)
    PROVE  /\ Decides(Padded(PreSigns(a, b)), FirstOf(PreSigns(a, b)))
           /\ \A i \in Positions : Padded(PreSigns(a, b))[i] = At(a.pre, b.pre, i)
<1>1. Len(a.pre) \in Nat /\ Len(b.pre) \in Nat
  OBVIOUS
<1>2. Longer(a.pre, b.pre) \in Nat /\ DOMAIN PreSigns(a, b) = 1 .. Longer(a.pre, b.pre)
  BY <1>1 DEF Longer, PreSigns
<1>3. \A i \in 1 .. Longer(a.pre, b.pre) : PreSigns(a, b)[i] = At(a.pre, b.pre, i)
  BY <1>1 DEF Longer, PreSigns, At
<1>4. \A i \in Positions : i \notin 1 .. Longer(a.pre, b.pre) => At(a.pre, b.pre, i) = 0
  BY <1>1 DEF Longer, At, Positions
<1>5. \A i \in Positions : At(a.pre, b.pre, i) \in Signs
  BY PreTriangle DEF Triangle
<1>6. Decides(Padded(PreSigns(a, b)), FirstOf(PreSigns(a, b)))
  BY <1>2, <1>3, <1>5, FirstDecides DEF Positions
<1>7. \A i \in Positions : Padded(PreSigns(a, b))[i] = At(a.pre, b.pre, i)
  BY <1>2, <1>3, <1>4 DEF Padded
<1> QED
  BY <1>6, <1>7

LEMMA CoreSignsAre ==
    ASSUME NEW a, NEW b, a.core \in [1 .. 3 -> Nat], b.core \in [1 .. 3 -> Nat]
    PROVE  /\ Decides(Padded(CoreSigns(a, b)), FirstOf(CoreSigns(a, b)))
           /\ \A i \in Positions : Padded(CoreSigns(a, b))[i] =
                 IF i \in 1 .. 3 THEN CompareDigits(a.core[i], b.core[i]) ELSE 0
<1>1. \A i \in 1 .. 3 : CompareDigits(a.core[i], b.core[i]) \in Signs
  BY DEF CompareDigits, Signs
<1>2. /\ DOMAIN CoreSigns(a, b) = 1 .. 3
      /\ \A i \in 1 .. 3 : CoreSigns(a, b)[i] = CompareDigits(a.core[i], b.core[i])
  BY DEF CoreSigns
<1>3. \A i \in 1 .. 3 : CoreSigns(a, b)[i] \in Signs
  BY <1>1, <1>2
<1>4. Decides(Padded(CoreSigns(a, b)), FirstOf(CoreSigns(a, b)))
  BY <1>2, <1>3, FirstDecides
<1> QED
  BY <1>2, <1>4 DEF Padded

LEMMA SemverOrders ==
    ASSUME NEW a, NEW b, NEW c,
           IsVersion("npm", a), IsVersion("npm", b), IsVersion("npm", c)
    PROVE  /\ Triangle(CompareSemver(a, b), CompareSemver(b, c), CompareSemver(a, c))
           /\ CompareSemver(a, a) = 0
<1>1. \A v \in {a, b, c} : v # Odd /\ v.core \in [1 .. 3 -> Nat] /\ v.pre \in Seq(Identifiers)
  BY DEF IsVersion, Identifiers
<1>2. Triangle(FirstOf(CoreSigns(a, b)), FirstOf(CoreSigns(b, c)), FirstOf(CoreSigns(a, c)))
  <2>1. \A i \in Positions :
           Triangle(Padded(CoreSigns(a, b))[i], Padded(CoreSigns(b, c))[i], Padded(CoreSigns(a, c))[i])
    <3> TAKE i \in Positions
    <3>1. CASE i \in 1 .. 3
      <4>1. a.core[i] \in Int /\ b.core[i] \in Int /\ c.core[i] \in Int
        <5>1. \A h \in [1 .. 3 -> Nat] : h[i] \in Int
          BY <3>1
        <5> QED
          BY <1>1, <5>1
      <4>2. /\ Padded(CoreSigns(a, b))[i] = CompareDigits(a.core[i], b.core[i])
            /\ Padded(CoreSigns(b, c))[i] = CompareDigits(b.core[i], c.core[i])
            /\ Padded(CoreSigns(a, c))[i] = CompareDigits(a.core[i], c.core[i])
        BY <1>1, <3>1, CoreSignsAre
      <4> QED
        BY <4>1, <4>2, DigitsTriangle
    <3>2. CASE i \notin 1 .. 3
      BY <1>1, <3>2, CoreSignsAre DEF Triangle, Signs
    <3> QED
      BY <3>1, <3>2
  <2> QED
    BY <1>1, <2>1, CoreSignsAre, DecidedTriangle
<1>3. Triangle(Bare(a, b), Bare(b, c), Bare(a, c))
  BY DEF Bare, Triangle, Signs
<1>4. Triangle(FirstOf(PreSigns(a, b)), FirstOf(PreSigns(b, c)), FirstOf(PreSigns(a, c)))
  <2>1. \A i \in Positions :
           Triangle(Padded(PreSigns(a, b))[i], Padded(PreSigns(b, c))[i], Padded(PreSigns(a, c))[i])
    BY <1>1, PreSignsAre, PreTriangle
  <2> QED
    BY <1>1, <2>1, PreSignsAre, DecidedTriangle
<1>5. Triangle(CompareSemver(a, b), CompareSemver(b, c), CompareSemver(a, c))
  BY <1>1, <1>2, <1>3, <1>4, SemverIs, ThenTriangle
<1>6. CompareSemver(a, a) = 0
  <2>1. \A i \in 1 .. 3 : CoreSigns(a, a)[i] = 0
    BY <1>1, DigitsTriangle DEF CoreSigns
  <2>2. FirstOf(CoreSigns(a, a)) = 0
    BY <2>1 DEF FirstOf, CoreSigns
  <2>3. Len(a.pre) \in Nat /\ Longer(a.pre, a.pre) = Len(a.pre)
    BY <1>1 DEF Longer
  <2>4. \A i \in 1 .. Len(a.pre) : PreSigns(a, a)[i] = 0
    BY <1>1, <2>3, IdentifierTriangle DEF PreSigns
  <2>5. FirstOf(PreSigns(a, a)) = 0
    BY <2>3, <2>4 DEF FirstOf, PreSigns
  <2> QED
    BY <1>1, <2>2, <2>5, SemverIs DEF Bare, Then
<1> QED
  BY <1>5, <1>6

(* PyPI. *)
Part(s, i) == IF i > Len(s) THEN 0 ELSE s[i]
ReleaseSigns(a, b) ==
    [i \in 1 .. Longer(a.release, b.release) |->
        CompareDigits(Part(a.release, i), Part(b.release, i))]
FieldSigns(a, b) == [i \in 1 .. 3 |-> CompareField(Pep440Key(a)[i], Pep440Key(b)[i])]

LEMMA Pep440Is ==
    ASSUME NEW a, NEW b, a # Odd, b # Odd, a.epoch \in Int, b.epoch \in Int
    PROVE  ComparePep440(a, b) =
              Then(CompareDigits(a.epoch, b.epoch),
                   Then(FirstOf(ReleaseSigns(a, b)), FirstOf(FieldSigns(a, b))))
<1>1. CompareDigits(a.epoch, b.epoch) = 0 <=> a.epoch = b.epoch
  BY DigitsTriangle
<1> QED
  BY <1>1 DEF ComparePep440, ReleaseSigns, FieldSigns, Part, Then

Pairs == Int \X Int

LEMMA FieldTriangle ==
    ASSUME NEW f \in Pairs, NEW g \in Pairs, NEW h \in Pairs
    PROVE  /\ Triangle(CompareField(f, g), CompareField(g, h), CompareField(f, h))
           /\ CompareField(f, f) = 0
<1>1. \A p \in {f, g, h} : p[1] \in Int /\ p[2] \in Int
  BY DEF Pairs
<1>2. \A p, q \in {f, g, h} :
         CompareField(p, q) = Then(CompareDigits(p[1], q[1]), CompareDigits(p[2], q[2]))
  BY <1>1, DigitsTriangle DEF CompareField, Then
<1>3. /\ Triangle(CompareDigits(f[1], g[1]), CompareDigits(g[1], h[1]), CompareDigits(f[1], h[1]))
      /\ Triangle(CompareDigits(f[2], g[2]), CompareDigits(g[2], h[2]), CompareDigits(f[2], h[2]))
  BY <1>1, DigitsTriangle
<1>4. CompareDigits(f[1], f[1]) = 0 /\ CompareDigits(f[2], f[2]) = 0
  BY <1>1, DigitsTriangle
<1>5. /\ CompareField(f, g) = Then(CompareDigits(f[1], g[1]), CompareDigits(f[2], g[2]))
      /\ CompareField(g, h) = Then(CompareDigits(g[1], h[1]), CompareDigits(g[2], h[2]))
      /\ CompareField(f, h) = Then(CompareDigits(f[1], h[1]), CompareDigits(f[2], h[2]))
  BY <1>2
<1>6. CompareField(f, f) = 0
  BY <1>2, <1>4 DEF Then
<1> QED
  BY <1>3, <1>5, <1>6, ThenTriangle

LEMMA PyPIParts ==
    ASSUME NEW v, IsVersion("pypi", v)
    PROVE  v # Odd /\ v.epoch \in Int /\ v.release \in Seq(Nat)
<1>1. v # Odd /\ v.epoch \in Nat /\ v.release \in Seq(Nat)
  BY Zenon DEF IsVersion
<1> QED
  BY <1>1

LEMMA KeyIsPairs ==
    ASSUME NEW a, IsVersion("pypi", a)
    PROVE  \A i \in 1 .. 3 : Pep440Key(a)[i] \in Pairs
<1>1. Low \in Pairs /\ High \in Pairs
  BY DEF Low, High, Pairs
<1>2. a.pre = Null \/ a.pre \in Pairs
  BY DEF IsVersion, Pairs
<1>3. (a.post = Null \/ <<0, a.post>> \in Pairs) /\ (a.dev = Null \/ <<0, a.dev>> \in Pairs)
  BY DEF IsVersion, Pairs
<1> QED
  BY <1>1, <1>2, <1>3 DEF Pep440Key

LEMMA FieldSignsAre ==
    ASSUME NEW a, NEW b, IsVersion("pypi", a), IsVersion("pypi", b)
    PROVE  /\ Decides(Padded(FieldSigns(a, b)), FirstOf(FieldSigns(a, b)))
           /\ \A i \in Positions : Padded(FieldSigns(a, b))[i] =
                 IF i \in 1 .. 3 THEN CompareField(Pep440Key(a)[i], Pep440Key(b)[i]) ELSE 0
<1>1. /\ DOMAIN FieldSigns(a, b) = 1 .. 3
      /\ \A i \in 1 .. 3 : FieldSigns(a, b)[i] = CompareField(Pep440Key(a)[i], Pep440Key(b)[i])
  BY DEF FieldSigns
<1>2. \A i \in 1 .. 3 : FieldSigns(a, b)[i] \in Signs
  BY <1>1, KeyIsPairs, FieldTriangle DEF Triangle
<1>3. Decides(Padded(FieldSigns(a, b)), FirstOf(FieldSigns(a, b)))
  BY <1>1, <1>2, FirstDecides
<1> QED
  BY <1>1, <1>3 DEF Padded

LEMMA PartIs == ASSUME NEW s \in Seq(Nat), NEW i \in Positions PROVE Part(s, i) \in Int
<1>1. Len(s) \in Nat /\ (i <= Len(s) => s[i] \in Nat)
  BY DEF Positions
<1> QED
  BY <1>1 DEF Part, Positions

LEMMA ReleaseSignsAre ==
    ASSUME NEW a, NEW b, a.release \in Seq(Nat), b.release \in Seq(Nat)
    PROVE  /\ Decides(Padded(ReleaseSigns(a, b)), FirstOf(ReleaseSigns(a, b)))
           /\ \A i \in Positions : Padded(ReleaseSigns(a, b))[i] =
                 CompareDigits(Part(a.release, i), Part(b.release, i))
<1>1. Len(a.release) \in Nat /\ Len(b.release) \in Nat
  OBVIOUS
<1>2. /\ Longer(a.release, b.release) \in Nat
      /\ DOMAIN ReleaseSigns(a, b) = 1 .. Longer(a.release, b.release)
  BY <1>1 DEF Longer, ReleaseSigns
<1>3. \A i \in 1 .. Longer(a.release, b.release) :
         ReleaseSigns(a, b)[i] = CompareDigits(Part(a.release, i), Part(b.release, i))
  BY DEF ReleaseSigns
<1>4. \A i \in Positions : i \notin 1 .. Longer(a.release, b.release) =>
         CompareDigits(Part(a.release, i), Part(b.release, i)) = 0
  BY <1>1 DEF Longer, Part, Positions, CompareDigits
<1>5. \A i \in Positions : CompareDigits(Part(a.release, i), Part(b.release, i)) \in Signs
  BY DEF CompareDigits, Signs
<1>6. Decides(Padded(ReleaseSigns(a, b)), FirstOf(ReleaseSigns(a, b)))
  BY <1>2, <1>3, <1>5, FirstDecides DEF Positions
<1>7. \A i \in Positions : Padded(ReleaseSigns(a, b))[i] =
                 CompareDigits(Part(a.release, i), Part(b.release, i))
  BY <1>2, <1>3, <1>4 DEF Padded
<1> QED
  BY <1>6, <1>7

LEMMA Pep440Orders ==
    ASSUME NEW a, NEW b, NEW c,
           IsVersion("pypi", a), IsVersion("pypi", b), IsVersion("pypi", c)
    PROVE  /\ Triangle(ComparePep440(a, b), ComparePep440(b, c), ComparePep440(a, c))
           /\ ComparePep440(a, a) = 0
<1>1. \A v \in {a, b, c} : v # Odd /\ v.epoch \in Int /\ v.release \in Seq(Nat)
  BY PyPIParts
<1>2. Triangle(CompareDigits(a.epoch, b.epoch), CompareDigits(b.epoch, c.epoch),
               CompareDigits(a.epoch, c.epoch))
  BY <1>1, DigitsTriangle
<1>3. Triangle(FirstOf(ReleaseSigns(a, b)), FirstOf(ReleaseSigns(b, c)), FirstOf(ReleaseSigns(a, c)))
  <2>1. \A i \in Positions :
           Triangle(Padded(ReleaseSigns(a, b))[i], Padded(ReleaseSigns(b, c))[i],
                    Padded(ReleaseSigns(a, c))[i])
    <3> TAKE i \in Positions
    <3>1. Part(a.release, i) \in Int /\ Part(b.release, i) \in Int /\ Part(c.release, i) \in Int
      BY <1>1, PartIs
    <3>2. /\ Padded(ReleaseSigns(a, b))[i] = CompareDigits(Part(a.release, i), Part(b.release, i))
          /\ Padded(ReleaseSigns(b, c))[i] = CompareDigits(Part(b.release, i), Part(c.release, i))
          /\ Padded(ReleaseSigns(a, c))[i] = CompareDigits(Part(a.release, i), Part(c.release, i))
      BY <1>1, ReleaseSignsAre
    <3> QED
      BY <3>1, <3>2, DigitsTriangle
  <2> QED
    BY <1>1, <2>1, ReleaseSignsAre, DecidedTriangle
<1>4. Triangle(FirstOf(FieldSigns(a, b)), FirstOf(FieldSigns(b, c)), FirstOf(FieldSigns(a, c)))
  <2>1. \A i \in Positions :
           Triangle(Padded(FieldSigns(a, b))[i], Padded(FieldSigns(b, c))[i], Padded(FieldSigns(a, c))[i])
    <3> TAKE i \in Positions
    <3>1. CASE i \in 1 .. 3
      <4>1. /\ Padded(FieldSigns(a, b))[i] = CompareField(Pep440Key(a)[i], Pep440Key(b)[i])
            /\ Padded(FieldSigns(b, c))[i] = CompareField(Pep440Key(b)[i], Pep440Key(c)[i])
            /\ Padded(FieldSigns(a, c))[i] = CompareField(Pep440Key(a)[i], Pep440Key(c)[i])
        BY <3>1, FieldSignsAre
      <4> QED
        BY <3>1, <4>1, KeyIsPairs, FieldTriangle
    <3>2. CASE i \notin 1 .. 3
      BY <3>2, FieldSignsAre DEF Triangle, Signs
    <3> QED
      BY <3>1, <3>2
  <2> QED
    BY <2>1, FieldSignsAre, DecidedTriangle
<1>5. Triangle(ComparePep440(a, b), ComparePep440(b, c), ComparePep440(a, c))
  BY <1>1, <1>2, <1>3, <1>4, Pep440Is, ThenTriangle
<1>6. ComparePep440(a, a) = 0
  <2>1. CompareDigits(a.epoch, a.epoch) = 0
    BY <1>1, DigitsTriangle
  <2>2. \A i \in DOMAIN ReleaseSigns(a, a) : ReleaseSigns(a, a)[i] = 0
    <3>1. Longer(a.release, a.release) \in Nat
      BY <1>1 DEF Longer
    <3>2. \A i \in 1 .. Longer(a.release, a.release) : Part(a.release, i) \in Int
      BY <1>1, <3>1, PartIs DEF Positions
    <3> QED
      BY <3>2, DigitsTriangle DEF ReleaseSigns
  <2>3. FirstOf(ReleaseSigns(a, a)) = 0
    BY <2>2 DEF FirstOf
  <2>4. \A i \in DOMAIN FieldSigns(a, a) : FieldSigns(a, a)[i] = 0
    BY KeyIsPairs, FieldTriangle DEF FieldSigns
  <2>5. FirstOf(FieldSigns(a, a)) = 0
    BY <2>4 DEF FirstOf
  <2> QED
    BY <1>1, <2>1, <2>3, <2>5, Pep440Is DEF Then
<1> QED
  BY <1>5, <1>6

(***************************************************************************)
(* The comparator of an ecosystem: no sign where a version is not read,    *)
(* and a total order of those that are.                                    *)
(***************************************************************************)
Ecosystems == {"npm", "pypi"}

LEMMA ComparatorOrders ==
    ASSUME NEW e \in Ecosystems, NEW a, NEW b, NEW c,
           IsVersion(e, a), IsVersion(e, b), IsVersion(e, c)
    PROVE  /\ Triangle(Comparator(e, a, b), Comparator(e, b, c), Comparator(e, a, c))
           /\ Comparator(e, a, a) = 0
<1>1. CASE e = "npm"
  BY <1>1, SemverOrders DEF Comparator
<1>2. CASE e = "pypi"
  BY <1>2, Pep440Orders DEF Comparator
<1> QED
  BY <1>1, <1>2 DEF Ecosystems

LEMMA ComparatorAbstains ==
    ASSUME NEW e, NEW a, NEW b, Odd \in {a, b} PROVE Comparator(e, a, b) = Null
  BY DEF Comparator, CompareSemver, ComparePep440

LEMMA ComparatorSigns ==
    ASSUME NEW e \in Ecosystems, NEW a, NEW b, IsVersion(e, a), IsVersion(e, b)
    PROVE  /\ Comparator(e, a, b) \in Signs
           /\ Comparator(e, a, b) # Null
           /\ Comparator(e, a, b) = -Comparator(e, b, a)
<1>1. Triangle(Comparator(e, a, b), Comparator(e, b, a), Comparator(e, a, a))
  BY ComparatorOrders
<1>2. Comparator(e, a, a) = 0
  BY ComparatorOrders
<1> QED
  BY <1>1, <1>2, VersionsConstants DEF Triangle, Signs

(***************************************************************************)
(* The maximum so far is a function of the position: it exists, since up   *)
(* to any position there is one, or else there were a first where there is *)
(* none.                                                                   *)
(***************************************************************************)
Better(e, best, v) ==
    IF best = Null THEN Null
    ELSE LET c == Comparator(e, v, best)
         IN  IF c = Null THEN Null ELSE IF c > 0 THEN v ELSE best

UpTo(e, list, n, f) ==
    f = [i \in 1 .. n |-> IF i = 1 THEN list[1] ELSE Better(e, f[i - 1], list[i])]

LEMMA UpToExists ==
    ASSUME NEW e, NEW list, NEW n \in Nat PROVE \E f : UpTo(e, list, n, f)
<1> DEFINE S == {k \in Nat : ~\E f : UpTo(e, list, k, f)}
<1> SUFFICES ASSUME S # {} PROVE FALSE
  OBVIOUS
<1>1. PICK m \in S : \A y \in S : m <= y
  <2>1. S \in SUBSET Nat
    OBVIOUS
  <2> QED
    BY <2>1, Least
<1>2. m # 0
  <2>1. UpTo(e, list, 0, [i \in 1 .. 0 |-> 0])
    BY DEF UpTo
  <2> QED
    BY <1>1, <2>1
<1>3. PICK f : UpTo(e, list, m - 1, f)
  <2>1. m - 1 \in Nat /\ m - 1 \notin S
    BY <1>1, <1>2
  <2> QED
    BY <2>1
<1> DEFINE g == [i \in 1 .. m |-> IF i < m THEN f[i]
                                  ELSE IF i = 1 THEN list[1] ELSE Better(e, f[i - 1], list[i])]
<1>4. \A i \in 1 .. m : g[i] = IF i = 1 THEN list[1] ELSE Better(e, g[i - 1], list[i])
  <2> TAKE i \in 1 .. m
  <2>1. ASSUME i < m PROVE f[i] = IF i = 1 THEN list[1] ELSE Better(e, f[i - 1], list[i])
    <3>1. i \in 1 .. (m - 1)
      BY <1>1, <2>1
    <3>2. f = [j \in 1 .. (m - 1) |-> IF j = 1 THEN list[1] ELSE Better(e, f[j - 1], list[j])]
      BY <1>3 DEF UpTo
    <3> DEFINE h == [j \in 1 .. (m - 1) |-> IF j = 1 THEN list[1] ELSE Better(e, f[j - 1], list[j])]
    <3>3. h[i] = IF i = 1 THEN list[1] ELSE Better(e, f[i - 1], list[i])
      BY <3>1
    <3>4. f = h
      BY <3>2
    <3> HIDE DEF h
    <3> QED
      BY <3>3, <3>4
  <2>2. g[i] = IF i = 1 THEN list[1] ELSE Better(e, f[i - 1], list[i])
    BY <2>1
  <2>3. i # 1 => g[i - 1] = f[i - 1]
    BY <1>1
  <2> QED
    BY <2>2, <2>3
<1>5. UpTo(e, list, m, g)
  BY <1>4 DEF UpTo
<1> QED
  BY <1>1, <1>5

LEMMA MaxVersionIs ==
    ASSUME NEW e, NEW T, NEW list \in Seq(T), list # <<>>
    PROVE  \E f : UpTo(e, list, Len(list), f) /\ MaxVersion(e, list) = f[Len(list)]
<1>1. DOMAIN list = 1 .. Len(list) /\ Len(list) \in Nat
  OBVIOUS
<1> DEFINE f == CHOOSE f : UpTo(e, list, Len(list), f)
<1>2. UpTo(e, list, Len(list), f)
  BY <1>1, UpToExists
<1>3. MaxVersion(e, list) = f[Len(list)]
  BY <1>1 DEF MaxVersion, UpTo, Better
<1> QED
  BY <1>2, <1>3

(* What is the maximum so far: the first of the list, or, of versions that  *)
(* are all read, one that is no less than any.                              *)
Largest(e, list, i, best) ==
    /\ \A j \in 1 .. i : list[j] # Odd
    /\ \E j \in 1 .. i : best = list[j]
    /\ \A j \in 1 .. i : Comparator(e, best, list[j]) >= 0

LEMMA MaxSoFar ==
    ASSUME NEW e \in Ecosystems, NEW n \in Nat, NEW list,
           \A j \in 1 .. n : list[j] = Odd \/ IsVersion(e, list[j]),
           NEW f, UpTo(e, list, n, f)
    PROVE  \A i \in 1 .. n :
              f[i] = Null \/ (i = 1 /\ f[i] = list[1]) \/ Largest(e, list, i, f[i])
<1> DEFINE Holds(i) == f[i] = Null \/ (i = 1 /\ f[i] = list[1]) \/ Largest(e, list, i, f[i])
           S == {i \in 1 .. n : ~Holds(i)}
<1> SUFFICES ASSUME S # {} PROVE FALSE
  OBVIOUS
<1>1. PICK m \in S : \A y \in S : m <= y
  <2>1. S \in SUBSET Nat
    OBVIOUS
  <2> QED
    BY <2>1, Least
<1>2. \A i \in 1 .. n : f[i] = IF i = 1 THEN list[1] ELSE Better(e, f[i - 1], list[i])
  BY DEF UpTo
<1>3. m # 1
  BY <1>1, <1>2
<1> DEFINE k == m - 1
           old == f[k]
           new == list[m]
<1>4. m \in Nat /\ k \in 1 .. n /\ k >= 1 /\ Holds(k)
  BY <1>1, <1>3
<1>5. f[m] = Better(e, old, new)
  BY <1>1, <1>2, <1>3
<1>6. f[m] # Null /\ ~Largest(e, list, m, f[m])
  BY <1>1
<1> HIDE DEF S
<1>7. old # Null /\ Comparator(e, new, old) # Null
  BY <1>5, <1>6 DEF Better
<1>8. new # Odd /\ old # Odd /\ IsVersion(e, new)
  BY <1>1, <1>7, ComparatorAbstains DEF S
<1>9. Largest(e, list, k, old)
  <2>1. CASE k = 1 /\ old = list[1]
    <3>1. IsVersion(e, old)
      BY <1>4, <1>8, <2>1
    <3>2. Comparator(e, old, old) = 0
      BY <3>1, ComparatorOrders
    <3> QED
      BY <1>8, <2>1, <3>2 DEF Largest
  <2> QED
    BY <1>4, <1>7, <2>1
<1>10. /\ \A j \in 1 .. k : IsVersion(e, list[j]) /\ Comparator(e, old, list[j]) >= 0
       /\ IsVersion(e, old)
  BY <1>4, <1>9 DEF Largest
<1>11. CASE Comparator(e, new, old) > 0
  <2>1. f[m] = new
    BY <1>5, <1>7, <1>11 DEF Better
  <2>2. \A j \in 1 .. k : Comparator(e, new, list[j]) >= 0
    <3> TAKE j \in 1 .. k
    <3>1. Triangle(Comparator(e, new, old), Comparator(e, old, list[j]), Comparator(e, new, list[j]))
      BY <1>8, <1>10, ComparatorOrders
    <3> QED
      BY <1>10, <1>11, <3>1 DEF Triangle, Signs
  <2>3. Comparator(e, new, new) = 0
    BY <1>8, ComparatorOrders
  <2>4. \A j \in 1 .. m : j \in 1 .. k \/ j = m
    BY <1>4
  <2>5. Largest(e, list, m, new)
    <3>1. m \in 1 .. m
      BY <1>4
    <3>2. \A j \in 1 .. m : list[j] # Odd
      BY <1>8, <1>9, <2>4 DEF Largest
    <3>3. \A j \in 1 .. m : Comparator(e, new, list[j]) >= 0
      BY <2>2, <2>3, <2>4
    <3> QED
      BY <3>1, <3>2, <3>3 DEF Largest
  <2> QED
    BY <1>6, <2>1, <2>5
<1>12. CASE ~(Comparator(e, new, old) > 0)
  <2>1. f[m] = old
    BY <1>5, <1>7, <1>12 DEF Better
  <2>2. Comparator(e, old, new) >= 0
    BY <1>8, <1>10, <1>12, ComparatorSigns DEF Signs
  <2>3. \A j \in 1 .. m : j \in 1 .. k \/ j = m
    BY <1>4
  <2>4. Largest(e, list, m, old)
    <3>1. PICK j \in 1 .. k : old = list[j]
      BY <1>9 DEF Largest
    <3>2. j \in 1 .. m
      BY <1>4
    <3>3. \A i \in 1 .. m : list[i] # Odd
      BY <1>8, <1>9, <2>3 DEF Largest
    <3>4. \A i \in 1 .. m : Comparator(e, old, list[i]) >= 0
      BY <1>10, <2>2, <2>3
    <3> QED
      BY <3>1, <3>2, <3>3, <3>4 DEF Largest
  <2> QED
    BY <1>6, <2>1, <2>4
<1> QED
  BY <1>11, <1>12

LEMMA SetListed ==
    ASSUME NEW T, IsFiniteSet(T), T # {}
    PROVE  /\ Cardinality(T) \in Nat \ {0}
           /\ SetToSeq(T) \in Seq(T) /\ Len(SetToSeq(T)) = Cardinality(T)
           /\ \A i \in 1 .. Cardinality(T) : SetToSeq(T)[i] \in T
           /\ \A v \in T : \E i \in 1 .. Cardinality(T) : SetToSeq(T)[i] = v
<1> DEFINE n == Cardinality(T)
           list == SetToSeq(T)
<1>1. n \in Nat /\ n # 0
  BY FS_CardinalityType, FS_EmptySet
<1>2. list \in [1 .. n -> T] /\ \A i, j \in 1 .. n : list[i] = list[j] => i = j
  <2>1. ExistsBijection(1 .. n, T)
    BY FS_CardinalityType
  <2>2. PICK g : g \in Bijection(1 .. n, T)
    BY <2>1 DEF ExistsBijection
  <2>3. g \in [1 .. n -> T] /\ IsInjective(g)
    BY <2>2 DEF Bijection, Injection
  <2>4. list \in [1 .. n -> T] /\ IsInjective(list)
    BY <2>3 DEF SetToSeq
  <2> QED
    BY <2>4 DEF IsInjective
<1>3. \A v \in T : \E i \in 1 .. n : list[i] = v
  <2>1. list \in Injection(1 .. n, T)
    BY <1>2 DEF Injection, IsInjective
  <2>2. IsFiniteSet(1 .. n) /\ Cardinality(1 .. n) = Cardinality(T)
    BY <1>1, FS_Interval
  <2>3. list \in Surjection(1 .. n, T)
    BY <2>1, <2>2, FS_Injection
  <2> QED
    BY <2>3 DEF Surjection
<1>4. list \in Seq(T) /\ Len(list) = n
  BY <1>1, <1>2
<1> QED
  BY <1>1, <1>2, <1>3, <1>4

LEMMA ReadSoFar ==
    ASSUME NEW e \in Ecosystems, NEW n \in Nat, NEW list,
           \A j \in 1 .. n : IsVersion(e, list[j]),
           NEW f, UpTo(e, list, n, f)
    PROVE  \A i \in 1 .. n : IsVersion(e, f[i])
<1> DEFINE S == {i \in 1 .. n : ~IsVersion(e, f[i])}
<1> SUFFICES ASSUME S # {} PROVE FALSE
  OBVIOUS
<1>1. PICK m \in S : \A y \in S : m <= y
  <2>1. S \in SUBSET Nat
    OBVIOUS
  <2> QED
    BY <2>1, Least
<1>2. \A i \in 1 .. n : f[i] = IF i = 1 THEN list[1] ELSE Better(e, f[i - 1], list[i])
  BY DEF UpTo
<1>3. m \in 1 .. n /\ m # 1 /\ ~IsVersion(e, f[m])
  BY <1>1, <1>2
<1>4. m - 1 \in 1 .. n /\ m - 1 \notin S
  BY <1>1, <1>3
<1>5. IsVersion(e, f[m - 1]) /\ IsVersion(e, list[m])
  BY <1>3, <1>4
<1>6. f[m] = Better(e, f[m - 1], list[m])
  BY <1>2, <1>3
<1>7. f[m - 1] # Null
  BY <1>5 DEF IsVersion
<1>8. Comparator(e, list[m], f[m - 1]) # Null
  BY <1>5, ComparatorSigns
<1>9. f[m] \in {f[m - 1], list[m]}
  BY <1>6, <1>7, <1>8 DEF Better
<1> QED
  BY <1>3, <1>5, <1>9

(* The maximum of a set of versions and Odd, in whichever order it is read. *)
LEMMA MaxOfSet ==
    ASSUME NEW e \in Ecosystems, NEW T, IsFiniteSet(T), T # {},
           \A v \in T : v = Odd \/ IsVersion(e, v),
           MaxVersion(e, SetToSeq(T)) # Null
    PROVE  \/ T = {Odd} /\ MaxVersion(e, SetToSeq(T)) = Odd
           \/ /\ Odd \notin T
              /\ MaxVersion(e, SetToSeq(T)) \in T
              /\ \A v \in T : Comparator(e, MaxVersion(e, SetToSeq(T)), v) >= 0
<1> DEFINE n == Cardinality(T)
           list == SetToSeq(T)
<1>1. n \in Nat /\ n # 0
  BY SetListed
<1>2. \A i \in 1 .. n : list[i] \in T
  BY SetListed
<1>3. \A v \in T : \E i \in 1 .. n : list[i] = v
  BY SetListed
<1>4. list \in Seq(T) /\ Len(list) = n
  BY SetListed
<1>5. list # <<>>
  BY <1>1, <1>4
<1>6. PICK f : UpTo(e, list, n, f) /\ MaxVersion(e, list) = f[n]
  BY <1>4, <1>5, MaxVersionIs
<1>7. f[n] = Null \/ (n = 1 /\ f[n] = list[1]) \/ Largest(e, list, n, f[n])
  <2>1. \A j \in 1 .. n : list[j] = Odd \/ IsVersion(e, list[j])
    BY <1>2
  <2>2. n \in 1 .. n
    BY <1>1
  <2> QED
    BY <1>1, <1>6, <2>1, <2>2, MaxSoFar
<1>8. MaxVersion(e, list) # Null
  OBVIOUS
<1> HIDE DEF n, list
<1>9. CASE n = 1 /\ f[n] = list[1]
  <2>1. list[1] \in T /\ \A v \in T : v = list[1]
    <3>1. 1 \in 1 .. n /\ \A i \in 1 .. n : i = 1
      BY <1>9
    <3> QED
      BY <1>2, <1>3, <3>1
  <2>2. T = {list[1]}
    BY <2>1
  <2>3. CASE list[1] = Odd
    BY <1>6, <1>9, <2>2, <2>3 DEF list
  <2>4. CASE list[1] # Odd
    <3>1. IsVersion(e, list[1])
      BY <2>1, <2>4
    <3>2. Comparator(e, list[1], list[1]) = 0
      BY <3>1, ComparatorOrders
    <3>3. \A v \in T : Comparator(e, MaxVersion(e, list), v) >= 0
      BY <1>6, <1>9, <2>1, <3>2
    <3> QED
      BY <1>6, <1>9, <2>1, <2>4, <3>3 DEF list
  <2> QED
    BY <2>3, <2>4
<1>10. CASE Largest(e, list, n, f[n])
  <2>1. Odd \notin T
    BY <1>3, <1>10 DEF Largest
  <2>2. MaxVersion(e, list) \in T
    BY <1>2, <1>6, <1>10 DEF Largest
  <2>3. \A v \in T : Comparator(e, MaxVersion(e, list), v) >= 0
    BY <1>3, <1>6, <1>10 DEF Largest
  <2> QED
    BY <2>1, <2>2, <2>3 DEF list
<1> QED
  BY <1>6, <1>7, <1>8, <1>9, <1>10

(* Versions that are all read have a maximum, and a least.                  *)
LEMMA MaxOfVersions ==
    ASSUME NEW e \in Ecosystems, NEW T, IsFiniteSet(T), T # {}, \A v \in T : IsVersion(e, v)
    PROVE  /\ MaxVersion(e, SetToSeq(T)) \in T
           /\ \A v \in T : Comparator(e, MaxVersion(e, SetToSeq(T)), v) >= 0
<1> DEFINE n == Cardinality(T)
           list == SetToSeq(T)
<1>1. n \in Nat \ {0} /\ list \in Seq(T) /\ Len(list) = n /\ \A i \in 1 .. n : list[i] \in T
  BY SetListed
<1>2. list # <<>>
  BY <1>1
<1>3. PICK f : UpTo(e, list, n, f) /\ MaxVersion(e, list) = f[n]
  BY <1>1, <1>2, MaxVersionIs
<1>4. IsVersion(e, f[n])
  <2>1. n \in 1 .. n /\ \A i \in 1 .. n : IsVersion(e, list[i])
    BY <1>1
  <2> QED
    BY <1>1, <1>3, <2>1, ReadSoFar
<1>5. MaxVersion(e, list) # Null
  BY <1>3, <1>4 DEF IsVersion
<1>6. Odd \notin T
  BY DEF IsVersion
<1> QED
  BY <1>5, <1>6, MaxOfSet

LEMMA LeastVersion ==
    ASSUME NEW e \in Ecosystems, NEW T, IsFiniteSet(T), T # {}, \A v \in T : IsVersion(e, v)
    PROVE  \E v \in T : \A w \in T : Comparator(e, v, w) <= 0
<1> DEFINE n == Cardinality(T)
           list == SetToSeq(T)
           Holds(i) == \E v \in T : \A j \in 1 .. i : Comparator(e, v, list[j]) <= 0
           S == {i \in 1 .. n : ~Holds(i)}
<1>1. /\ n \in Nat \ {0}
      /\ \A i \in 1 .. n : list[i] \in T
      /\ \A v \in T : \E i \in 1 .. n : list[i] = v
  BY SetListed
<1>2. ASSUME S # {} PROVE FALSE
  <2>1. PICK m \in S : \A y \in S : m <= y
    <3>1. S \in SUBSET Nat
      BY <1>1
    <3> QED
      BY <1>2, <3>1, Least
  <2>2. m \in 1 .. n /\ ~Holds(m)
    BY <2>1
  <2> DEFINE new == list[m]
  <2>3. new \in T /\ Comparator(e, new, new) = 0
    BY <1>1, <2>2, ComparatorOrders
  <2>4. m # 1
    <3>1. m = 1 => \A j \in 1 .. m : Comparator(e, new, list[j]) <= 0
      BY <2>3
    <3> QED
      BY <2>2, <2>3, <3>1
  <2>5. m - 1 \in 1 .. n /\ m - 1 \notin S
    BY <1>1, <2>1, <2>2, <2>4
  <2>6. Holds(m - 1)
    BY <2>5
  <2>7. PICK old \in T : \A j \in 1 .. (m - 1) : Comparator(e, old, list[j]) <= 0
    BY <2>6
  <2>8. \A j \in 1 .. m : j \in 1 .. (m - 1) \/ j = m
    BY <1>1, <2>2
  <2>9. CASE Comparator(e, new, old) <= 0
    <3>1. \A j \in 1 .. (m - 1) : Comparator(e, new, list[j]) <= 0
      <4> TAKE j \in 1 .. (m - 1)
      <4>1. list[j] \in T
        BY <1>1, <2>5
      <4>2. Triangle(Comparator(e, new, old), Comparator(e, old, list[j]), Comparator(e, new, list[j]))
        BY <2>3, <2>7, <4>1, ComparatorOrders
      <4> QED
        BY <2>7, <2>9, <4>2 DEF Triangle, Signs
    <3>2. \A j \in 1 .. m : Comparator(e, new, list[j]) <= 0
      BY <2>3, <2>8, <3>1
    <3> QED
      BY <2>2, <2>3, <3>2
  <2>10. CASE ~(Comparator(e, new, old) <= 0)
    <3>1. Comparator(e, old, new) <= 0
      BY <2>3, <2>7, <2>10, ComparatorSigns DEF Signs
    <3>2. \A j \in 1 .. m : Comparator(e, old, list[j]) <= 0
      BY <2>7, <2>8, <3>1
    <3> QED
      BY <2>2, <2>7, <3>2
  <2> QED
    BY <2>9, <2>10
<1>3. Holds(n)
  <2>1. n \in 1 .. n
    BY <1>1
  <2> QED
    BY <1>2, <2>1
<1>4. PICK v \in T : \A j \in 1 .. n : Comparator(e, v, list[j]) <= 0
  BY <1>3
<1>5. \A w \in T : Comparator(e, v, w) <= 0
  BY <1>1, <1>4
<1> QED
  BY <1>5

(***************************************************************************)
(* The comparison of any three versions, however many identifiers, parts   *)
(* and fields they have, is a total order of what can be read, and their   *)
(* maximum is no less than any; with one that cannot be read there is no   *)
(* maximum.  (versions.cjs: a comparator that guesses is worse than one    *)
(* that abstains.)                                                         *)
(***************************************************************************)
THEOREM VersionsOrdered ==
    ASSUME NEW e \in Ecosystems, NEW a, NEW b, NEW c,
           \A v \in {a, b, c} : v = Odd \/ IsVersion(e, v)
    PROVE  VersionsAreOrdered(e, a, b, c)
<1> DEFINE list == <<a, b, c>>
           best == MaxVersion(e, list)
<1>1. /\ list \in Seq({a, b, c}) /\ list # <<>> /\ Len(list) = 3
      /\ list[1] = a /\ list[2] = b /\ list[3] = c
  OBVIOUS
<1>2. PICK f : UpTo(e, list, 3, f) /\ best = f[3]
  BY <1>1, MaxVersionIs
<1> HIDE DEF list
<1>3. \A i \in 1 .. 3 : list[i] \in {a, b, c}
  BY <1>1
<1>4. f[3] = Null \/ Largest(e, list, 3, f[3])
  <2>1. f[3] = Null \/ (3 = 1 /\ f[3] = list[1]) \/ Largest(e, list, 3, f[3])
    BY <1>2, <1>3, MaxSoFar
  <2> QED
    BY <2>1
<1>5. CASE Odd \in {a, b, c}
  <2>1. ~Largest(e, list, 3, f[3])
    BY <1>1, <1>5 DEF Largest
  <2> QED
    BY <1>2, <1>4, <1>5, <2>1 DEF VersionsAreOrdered, list
<1>6. CASE Odd \notin {a, b, c}
  <2>1. IsVersion(e, a) /\ IsVersion(e, b) /\ IsVersion(e, c)
    BY <1>6
  <2>2. f[3] # Null
    <3>1. IsVersion(e, f[3])
      BY <1>2, <1>3, <2>1, ReadSoFar
    <3> QED
      BY <3>1 DEF IsVersion
  <2>3. \A x \in {a, b, c} : Comparator(e, best, x) >= 0
    BY <1>1, <1>2, <1>4, <2>2 DEF Largest
  <2>4. /\ Triangle(Comparator(e, a, b), Comparator(e, b, c), Comparator(e, a, c))
        /\ Comparator(e, a, b) \in Signs /\ Comparator(e, a, b) # Null
        /\ Comparator(e, a, b) = -Comparator(e, b, a)
    BY <2>1, ComparatorOrders, ComparatorSigns
  <2>5. SameVersion(e, a, b) => Comparator(e, a, b) = 0
    <3>1. Null \notin {a, b}
      BY <2>1 DEF IsVersion
    <3> QED
      BY <2>4, <3>1 DEF SameVersion
  <2>6. SameVersion(e, a, b) => Comparator(e, a, c) = Comparator(e, b, c)
    BY <2>4, <2>5 DEF Triangle
  <2>7. Comparator(e, a, b) <= 0 /\ Comparator(e, b, c) <= 0 => Comparator(e, a, c) <= 0
    BY <2>4 DEF Triangle, Signs
  <2> QED
    BY <1>6, <2>3, <2>4, <2>6, <2>7 DEF VersionsAreOrdered, list
<1> QED
  BY <1>5, <1>6

-----------------------------------------------------------------------------
(***************************************************************************)
(* Chains.  A version is below another at the first position where they    *)
(* differ, and a chain whose neighbours ascend is in the order of its      *)
(* positions.                                                              *)
(***************************************************************************)
LEMMA DecidedBelow ==
    ASSUME NEW f, NEW x, Decides(f, x), NEW i \in Positions,
           f[i] = -1, \A j \in Positions : j < i => f[j] = 0
    PROVE  x = -1
<1>1. Decides(f, -1)
  BY DEF Decides
<1> QED
  BY <1>1, DecidedOnce

LEMMA SemverBelow ==
    ASSUME NEW a, NEW b, IsVersion("npm", a), IsVersion("npm", b),
           a.core = b.core, a.pre # <<>>, b.pre # <<>>, NEW i \in Positions,
           At(a.pre, b.pre, i) = -1, \A j \in Positions : j < i => At(a.pre, b.pre, j) = 0
    PROVE  Comparator("npm", a, b) = -1
<1>1. \A v \in {a, b} : v # Odd /\ v.core \in [1 .. 3 -> Nat] /\ v.pre \in Seq(Identifiers)
  BY DEF IsVersion, Identifiers
<1>2. FirstOf(CoreSigns(a, b)) = 0
  <2>1. \A k \in 1 .. 3 : CoreSigns(a, b)[k] = 0
    BY <1>1, DigitsTriangle DEF CoreSigns
  <2> QED
    BY <2>1 DEF FirstOf, CoreSigns
<1>3. FirstOf(PreSigns(a, b)) = -1
  BY <1>1, PreSignsAre, DecidedBelow
<1> QED
  BY <1>1, <1>2, <1>3, SemverIs DEF Comparator, Bare, Then

LEMMA ReleaseAbove ==
    ASSUME NEW a, NEW b, IsVersion("npm", a), IsVersion("npm", b),
           a.core = b.core, a.pre # <<>>, b.pre = <<>>
    PROVE  Comparator("npm", a, b) = -1
<1>1. \A v \in {a, b} : v # Odd /\ v.core \in [1 .. 3 -> Nat]
  BY DEF IsVersion, Identifiers
<1>2. FirstOf(CoreSigns(a, b)) = 0
  <2>1. \A k \in 1 .. 3 : CoreSigns(a, b)[k] = 0
    BY <1>1, DigitsTriangle DEF CoreSigns
  <2> QED
    BY <2>1 DEF FirstOf, CoreSigns
<1> QED
  BY <1>1, <1>2, SemverIs DEF Comparator, Bare, Then

LEMMA PartBelow ==
    ASSUME NEW a, NEW b, IsVersion("pypi", a), IsVersion("pypi", b),
           a.epoch = b.epoch, NEW i \in Positions,
           CompareDigits(Part(a.release, i), Part(b.release, i)) = -1,
           \A j \in Positions : j < i => Part(a.release, j) = Part(b.release, j)
    PROVE  Comparator("pypi", a, b) = -1
<1>1. \A v \in {a, b} : v # Odd /\ v.epoch \in Int /\ v.release \in Seq(Nat)
  BY PyPIParts
<1>2. CompareDigits(a.epoch, b.epoch) = 0
  BY <1>1, DigitsTriangle
<1>3. \A j \in Positions : j < i => CompareDigits(Part(a.release, j), Part(b.release, j)) = 0
  BY <1>1, PartIs, DigitsTriangle
<1>4. FirstOf(ReleaseSigns(a, b)) = -1
  BY <1>1, <1>3, ReleaseSignsAre, DecidedBelow
<1> QED
  BY <1>1, <1>2, <1>4, Pep440Is DEF Comparator, Then

LEMMA FieldBelow ==
    ASSUME NEW a, NEW b, IsVersion("pypi", a), IsVersion("pypi", b),
           a.epoch = b.epoch, \A j \in Positions : Part(a.release, j) = Part(b.release, j),
           NEW i \in 1 .. 3, CompareField(Pep440Key(a)[i], Pep440Key(b)[i]) = -1,
           \A j \in 1 .. 3 : j < i => Pep440Key(a)[j] = Pep440Key(b)[j]
    PROVE  Comparator("pypi", a, b) = -1
<1>1. \A v \in {a, b} : v # Odd /\ v.epoch \in Int /\ v.release \in Seq(Nat)
  BY PyPIParts
<1>2. CompareDigits(a.epoch, b.epoch) = 0
  BY <1>1, DigitsTriangle
<1>3. FirstOf(ReleaseSigns(a, b)) = 0
  <2>1. \A j \in Positions : CompareDigits(Part(a.release, j), Part(b.release, j)) = 0
    BY <1>1, PartIs, DigitsTriangle
  <2>2. Decides(Padded(ReleaseSigns(a, b)), 0)
    BY <1>1, <2>1, ReleaseSignsAre DEF Decides
  <2> QED
    BY <1>1, <2>2, ReleaseSignsAre, DecidedOnce
<1>4. FirstOf(FieldSigns(a, b)) = -1
  <2>1. \A j \in 1 .. 3 : j < i => CompareField(Pep440Key(a)[j], Pep440Key(b)[j]) = 0
    BY KeyIsPairs, FieldTriangle
  <2>2. \A j \in Positions : j < i => j \in 1 .. 3
    BY DEF Positions
  <2>3. i \in Positions
    BY DEF Positions
  <2> QED
    BY <2>1, <2>2, <2>3, FieldSignsAre, DecidedBelow
<1> QED
  BY <1>1, <1>2, <1>3, <1>4, Pep440Is DEF Comparator, Then

LEMMA ChainAscends ==
    ASSUME NEW e \in Ecosystems, NEW n \in Nat, NEW chain, DOMAIN chain = 1 .. n,
           \A i \in 1 .. n : IsVersion(e, chain[i]),
           \A i \in 1 .. (n - 1) : Comparator(e, chain[i], chain[i + 1]) = -1
    PROVE  OrderedLike(e, chain)
<1> DEFINE Below(i, j) == Comparator(e, chain[i], chain[j]) = -1
           Misplaced == {j \in 1 .. n : \E i \in 1 .. n : i < j /\ ~Below(i, j)}
<1>1. ASSUME Misplaced # {} PROVE FALSE
  <2>1. PICK m \in Misplaced : \A y \in Misplaced : m <= y
    <3>1. Misplaced \in SUBSET Nat
      OBVIOUS
    <3> QED
      BY <1>1, <3>1, Least
  <2>2. PICK i \in 1 .. n : i < m /\ ~Below(i, m)
    BY <2>1
  <2>3. m - 1 \in 1 .. (n - 1) /\ (m - 1) + 1 = m /\ m - 1 \in 1 .. n
    BY <2>1, <2>2
  <2>4. Below(m - 1, m)
    BY <2>3
  <2>5. i # m - 1
    BY <2>2, <2>4
  <2>6. i < m - 1 /\ m - 1 \notin Misplaced
    BY <2>1, <2>2, <2>3, <2>5
  <2>7. Below(i, m - 1)
    BY <2>3, <2>6
  <2>8. Triangle(Comparator(e, chain[i], chain[m - 1]), Comparator(e, chain[m - 1], chain[m]),
                 Comparator(e, chain[i], chain[m]))
    BY <2>1, <2>2, <2>3, ComparatorOrders
  <2> QED
    BY <2>2, <2>4, <2>7, <2>8 DEF Triangle
<1>2. \A i, j \in 1 .. n : i < j => Below(i, j)
  BY <1>1
<1>3. ASSUME NEW i \in 1 .. n, NEW j \in 1 .. n
      PROVE  Comparator(e, chain[i], chain[j]) = CompareDigits(i, j)
  <2>1. CASE i < j
    BY <1>2, <2>1 DEF CompareDigits
  <2>2. CASE i = j
    BY <2>2, ComparatorOrders DEF CompareDigits
  <2>3. CASE i > j
    <3>1. Below(j, i)
      BY <1>2, <2>3
    <3>2. Comparator(e, chain[j], chain[i]) = -Comparator(e, chain[i], chain[j])
          /\ Comparator(e, chain[i], chain[j]) \in Signs
      BY ComparatorSigns
    <3> QED
      BY <2>3, <3>1, <3>2 DEF CompareDigits, Signs
  <2> QED
    BY <2>1, <2>2, <2>3
<1> QED
  BY <1>3 DEF OrderedLike
=============================================================================
