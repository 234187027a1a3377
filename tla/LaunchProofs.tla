---------------------------- MODULE LaunchProofs ----------------------------
(***************************************************************************)
(* Launch commands of any length: a pin is read back as the pin, and the   *)
(* canonical command runs what the command it is written from runs.        *)
(*                                                                         *)
(* Options goes through the arguments by a recursive function.  That there *)
(* is one is shown from the last argument backwards, that there is only    *)
(* one by looking at the last argument where two would differ; from then   *)
(* on it is the function that satisfies its equation.                      *)
(***************************************************************************)
EXTENDS Launch, SequenceTheorems, WellFoundedInduction, NaturalsInduction, TLAPS

LEMMA Least ==
    ASSUME NEW S \in SUBSET Nat, S # {}
    PROVE  \E x \in S : \A y \in S : x <= y
<1> DEFINE R == {p \in Nat \X Nat : p[1] < p[2]}
<1>1. IsWellFoundedOn(R, Nat)
  BY NatLessThanWellFounded DEF OpToRel
<1> HIDE DEF R
<1>2. PICK x \in S : \A y \in S : <<y, x>> \notin R
  BY <1>1, WFMin
<1>3. \A y \in S : ~(y < x)
  BY <1>2 DEF R
<1> QED
  BY <1>3

LEMMA FirstIs ==
  ASSUME NEW P \in SUBSET Nat, NEW h \in P, \A k \in P : h <= k
  PROVE  (CHOOSE i \in P : \A j \in P : i <= j) = h
<1> DEFINE at == CHOOSE i \in P : \A j \in P : i <= j
<1>1. at \in P /\ \A j \in P : at <= j
  OBVIOUS
<1> HIDE DEF at
<1>2. at \in Nat /\ h \in Nat /\ at <= h /\ h <= at
  BY <1>1
<1>3. at = h
  BY <1>2
<1> QED
  BY <1>3 DEF at

-----------------------------------------------------------------------------
(***************************************************************************)
(* What Options reads from an argument on, as a function of what it reads  *)
(* further on.                                                             *)
(***************************************************************************)

(* What Options reads from the i-th argument on, given what it reads       *)
(* further on.                                                             *)
Stop(i) == [packages |-> <<>>, at |-> <<>>, moved |-> FALSE, rest |-> i, error |-> FALSE]
Failed(argv) == [packages |-> <<>>, at |-> <<>>, moved |-> FALSE, rest |-> Len(argv) + 1, error |-> TRUE]
Naming(r, w, i) ==
    [packages |-> <<w>> \o r.packages, at |-> <<i>> \o r.at, moved |-> r.moved, rest |-> r.rest, error |-> r.error]
FromHere(argv, from, i) ==
    LET w == argv[i]
    IN  IF i > Len(argv) THEN Stop(Len(argv) + 1)
        ELSE IF w.kind = "end" THEN Stop(i + 1)
        ELSE IF IsWord(w) THEN Stop(i)
        ELSE IF w.kind \in {"refused", "unknown"} THEN Failed(argv)
        ELSE IF w.kind = "bool" THEN from[i + 1]
        ELSE IF w.kind = "value" THEN from[Skip(i, w)]
        ELSE IF w.kind = "source" THEN [from[Skip(i, w)] EXCEPT !.moved = TRUE]
        ELSE IF w.joined THEN Naming(from[i + 1], Spec_(w.name, w.version), 0)
        ELSE IF i = Len(argv) THEN Failed(argv) ELSE Naming(from[i + 2], argv[i + 1], i + 1)
Places(argv) == 1 .. Len(argv) + 2
IsReadOf(argv, from) == from = [i \in Places(argv) |-> FromHere(argv, from, i)]

LEMMA FurtherOn ==
  ASSUME NEW argv, Len(argv) \in Nat, NEW i \in Places(argv), NEW f, NEW g,
         \A j \in Places(argv) : j > i => f[j] = g[j]
  PROVE  FromHere(argv, f, i) = FromHere(argv, g, i)
<1>1. CASE i > Len(argv)
  BY <1>1 DEF FromHere
<1>2. CASE ~(i > Len(argv))
  <2>1. i + 1 \in Places(argv) /\ i + 2 \in Places(argv) /\ i + 1 > i /\ i + 2 > i
    BY <1>2 DEF Places
  <2>2. f[i + 1] = g[i + 1] /\ f[i + 2] = g[i + 2]
    BY <2>1
  <2>3. f[Skip(i, argv[i])] = g[Skip(i, argv[i])]
    BY <2>2 DEF Skip
  <2> QED
    BY <2>2, <2>3 DEF FromHere
<1> QED
  BY <1>1, <1>2

ReadFrom(argv, f, k) ==
    f = [i \in Places(argv) |-> f[i]] /\ \A i \in Places(argv) : i >= k => f[i] = FromHere(argv, f, i)

LEMMA ReadBackwards ==
  ASSUME NEW argv, Len(argv) \in Nat, NEW k \in Places(argv), NEW f, ReadFrom(argv, f, k + 1)
  PROVE  \E g : ReadFrom(argv, g, k)
<1> DEFINE g == [i \in Places(argv) |-> IF i = k THEN FromHere(argv, f, k) ELSE f[i]]
<1>1. g = [i \in Places(argv) |-> g[i]]
  OBVIOUS
<1>2. ASSUME NEW i \in Places(argv), i >= k PROVE g[i] = FromHere(argv, g, i)
  <2>1. \A j \in Places(argv) : j > i => f[j] = g[j]
    BY <1>2 DEF Places
  <2>2. FromHere(argv, f, i) = FromHere(argv, g, i)
    BY <2>1, FurtherOn
  <2>3. g[i] = FromHere(argv, f, i)
    <3>1. CASE i = k
      BY <3>1
    <3>2. CASE i # k
      <4>1. i >= k + 1 /\ g[i] = f[i]
        BY <1>2, <3>2 DEF Places
      <4> QED
        BY <4>1 DEF ReadFrom
    <3> QED
      BY <3>1, <3>2
  <2> QED
    BY <2>2, <2>3
<1> HIDE DEF g
<1> QED
  BY <1>1, <1>2 DEF ReadFrom

LEMMA ReadExists ==
  ASSUME NEW argv, Len(argv) \in Nat
  PROVE  \E f : IsReadOf(argv, f)
<1> DEFINE n == Len(argv)
           unread == {k \in Nat : k <= n + 2 /\ ~\E f : ReadFrom(argv, f, n + 3 - k)}
<1>1. unread = {}
  <2> SUFFICES ASSUME unread # {} PROVE FALSE
    OBVIOUS
  <2>1. PICK k \in unread : \A x \in unread : k <= x
    BY Least
  <2>2. k # 0
    <3> SUFFICES ASSUME k = 0 PROVE FALSE
      OBVIOUS
    <3> DEFINE f == [i \in Places(argv) |-> 0]
    <3>1. \A i \in Places(argv) : ~(i >= n + 3 - k)
      BY DEF Places
    <3>2. f = [i \in Places(argv) |-> f[i]]
      OBVIOUS
    <3> HIDE DEF f
    <3>3. ReadFrom(argv, f, n + 3 - k)
      BY <3>1, <3>2 DEF ReadFrom
    <3> QED
      BY <3>3
  <2>3. k - 1 \in Nat /\ k - 1 <= n + 2 /\ ~(k <= k - 1)
    BY <2>2
  <2>4. k - 1 \notin unread
    BY <2>1, <2>3
  <2>5. PICK f : ReadFrom(argv, f, n + 3 - (k - 1))
    BY <2>3, <2>4
  <2>6. n + 3 - k \in Places(argv) /\ n + 3 - (k - 1) = (n + 3 - k) + 1
    BY <2>2 DEF Places
  <2>7. ReadFrom(argv, f, (n + 3 - k) + 1)
    BY <2>5, <2>6
  <2>8. \E g : ReadFrom(argv, g, n + 3 - k)
    BY <2>6, <2>7, ReadBackwards
  <2> QED
    BY <2>8
<1>2. n + 2 \in Nat /\ n + 3 - (n + 2) = 1
  OBVIOUS
<1>3. PICK f : ReadFrom(argv, f, 1)
  BY <1>1, <1>2
<1>4. \A i \in Places(argv) : i >= 1
  BY DEF Places
<1>5. f = [i \in Places(argv) |-> f[i]] /\ \A i \in Places(argv) : f[i] = FromHere(argv, f, i)
  BY <1>3, <1>4 DEF ReadFrom
<1>6. f = [i \in Places(argv) |-> FromHere(argv, f, i)]
  BY <1>5
<1> QED
  BY <1>6 DEF IsReadOf

LEMMA OptionsAre ==
  ASSUME NEW argv, Len(argv) \in Nat
  PROVE  \E f : IsReadOf(argv, f) /\ Options(argv) = f[1]
<1> DEFINE n == Len(argv)
           stop(i) == [packages |-> <<>>, at |-> <<>>, moved |-> FALSE, rest |-> i, error |-> FALSE]
           failed == [packages |-> <<>>, at |-> <<>>, moved |-> FALSE, rest |-> n + 1, error |-> TRUE]
           name(r, w, i) == [packages |-> <<w>> \o r.packages, at |-> <<i>> \o r.at,
                             moved |-> r.moved, rest |-> r.rest, error |-> r.error]
           Rule(from) == [i \in 1 .. n + 2 |->
            IF i > n THEN stop(n + 1)
            ELSE LET w == argv[i] IN
                IF w.kind = "end" THEN stop(i + 1)
                ELSE IF IsWord(w) THEN stop(i)
                ELSE IF w.kind \in {"refused", "unknown"} THEN failed
                ELSE IF w.kind = "bool" THEN from[i + 1]
                ELSE IF w.kind = "value" THEN from[Skip(i, w)]
                ELSE IF w.kind = "source" THEN [from[Skip(i, w)] EXCEPT !.moved = TRUE]
                ELSE IF w.joined THEN name(from[i + 1], Spec_(w.name, w.version), 0)
                ELSE IF i = n THEN failed ELSE name(from[i + 2], argv[i + 1], i + 1)]
           chosen == CHOOSE from : from = Rule(from)
<1>1. Options(argv) = chosen[1]
  BY DEF Options
<1>2. \A f : Rule(f) = [i \in Places(argv) |-> FromHere(argv, f, i)]
  BY DEF Places, FromHere, Stop, Failed, Naming
<1> HIDE DEF Rule
<1>3. \E f : f = Rule(f)
  <2>1. PICK f : IsReadOf(argv, f)
    BY ReadExists
  <2>2. f = Rule(f)
    BY <1>2, <2>1 DEF IsReadOf
  <2> QED
    BY <2>2
<1>4. chosen = Rule(chosen)
  BY <1>3
<1> HIDE DEF chosen
<1>5. IsReadOf(argv, chosen)
  BY <1>2, <1>4 DEF IsReadOf
<1> QED
  BY <1>1, <1>5

LEMMA Greatest ==
  ASSUME NEW m \in Nat, NEW B, B \subseteq 1 .. m, B # {}
  PROVE  \E i \in B : \A j \in B : j <= i
<1> DEFINE far == {m - i : i \in B}
<1>1. far \in SUBSET Nat /\ far # {}
  <2>1. \A i \in B : m - i \in Nat
    OBVIOUS
  <2> QED
    BY <2>1
<1>2. PICK x \in far : \A y \in far : x <= y
  BY <1>1, Least
<1>3. PICK i \in B : x = m - i
  BY <1>2
<1>4. ASSUME NEW j \in B PROVE j <= i
  <2>1. m - i <= m - j
    BY <1>2, <1>3
  <2> QED
    BY <2>1
<1> QED
  BY <1>4

LEMMA Prepended ==
  ASSUME NEW S, NEW w \in S, NEW s \in Seq(S)
  PROVE  /\ <<w>> \o s \in Seq(S) /\ Len(<<w>> \o s) = Len(s) + 1 /\ (<<w>> \o s)[1] = w
         /\ \A j \in 1 .. Len(s) : (<<w>> \o s)[j + 1] = s[j]
<1>1. <<w>> \in Seq(S) /\ Len(<<w>>) = 1 /\ <<w>>[1] = w
  OBVIOUS
<1> DEFINE both == <<w>> \o s
<1>2. /\ both \in Seq(S) /\ Len(both) = 1 + Len(s)
      /\ \A i \in 1 .. 1 + Len(s) : both[i] = IF i <= 1 THEN <<w>>[i] ELSE s[i - 1]
  BY <1>1, ConcatProperties
<1>0. Len(s) \in Nat
  OBVIOUS
<1> HIDE DEF both
<1>3. both[1] = w
  BY <1>0, <1>1, <1>2
<1>4. ASSUME NEW j \in 1 .. Len(s) PROVE both[j + 1] = s[j]
  <2>1. j + 1 \in 1 .. 1 + Len(s) /\ ~(j + 1 <= 1) /\ (j + 1) - 1 = j
    BY <1>0
  <2> QED
    BY <1>2, <2>1
<1> QED
  BY <1>0, <1>2, <1>3, <1>4 DEF both

(* A reading of the options of `argv`: every package stands where `at` says. *)
Sound(argv, r) ==
    /\ r \in [packages : Seq(Words), at : Seq(Nat), moved : BOOLEAN, rest : 1 .. Len(argv) + 1, error : BOOLEAN]
    /\ Len(r.at) = Len(r.packages)
    /\ \A j \in 1 .. Len(r.at) : r.at[j] = 0 \/ (r.at[j] \in 1 .. Len(argv) /\ r.packages[j] = argv[r.at[j]])

LEMMA StopIsSound ==
  ASSUME NEW argv, Len(argv) \in Nat, NEW i \in 1 .. Len(argv) + 1
  PROVE  Sound(argv, Stop(i)) /\ Sound(argv, Failed(argv))
<1>1. <<>> \in Seq(Words) /\ <<>> \in Seq(Nat) /\ Len(<<>>) = 0
  OBVIOUS
<1>2. \A k \in 1 .. Len(argv) + 1, e \in BOOLEAN :
         Sound(argv, [packages |-> <<>>, at |-> <<>>, moved |-> FALSE, rest |-> k, error |-> e])
  BY <1>1 DEF Sound
<1>3. Len(argv) + 1 \in 1 .. Len(argv) + 1
  OBVIOUS
<1>4. Failed(argv) = [packages |-> <<>>, at |-> <<>>, moved |-> FALSE, rest |-> Len(argv) + 1, error |-> TRUE]
  BY DEF Failed
<1> QED
  BY <1>2, <1>3, <1>4 DEF Stop

NamedIs(s, r, w, i) ==
    /\ s = [packages |-> <<w>> \o r.packages, at |-> <<i>> \o r.at, moved |-> r.moved, rest |-> r.rest, error |-> r.error]
    /\ s.packages \in Seq(Words) /\ Len(s.packages) = Len(r.packages) + 1 /\ s.packages[1] = w
    /\ \A j \in 1 .. Len(r.packages) : s.packages[j + 1] = r.packages[j]
    /\ s.at \in Seq(Nat) /\ Len(s.at) = Len(r.at) + 1 /\ s.at[1] = i
    /\ \A j \in 1 .. Len(r.at) : s.at[j + 1] = r.at[j]

LEMMA NamingIs ==
  ASSUME NEW argv, NEW r, Sound(argv, r), NEW w \in Words, NEW i \in Nat
  PROVE  NamedIs(Naming(r, w, i), r, w, i)
<1> DEFINE s == Naming(r, w, i)
<1>1. s = [packages |-> <<w>> \o r.packages, at |-> <<i>> \o r.at, moved |-> r.moved, rest |-> r.rest, error |-> r.error]
  BY DEF Naming
<1>2. r.packages \in Seq(Words) /\ r.at \in Seq(Nat)
  BY DEF Sound
<1>3. /\ <<w>> \o r.packages \in Seq(Words) /\ Len(<<w>> \o r.packages) = Len(r.packages) + 1
      /\ (<<w>> \o r.packages)[1] = w
      /\ \A j \in 1 .. Len(r.packages) : (<<w>> \o r.packages)[j + 1] = r.packages[j]
  BY <1>2, Prepended
<1>4. /\ <<i>> \o r.at \in Seq(Nat) /\ Len(<<i>> \o r.at) = Len(r.at) + 1 /\ (<<i>> \o r.at)[1] = i
      /\ \A j \in 1 .. Len(r.at) : (<<i>> \o r.at)[j + 1] = r.at[j]
  BY <1>2, Prepended
<1>5. s.packages = <<w>> \o r.packages /\ s.at = <<i>> \o r.at
  BY <1>1
<1> HIDE DEF s
<1>6. NamedIs(s, r, w, i)
  BY <1>1, <1>3, <1>4, <1>5 DEF NamedIs
<1> QED
  BY <1>6 DEF s

LEMMA NamingIsSound ==
  ASSUME NEW argv, NEW r, Sound(argv, r), NEW w \in Words, NEW i \in Nat,
         i = 0 \/ (i \in 1 .. Len(argv) /\ w = argv[i])
  PROVE  Sound(argv, Naming(r, w, i))
<1> DEFINE s == Naming(r, w, i)
<1>1. NamedIs(s, r, w, i)
  BY NamingIs
<1> HIDE DEF s
<1>2. s \in [packages : Seq(Words), at : Seq(Nat), moved : BOOLEAN, rest : 1 .. Len(argv) + 1, error : BOOLEAN]
  <2>1. /\ <<w>> \o r.packages \in Seq(Words) /\ <<i>> \o r.at \in Seq(Nat)
        /\ r.moved \in BOOLEAN /\ r.error \in BOOLEAN /\ r.rest \in 1 .. Len(argv) + 1
    BY <1>1 DEF Sound, NamedIs
  <2> QED
    BY <1>1, <2>1 DEF NamedIs
<1>3. Len(r.at) \in Nat /\ Len(r.at) = Len(r.packages)
  BY DEF Sound
<1>4. ASSUME NEW j \in 1 .. Len(s.at)
      PROVE  s.at[j] = 0 \/ (s.at[j] \in 1 .. Len(argv) /\ s.packages[j] = argv[s.at[j]])
  <2>1. CASE j = 1
    BY <1>1, <2>1 DEF NamedIs
  <2>2. CASE j # 1
    <3>1. j - 1 \in 1 .. Len(r.at) /\ j - 1 \in 1 .. Len(r.packages) /\ (j - 1) + 1 = j
      BY <1>1, <1>3, <2>2 DEF NamedIs
    <3>2. s.at[j] = r.at[j - 1] /\ s.packages[j] = r.packages[j - 1]
      BY <1>1, <3>1 DEF NamedIs
    <3> QED
      BY <3>1, <3>2 DEF Sound
  <2> QED
    BY <2>1, <2>2
<1>5. Sound(argv, s)
  BY <1>1, <1>2, <1>3, <1>4 DEF Sound, NamedIs
<1> QED
  BY <1>5 DEF s

LEMMA WordsAre ==
  ASSUME NEW w \in Words
  PROVE  /\ w.kind \in {"end", "bool", "unknown", "refused", "other", "value", "source", "package", "spec"}
         /\ w = [kind |-> w.kind, joined |-> w.joined, name |-> w.name, version |-> w.version]
         /\ w.joined \in BOOLEAN
         /\ (w.kind = "spec" \/ (w.kind = "package" /\ w.joined)) => w.name \in Names /\ w.version \in Specifiers
         /\ w.kind = "spec" => w = Spec_(w.name, w.version)
  BY DEF Words, Word, Spec_

LEMMA SpecIsWord == \A n \in Names, v \in Specifiers : Spec_(n, v) \in Words
  BY DEF Words, Word, Spec_

LEMMA HereIsSound ==
  ASSUME NEW argv \in Seq(Words), NEW i \in Places(argv), NEW f,
         \A j \in Places(argv) : j > i => Sound(argv, f[j])
  PROVE  Sound(argv, FromHere(argv, f, i))
<1> DEFINE w == argv[i]
<1>0. Len(argv) \in Nat
  OBVIOUS
<1>1. CASE i > Len(argv)
  <2>1. FromHere(argv, f, i) = Stop(Len(argv) + 1) /\ Len(argv) + 1 \in 1 .. Len(argv) + 1
    BY <1>0, <1>1 DEF FromHere
  <2> QED
    BY <1>0, <2>1, StopIsSound
<1>2. CASE ~(i > Len(argv))
  <2>0. i \in 1 .. Len(argv) /\ i + 1 \in 1 .. Len(argv) + 1 /\ i \in 1 .. Len(argv) + 1
    BY <1>0, <1>2 DEF Places
  <2>1. w \in Words
    BY <2>0
  <2>2. Sound(argv, f[i + 1]) /\ Sound(argv, f[i + 2])
    <3>1. i + 1 \in Places(argv) /\ i + 1 > i /\ i + 2 \in Places(argv) /\ i + 2 > i
      BY <1>0, <2>0 DEF Places
    <3> QED
      BY <3>1
  <2>3. Sound(argv, f[Skip(i, w)])
    BY <2>2 DEF Skip
  <2>4. Sound(argv, [f[Skip(i, w)] EXCEPT !.moved = TRUE])
    <3>1. ASSUME NEW r, Sound(argv, r) PROVE Sound(argv, [r EXCEPT !.moved = TRUE])
      BY <3>1 DEF Sound
    <3> QED
      BY <2>3, <3>1
  <2>5. Sound(argv, Stop(i)) /\ Sound(argv, Stop(i + 1)) /\ Sound(argv, Failed(argv))
    BY <1>0, <2>0, StopIsSound
  <2>6. w.kind = "package" /\ w.joined => Sound(argv, Naming(f[i + 1], Spec_(w.name, w.version), 0))
    <3> SUFFICES ASSUME w.kind = "package", w.joined PROVE Sound(argv, Naming(f[i + 1], Spec_(w.name, w.version), 0))
      OBVIOUS
    <3>1. Spec_(w.name, w.version) \in Words
      BY <2>1, WordsAre, SpecIsWord
    <3> QED
      BY <2>2, <3>1, NamingIsSound
  <2>7. i # Len(argv) => Sound(argv, Naming(f[i + 2], argv[i + 1], i + 1))
    <3> SUFFICES ASSUME i # Len(argv) PROVE Sound(argv, Naming(f[i + 2], argv[i + 1], i + 1))
      OBVIOUS
    <3>1. i + 1 \in 1 .. Len(argv) /\ argv[i + 1] \in Words /\ i + 1 \in Nat
      BY <1>0, <2>0
    <3> QED
      BY <2>2, <3>1, NamingIsSound
  <2>8. w.kind \in {"end", "bool", "unknown", "refused", "other", "value", "source", "package", "spec"}
    BY <2>1, WordsAre
  <2> QED
    BY <1>2, <2>2, <2>3, <2>4, <2>5, <2>6, <2>7, <2>8 DEF FromHere, IsWord
<1> QED
  BY <1>1, <1>2

LEMMA ReadIsSound ==
  ASSUME NEW argv \in Seq(Words), NEW f, IsReadOf(argv, f)
  PROVE  \A i \in Places(argv) : Sound(argv, f[i])
<1> DEFINE bad == {i \in Places(argv) : ~Sound(argv, f[i])}
<1>0. Len(argv) + 2 \in Nat
  OBVIOUS
<1> SUFFICES ASSUME bad # {} PROVE FALSE
  OBVIOUS
<1>1. PICK i \in bad : \A j \in bad : j <= i
  BY <1>0, Greatest DEF Places
<1>2. \A j \in Places(argv) : j > i => Sound(argv, f[j])
  BY <1>0, <1>1 DEF Places
<1>3. Sound(argv, FromHere(argv, f, i))
  BY <1>2, HereIsSound
<1>4. f[i] = FromHere(argv, f, i)
  BY DEF IsReadOf
<1> QED
  BY <1>3, <1>4

LEMMA OptionsAreSound ==
  ASSUME NEW argv \in Seq(Words)
  PROVE  Sound(argv, Options(argv))
<1>0. Len(argv) \in Nat
  OBVIOUS
<1>1. PICK f : IsReadOf(argv, f) /\ Options(argv) = f[1]
  BY <1>0, OptionsAre
<1>2. 1 \in Places(argv)
  BY <1>0 DEF Places
<1> QED
  BY <1>1, <1>2, ReadIsSound

-----------------------------------------------------------------------------
(***************************************************************************)
(* A pin is read back as the pin (PinInstallCmd).                          *)
(***************************************************************************)

(* Two launches that differ in the specifier of the package word at `h`.   *)
Repinned(argv, other, h) ==
    /\ argv \in Seq(Words) /\ other \in Seq(Words) /\ Len(other) = Len(argv)
    /\ h \in 1 .. Len(argv) /\ argv[h].kind = "spec" /\ other[h].kind = "spec"
    /\ \A k \in 1 .. Len(argv) : k # h => other[k] = argv[k]

(* Their options are read alike, but for the package that stands there.    *)
ReadAlike(other, h, r, s) ==
    /\ s.at = r.at /\ s.moved = r.moved /\ s.rest = r.rest /\ s.error = r.error
    /\ Len(s.packages) = Len(r.packages)
    /\ \A j \in 1 .. Len(r.packages) : s.packages[j] = IF r.at[j] = h THEN other[h] ELSE r.packages[j]

LEMMA NamedAlike ==
  ASSUME NEW argv, NEW other, NEW h, NEW r, NEW s, Sound(argv, r), Sound(other, s), ReadAlike(other, h, r, s),
         NEW w \in Words, NEW x \in Words, NEW i \in Nat, x = IF i = h THEN other[h] ELSE w
  PROVE  ReadAlike(other, h, Naming(r, w, i), Naming(s, x, i))
<1> DEFINE p == Naming(r, w, i)
           q == Naming(s, x, i)
<1>1. NamedIs(p, r, w, i) /\ NamedIs(q, s, x, i)
  BY NamingIs
<1> HIDE DEF p, q
<1>2. /\ Len(r.packages) \in Nat /\ Len(s.packages) = Len(r.packages) /\ Len(r.at) = Len(r.packages)
      /\ r.at = s.at /\ r.moved = s.moved /\ r.rest = s.rest /\ r.error = s.error
  BY DEF Sound, ReadAlike
<1>3. q.at = p.at /\ q.moved = p.moved /\ q.rest = p.rest /\ q.error = p.error
  BY <1>1, <1>2 DEF NamedIs
<1>4. Len(p.packages) = Len(r.packages) + 1 /\ Len(q.packages) = Len(p.packages)
  BY <1>1, <1>2 DEF NamedIs
<1>5. ASSUME NEW j \in 1 .. Len(p.packages)
      PROVE  q.packages[j] = IF p.at[j] = h THEN other[h] ELSE p.packages[j]
  <2>1. CASE j = 1
    BY <1>1, <2>1 DEF NamedIs
  <2>2. CASE j # 1
    <3>1. j - 1 \in 1 .. Len(r.packages) /\ (j - 1) + 1 = j
      BY <1>2, <1>4, <2>2
    <3>2. p.packages[j] = r.packages[j - 1] /\ q.packages[j] = s.packages[j - 1] /\ p.at[j] = r.at[j - 1]
      BY <1>1, <1>2, <3>1 DEF NamedIs
    <3> QED
      BY <3>1, <3>2 DEF ReadAlike
  <2> QED
    BY <2>1, <2>2
<1>6. ReadAlike(other, h, p, q)
  BY <1>3, <1>4, <1>5 DEF ReadAlike
<1> QED
  BY <1>6 DEF p, q

LEMMA EndAlike ==
  ASSUME NEW other, NEW h, NEW i
  PROVE  ReadAlike(other, h, Stop(i), Stop(i))
<1>1. Len(<<>>) = 0
  OBVIOUS
<1> QED
  BY <1>1 DEF ReadAlike, Stop

LEMMA FailAlike ==
  ASSUME NEW argv, NEW other, NEW h, Len(other) = Len(argv)
  PROVE  ReadAlike(other, h, Failed(argv), Failed(other))
<1>1. Len(<<>>) = 0
  OBVIOUS
<1> QED
  BY <1>1 DEF ReadAlike, Failed

LEMMA HereAlike ==
  ASSUME NEW argv, NEW other, NEW h, Repinned(argv, other, h), NEW i \in Places(argv), NEW f, NEW g,
         \A j \in Places(argv) : j > i => Sound(argv, f[j]) /\ Sound(other, g[j]) /\ ReadAlike(other, h, f[j], g[j])
  PROVE  ReadAlike(other, h, FromHere(argv, f, i), FromHere(other, g, i))
<1> DEFINE n == Len(argv)
           w == argv[i]
           x == other[i]
<1>0. /\ n \in Nat /\ Len(other) = n /\ h \in 1 .. n
      /\ \A k \in 1 .. n : argv[k] \in Words /\ other[k] \in Words
  BY DEF Repinned
<1>1. CASE i > n
  <2>1. FromHere(argv, f, i) = Stop(n + 1) /\ FromHere(other, g, i) = Stop(n + 1)
    BY <1>0, <1>1 DEF FromHere
  <2> QED
    BY <2>1, EndAlike
<1>2. CASE i = h
  <2>1. ~(i > n) /\ w.kind = "spec" /\ x.kind = "spec"
    BY <1>0, <1>2 DEF Repinned
  <2>2. FromHere(argv, f, i) = Stop(i) /\ FromHere(other, g, i) = Stop(i)
    BY <1>0, <2>1 DEF FromHere, IsWord
  <2> QED
    BY <2>2, EndAlike
<1>3. CASE ~(i > n) /\ i # h
  <2>0. i \in 1 .. n /\ x = w /\ w \in Words
    BY <1>0, <1>3 DEF Places, Repinned
  <2>1. /\ Sound(argv, f[i + 1]) /\ Sound(other, g[i + 1]) /\ ReadAlike(other, h, f[i + 1], g[i + 1])
        /\ Sound(argv, f[i + 2]) /\ Sound(other, g[i + 2]) /\ ReadAlike(other, h, f[i + 2], g[i + 2])
    <3>1. i + 1 \in Places(argv) /\ i + 1 > i /\ i + 2 \in Places(argv) /\ i + 2 > i
      BY <1>0, <2>0 DEF Places
    <3> QED
      BY <3>1
  <2>2. ReadAlike(other, h, f[Skip(i, w)], g[Skip(i, w)])
    BY <2>1 DEF Skip
  <2>3. ReadAlike(other, h, [f[Skip(i, w)] EXCEPT !.moved = TRUE], [g[Skip(i, w)] EXCEPT !.moved = TRUE])
    <3>1. ASSUME NEW r, NEW s, Sound(argv, r), Sound(other, s), ReadAlike(other, h, r, s)
          PROVE  ReadAlike(other, h, [r EXCEPT !.moved = TRUE], [s EXCEPT !.moved = TRUE])
      BY <3>1 DEF ReadAlike, Sound
    <3>2. Sound(argv, f[Skip(i, w)]) /\ Sound(other, g[Skip(i, w)])
      BY <2>1 DEF Skip
    <3> QED
      BY <2>2, <3>1, <3>2
  <2>4. ReadAlike(other, h, Stop(i), Stop(i)) /\ ReadAlike(other, h, Stop(i + 1), Stop(i + 1))
    BY EndAlike
  <2>5. ReadAlike(other, h, Failed(argv), Failed(other))
    BY <1>0, FailAlike
  <2>6. w.kind = "package" /\ w.joined =>
           ReadAlike(other, h, Naming(f[i + 1], Spec_(w.name, w.version), 0), Naming(g[i + 1], Spec_(w.name, w.version), 0))
    <3> SUFFICES ASSUME w.kind = "package", w.joined
                 PROVE  ReadAlike(other, h, Naming(f[i + 1], Spec_(w.name, w.version), 0), Naming(g[i + 1], Spec_(w.name, w.version), 0))
      OBVIOUS
    <3>1. Spec_(w.name, w.version) \in Words
      BY <2>0, WordsAre, SpecIsWord
    <3>2. 0 # h /\ 0 \in Nat
      BY <1>0
    <3> HIDE DEF w
    <3> QED
      BY <2>1, <3>1, <3>2, NamedAlike
  <2>7. i # n => ReadAlike(other, h, Naming(f[i + 2], argv[i + 1], i + 1), Naming(g[i + 2], other[i + 1], i + 1))
    <3> SUFFICES ASSUME i # n
                 PROVE  ReadAlike(other, h, Naming(f[i + 2], argv[i + 1], i + 1), Naming(g[i + 2], other[i + 1], i + 1))
      OBVIOUS
    <3>1. i + 1 \in 1 .. n /\ argv[i + 1] \in Words /\ other[i + 1] \in Words /\ i + 1 \in Nat
      BY <1>0, <2>0
    <3>2. other[i + 1] = IF i + 1 = h THEN other[h] ELSE argv[i + 1]
      BY <3>1 DEF Repinned
    <3> QED
      BY <2>1, <3>1, <3>2, NamedAlike
  <2>8. w.kind \in {"end", "bool", "unknown", "refused", "other", "value", "source", "package", "spec"}
    BY <2>0, WordsAre
  <2>9. /\ FromHere(argv, f, i) =
             (IF w.kind = "end" THEN Stop(i + 1)
              ELSE IF IsWord(w) THEN Stop(i)
              ELSE IF w.kind \in {"refused", "unknown"} THEN Failed(argv)
              ELSE IF w.kind = "bool" THEN f[i + 1]
              ELSE IF w.kind = "value" THEN f[Skip(i, w)]
              ELSE IF w.kind = "source" THEN [f[Skip(i, w)] EXCEPT !.moved = TRUE]
              ELSE IF w.joined THEN Naming(f[i + 1], Spec_(w.name, w.version), 0)
              ELSE IF i = n THEN Failed(argv) ELSE Naming(f[i + 2], argv[i + 1], i + 1))
        /\ FromHere(other, g, i) =
             (IF w.kind = "end" THEN Stop(i + 1)
              ELSE IF IsWord(w) THEN Stop(i)
              ELSE IF w.kind \in {"refused", "unknown"} THEN Failed(other)
              ELSE IF w.kind = "bool" THEN g[i + 1]
              ELSE IF w.kind = "value" THEN g[Skip(i, w)]
              ELSE IF w.kind = "source" THEN [g[Skip(i, w)] EXCEPT !.moved = TRUE]
              ELSE IF w.joined THEN Naming(g[i + 1], Spec_(w.name, w.version), 0)
              ELSE IF i = n THEN Failed(other) ELSE Naming(g[i + 2], other[i + 1], i + 1))
    BY <1>0, <1>3, <2>0 DEF FromHere
  <2> HIDE DEF n, w, x
  <2>10. CASE w.kind \in {"end", "spec", "other", "refused", "unknown"}
    BY <2>4, <2>5, <2>9, <2>10 DEF IsWord
  <2>11. CASE w.kind \in {"bool", "value"}
    BY <2>1, <2>2, <2>9, <2>11 DEF IsWord
  <2>12. CASE w.kind = "source"
    BY <2>3, <2>9, <2>12 DEF IsWord
  <2>13. CASE w.kind = "package"
    <3>1. CASE w.joined
      BY <2>6, <2>9, <2>13, <3>1 DEF IsWord
    <3>2. CASE ~w.joined
      BY <2>5, <2>7, <2>9, <2>13, <3>2 DEF IsWord
    <3> QED
      BY <3>1, <3>2
  <2> QED
    BY <2>8, <2>10, <2>11, <2>12, <2>13
<1> QED
  BY <1>0, <1>1, <1>2, <1>3 DEF Places

LEMMA OptionsAlike ==
  ASSUME NEW argv, NEW other, NEW h, Repinned(argv, other, h)
  PROVE  ReadAlike(other, h, Options(argv), Options(other))
<1>0. /\ argv \in Seq(Words) /\ other \in Seq(Words) /\ Len(argv) \in Nat /\ Len(other) = Len(argv)
      /\ Places(other) = Places(argv) /\ 1 \in Places(argv) /\ Len(argv) + 2 \in Nat
  <2>1. argv \in Seq(Words) /\ other \in Seq(Words) /\ Len(other) = Len(argv)
    BY DEF Repinned
  <2> QED
    BY <2>1 DEF Places
<1>1. PICK f : IsReadOf(argv, f) /\ Options(argv) = f[1]
  BY <1>0, OptionsAre
<1>2. PICK g : IsReadOf(other, g) /\ Options(other) = g[1]
  BY <1>0, OptionsAre
<1>3. \A i \in Places(argv) : Sound(argv, f[i]) /\ Sound(other, g[i])
  BY <1>0, <1>1, <1>2, ReadIsSound
<1> DEFINE bad == {i \in Places(argv) : ~ReadAlike(other, h, f[i], g[i])}
<1>4. bad = {}
  <2> SUFFICES ASSUME bad # {} PROVE FALSE
    OBVIOUS
  <2>1. PICK i \in bad : \A j \in bad : j <= i
    BY <1>0, Greatest DEF Places
  <2>2. \A j \in Places(argv) : j > i => ReadAlike(other, h, f[j], g[j])
    BY <1>0, <2>1 DEF Places
  <2>3. ReadAlike(other, h, FromHere(argv, f, i), FromHere(other, g, i))
    BY <1>3, <2>2, HereAlike
  <2>4. f[i] = FromHere(argv, f, i) /\ g[i] = FromHere(other, g, i)
    BY <1>0, <1>1, <1>2 DEF IsReadOf
  <2> QED
    BY <2>3, <2>4
<1> QED
  BY <1>0, <1>1, <1>2, <1>4

LEMMA MainOfOne ==
  ASSUME NEW x, NEW bin
  PROVE  MainPackage(<<x>>, bin) = x
<1> DEFINE read == <<x>>
           like == {i \in DOMAIN read : bin # <<>> /\ read[i].name = bin[1].name}
<1>1. read[1] = x /\ Head(read) = x /\ \A i \in DOMAIN read : i = 1
  OBVIOUS
<1>2. like # {} => (CHOOSE i \in like : \A j \in like : i <= j) = 1
  <2> SUFFICES ASSUME like # {} PROVE (CHOOSE i \in like : \A j \in like : i <= j) = 1
    OBVIOUS
  <2>1. like \in SUBSET Nat /\ 1 \in like /\ \A k \in like : 1 <= k
    BY <1>1
  <2> QED
    BY <2>1, FirstIs
<1> QED
  BY <1>1, <1>2 DEF MainPackage

(* A launch that reads one package. *)
LEMMA LaunchOfOne ==
  ASSUME NEW o, ~o.error, NEW x, x.kind = "spec", NEW named, NEW words,
         (named = <<>> /\ FirstWord(words) = <<x>>) \/ named = <<x>>
  PROVE  /\ LaunchOf(o, named, words).package = x.name
         /\ LaunchOf(o, named, words).version = x.version
         /\ LaunchOf(o, named, words).error = o.moved
         /\ LaunchOf(o, named, words).packages = <<x>>
<1> DEFINE read == IF named = <<>> THEN FirstWord(words) ELSE named
           bin == IF named = <<>> THEN <<>> ELSE FirstWord(words)
<1>1. read = <<x>>
  <2>1. <<x>> # <<>>
    OBVIOUS
  <2> QED
    BY <2>1
<1>2. ~(o.error \/ read = <<>> \/ \E i \in DOMAIN read : read[i].kind # "spec")
  BY <1>1
<1>3. MainPackage(read, bin) = x
  BY <1>1, MainOfOne
<1>4. LaunchOf(o, named, words) =
        [package |-> MainPackage(read, bin).name, version |-> MainPackage(read, bin).version,
         packages |-> read, named |-> named # <<>>, bin |-> bin,
         args |-> IF words = <<>> THEN <<>> ELSE Tail(words), error |-> o.moved]
  BY <1>2 DEF LaunchOf
<1> HIDE DEF read, bin
<1> QED
  BY <1>1, <1>3, <1>4

(* A launch that is not read in error: its options were not. *)
LEMMA ReadMeans ==
  ASSUME NEW o, NEW named, NEW words, ~LaunchOf(o, named, words).error
  PROVE  ~o.error /\ ~o.moved
<1>1. Unread.error
  BY DEF Unread
<1>2. ~o.error
  BY <1>1 DEF LaunchOf
<1> DEFINE l == LaunchOf(o, named, words)
<1>3. \/ l = Unread
      \/ \E p, v, ps, nm, b, a : l = [package |-> p, version |-> v, packages |-> ps, named |-> nm, bin |-> b,
                                      args |-> a, error |-> o.moved]
  BY Zenon DEF LaunchOf
<1> HIDE DEF l
<1>4. ~o.moved
  <2>1. ~l.error
    BY DEF l
  <2> QED
    BY <1>1, <1>3, <2>1
<1> QED
  BY <1>2, <1>4

LEMMA FirstOfRest ==
  ASSUME NEW S, NEW s \in Seq(S), NEW h \in 1 .. Len(s)
  PROVE  FirstWord(SubSeq(s, h, Len(s))) = <<s[h]>>
<1> DEFINE rest == SubSeq(s, h, Len(s))
<1>0. Len(s) \in Nat /\ \A i \in h .. Len(s) : s[i] \in S
  OBVIOUS
<1>1. /\ rest \in Seq(S) /\ Len(rest) = Len(s) - h + 1
      /\ \A i \in 1 .. Len(s) - h + 1 : rest[i] = s[h + i - 1]
  BY <1>0, SubSeqProperties
<1> HIDE DEF rest
<1>2. 1 \in 1 .. Len(s) - h + 1 /\ h + 1 - 1 = h
  BY <1>0
<1>3. rest[1] = s[h]
  BY <1>1, <1>2
<1>4. rest # <<>>
  BY <1>0, <1>1
<1>5. Head(rest) = s[h]
  BY <1>1, <1>3, <1>4
<1> QED
  BY <1>4, <1>5 DEF FirstWord, rest

(* A pin of a command that names its package plainly: what is read of it,   *)
(* and where it differs from the command.                                   *)
LEMMA PinnedReads ==
  ASSUME NEW cmd, IsCommand(cmd), NEW v \in Versions,
         PinInstallCmd(cmd, v).pinned, cmd.runner # "docker", PlainlyNamed(cmd)
  PROVE  LET pin == PinInstallCmd(cmd, v)
             l == ParseLaunch(pin.cmd)
         IN  /\ l.package = PackageOf(cmd) /\ l.version = v /\ ~l.error /\ ~LaunchPinProblem(pin.cmd, v)
             /\ ~ParseLaunch(cmd).error /\ pin.cmd = [runner |-> cmd.runner, argv |-> pin.cmd.argv]
             /\ \E h : /\ Repinned(cmd.argv, pin.cmd.argv, h)
                      /\ ReadAlike(pin.cmd.argv, h, Options(cmd.argv), Options(pin.cmd.argv))
<1> DEFINE pkg == PackageOf(cmd)
           alike == SpelledLike(cmd, pkg)
           pin == PinInstallCmd(cmd, v)
           first == CHOOSE i \in alike : \A j \in alike : i <= j
           o == Options(cmd.argv)
           h == IF o.at = <<>> THEN o.rest ELSE o.at[1]
           argv == cmd.argv
           other == [argv EXCEPT ![h] = Spec_(argv[h].name, v)]
           p == Options(other)
           l == ParseLaunch(pin.cmd)
<1>0. argv \in Seq(Words) /\ Len(argv) \in Nat /\ DOMAIN argv = 1 .. Len(argv) /\ cmd = [runner |-> cmd.runner, argv |-> argv]
  BY DEF IsCommand
<1>1. Len(o.at) <= 1 /\ h \in alike /\ \A i \in alike : h <= i
  BY DEF PlainlyNamed
<1>2. first = h
  <2>1. alike \in SUBSET Nat
    BY <1>0 DEF SpelledLike
  <2> HIDE DEF alike, h
  <2> QED
    BY <1>1, <2>1, FirstIs
<1>3. argv[h].kind = "spec" /\ argv[h].name = pkg /\ h \in 1 .. Len(argv)
  BY <1>0, <1>1 DEF SpelledLike
<1>4. pin.cmd = [runner |-> cmd.runner, argv |-> other]
  <2>1. pin = PinAt(cmd, v, alike)
    BY DEF PinInstallCmd
  <2>2. pin.cmd = [cmd EXCEPT !.argv[first] = Spec_(@.name, v)]
    BY <1>1, <2>1 DEF PinAt, IsExactVersion
  <2>3. pin.cmd = [cmd EXCEPT !.argv[h] = Spec_(@.name, v)]
    BY <1>2, <2>2
  <2> QED
    BY <1>0, <2>3
<1>5. other[h] = Spec_(pkg, v) /\ Repinned(argv, other, h) /\ other[h].kind = "spec" /\ other[h].name = pkg /\ other[h].version = v
  <2>1. argv[h] \in Words /\ pkg \in Names /\ argv[h] = [kind |-> "spec", joined |-> argv[h].joined, name |-> pkg, version |-> argv[h].version]
    BY <1>0, <1>3, WordsAre
  <2>2. argv[h] = Spec_(pkg, argv[h].version)
    BY <1>3, <2>1, WordsAre
  <2> HIDE DEF h, pkg
  <2>4. other[h] = Spec_(pkg, v)
    BY <1>0, <1>3
  <2>5. other[h] \in Words
    BY <2>1, <2>4, SpecIsWord DEF Specifiers
  <2>6. other \in Seq(Words) /\ Len(other) = Len(argv) /\ \A k \in 1 .. Len(argv) : k # h => other[k] = argv[k]
    <3>1. \A x \in Words : [argv EXCEPT ![h] = x] \in Seq(Words) /\ Len([argv EXCEPT ![h] = x]) = Len(argv)
      BY <1>0, <1>3
    <3>2. other = [argv EXCEPT ![h] = other[h]]
      BY <1>0, <1>3
    <3>3. \A k \in 1 .. Len(argv) : k # h => other[k] = argv[k]
      BY <1>0
    <3> HIDE DEF other
    <3> QED
      BY <2>5, <3>1, <3>2, <3>3
  <2> HIDE DEF other
  <2> QED
    BY <1>0, <1>3, <2>4, <2>6 DEF Repinned, Spec_, Word
<1> HIDE DEF other, h, pkg
<1>6. ReadAlike(other, h, o, p) /\ Sound(argv, o) /\ Sound(other, p)
  BY <1>5, OptionsAlike, OptionsAreSound DEF Repinned
<1>7. ~o.error /\ ~o.moved /\ ~ParseLaunch(cmd).error
  <2>1. pkg # Null
    <3>1. argv[h] \in Words
      BY <1>0, <1>3
    <3> QED
      BY <1>3, <3>1, WordsAre, LaunchConstants
  <2>2. ~ParseLaunch(cmd).error
    BY <2>1 DEF pkg, PackageOf, PackageRead
  <2>3. ~o.error /\ ~o.moved
    BY <2>2, ReadMeans DEF ParseLaunch, LaunchRead
  <2> QED
    BY <2>2, <2>3
<1>8. ~p.error /\ ~p.moved /\ p.rest = o.rest /\ p.at = o.at
  BY <1>6, <1>7 DEF ReadAlike
<1>9. l = LaunchOf(p, NamedPackages(cmd.runner, p.packages), SubSeq(other, p.rest, Len(other)))
  BY <1>4 DEF ParseLaunch, LaunchRead
<1> HIDE DEF o, p, l
<1>10. l.package = pkg /\ l.version = v /\ ~l.error
  <2>0. Len(o.at) = Len(o.packages) /\ Len(o.at) \in Nat /\ p.packages \in Seq(Words) /\ Len(p.packages) = Len(o.packages) /\ o.at \in Seq(Nat)
    BY <1>6 DEF Sound, ReadAlike
  <2>1. CASE o.at = <<>>
    <3>1. p.packages = <<>> /\ h = o.rest
      BY <2>0, <2>1 DEF h
    <3>2. NamedPackages(cmd.runner, p.packages) = <<>>
      BY <3>1 DEF NamedPackages
    <3>3. FirstWord(SubSeq(other, p.rest, Len(other))) = <<other[h]>>
      <4>1. other \in Seq(Words) /\ h \in 1 .. Len(other)
        BY <1>5 DEF Repinned
      <4> QED
        BY <1>8, <3>1, <4>1, FirstOfRest
    <3> QED
      BY <1>5, <1>8, <1>9, <3>2, <3>3, LaunchOfOne
  <2>2. CASE o.at # <<>>
    <3>1. Len(o.at) = 1 /\ o.at[1] = h
      <4>1. Len(o.at) # 0
        BY <2>0, <2>2
      <4>2. Len(o.at) <= 1
        BY <1>1
      <4> DEFINE k == Len(o.at)
      <4>0. k \in Nat /\ k # 0 /\ k <= 1
        BY <2>0, <4>1, <4>2
      <4> HIDE DEF k
      <4>a. k = 1
        BY <4>0
      <4>3. Len(o.at) = 1
        BY <4>a DEF k
      <4>4. o.at[1] = h
        BY <2>2 DEF h
      <4> QED
        BY <4>3, <4>4
    <3>2. p.packages = <<other[h]>>
      <4>1. Len(p.packages) = 1 /\ p.packages[1] = other[h]
        BY <1>6, <2>0, <3>1 DEF ReadAlike
      <4> QED
        BY <2>0, <4>1
    <3>3. NamedPackages(cmd.runner, p.packages) = <<other[h]>>
      BY <3>2 DEF NamedPackages, Last
    <3> QED
      BY <1>5, <1>8, <1>9, <3>3, LaunchOfOne
  <2> QED
    BY <2>1, <2>2
<1>11. ~LaunchPinProblem(pin.cmd, v)
  BY <1>4, <1>10 DEF LaunchPinProblem, IsExactVersion, l
<1>12. pin.cmd.argv = other
  BY <1>4
<1> QED
  BY <1>4, <1>5, <1>6, <1>7, <1>10, <1>11, <1>12 DEF pkg, o, p, l

(* A command the program pinned, whatever its arguments, is read back as a  *)
(* launch of the version it was pinned to, of the package the gate vetted   *)
(* (install_cmd.cjs pinInstallCmd, parseLaunch).                            *)
THEOREM PinIsRead ==
  ASSUME NEW cmd, IsCommand(cmd), NEW v \in Versions
  PROVE  PinnedIsThePin(cmd, v)
<1> SUFFICES ASSUME PinInstallCmd(cmd, v).pinned, cmd.runner # "docker", PlainlyNamed(cmd)
             PROVE  LET l == ParseLaunch(PinInstallCmd(cmd, v).cmd)
                    IN  /\ l.package = PackageOf(cmd) /\ l.version = v /\ ~l.error
                        /\ ~LaunchPinProblem(PinInstallCmd(cmd, v).cmd, v)
  BY DEF PinnedIsThePin
<1> QED
  BY PinnedReads

-----------------------------------------------------------------------------
(***************************************************************************)
(* The canonical command (CanonicalInstallCmd) is read back as the launch  *)
(* it was written from.                                                    *)
(***************************************************************************)

(* The packages of a launch and its binary, as LaunchOf takes them.        *)
ReadOf(named, words) == IF named = <<>> THEN FirstWord(words) ELSE named
BinOf(named, words) == IF named = <<>> THEN <<>> ELSE FirstWord(words)

LEMMA LaunchIs ==
  ASSUME NEW o, NEW named, NEW words, ~o.error, ReadOf(named, words) # <<>>,
         \A i \in DOMAIN ReadOf(named, words) : ReadOf(named, words)[i].kind = "spec"
  PROVE  LET l == LaunchOf(o, named, words)
         IN  /\ l.package = MainPackage(ReadOf(named, words), BinOf(named, words)).name
             /\ l.version = MainPackage(ReadOf(named, words), BinOf(named, words)).version
             /\ l.packages = ReadOf(named, words) /\ l.named = (named # <<>>) /\ l.bin = BinOf(named, words)
             /\ l.args = (IF words = <<>> THEN <<>> ELSE Tail(words)) /\ l.error = o.moved
<1> DEFINE read == ReadOf(named, words)
           bin == BinOf(named, words)
<1>1. LaunchOf(o, named, words) =
        [package |-> MainPackage(read, bin).name, version |-> MainPackage(read, bin).version,
         packages |-> read, named |-> named # <<>>, bin |-> bin,
         args |-> IF words = <<>> THEN <<>> ELSE Tail(words), error |-> o.moved]
  BY DEF LaunchOf, ReadOf, BinOf
<1> HIDE DEF read, bin
<1> QED
  BY <1>1 DEF read, bin

LEMMA LaunchMeans ==
  ASSUME NEW o, NEW named, NEW words, ~LaunchOf(o, named, words).error
  PROVE  /\ ~o.error /\ ReadOf(named, words) # <<>>
         /\ \A i \in DOMAIN ReadOf(named, words) : ReadOf(named, words)[i].kind = "spec"
<1>1. Unread.error
  BY DEF Unread
<1> QED
  BY <1>1 DEF LaunchOf, ReadOf

(* The options of a launch that is written back: perhaps a flag, then the  *)
(* packages, each after its option, then a word or nothing.                *)
Listed(argv, lead, packs) ==
    /\ argv \in Seq(Words) /\ packs \in Seq(Words) /\ lead \in {0, 1}
    /\ lead = 1 => argv[1].kind = "bool"
    /\ lead + 2 * Len(packs) <= Len(argv)
    /\ \A j \in 1 .. Len(packs) :
          /\ argv[lead + 2 * j - 1].kind = "package" /\ ~argv[lead + 2 * j - 1].joined
          /\ argv[lead + 2 * j] = packs[j]
    /\ lead + 2 * Len(packs) < Len(argv) => IsWord(argv[lead + 2 * Len(packs) + 1])

(* What is read past the first k - t packages.                             *)
LastRead(argv, lead, packs, r, t) ==
    /\ ~r.moved /\ ~r.error /\ r.rest = lead + 2 * Len(packs) + 1
    /\ Len(r.packages) = t
    /\ \A m \in 1 .. t : r.packages[m] = packs[Len(packs) - t + m]

LEMMA LastReadAtEnd ==
  ASSUME NEW argv, NEW lead, NEW packs, Listed(argv, lead, packs), NEW f, IsReadOf(argv, f)
  PROVE  LastRead(argv, lead, packs, f[lead + 2 * Len(packs) + 1], 0)
<1> DEFINE i == lead + 2 * Len(packs) + 1
<1>0. i \in Nat /\ Len(argv) \in Nat /\ i >= 1 /\ i <= Len(argv) + 1
  BY DEF Listed
<1>1. f[i] = FromHere(argv, f, i)
  BY <1>0 DEF IsReadOf, Places
<1>2. i <= Len(argv) => IsWord(argv[i])
  BY DEF Listed
<1>3. i > Len(argv) => i = Len(argv) + 1
  BY <1>0
<1>a. \A w : IsWord(w) => w.kind # "end"
  BY DEF IsWord
<1> HIDE DEF i
<1>4. f[i] = Stop(i)
  BY <1>0, <1>1, <1>2, <1>3, <1>a DEF FromHere
<1>5. Len(<<>>) = 0
  OBVIOUS
<1> QED
  BY <1>4, <1>5 DEF LastRead, Stop, i

LEMMA LastReadBefore ==
  ASSUME NEW argv, NEW lead, NEW packs, Listed(argv, lead, packs), NEW f, IsReadOf(argv, f),
         NEW j \in 1 .. Len(packs), LastRead(argv, lead, packs, f[lead + 2 * j + 1], Len(packs) - j)
  PROVE  LastRead(argv, lead, packs, f[lead + 2 * j - 1], Len(packs) - j + 1)
<1> DEFINE i == lead + 2 * j - 1
           k == Len(packs)
           r == f[i + 2]
           s == Naming(r, argv[i + 1], i + 1)
<1>0. /\ lead \in Nat /\ k \in Nat /\ j \in Nat /\ 1 <= j /\ j <= k /\ lead + 2 * k <= Len(argv) /\ Len(argv) \in Nat
      /\ i \in Nat /\ i >= 1 /\ i + 1 <= Len(argv) /\ i + 1 = lead + 2 * j /\ i + 2 = lead + 2 * j + 1
  BY DEF Listed
<1>1. argv[i].kind = "package" /\ ~argv[i].joined /\ argv[i + 1] = packs[j]
  BY <1>0 DEF Listed
<1>2. f[i] = FromHere(argv, f, i)
  <2>1. i \in Places(argv)
    BY <1>0 DEF Places
  <2> HIDE DEF i
  <2> QED
    BY <2>1 DEF IsReadOf
<1>3. LastRead(argv, lead, packs, r, k - j)
  BY <1>0
<1>4. argv \in Seq(Words) /\ argv[i + 1] \in Words /\ i + 1 \in Nat /\ i + 2 \in Places(argv)
  BY <1>0 DEF Listed, Places
<1>5. Sound(argv, r)
  BY <1>4, ReadIsSound
<1>6. NamedIs(s, r, argv[i + 1], i + 1)
  BY <1>4, <1>5, NamingIs
<1>7. f[i] = s
  <2>1. ~(i > Len(argv)) /\ i # Len(argv)
    BY <1>0
  <2> HIDE DEF i
  <2> QED
    BY <1>1, <1>2, <2>1 DEF FromHere, IsWord
<1> HIDE DEF s, r
<1>8. Len(s.packages) = k - j + 1 /\ ~s.moved /\ ~s.error /\ s.rest = lead + 2 * k + 1
  BY <1>3, <1>6 DEF NamedIs, LastRead
<1>9. ASSUME NEW m \in 1 .. k - j + 1 PROVE s.packages[m] = packs[k - (k - j + 1) + m]
  <2>1. CASE m = 1
    <3>1. k - (k - j + 1) + m = j
      BY <1>0, <2>1
    <3> QED
      BY <1>1, <1>6, <2>1, <3>1 DEF NamedIs
  <2>2. CASE m # 1
    <3>1. m - 1 \in 1 .. k - j /\ (m - 1) + 1 = m /\ k - (k - j) + (m - 1) = k - (k - j + 1) + m
      BY <1>0, <2>2
    <3>2. r.packages[m - 1] = packs[k - (k - j) + (m - 1)] /\ Len(r.packages) = k - j
      BY <1>3, <3>1 DEF LastRead
    <3>3. s.packages[(m - 1) + 1] = r.packages[m - 1]
      BY <1>6, <3>1, <3>2 DEF NamedIs
    <3> QED
      BY <3>1, <3>2, <3>3
  <2> QED
    BY <2>1, <2>2
<1> HIDE DEF i, k
<1>10. LastRead(argv, lead, packs, s, k - j + 1)
  BY <1>8, <1>9 DEF LastRead, k
<1> QED
  BY <1>7, <1>10 DEF i, k

LEMMA OptionsOfListed ==
  ASSUME NEW argv, NEW lead, NEW packs, Listed(argv, lead, packs)
  PROVE  LET o == Options(argv)
         IN  /\ o.packages = packs /\ ~o.moved /\ ~o.error /\ o.rest = lead + 2 * Len(packs) + 1
<1> DEFINE k == Len(packs)
<1>0. k \in Nat /\ lead \in {0, 1} /\ argv \in Seq(Words) /\ Len(argv) \in Nat /\ lead + 2 * k <= Len(argv) /\ packs \in Seq(Words)
  BY DEF Listed
<1>1. PICK f : IsReadOf(argv, f) /\ Options(argv) = f[1]
  BY <1>0, OptionsAre
<1> DEFINE Good(t) == LastRead(argv, lead, packs, f[lead + 2 * (k - t) + 1], t)
           bad == {t \in Nat : t <= k /\ ~Good(t)}
<1>2. bad = {}
  <2> SUFFICES ASSUME bad # {} PROVE FALSE
    OBVIOUS
  <2>1. PICK t \in bad : \A x \in bad : t <= x
    BY Least
  <2>2. t # 0
    <3>1. lead + 2 * (k - 0) + 1 = lead + 2 * Len(packs) + 1
      BY <1>0
    <3>2. Good(0)
      BY <1>1, <3>1, LastReadAtEnd
    <3> QED
      BY <3>2
  <2>3. t - 1 \in Nat /\ t - 1 <= k /\ ~(t <= t - 1)
    BY <1>0, <2>2
  <2>4. Good(t - 1)
    BY <2>1, <2>3
  <2> DEFINE j == k - t + 1
  <2>5. /\ j \in 1 .. k /\ lead + 2 * (k - (t - 1)) + 1 = lead + 2 * j + 1 /\ k - j = t - 1
        /\ lead + 2 * j - 1 = lead + 2 * (k - t) + 1 /\ k - j + 1 = t
    BY <1>0, <2>2
  <2>6. LastRead(argv, lead, packs, f[lead + 2 * j + 1], k - j)
    BY <2>4, <2>5
  <2> HIDE DEF j, Good
  <2>7. LastRead(argv, lead, packs, f[lead + 2 * j - 1], k - j + 1)
    BY <1>1, <2>5, <2>6, LastReadBefore
  <2>8. Good(t)
    BY <2>5, <2>7 DEF Good
  <2> QED
    BY <2>8
<1>3. LastRead(argv, lead, packs, f[lead + 1], k)
  <2>1. lead + 2 * (k - k) + 1 = lead + 1 /\ k <= k
    BY <1>0
  <2>2. Good(k)
    BY <1>0, <1>2, <2>1
  <2> QED
    BY <2>1, <2>2
<1>4. f[1] = f[lead + 1]
  <2>1. CASE lead = 0
    BY <2>1
  <2>2. CASE lead = 1
    <3>1. argv[1].kind = "bool" /\ 1 \in Places(argv) /\ ~(1 > Len(argv)) /\ lead + 1 = 1 + 1
      BY <1>0, <2>2 DEF Listed, Places
    <3>2. f[1] = FromHere(argv, f, 1)
      BY <1>1, <3>1 DEF IsReadOf
    <3> QED
      BY <3>1, <3>2 DEF FromHere, IsWord
  <2> QED
    BY <1>0, <2>1, <2>2
<1> DEFINE o == Options(argv)
<1>5. LastRead(argv, lead, packs, o, k)
  BY <1>1, <1>3, <1>4
<1>6. o.packages \in Seq(Words)
  BY <1>0, OptionsAreSound DEF Sound
<1> HIDE DEF o
<1>7. o.packages = packs
  <2>1. Len(o.packages) = Len(packs) /\ \A m \in 1 .. Len(packs) : o.packages[m] = packs[k - k + m]
    BY <1>5 DEF LastRead
  <2>2. \A m \in 1 .. Len(packs) : o.packages[m] = packs[m]
    <3>1. \A m \in Nat : k - k + m = m
      BY <1>0
    <3> QED
      BY <1>0, <2>1, <3>1
  <2> QED
    BY <1>0, <1>6, <2>1, <2>2, SeqEqual
<1> QED
  BY <1>5, <1>7 DEF LastRead, o

IsJoin(S, s, p, q) ==
    /\ s \in Seq(S) /\ Len(s) = Len(p) + Len(q)
    /\ \A i \in 1 .. Len(p) : s[i] = p[i]
    /\ \A i \in 1 .. Len(q) : s[Len(p) + i] = q[i]

LEMMA JoinIs ==
  ASSUME NEW S, NEW p \in Seq(S), NEW q \in Seq(S)
  PROVE  IsJoin(S, p \o q, p, q)
<1> DEFINE s == p \o q
           P == Len(p)
           Q == Len(q)
<1>0. P \in Nat /\ Q \in Nat
  OBVIOUS
<1>1. s \in Seq(S) /\ Len(s) = P + Q /\ \A i \in 1 .. P + Q : s[i] = IF i <= P THEN p[i] ELSE q[i - P]
  BY ConcatProperties
<1> HIDE DEF s, P, Q
<1>2. ASSUME NEW i \in 1 .. P PROVE s[i] = p[i]
  <2>1. i \in 1 .. P + Q /\ i <= P
    BY <1>0
  <2> QED
    BY <1>1, <2>1
<1>3. ASSUME NEW i \in 1 .. Q PROVE s[P + i] = q[i]
  <2> DEFINE k == P + i
  <2>1. k \in 1 .. P + Q /\ ~(k <= P) /\ k - P = i
    BY <1>0
  <2> HIDE DEF k
  <2>2. s[k] = q[k - P]
    BY <1>1, <2>1
  <2>3. s[k] = q[i]
    BY <2>1, <2>2
  <2> QED
    BY <2>3 DEF k
<1> QED
  BY <1>1, <1>2, <1>3 DEF IsJoin, s, P, Q

(* The four parts of a command that is written back. *)
IsWritten(s, y, h, b, a) ==
    /\ s \in Seq(Words) /\ Len(s) = Len(y) + Len(h) + Len(b) + Len(a)
    /\ \A i \in 1 .. Len(y) : s[i] = y[i]
    /\ \A i \in 1 .. Len(h) : s[Len(y) + i] = h[i]
    /\ \A i \in 1 .. Len(b) : s[Len(y) + Len(h) + i] = b[i]

LEMMA Written ==
  ASSUME NEW y \in Seq(Words), NEW h \in Seq(Words), NEW b \in Seq(Words), NEW a \in Seq(Words)
  PROVE  IsWritten(y \o h \o b \o a, y, h, b, a)
<1> DEFINE p == y \o h
           q == p \o b
           s == q \o a
           Y == Len(y)
           H == Len(h)
           B == Len(b)
           A == Len(a)
<1>0. Y \in Nat /\ H \in Nat /\ B \in Nat /\ A \in Nat
  OBVIOUS
<1>1. IsJoin(Words, p, y, h)
  BY JoinIs
<1>2. IsJoin(Words, q, p, b)
  <2>1. p \in Seq(Words)
    BY <1>1 DEF IsJoin
  <2> HIDE DEF p
  <2> QED
    BY <2>1, JoinIs
<1>3. IsJoin(Words, s, q, a)
  <2>1. q \in Seq(Words)
    BY <1>2 DEF IsJoin
  <2> HIDE DEF q
  <2> QED
    BY <2>1, JoinIs
<1> HIDE DEF s, p, q
<1>4. /\ s \in Seq(Words) /\ Len(p) = Y + H /\ Len(q) = Y + H + B /\ Len(s) = Y + H + B + A
      /\ \A i \in 1 .. Y : p[i] = y[i]
      /\ \A i \in 1 .. H : p[Y + i] = h[i]
      /\ \A i \in 1 .. Y + H : q[i] = p[i]
      /\ \A i \in 1 .. B : q[Y + H + i] = b[i]
      /\ \A i \in 1 .. Y + H + B : s[i] = q[i]
  BY <1>1, <1>2, <1>3 DEF IsJoin
<1> HIDE DEF Y, H, B, A
<1>5. ASSUME NEW i \in 1 .. Y PROVE s[i] = y[i]
  <2>1. i \in 1 .. Y + H /\ i \in 1 .. Y + H + B
    BY <1>0
  <2> QED
    BY <1>4, <2>1
<1>6. ASSUME NEW i \in 1 .. H PROVE s[Y + i] = h[i]
  <2>1. Y + i \in 1 .. Y + H /\ Y + i \in 1 .. Y + H + B
    BY <1>0
  <2> QED
    BY <1>4, <2>1
<1>7. ASSUME NEW i \in 1 .. B PROVE s[Y + H + i] = b[i]
  <2>1. Y + H + i \in 1 .. Y + H + B
    BY <1>0
  <2> QED
    BY <1>4, <2>1
<1>8. IsWritten(s, y, h, b, a)
  BY <1>4, <1>5, <1>6, <1>7 DEF IsWritten, Y, H, B, A
<1> QED
  BY <1>8 DEF s, q, p

(* A word as it is written back. *)
Kept_(runner, w) == IF runner = "uvx" /\ w.version = "latest" THEN Spec_(w.name, Null) ELSE w

LEMMA KeptIs ==
  ASSUME NEW runner, NEW w \in Words, w.kind = "spec"
  PROVE  /\ Kept_(runner, w) \in Words /\ Kept_(runner, w).kind = "spec" /\ Kept_(runner, w).name = w.name
         /\ Kept_(runner, w).version = (IF runner = "uvx" /\ w.version = "latest" THEN Null ELSE w.version)
<1>1. w.name \in Names /\ w.version \in Specifiers
  BY WordsAre
<1>2. Spec_(w.name, Null) \in Words
  BY <1>1, SpecIsWord DEF Specifiers
<1>3. Spec_(w.name, Null).kind = "spec" /\ Spec_(w.name, Null).name = w.name /\ Spec_(w.name, Null).version = Null
  BY DEF Spec_, Word
<1> QED
  BY <1>2, <1>3 DEF Kept_

LEMMA FlagIs == \A k \in {"bool", "package"} : Flag(k, FALSE) \in Words /\ Flag(k, FALSE).kind = k /\ Flag(k, FALSE).joined = FALSE
  BY DEF Flag, Word, Words

(* The parts of a launch that was read. *)
LEMMA WordsOfLaunch ==
  ASSUME NEW cmd, IsCommand(cmd), cmd.runner # "docker", ~ParseLaunch(cmd).error
  PROVE  LET l == ParseLaunch(cmd)
         IN  /\ l.packages \in Seq(Words) /\ Len(l.packages) >= 1
             /\ \A i \in 1 .. Len(l.packages) : l.packages[i].kind = "spec"
             /\ l.args \in Seq(Words)
             /\ (l.bin = <<>> \/ \E b \in Words : l.bin = <<b>>)
             /\ l.bin = <<>> => l.args = <<>> \/ ~l.named
             /\ ~l.named => l.bin = <<>>
             /\ cmd.runner = "uvx" => Len(l.packages) = 1
             /\ l.package = MainPackage(l.packages, l.bin).name /\ l.version = MainPackage(l.packages, l.bin).version
<1> DEFINE o == Options(cmd.argv)
           named == NamedPackages(cmd.runner, o.packages)
           words == SubSeq(cmd.argv, o.rest, Len(cmd.argv))
           read == ReadOf(named, words)
           bin == BinOf(named, words)
           l == ParseLaunch(cmd)
<1>0. cmd.argv \in Seq(Words) /\ Sound(cmd.argv, o)
  BY OptionsAreSound DEF IsCommand
<1>1. l = LaunchOf(o, named, words)
  BY DEF ParseLaunch, LaunchRead
<1>2. o.packages \in Seq(Words) /\ o.rest \in 1 .. Len(cmd.argv) + 1
  BY <1>0 DEF Sound
<1>3. words \in Seq(Words)
  BY <1>0, <1>2, SubSeqProperties
<1>4. FirstWord(words) = <<>> \/ \E b \in Words : FirstWord(words) = <<b>>
  BY <1>3 DEF FirstWord
<1>a. \A b \in Words : <<b>> \in Seq(Words) /\ Len(<<b>>) = 1 /\ <<b>> # <<>>
  OBVIOUS
<1>b. FirstWord(words) = <<>> => words = <<>>
  <2>1. \A w : <<w>> # <<>>
    OBVIOUS
  <2> QED
    BY <2>1 DEF FirstWord
<1>c. words # <<>> => Tail(words) \in Seq(Words)
  BY <1>3
<1>d. <<>> \in Seq(Words)
  OBVIOUS
<1>5. named \in Seq(Words) /\ (cmd.runner = "uvx" /\ named # <<>> => Len(named) = 1)
  <2>1. o.packages # <<>> => Last(o.packages) \in Words
    BY <1>2 DEF Last
  <2> HIDE DEF o
  <2> QED
    BY <1>2, <1>a, <2>1 DEF NamedPackages
<1>6. ~o.error /\ read # <<>> /\ \A i \in DOMAIN read : read[i].kind = "spec"
  <2>1. ~LaunchOf(o, named, words).error
    BY <1>1
  <2> HIDE DEF o, named, words, l
  <2> QED
    BY <2>1, LaunchMeans
<1> HIDE DEF o, named, words, l
<1>7. /\ l.package = MainPackage(read, bin).name /\ l.version = MainPackage(read, bin).version
      /\ l.packages = read /\ l.named = (named # <<>>) /\ l.bin = bin
      /\ l.args = (IF words = <<>> THEN <<>> ELSE Tail(words))
  BY <1>1, <1>6, LaunchIs
<1>8. read \in Seq(Words) /\ (cmd.runner = "uvx" => Len(read) = 1)
  BY <1>4, <1>5, <1>6, <1>a, <1>d DEF ReadOf
<1>9. Len(read) >= 1 /\ DOMAIN read = 1 .. Len(read)
  BY <1>6, <1>8
<1>10. bin = <<>> \/ \E b \in Words : bin = <<b>>
  BY <1>4 DEF BinOf
<1>11. (bin = <<>> => words = <<>> \/ named = <<>>) /\ (named = <<>> => bin = <<>>)
  BY <1>b DEF BinOf
<1> HIDE DEF read, bin
<1>12. l.args \in Seq(Words)
  BY <1>7, <1>c, <1>d
<1>13. l.bin = <<>> => l.args = <<>> \/ ~l.named
  BY <1>7, <1>11
<1> QED
  BY <1>6, <1>7, <1>8, <1>9, <1>10, <1>11, <1>12, <1>13 DEF l

Pairs(runner, packs) ==
    [i \in 1 .. 2 * Len(packs) |-> IF i % 2 = 1 THEN Flag("package", FALSE) ELSE Kept_(runner, packs[i \div 2])]

LEMMA PairsAre ==
  ASSUME NEW runner, NEW packs \in Seq(Words), \A i \in 1 .. Len(packs) : packs[i].kind = "spec"
  PROVE  /\ Pairs(runner, packs) \in Seq(Words) /\ Len(Pairs(runner, packs)) = 2 * Len(packs)
         /\ \A j \in 1 .. Len(packs) :
               /\ Pairs(runner, packs)[2 * j - 1] = Flag("package", FALSE)
               /\ Pairs(runner, packs)[2 * j] = Kept_(runner, packs[j])
<1> DEFINE k == Len(packs)
           p == Pairs(runner, packs)
<1>0. k \in Nat /\ 2 * k \in Nat
  OBVIOUS
<1>1. p = [i \in 1 .. 2 * k |-> IF i % 2 = 1 THEN Flag("package", FALSE) ELSE Kept_(runner, packs[i \div 2])]
  BY DEF Pairs
<1>2. ASSUME NEW i \in 1 .. 2 * k PROVE p[i] \in Words
  <2>1. CASE i % 2 = 1
    <3>1. p[i] = Flag("package", FALSE)
      BY <1>1, <2>1
    <3> QED
      BY <3>1, FlagIs
  <2>2. CASE i % 2 # 1
    <3>1. i \div 2 \in 1 .. k
      BY <1>0, <2>2
    <3>2. packs[i \div 2] \in Words /\ packs[i \div 2].kind = "spec"
      BY <3>1
    <3>3. p[i] = Kept_(runner, packs[i \div 2])
      BY <1>1, <2>2
    <3> QED
      BY <3>2, <3>3, KeptIs
  <2> QED
    BY <2>1, <2>2
<1>3. DOMAIN p = 1 .. 2 * k /\ p = [i \in 1 .. 2 * k |-> p[i]]
  BY <1>1
<1> HIDE DEF p, k
<1>4. p \in Seq(Words) /\ Len(p) = 2 * k
  BY <1>0, <1>2, <1>3
<1>5. ASSUME NEW j \in 1 .. k PROVE p[2 * j - 1] = Flag("package", FALSE) /\ p[2 * j] = Kept_(runner, packs[j])
  <2>1. 2 * j - 1 \in 1 .. 2 * k /\ 2 * j \in 1 .. 2 * k /\ (2 * j - 1) % 2 = 1 /\ (2 * j) % 2 # 1 /\ (2 * j) \div 2 = j
    BY <1>0
  <2> QED
    BY <1>1, <2>1
<1> QED
  BY <1>4, <1>5 DEF p, k

LEMMA CanonicalIs ==
  ASSUME NEW runner, NEW l
  PROVE  CanonicalInstallCmd(runner, l) =
           [runner |-> runner,
            argv |-> (IF runner = "npx" THEN <<Flag("bool", FALSE)>> ELSE <<>>)
                     \o (IF IF runner = "npx" THEN l.bin = <<>> ELSE ~l.named
                         THEN <<Kept_(runner, l.packages[1])>> ELSE Pairs(runner, l.packages))
                     \o l.bin \o l.args]
  BY DEF CanonicalInstallCmd, Pairs, Kept_

(* What is written back, with the packages after their options.            *)
LEMMA ListedAs ==
  ASSUME NEW runner, NEW packs \in Seq(Words), \A i \in 1 .. Len(packs) : packs[i].kind = "spec",
         NEW y \in Seq(Words), Len(y) \in {0, 1}, Len(y) = 1 => y[1].kind = "bool",
         NEW kept \in Seq(Words), Len(kept) = Len(packs), \A i \in 1 .. Len(packs) : kept[i] = Kept_(runner, packs[i]),
         NEW bin \in Seq(Words), NEW args \in Seq(Words), bin = <<>> => args = <<>>,
         bin # <<>> => IsWord(bin[1])
  PROVE  Listed(y \o Pairs(runner, packs) \o bin \o args, Len(y), kept)
<1> DEFINE h == Pairs(runner, packs)
           s == y \o h \o bin \o args
           k == Len(packs)
           lead == Len(y)
<1>0. k \in Nat /\ lead \in {0, 1} /\ Len(bin) \in Nat /\ Len(args) \in Nat
  OBVIOUS
<1>1. /\ h \in Seq(Words) /\ Len(h) = 2 * k
      /\ \A j \in 1 .. k : h[2 * j - 1] = Flag("package", FALSE) /\ h[2 * j] = Kept_(runner, packs[j])
  BY PairsAre
<1> HIDE DEF h
<1>2. IsWritten(s, y, h, bin, args)
  BY <1>1, Written
<1> HIDE DEF s, k
<1>3. s \in Seq(Words) /\ Len(s) = lead + 2 * k + Len(bin) + Len(args)
  BY <1>1, <1>2 DEF IsWritten
<1>4. lead = 1 => s[1].kind = "bool"
  BY <1>2 DEF IsWritten
<1>5. ASSUME NEW j \in 1 .. k
      PROVE  /\ s[lead + 2 * j - 1].kind = "package" /\ ~s[lead + 2 * j - 1].joined
             /\ s[lead + 2 * j] = kept[j]
  <2>1. 2 * j - 1 \in 1 .. 2 * k /\ 2 * j \in 1 .. 2 * k /\ lead + (2 * j - 1) = lead + 2 * j - 1
    BY <1>0
  <2>2. s[lead + (2 * j - 1)] = h[2 * j - 1] /\ s[lead + 2 * j] = h[2 * j]
    BY <1>1, <1>2, <2>1 DEF IsWritten
  <2>3. kept[j] = Kept_(runner, packs[j])
    BY DEF k
  <2>4. s[lead + 2 * j - 1] = Flag("package", FALSE) /\ s[lead + 2 * j] = Kept_(runner, packs[j])
    BY <1>1, <2>1, <2>2
  <2> QED
    BY <2>3, <2>4, FlagIs
<1>6. ASSUME lead + 2 * k < Len(s) PROVE IsWord(s[lead + 2 * k + 1])
  <2>1. bin # <<>>
    <3> SUFFICES ASSUME bin = <<>> PROVE FALSE
      OBVIOUS
    <3>1. Len(bin) = 0 /\ Len(args) = 0
      OBVIOUS
    <3> QED
      BY <1>0, <1>3, <1>6, <3>1
  <2>2. 1 \in 1 .. Len(bin)
    BY <2>1
  <2>3. s[lead + Len(h) + 1] = bin[1]
    BY <1>2, <2>2 DEF IsWritten
  <2> QED
    BY <1>1, <2>1, <2>3
<1>7. lead + 2 * k <= Len(s)
  BY <1>0, <1>3
<1>8. Len(kept) = k
  BY DEF k
<1> HIDE DEF lead
<1>9. Listed(s, lead, kept)
  BY <1>0, <1>3, <1>4, <1>5, <1>6, <1>7, <1>8 DEF Listed
<1> QED
  BY <1>9 DEF s, lead, h

(* The same, with nothing before the packages but a word of its own.       *)
LEMMA BareAs ==
  ASSUME NEW y \in Seq(Words), Len(y) \in {0, 1}, Len(y) = 1 => y[1].kind = "bool",
         NEW w \in Words, IsWord(w), NEW args \in Seq(Words)
  PROVE  LET s == y \o <<w>> \o <<>> \o args
         IN  Listed(s, Len(y), <<>>) /\ Len(y) + 1 \in 1 .. Len(s) /\ s[Len(y) + 1] = w /\ s \in Seq(Words)
<1> DEFINE h == <<w>>
           b == <<>>
           s == y \o h \o b \o args
           lead == Len(y)
<1>1. h \in Seq(Words) /\ Len(h) = 1 /\ h[1] = w /\ b \in Seq(Words) /\ Len(b) = 0 /\ lead \in {0, 1} /\ Len(args) \in Nat
  OBVIOUS
<1> HIDE DEF h, b
<1>2. IsWritten(s, y, h, b, args)
  BY <1>1, Written
<1> HIDE DEF s
<1>3. s \in Seq(Words) /\ Len(s) = lead + 1 + Len(args) /\ s[lead + 1] = w /\ (lead = 1 => s[1].kind = "bool")
  BY <1>1, <1>2 DEF IsWritten
<1>4. <<>> \in Seq(Words) /\ Len(<<>>) = 0
  OBVIOUS
<1> HIDE DEF lead
<1>5. lead + 2 * 0 <= Len(s) /\ lead + 2 * 0 + 1 = lead + 1 /\ lead + 1 \in 1 .. Len(s)
  BY <1>1, <1>3
<1>6. Listed(s, lead, <<>>)
  BY <1>1, <1>3, <1>4, <1>5 DEF Listed
<1> QED
  BY <1>3, <1>5, <1>6 DEF s, lead, h, b

Launching(runner, argv) == [runner |-> runner, argv |-> argv]

LEMMA LaunchingIsRead ==
  ASSUME NEW runner, NEW s
  PROVE  ParseLaunch(Launching(runner, s)) =
           LaunchOf(Options(s), NamedPackages(runner, Options(s).packages), SubSeq(s, Options(s).rest, Len(s)))
  BY DEF Launching, ParseLaunch, LaunchRead

(* A command of which one word names the package. *)
LEMMA BareIsRead ==
  ASSUME NEW runner, NEW y \in Seq(Words), Len(y) \in {0, 1}, Len(y) = 1 => y[1].kind = "bool",
         NEW w \in Words, w.kind = "spec", NEW args \in Seq(Words)
  PROVE  LET c == ParseLaunch(Launching(runner, y \o <<w>> \o <<>> \o args))
         IN  ~c.error /\ c.package = w.name /\ c.version = w.version
<1> DEFINE c == ParseLaunch(Launching(runner, y \o <<w>> \o <<>> \o args))
           s == y \o <<w>> \o <<>> \o args
           o == Options(s)
           words == SubSeq(s, o.rest, Len(s))
<1>1. Listed(s, Len(y), <<>>) /\ Len(y) + 1 \in 1 .. Len(s) /\ s[Len(y) + 1] = w /\ s \in Seq(Words)
  BY BareAs DEF IsWord
<1>2. c = LaunchOf(o, NamedPackages(runner, o.packages), words)
  BY LaunchingIsRead
<1> HIDE DEF c, s
<1>3. o.packages = <<>> /\ ~o.moved /\ ~o.error /\ o.rest = Len(y) + 2 * Len(<<>>) + 1
  BY <1>1, OptionsOfListed
<1>4. o.rest = Len(y) + 1
  <2>1. Len(<<>>) = 0
    OBVIOUS
  <2> QED
    BY <1>3, <2>1
<1>5. FirstWord(words) = <<w>>
  <2>1. FirstWord(SubSeq(s, Len(y) + 1, Len(s))) = <<s[Len(y) + 1]>>
    BY <1>1, FirstOfRest
  <2> QED
    BY <1>1, <1>4, <2>1
<1>6. NamedPackages(runner, o.packages) = <<>>
  BY <1>3 DEF NamedPackages
<1> HIDE DEF o, words
<1>7. ~c.error /\ c.package = w.name /\ c.version = w.version
  BY <1>2, <1>3, <1>5, <1>6, LaunchOfOne
<1> QED
  BY <1>7 DEF c, s

(* What stands at the i-th place, if it is a word. *)
StandsAt(s, i, bin) == IF i \in 1 .. Len(s) THEN bin = <<s[i]>> ELSE bin = <<>>

(* A command of which options name the packages. *)
LEMMA ListedIsRead ==
  ASSUME NEW runner, NEW s, NEW lead, NEW kept, Listed(s, lead, kept), Len(kept) >= 1,
         runner = "uvx" => Len(kept) = 1,
         \A i \in 1 .. Len(kept) : kept[i].kind = "spec",
         NEW bin, StandsAt(s, lead + 2 * Len(kept) + 1, bin)
  PROVE  LET c == ParseLaunch(Launching(runner, s))
         IN  /\ ~c.error /\ c.packages = kept
             /\ c.package = MainPackage(kept, bin).name /\ c.version = MainPackage(kept, bin).version
<1> DEFINE c == ParseLaunch(Launching(runner, s))
           o == Options(s)
           words == SubSeq(s, o.rest, Len(s))
           named == NamedPackages(runner, o.packages)
<1>0. s \in Seq(Words) /\ kept \in Seq(Words) /\ lead \in {0, 1} /\ Len(s) \in Nat /\ Len(kept) \in Nat
  BY DEF Listed
<1>1. o.packages = kept /\ ~o.moved /\ ~o.error /\ o.rest = lead + 2 * Len(kept) + 1
  BY OptionsOfListed
<1>2. c = LaunchOf(o, named, words)
  BY LaunchingIsRead
<1> HIDE DEF c
<1>3. named = kept /\ kept # <<>>
  <2>1. kept # <<>>
    BY <1>0
  <2>2. Len(kept) = 1 => <<Last(kept)>> = kept
    BY <1>0 DEF Last
  <2> QED
    BY <1>1, <2>1, <2>2 DEF NamedPackages
<1>4. FirstWord(words) = bin
  <2> DEFINE m == o.rest
  <2>0. m = lead + 2 * Len(kept) + 1 /\ m \in Nat /\ m >= 1
    BY <1>0, <1>1
  <2> HIDE DEF m
  <2>1. CASE m \in 1 .. Len(s)
    <3>1. FirstWord(SubSeq(s, m, Len(s))) = <<s[m]>>
      BY <1>0, <2>1, FirstOfRest
    <3>2. bin = <<s[m]>>
      BY <2>0, <2>1 DEF StandsAt
    <3> QED
      BY <3>1, <3>2 DEF m
  <2>2. CASE m \notin 1 .. Len(s)
    <3>1. SubSeq(s, m, Len(s)) = <<>>
      <4>1. m > Len(s)
        BY <1>0, <2>0, <2>2
      <4> QED
        BY <1>0, <2>0, <4>1
    <3>2. bin = <<>>
      BY <2>0, <2>2 DEF StandsAt
    <3> QED
      BY <3>1, <3>2 DEF m, FirstWord
  <2> QED
    BY <2>1, <2>2
<1> HIDE DEF o, words, named
<1>5. ReadOf(named, words) = kept /\ BinOf(named, words) = bin
  BY <1>3, <1>4 DEF ReadOf, BinOf
<1>6. \A i \in DOMAIN kept : kept[i].kind = "spec"
  <2>1. DOMAIN kept = 1 .. Len(kept)
    BY <1>0
  <2> QED
    BY <2>1
<1>7. /\ ~o.error /\ ReadOf(named, words) # <<>>
      /\ \A i \in DOMAIN ReadOf(named, words) : ReadOf(named, words)[i].kind = "spec"
  BY <1>1, <1>3, <1>5, <1>6
<1>8. /\ c.package = MainPackage(ReadOf(named, words), BinOf(named, words)).name
      /\ c.version = MainPackage(ReadOf(named, words), BinOf(named, words)).version
      /\ c.packages = ReadOf(named, words) /\ c.error = o.moved
  BY <1>2, <1>7, LaunchIs
<1> QED
  BY <1>1, <1>5, <1>8 DEF c

LEMMA MainAlone ==
  ASSUME NEW packs \in Seq(Words), Len(packs) >= 1, NEW bin, bin = <<>> \/ Len(packs) = 1
  PROVE  MainPackage(packs, bin) = packs[1]
<1>1. CASE bin = <<>>
  <2>1. {i \in DOMAIN packs : bin # <<>> /\ packs[i].name = bin[1].name} = {}
    BY <1>1
  <2>2. Head(packs) = packs[1]
    OBVIOUS
  <2> QED
    BY <2>1, <2>2 DEF MainPackage
<1>2. CASE Len(packs) = 1
  <2>1. packs = <<packs[1]>>
    BY <1>2
  <2>2. MainPackage(<<packs[1]>>, bin) = packs[1]
    BY MainOfOne
  <2> QED
    BY <2>1, <2>2
<1> QED
  BY <1>1, <1>2

(* A launch of any arguments, written back in the shape every command       *)
(* reads, is read as the launch it was: the same package at the same        *)
(* version, the same number of packages where a binary is named             *)
(* (install_cmd.cjs canonicalInstallCmd).                                   *)
THEOREM CanonicalIsTheSame ==
  ASSUME NEW cmd, IsCommand(cmd)
  PROVE  CanonicalRunsTheSame(cmd)
<1> DEFINE l == ParseLaunch(cmd)
           runner == cmd.runner
           written == CanonicalInstallCmd(runner, l)
           c == ParseLaunch(written)
           same(v) == IF runner = "uvx" /\ v = "latest" THEN Null ELSE v
<1> SUFFICES ASSUME runner # "docker", ~l.error, \A i \in DOMAIN l.bin : IsWord(l.bin[i])
             PROVE  /\ ~c.error /\ c.package = l.package /\ c.version = same(l.version)
                    /\ l.bin # <<>> => Len(c.packages) = Len(l.packages)
  BY DEF CanonicalRunsTheSame
<1>1. /\ l.packages \in Seq(Words) /\ Len(l.packages) >= 1
      /\ \A i \in 1 .. Len(l.packages) : l.packages[i].kind = "spec"
      /\ l.args \in Seq(Words)
      /\ (l.bin = <<>> \/ \E b \in Words : l.bin = <<b>>)
      /\ l.bin = <<>> => l.args = <<>> \/ ~l.named
      /\ ~l.named => l.bin = <<>>
      /\ runner = "uvx" => Len(l.packages) = 1
      /\ l.package = MainPackage(l.packages, l.bin).name /\ l.version = MainPackage(l.packages, l.bin).version
  BY WordsOfLaunch
<1>2. runner \in {"npx", "uvx"}
  BY DEF IsCommand
<1> DEFINE packs == l.packages
           bin == l.bin
           args == l.args
           named == l.named
           y == IF runner = "npx" THEN <<Flag("bool", FALSE)>> ELSE <<>>
           plain == IF runner = "npx" THEN bin = <<>> ELSE ~named
           head == IF plain THEN <<Kept_(runner, packs[1])>> ELSE Pairs(runner, packs)
<1>3. written = Launching(runner, y \o head \o bin \o args)
  BY CanonicalIs DEF Launching
<1>4. y \in Seq(Words) /\ Len(y) \in {0, 1} /\ (Len(y) = 1 => y[1].kind = "bool")
  <2> DEFINE flag == Flag("bool", FALSE)
  <2>1. flag \in Words /\ flag.kind = "bool"
    BY FlagIs
  <2> HIDE DEF flag
  <2>2. <<flag>> \in Seq(Words) /\ Len(<<flag>>) = 1 /\ <<flag>>[1] = flag /\ <<>> \in Seq(Words) /\ Len(<<>>) = 0
    BY <2>1
  <2>3. y = <<flag>> \/ y = <<>>
    BY DEF flag
  <2> HIDE DEF y
  <2>4. CASE y = <<flag>>
    BY <2>1, <2>2, <2>4
  <2>5. CASE y = <<>>
    BY <2>2, <2>5
  <2> QED
    BY <2>3, <2>4, <2>5
<1>5. packs[1] \in Words /\ packs[1].kind = "spec"
  <2> HIDE DEF l
  <2>1. 1 \in 1 .. Len(l.packages)
    BY <1>1
  <2> QED
    BY <1>1, <2>1
<1>6. /\ Kept_(runner, packs[1]) \in Words /\ Kept_(runner, packs[1]).kind = "spec"
      /\ Kept_(runner, packs[1]).name = packs[1].name
      /\ Kept_(runner, packs[1]).version = same(packs[1].version)
  BY <1>5, KeptIs
<1>7. CASE plain
  <2>1. bin = <<>>
    BY <1>1, <1>2, <1>7
  <2>2. written = Launching(runner, y \o <<Kept_(runner, packs[1])>> \o <<>> \o args)
    BY <1>3, <1>7, <2>1
  <2>3. MainPackage(packs, bin) = packs[1]
    <3> HIDE DEF l
    <3> QED
      BY <1>1, <2>1, MainAlone
  <2>4. c = ParseLaunch(Launching(runner, y \o <<Kept_(runner, packs[1])>> \o <<>> \o args))
    BY <2>2
  <2>5. args \in Seq(Words)
    BY <1>1
  <2> HIDE DEF c, y, l
  <2>6. ~c.error /\ c.package = packs[1].name /\ c.version = same(packs[1].version)
    <3> DEFINE w == Kept_(runner, packs[1])
    <3>1. w \in Words /\ w.kind = "spec" /\ w.name = packs[1].name /\ w.version = same(packs[1].version)
      BY <1>6
    <3> HIDE DEF w
    <3>2. c = ParseLaunch(Launching(runner, y \o <<w>> \o <<>> \o args))
      BY <2>4 DEF w
    <3>3. ~c.error /\ c.package = w.name /\ c.version = w.version
      BY <1>4, <2>5, <3>1, <3>2, BareIsRead
    <3> QED
      BY <3>1, <3>3
  <2> QED
    BY <1>1, <2>1, <2>3, <2>6
<1>8. CASE ~plain
  <2> DEFINE s == y \o Pairs(runner, packs) \o bin \o args
             kept == [i \in 1 .. Len(packs) |-> Kept_(runner, packs[i])]
  <2>0. Len(packs) \in Nat /\ packs \in Seq(Words)
    BY <1>1
  <2>1. kept \in Seq(Words) /\ Len(kept) = Len(packs) /\ \A i \in 1 .. Len(packs) : kept[i] = Kept_(runner, packs[i])
    <3>1. ASSUME NEW i \in 1 .. Len(packs) PROVE Kept_(runner, packs[i]) \in Words
      <4>1. packs[i] \in Words /\ packs[i].kind = "spec"
        BY <1>1
      <4> QED
        BY <4>1, KeptIs
    <3> HIDE DEF l
    <3> QED
      BY <2>0, <3>1
  <2>2. \A i \in 1 .. Len(packs) : kept[i].kind = "spec" /\ kept[i].name = packs[i].name /\ kept[i].version = same(packs[i].version)
    <3> SUFFICES ASSUME NEW i \in 1 .. Len(packs)
                 PROVE  kept[i].kind = "spec" /\ kept[i].name = packs[i].name /\ kept[i].version = same(packs[i].version)
      OBVIOUS
    <3>1. packs[i] \in Words /\ packs[i].kind = "spec"
      BY <1>1
    <3> QED
      BY <2>1, <3>1, KeptIs
  <2>3. bin \in Seq(Words) /\ (bin # <<>> => Len(bin) = 1 /\ IsWord(bin[1])) /\ (bin = <<>> => args = <<>>)
    <3>0. \A b \in Words : <<b>> \in Seq(Words) /\ 1 \in DOMAIN <<b>> /\ Len(<<b>>) = 1
      OBVIOUS
    <3>1. bin # <<>> => 1 \in DOMAIN bin /\ Len(bin) = 1
      BY <1>1, <3>0
    <3>2. bin = <<>> => named
      BY <1>2, <1>8
    <3>3. bin \in Seq(Words)
      <4>1. <<>> \in Seq(Words)
        OBVIOUS
      <4> QED
        BY <1>1, <3>0, <4>1
    <3> HIDE DEF l
    <3> QED
      BY <1>1, <3>1, <3>2, <3>3
  <2>4. written = Launching(runner, s)
    BY <1>3, <1>8
  <2>5. c = ParseLaunch(Launching(runner, s))
    BY <2>4
  <2>6. args \in Seq(Words)
    BY <1>1
  <2>7. runner = "uvx" => Len(packs) = 1
    BY <1>1
  <2>8. Len(packs) >= 1 /\ \A i \in 1 .. Len(packs) : packs[i].kind = "spec"
    BY <1>1
  <2>9. l.package = MainPackage(packs, bin).name /\ l.version = MainPackage(packs, bin).version
    BY <1>1
  <2>p. bin = <<>> \/ \E b \in Words : bin = <<b>>
    BY <1>1
  <2> HIDE DEF c, y, l, kept, packs, bin, args
  <2>10. Listed(s, Len(y), kept)
    BY <1>4, <2>0, <2>1, <2>3, <2>6, <2>8, ListedAs
  <2>11. IsWritten(s, y, Pairs(runner, packs), bin, args) /\ Len(Pairs(runner, packs)) = 2 * Len(packs)
    <3>1. Pairs(runner, packs) \in Seq(Words) /\ Len(Pairs(runner, packs)) = 2 * Len(packs)
      BY <2>0, <2>8, PairsAre
    <3> QED
      BY <1>4, <2>3, <2>6, <3>1, Written
  <2> HIDE DEF s
  <2>12. Len(s) = Len(y) + 2 * Len(packs) + Len(bin) + Len(args)
    BY <2>11 DEF IsWritten
  <2>13. StandsAt(s, Len(y) + 2 * Len(kept) + 1, bin)
    <3>1. CASE bin = <<>>
      <4>1. Len(bin) = 0 /\ Len(args) = 0
        BY <2>3, <3>1
      <4>2. Len(y) + 2 * Len(kept) + 1 \notin 1 .. Len(s)
        BY <1>4, <2>0, <2>1, <2>12, <4>1
      <4> QED
        BY <3>1, <4>2 DEF StandsAt
    <3>2. CASE bin # <<>>
      <4>1. PICK b \in Words : bin = <<b>>
        BY <2>p, <3>2
      <4>2. Len(bin) = 1 /\ bin[1] = b /\ Len(args) \in Nat
        BY <2>6, <4>1
      <4>3. s[Len(y) + Len(Pairs(runner, packs)) + 1] = b
        BY <2>11, <4>2 DEF IsWritten
      <4>4. Len(y) + 2 * Len(kept) + 1 \in 1 .. Len(s) /\ s[Len(y) + 2 * Len(kept) + 1] = b
        BY <1>4, <2>0, <2>1, <2>11, <2>12, <4>2, <4>3
      <4> QED
        BY <4>1, <4>4 DEF StandsAt
    <3> QED
      BY <3>1, <3>2
  <2>15. /\ ~c.error /\ c.packages = kept
         /\ c.package = MainPackage(kept, bin).name /\ c.version = MainPackage(kept, bin).version
    <3>2. Len(kept) >= 1 /\ (runner = "uvx" => Len(kept) = 1) /\ \A i \in 1 .. Len(kept) : kept[i].kind = "spec"
      BY <2>1, <2>2, <2>7, <2>8
    <3> QED
      BY <2>5, <2>10, <2>13, <3>2, ListedIsRead
  <2>16. MainPackage(kept, bin).name = MainPackage(packs, bin).name
         /\ MainPackage(kept, bin).version = same(MainPackage(packs, bin).version)
    <3> DEFINE likeKept == {i \in DOMAIN kept : bin # <<>> /\ kept[i].name = bin[1].name}
               likePacks == {i \in DOMAIN packs : bin # <<>> /\ packs[i].name = bin[1].name}
               firstKept == CHOOSE i \in likeKept : \A j \in likeKept : i <= j
               first == CHOOSE i \in likePacks : \A j \in likePacks : i <= j
    <3>1. DOMAIN kept = 1 .. Len(packs) /\ DOMAIN packs = 1 .. Len(packs)
      BY <2>0, <2>1
    <3>2. likeKept = likePacks
      BY <2>2, <3>1
    <3>a. MainPackage(kept, bin) = IF likeKept # {} THEN kept[firstKept] ELSE Head(kept)
      BY DEF MainPackage
    <3>b. firstKept = first
      BY <3>2
    <3> HIDE DEF likeKept, firstKept
    <3>3. MainPackage(kept, bin) = IF likePacks # {} THEN kept[first] ELSE Head(kept)
      BY <3>2, <3>a, <3>b
    <3>4. MainPackage(packs, bin) = IF likePacks # {} THEN packs[first] ELSE Head(packs)
      BY DEF MainPackage
    <3>5. likePacks # {} => first \in 1 .. Len(packs)
      <4>1. likePacks \in SUBSET Nat /\ \A i \in likePacks : i \in 1 .. Len(packs)
        BY <2>0, <3>1
      <4> HIDE DEF likePacks
      <4> SUFFICES ASSUME likePacks # {} PROVE first \in 1 .. Len(packs)
        OBVIOUS
      <4>2. PICK k \in likePacks : \A j \in likePacks : k <= j
        BY <4>1, Least
      <4>3. first \in likePacks
        BY <4>2
      <4> QED
        BY <4>1, <4>3
    <3>6. Head(kept) = kept[1] /\ Head(packs) = packs[1] /\ 1 \in 1 .. Len(packs)
      BY <2>0, <2>1, <2>8
    <3> HIDE DEF likePacks, first
    <3> QED
      BY <2>2, <3>3, <3>4, <3>5, <3>6
  <2>17. Len(c.packages) = Len(packs)
    BY <2>1, <2>15
  <2>18. c.package = l.package
    BY <2>9, <2>15, <2>16
  <2>19. c.version = same(l.version)
    BY <2>9, <2>15, <2>16
  <2> QED
    BY <2>15, <2>17, <2>18, <2>19 DEF packs
<1> QED
  BY <1>7, <1>8, Zenon

(* The word a launch runs is a word in the pinned command too.             *)
LEMMA PinKeepsTheBinary ==
  ASSUME NEW cmd, IsCommand(cmd), NEW v \in Versions,
         PinInstallCmd(cmd, v).pinned, cmd.runner # "docker", PlainlyNamed(cmd),
         \A i \in DOMAIN ParseLaunch(cmd).bin : IsWord(ParseLaunch(cmd).bin[i])
  PROVE  LET l == ParseLaunch(PinInstallCmd(cmd, v).cmd)
         IN  \A i \in DOMAIN l.bin : IsWord(l.bin[i])
<1> DEFINE argv == cmd.argv
           other == PinInstallCmd(cmd, v).cmd.argv
           o == Options(argv)
           p == Options(other)
           n == NamedPackages(cmd.runner, o.packages)
           m == NamedPackages(cmd.runner, p.packages)
           l == ParseLaunch(PinInstallCmd(cmd, v).cmd)
           k == ParseLaunch(cmd)
<1> SUFFICES \A i \in DOMAIN l.bin : IsWord(l.bin[i])
  OBVIOUS
<1>0. \A i \in DOMAIN k.bin : IsWord(k.bin[i])
  OBVIOUS
<1>1. /\ ~l.error /\ ~k.error
      /\ PinInstallCmd(cmd, v).cmd = [runner |-> cmd.runner, argv |-> other]
      /\ \E h : Repinned(argv, other, h) /\ ReadAlike(other, h, o, p)
  BY PinnedReads
<1>2. PICK h : Repinned(argv, other, h) /\ ReadAlike(other, h, o, p)
  BY <1>1
<1>3. /\ k = LaunchOf(o, n, SubSeq(argv, o.rest, Len(argv)))
      /\ l = LaunchOf(p, m, SubSeq(other, p.rest, Len(other)))
  BY <1>1 DEF ParseLaunch, LaunchRead
<1>4. argv \in Seq(Words) /\ other \in Seq(Words) /\ Len(other) = Len(argv) /\ Len(argv) \in Nat
  BY <1>2 DEF Repinned
<1>5. Sound(argv, o) /\ Sound(other, p)
  BY <1>4, OptionsAreSound
<1>6. p.rest = o.rest /\ o.rest \in 1 .. Len(argv) + 1 /\ (n = <<>> <=> m = <<>>)
  <2>1. /\ o.packages \in Seq(Words) /\ p.packages \in Seq(Words) /\ Len(p.packages) = Len(o.packages)
        /\ p.rest = o.rest /\ o.rest \in 1 .. Len(argv) + 1
    BY <1>2, <1>5 DEF Sound, ReadAlike
  <2>2. o.packages = <<>> <=> p.packages = <<>>
    BY <2>1
  <2>3. \A x : <<x>> # <<>>
    OBVIOUS
  <2> HIDE DEF o, p
  <2> QED
    BY <2>1, <2>2, <2>3 DEF NamedPackages
<1> HIDE DEF o, p, n, m, argv, other, k, l
<1>7. /\ k.bin = BinOf(n, SubSeq(argv, o.rest, Len(argv)))
      /\ l.bin = BinOf(m, SubSeq(other, o.rest, Len(other)))
  BY <1>0, <1>1, <1>3, <1>6, LaunchMeans, LaunchIs
<1>8. CASE n = <<>>
  <2>1. l.bin = <<>>
    BY <1>6, <1>7, <1>8 DEF BinOf
  <2> QED
    BY <2>1
<1>9. CASE n # <<>> /\ o.rest \in 1 .. Len(argv)
  <2>1. /\ FirstWord(SubSeq(argv, o.rest, Len(argv))) = <<argv[o.rest]>>
        /\ FirstWord(SubSeq(other, o.rest, Len(other))) = <<other[o.rest]>>
    BY <1>4, <1>9, FirstOfRest
  <2>2. k.bin = <<argv[o.rest]>> /\ l.bin = <<other[o.rest]>>
    BY <1>6, <1>7, <1>9, <2>1 DEF BinOf
  <2>3. IsWord(argv[o.rest])
    BY <1>0, <2>2
  <2>4. other[o.rest] = argv[o.rest] \/ other[o.rest].kind = "spec"
    BY <1>2, <1>9 DEF Repinned
  <2>5. IsWord(other[o.rest])
    BY <2>3, <2>4 DEF IsWord
  <2> QED
    BY <2>2, <2>5
<1>10. CASE n # <<>> /\ o.rest = Len(argv) + 1
  <2>1. SubSeq(other, o.rest, Len(other)) = <<>>
    BY <1>4, <1>10
  <2>2. l.bin = <<>>
    BY <1>6, <1>7, <1>10, <2>1 DEF BinOf, FirstWord
  <2> QED
    BY <2>2
<1> QED
  BY <1>6, <1>8, <1>9, <1>10

=============================================================================
