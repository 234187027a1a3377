------------------------------- MODULE Launch -------------------------------
(***************************************************************************)
(* Launch commands as lib/install_cmd.cjs reads them, pins them and writes *)
(* them back.  A command is a runner and its arguments; an argument is     *)
(* kept by what the parser's tables say of it: an option that stands       *)
(* alone, one that takes a value, one that moves the package source, one   *)
(* that names a package, one the tables do not know, or a word shaped like *)
(* a package (with the specifier it carries), or any other word.           *)
(***************************************************************************)
EXTENDS Naturals, Sequences, SequencesExt

CONSTANTS
    Null,       \* nothing there
    Names,      \* package names
    Versions    \* exact versions

(* What stands for nothing is no name, and no tag is an exact version. *)
ASSUME LaunchConstants == Null \notin Names \cup Versions /\ {"range", "latest"} \cap Versions = {}

(* What may follow a name: an exact version, a range, a moving tag. *)
Specifiers == Versions \cup {"range", "latest", Null}

Word(kind, joined, name, version) ==
    [kind |-> kind, joined |-> joined, name |-> name, version |-> version]
Spec_(name, version) == Word("spec", FALSE, name, version)
Flag(kind, joined) == Word(kind, joined, Null, Null)

Words ==
    [kind : {"end", "bool", "unknown", "refused", "other", "package"}, joined : {FALSE}, name : {Null}, version : {Null}]
    \cup [kind : {"value", "source"}, joined : BOOLEAN, name : {Null}, version : {Null}]
    \cup [kind : {"package"}, joined : {TRUE}, name : Names, version : Specifiers]
    \cup [kind : {"spec"}, joined : {FALSE}, name : Names, version : Specifiers]

Commands(MaxArgs) ==
    [runner : {"npx", "uvx", "docker"}, argv : SeqOf(Words, MaxArgs)]

(* The same, of any length. *)
IsCommand(cmd) == cmd \in [runner : {"npx", "uvx", "docker"}, argv : Seq(Words)]

IsWord(w) == w.kind \in {"spec", "other"}
Skip(i, w) == IF w.joined THEN i + 1 ELSE i + 2

(***************************************************************************)
(* The options of a registry runner, read left to right up to the first    *)
(* word.  An option the tables do not know might take a value, and then    *)
(* the package cannot be told from it: the command is not read at all.     *)
(***************************************************************************)
Options(argv) ==
    LET n == Len(argv)
        stop(i) == [packages |-> <<>>, at |-> <<>>, moved |-> FALSE, rest |-> i, error |-> FALSE]
        failed == [packages |-> <<>>, at |-> <<>>, moved |-> FALSE, rest |-> n + 1, error |-> TRUE]
        name(r, w, i) == [packages |-> <<w>> \o r.packages, at |-> <<i>> \o r.at,
                          moved |-> r.moved, rest |-> r.rest, error |-> r.error]
        from[i \in 1 .. n + 2] ==
            IF i > n THEN stop(n + 1)
            ELSE LET w == argv[i] IN
                IF w.kind = "end" THEN stop(i + 1)
                ELSE IF IsWord(w) THEN stop(i)
                ELSE IF w.kind \in {"refused", "unknown"} THEN failed
                ELSE IF w.kind = "bool" THEN from[i + 1]
                ELSE IF w.kind = "value" THEN from[Skip(i, w)]
                ELSE IF w.kind = "source" THEN [from[Skip(i, w)] EXCEPT !.moved = TRUE]
                ELSE IF w.joined THEN name(from[i + 1], Spec_(w.name, w.version), 0)
                ELSE IF i = n THEN failed ELSE name(from[i + 2], argv[i + 1], i + 1)
    IN  from[1]

Unread == [package |-> Null, version |-> Null, packages |-> <<>>,
           named |-> FALSE, bin |-> <<>>, args |-> <<>>, error |-> TRUE]

FirstWord(s) == IF s = <<>> THEN <<>> ELSE <<Head(s)>>

(* Only the last `--from` of uvx counts. *)
NamedPackages(runner, packages) ==
    IF runner = "uvx" /\ packages # <<>> THEN <<Last(packages)>> ELSE packages

(* Of several packages the one named like the binary is the server. *)
MainPackage(read, bin) ==
    LET likeBin == {i \in DOMAIN read : bin # <<>> /\ read[i].name = bin[1].name}
    IN  IF likeBin # {} THEN read[CHOOSE i \in likeBin : \A j \in likeBin : i <= j] ELSE Head(read)

(***************************************************************************)
(* Which package a launch runs, from the options read off it, the packages *)
(* they name and the words that follow.  With `-p` the first word is the   *)
(* binary; without, it is the package.                                     *)
(***************************************************************************)
LaunchOf(o, named, words) ==
    LET read == IF named = <<>> THEN FirstWord(words) ELSE named
        bin == IF named = <<>> THEN <<>> ELSE FirstWord(words)
    IN  IF \/ o.error
           \/ read = <<>>
           \/ \E i \in DOMAIN read : read[i].kind # "spec"
        THEN Unread
        ELSE [package |-> MainPackage(read, bin).name, version |-> MainPackage(read, bin).version,
              packages |-> read, named |-> named # <<>>, bin |-> bin,
              args |-> IF words = <<>> THEN <<>> ELSE Tail(words), error |-> o.moved]

LaunchRead(cmd, o) ==
    LaunchOf(o, NamedPackages(cmd.runner, o.packages), SubSeq(cmd.argv, o.rest, Len(cmd.argv)))

ParseLaunch(cmd) == LaunchRead(cmd, Options(cmd.argv))

IsExactVersion(v) == v \in Versions

(* The image of a docker launch: its first word. "=" carries its own value. *)
DockerImage(argv) ==
    LET n == Len(argv)
        from[i \in 1 .. n + 2] ==
            IF i > n THEN <<>>
            ELSE IF IsWord(argv[i]) THEN <<argv[i]>>
            ELSE IF argv[i].joined \/ argv[i].kind = "bool" THEN from[i + 1]
            ELSE IF argv[i].kind = "value" THEN from[i + 2] ELSE <<>>
    IN  from[1]

(* A digest is the exact version of an image; a tag is not one. *)
DigestPinned(argv) ==
    DockerImage(argv) # <<>> /\ IsExactVersion(DockerImage(argv)[1].version)

(* What the gate takes to be the package of a launch. *)
PackageRead(l) == IF l.error THEN Null ELSE l.package
PackageOf(cmd) == PackageRead(ParseLaunch(cmd))

(***************************************************************************)
(* The words a command is split into that are spelled `pkg` or start with  *)
(* `pkg@` (`pkg==` for uvx): which of them names the package is not asked. *)
(***************************************************************************)
SpelledLike(cmd, pkg) ==
    {i \in DOMAIN cmd.argv :
        /\ cmd.argv[i].kind = "spec" /\ cmd.argv[i].name = pkg
        /\ cmd.runner = "uvx" => cmd.argv[i].version \in Versions \cup {Null}}

(* Mutant: a word that carries an exact version counts as pinned already. *)
PinAtTrusting(cmd, version, at) ==
    LET first == CHOOSE i \in at : \A j \in at : i <= j
    IN  IF at = {} \/ ~IsExactVersion(version) THEN [cmd |-> cmd, pinned |-> FALSE]
        ELSE [cmd |-> [cmd EXCEPT !.argv[first] = IF IsExactVersion(@.version) THEN @ ELSE Spec_(@.name, version)], pinned |-> TRUE]

(* The first word spelled like the package is made to name `version`. *)
PinAt(cmd, version, at) ==
    LET first == CHOOSE i \in at : \A j \in at : i <= j
    IN  IF at = {} \/ ~IsExactVersion(version) THEN [cmd |-> cmd, pinned |-> FALSE]
        ELSE [cmd |-> [cmd EXCEPT !.argv[first] = Spec_(@.name, version)], pinned |-> TRUE]

(* Rewrites the package word of `cmd` to launch `version`, or says it cannot: *)
(* a command that names no package has no word spelled like it.               *)
PinInstallCmd(cmd, version) ==
    IF cmd.runner = "docker" THEN [cmd |-> cmd, pinned |-> DigestPinned(cmd.argv)]
    ELSE PinAt(cmd, version, SpelledLike(cmd, PackageOf(cmd)))

(* After a refresh moved `version`, the command that launches it. *)
RepinInstallCmd(cmd, version) ==
    IF cmd.runner = "docker" THEN cmd ELSE PinInstallCmd(cmd, version).cmd

(* Mutant: of several packages only the first is written back. *)
CanonicalInstallCmdOfOne(runner, l) ==
    LET uv(w) == IF runner = "uvx" /\ w.version = "latest" THEN Spec_(w.name, Null) ELSE w
        option == Flag("package", FALSE)
        plain == IF runner = "npx" THEN l.bin = <<>> ELSE ~l.named
        yes == IF runner = "npx" THEN <<Flag("bool", FALSE)>> ELSE <<>>
        head == IF plain THEN <<uv(l.packages[1])>> ELSE <<option, uv(l.packages[1])>>
    IN  [runner |-> runner, argv |-> yes \o head \o l.bin \o l.args]

(***************************************************************************)
(* The command a read launch is written back as.  Options that stay are    *)
(* dropped: those that change what runs were refused before.  A pin uv     *)
(* spells `@latest` is dropped with them.                                  *)
(***************************************************************************)
CanonicalInstallCmd(runner, l) ==
    LET uv(w) == IF runner = "uvx" /\ w.version = "latest" THEN Spec_(w.name, Null) ELSE w
        option == Flag("package", FALSE)
        plain == IF runner = "npx" THEN l.bin = <<>> ELSE ~l.named
        yes == IF runner = "npx" THEN <<Flag("bool", FALSE)>> ELSE <<>>
        head == IF plain THEN <<uv(l.packages[1])>>
                ELSE [i \in 1 .. 2 * Len(l.packages) |->
                        IF i % 2 = 1 THEN option ELSE uv(l.packages[i \div 2])]
    IN  [runner |-> runner, argv |-> yes \o head \o l.bin \o l.args]

(* Why an entry's command does not launch what it verified: FALSE if it does. *)
LaunchPinProblem(cmd, version) ==
    IF cmd.runner = "docker" THEN ~DigestPinned(cmd.argv)
    ELSE LET l == ParseLaunch(cmd) IN l.error \/ ~IsExactVersion(l.version) \/ l.version # version

-----------------------------------------------------------------------------
(***************************************************************************)
(* The command names one package, by a word of its own that is the first   *)
(* spelled like it.  (`--package=pkg pkg` and `uvx "pkg>=1" pkg` are read   *)
(* by the parser and fail this: the second word is what would be pinned.)  *)
(***************************************************************************)
PlainlyNamed(cmd) ==
    LET o == Options(cmd.argv)
        at == IF o.at = <<>> THEN o.rest ELSE o.at[1]
        alike == SpelledLike(cmd, PackageOf(cmd))
    IN  Len(o.at) <= 1 /\ at \in alike /\ \A i \in alike : at <= i

(***************************************************************************)
(* A command called pinned to a version is read back, by the same parser   *)
(* the gate uses, as a launch of that version of that package.             *)
(* (install_cmd.cjs pinInstallCmd: "Pinned" means the launch command names *)
(* the exact version the gate verified.)                                   *)
(***************************************************************************)
PinnedIsThePin(cmd, version) ==
    LET pin == PinInstallCmd(cmd, version)
        l == ParseLaunch(pin.cmd)
    IN  (pin.pinned /\ cmd.runner # "docker" /\ PlainlyNamed(cmd))
            => /\ l.package = PackageOf(cmd) /\ l.version = version /\ ~l.error
               /\ ~LaunchPinProblem(pin.cmd, version)

(***************************************************************************)
(* A configured launch written back in the shape every command reads runs  *)
(* the same packages at the same versions as what was written down.        *)
(* (install_cmd.cjs canonicalInstallCmd)                                   *)
(***************************************************************************)
CanonicalRunsTheSame(cmd) ==
    LET l == ParseLaunch(cmd)
        c == ParseLaunch(CanonicalInstallCmd(cmd.runner, l))
        same(v) == IF cmd.runner = "uvx" /\ v = "latest" THEN Null ELSE v
    IN  (cmd.runner # "docker" /\ ~l.error /\ \A i \in DOMAIN l.bin : IsWord(l.bin[i]))
            => /\ ~c.error
               /\ c.package = l.package
               /\ c.version = same(l.version)
               /\ l.bin # <<>> => Len(c.packages) = Len(l.packages)
=============================================================================
