-------------------------- MODULE HostFilesProofs --------------------------
(***************************************************************************)
(* The commands that write a file other programs read.  What --vendor      *)
(* installs was locked, for every set of servers, roots and trees, any     *)
(* number of runs and any change of the world between them: the argument   *)
(* follows the lock file - a tree gets into it only with an entry of       *)
(* `written`, a vendor run keeps the copy it read, and of its targets      *)
(* those no longer to do were installed from that copy.  And an install    *)
(* that finds a config as it read and copied it loses nobody's server, for *)
(* any number of installs, entries and files: what it is about to replace  *)
(* it has copied.  What it writes is read back as it was meant: the spec   *)
(* it holds from Prepare on is the pin of some state of an entry, and a    *)
(* pin is read as the pin (LaunchProofs).                                  *)
(*                                                                         *)
(* What the gate allows was approved, for every set of processes,          *)
(* artifacts and surfaces, any number of approve runs and any calendar.    *)
(* The argument follows mcp.lock.json: what a person signs goes into the   *)
(* approval approve writes, everything else in that approval comes from    *)
(* the copy the run read, and lock writes such a copy back.                *)
(***************************************************************************)
EXTENDS Install, ServerLock, ToolApproval, LaunchProofs, TLAPS

(* Every tree of a set of records was locked. *)
Recorded(servers) == \A n \in DOMAIN servers : <<n, servers[n].tree>> \in written

LockIsRecorded == lockFile \notin {Nothing, Garbled} => Recorded(lockFile.servers)

VendoredIsRecorded ==
    /\ DOMAIN vendored = Servers_
    /\ \A n \in Servers_ : vendored[n] # Nothing => WasLocked(n, vendored[n], written)

(* A command under way has all the fields it was started with. *)
CmdShape ==
    \/ cmd.pc = "idle"
    \/ /\ cmd = [pc |-> cmd.pc, mode |-> cmd.mode, targets |-> cmd.targets, left |-> cmd.left,
                 observed |-> cmd.observed, found |-> cmd.found, fresh |-> cmd.fresh, errors |-> cmd.errors]
       /\ cmd.pc \in {"resolve", "writing", "vendor", "installing"}
       /\ cmd.mode = "vendor" <=> cmd.pc \in {"vendor", "installing"}
       /\ cmd.left \in Seq(Launches)
       /\ cmd.pc = "installing" => cmd.left # <<>>

Installed(n) == vendored[n] # Nothing /\ vendored[n] = cmd.found.servers[n].tree

(* What npm installs is of the tree the lock read has; and of the targets  *)
(* of a run without an error, each is to do or installed.                  *)
VendorIsAhead ==
    /\ cmd.pc = "installing" =>
          LET tree == VendorFiles(Head(cmd.left).name) IN
          tree # Nothing /\ vendored[Head(cmd.left).name] \subseteq tree
    /\ cmd.pc \in {"vendor", "installing"} =>
        /\ Recorded(cmd.found.servers)
        /\ cmd.errors = {} =>
              \A i \in DOMAIN cmd.targets :
                  \/ \E j \in DOMAIN cmd.left : cmd.left[j].name = cmd.targets[i].name
                  \/ Installed(cmd.targets[i].name)

SetupRead == configured \in Setups

IInv == SetupRead /\ LockIsRecorded /\ VendoredIsRecorded /\ CmdShape /\ VendorIsAhead

-----------------------------------------------------------------------------
LEMMA InitHolds == LockInit => IInv
BY ServerLockAssumption
DEF LockInit, IInv, SetupRead, LockIsRecorded, VendoredIsRecorded, CmdShape, VendorIsAhead, Idle_

(* The first launch to do is of a server; the others were to do before. *)
LEMMA Heads ==
  ASSUME NEW s \in Seq(Launches), s # <<>>
  PROVE  /\ Head(s) \in Launches /\ Head(s).name \in Servers_
         /\ Tail(s) \in Seq(Launches)
         /\ \A j \in DOMAIN s : s[j] = Head(s) \/ \E k \in DOMAIN Tail(s) : Tail(s)[k] = s[j]
<1>1. Head(s) \in Launches /\ Tail(s) \in Seq(Launches) /\ Len(s) > 0 /\ Len(s) \in Nat
  OBVIOUS
<1>2. ASSUME NEW j \in DOMAIN s, j # 1
      PROVE  j - 1 \in DOMAIN Tail(s) /\ Tail(s)[j - 1] = s[j]
  BY <1>1, <1>2
<1>3. s[1] = Head(s)
  BY <1>1
<1> QED
  BY <1>1, <1>2, <1>3 DEF Servers_

(* A target of a run without an error that is not yet to do. *)
Ahead(i) ==
    \/ \E j \in DOMAIN cmd.left : cmd.left[j].name = cmd.targets[i].name
    \/ Installed(cmd.targets[i].name)

(* npm installs one target of the lock, and touches no other. *)
LEMMA VendorStep == ASSUME IInv, VendorOne \/ InstallPackage \/ EndInstall PROVE IInv'
<1> USE DEF IInv
<1>1. PICK n, tree : n = Head(cmd.left).name /\ tree = VendorFiles(n)
  OBVIOUS
<1>2. /\ cmd.pc \in {"vendor", "installing"} /\ cmd.left # <<>> /\ cmd.left \in Seq(Launches)
      /\ cmd = [pc |-> cmd.pc, mode |-> cmd.mode, targets |-> cmd.targets, left |-> cmd.left,
                observed |-> cmd.observed, found |-> cmd.found, fresh |-> cmd.fresh, errors |-> cmd.errors]
      /\ cmd.mode = "vendor"
      /\ UNCHANGED <<configured, lockFile, written>>
  BY DEF VendorOne, InstallPackage, EndInstall, CmdShape
<1>3. /\ n \in Servers_ /\ Tail(cmd.left) \in Seq(Launches)
      /\ \A j \in DOMAIN cmd.left :
            cmd.left[j] = Head(cmd.left) \/ \E k \in DOMAIN Tail(cmd.left) : Tail(cmd.left)[k] = cmd.left[j]
  BY <1>1, <1>2, Heads
<1>4. \E j \in DOMAIN cmd.left : cmd.left[j].name = n
  <2>1. 1 \in DOMAIN cmd.left /\ cmd.left[1] = Head(cmd.left)
    BY <1>2
  <2> QED
    BY <1>1, <2>1
<1>5. tree # Nothing => n \in DOMAIN cmd.found.servers /\ tree = cmd.found.servers[n].tree
  BY <1>1 DEF VendorFiles
<1>6. tree # Nothing => <<n, tree>> \in written
  BY <1>2, <1>5 DEF VendorIsAhead, Recorded
<1>7. Recorded(cmd.found.servers) /\ (cmd.errors = {} => \A i \in DOMAIN cmd.targets : Ahead(i))
  BY <1>2 DEF VendorIsAhead, Ahead
<1>8. SetupRead' /\ LockIsRecorded'
  BY <1>2 DEF SetupRead, LockIsRecorded, Recorded
<1>9. ASSUME tree # Nothing, NEW some, some \subseteq tree, vendored' = [vendored EXCEPT ![n] = some]
      PROVE  VendoredIsRecorded' /\ vendored'[n] = some
  <2>1. WasLocked(n, some, written)
    BY <1>6, <1>9 DEF WasLocked
  <2> QED
    BY <1>2, <1>3, <1>9, <2>1 DEF VendoredIsRecorded
<1>10. ASSUME cmd' = NotVendored(n), UNCHANGED vendored PROVE IInv'
  <2>1. CmdShape' /\ cmd'.pc = "vendor" /\ cmd'.errors # {} /\ cmd'.found = cmd.found
    BY <1>2, <1>3, <1>10 DEF NotVendored, CmdShape
  <2>2. VendorIsAhead'
    BY <1>2, <1>7, <2>1 DEF VendorIsAhead, Recorded
  <2> QED
    BY <1>2, <1>8, <1>10, <2>1, <2>2 DEF VendoredIsRecorded
<1>11. ASSUME tree # Nothing, NEW some, some \subseteq tree, vendored' = [vendored EXCEPT ![n] = some],
              cmd' = [cmd EXCEPT !.pc = "installing"]
       PROVE  IInv'
  <2>1. CmdShape' /\ cmd'.pc = "installing" /\ cmd'.errors = cmd.errors /\ cmd'.found = cmd.found
        /\ cmd'.left = cmd.left /\ cmd'.targets = cmd.targets
    BY <1>2, <1>11 DEF CmdShape
  <2>2. VendoredIsRecorded' /\ vendored'[n] = some
    BY <1>9, <1>11
  <2>3. VendorFiles(n)' = tree
    BY <1>1, <2>1 DEF VendorFiles
  <2>4. ASSUME cmd'.errors = {}, NEW i \in DOMAIN cmd.targets PROVE Ahead(i)'
    <3>1. CASE cmd.targets[i].name = n
      BY <1>4, <2>1, <3>1 DEF Ahead
    <3>2. CASE cmd.targets[i].name # n
      BY <1>7, <1>11, <2>1, <2>4, <3>2 DEF Ahead, Installed, VendoredIsRecorded
    <3> QED
      BY <3>1, <3>2
  <2>5. VendorIsAhead'
    BY <1>1, <1>2, <1>7, <1>11, <2>1, <2>2, <2>3, <2>4 DEF VendorIsAhead, Recorded, Ahead
  <2> QED
    BY <1>8, <2>1, <2>2, <2>5
<1>12. CASE VendorOne
  BY <1>1, <1>10, <1>11, <1>12 DEF VendorOne
<1>13. CASE InstallPackage
  <2>1. PICK p \in tree \ vendored[n] : vendored' = [vendored EXCEPT ![n] = @ \cup {p}]
    BY <1>1, <1>13 DEF InstallPackage
  <2>2. PICK some : some = vendored[n] \cup {p}
    OBVIOUS
  <2>3. tree # Nothing /\ some \subseteq tree
    BY <1>1, <1>13, <2>1, <2>2 DEF InstallPackage, VendorIsAhead
  <2>4. cmd' = [cmd EXCEPT !.pc = "installing"]
    BY <1>2, <1>13 DEF InstallPackage
  <2> QED
    BY <1>11, <2>1, <2>2, <2>3, <2>4
<1>14. CASE EndInstall /\ cmd' # NotVendored(n)
  <2>1. /\ vendored[n] = tree /\ tree # Nothing /\ UNCHANGED vendored
        /\ cmd' = [cmd EXCEPT !.pc = "vendor", !.left = Tail(@)]
    BY <1>1, <1>14 DEF EndInstall, VendorIsAhead
  <2>2. CmdShape' /\ cmd'.pc = "vendor" /\ cmd'.errors = cmd.errors /\ cmd'.found = cmd.found
        /\ cmd'.left = Tail(cmd.left) /\ cmd'.targets = cmd.targets
    BY <1>2, <1>3, <2>1 DEF CmdShape
  <2>3. Installed(n)'
    BY <1>5, <2>1, <2>2 DEF Installed
  <2>4. ASSUME cmd'.errors = {}, NEW i \in DOMAIN cmd.targets PROVE Ahead(i)'
    <3>1. CASE cmd.targets[i].name = n
      <4>1. cmd'.targets[i].name = n
        BY <2>2, <3>1
      <4> QED
        BY <2>3, <4>1 DEF Ahead
    <3>2. CASE Installed(cmd.targets[i].name)
      BY <2>1, <2>2, <3>2 DEF Ahead, Installed
    <3>3. CASE cmd.targets[i].name # n /\ \E j \in DOMAIN cmd.left : cmd.left[j].name = cmd.targets[i].name
      <4>1. PICK j \in DOMAIN cmd.left : cmd.left[j].name = cmd.targets[i].name
        BY <3>3
      <4>2. \E k \in DOMAIN Tail(cmd.left) : Tail(cmd.left)[k] = cmd.left[j]
        BY <1>1, <1>3, <3>3, <4>1
      <4> QED
        BY <2>2, <4>1, <4>2 DEF Ahead
    <3> QED
      BY <1>7, <2>2, <2>4, <3>1, <3>2, <3>3 DEF Ahead
  <2>5. VendorIsAhead'
    BY <1>2, <1>7, <2>2, <2>4 DEF VendorIsAhead, Recorded, Ahead
  <2> QED
    BY <1>2, <1>8, <2>1, <2>2, <2>5 DEF VendoredIsRecorded
<1> QED
  BY <1>1, <1>10, <1>12, <1>13, <1>14 DEF EndInstall

LEMMA StepHolds == IInv /\ [LockNext]_lockVars => IInv'
<1> SUFFICES ASSUME IInv, [LockNext]_lockVars PROVE IInv'
  OBVIOUS
<1> USE DEF IInv
<1>1. ASSUME NEW mode \in {"write", "check", "vendor"}, StartCommand(mode) PROVE IInv'
  <2>1. CASE cmd'.pc = "idle"
    BY <1>1, <2>1 DEF StartCommand, SetupRead, LockIsRecorded, VendoredIsRecorded, CmdShape, VendorIsAhead, Recorded
  <2>2. CASE cmd'.pc # "idle"
    <3>1. /\ configured \notin {Garbled, <<>>} /\ lockFile # Garbled
          /\ mode # "write" => lockFile # Nothing
          /\ cmd' = [pc |-> IF mode = "vendor" THEN "vendor" ELSE "resolve", mode |-> mode,
                     targets |-> configured, left |-> configured, observed |-> surface,
                     found |-> lockFile, fresh |-> <<>>, errors |-> {}]
      BY <1>1, <2>2 DEF StartCommand, Ended, Idle_
    <3>2. CmdShape'
      BY <3>1, ServerLockAssumption DEF CmdShape, SetupRead
    <3>3. VendorIsAhead'
      BY <1>1, <3>1 DEF StartCommand, VendorIsAhead, LockIsRecorded, Recorded
    <3> QED
      BY <1>1, <3>2, <3>3 DEF StartCommand, SetupRead, LockIsRecorded, VendoredIsRecorded, Recorded
  <2> QED
    BY <2>1, <2>2
<1>2. CASE LockOne
  <2>1. PICK errors, fresh : cmd' = [cmd EXCEPT !.left = Tail(@), !.errors = errors, !.fresh = fresh]
    BY <1>2 DEF LockOne
  <2>2. cmd.pc = "resolve" /\ Tail(cmd.left) \in Seq(Launches)
    BY <1>2, Heads DEF LockOne, CmdShape
  <2> QED
    BY <1>2, <2>1, <2>2 DEF LockOne, SetupRead, LockIsRecorded, VendoredIsRecorded, CmdShape, VendorIsAhead, Recorded
<1>3. CASE EndCheck \/ EndVendor \/ Kill
  BY <1>3 DEF EndCheck, EndVendor, Kill, Ended, Idle_, SetupRead, LockIsRecorded, VendoredIsRecorded,
              CmdShape, VendorIsAhead, Recorded
<1>4. CASE Truncate
  BY <1>4 DEF Truncate, SetupRead, LockIsRecorded, VendoredIsRecorded, CmdShape, VendorIsAhead, Recorded
<1>5. CASE WriteLock
  <2>1. LockIsRecorded'
    BY <1>5 DEF WriteLock, LockIsRecorded, Recorded
  <2> QED
    BY <1>5, <2>1 DEF WriteLock, Ended, Idle_, SetupRead, VendoredIsRecorded, WasLocked, CmdShape, VendorIsAhead
<1>6. CASE VendorOne \/ InstallPackage \/ EndInstall
  BY <1>6, VendorStep
<1>7. CASE Outside
  <2>1. SetupRead' /\ LockIsRecorded'
    BY <1>7 DEF Outside, Publish, EditSetup, Measure, RemoveTorn, SetupRead, LockIsRecorded, Recorded
  <2> QED
    BY <1>7, <2>1 DEF Outside, VendoredIsRecorded, CmdShape, VendorIsAhead, VendorFiles, Recorded, Installed
<1>8. CASE UNCHANGED lockVars
  BY <1>8 DEF lockVars, SetupRead, LockIsRecorded, VendoredIsRecorded, CmdShape, VendorIsAhead, VendorFiles,
              Recorded, Installed
<1> QED
  BY <1>1, <1>2, <1>3, <1>4, <1>5, <1>6, <1>7, <1>8 DEF LockNext

LEMMA IInvHolds == LockSpec => []IInv
<1> QED
  BY InitHolds, StepHolds, PTL DEF LockSpec

(* A --vendor that ends well ends by EndVendor, with nothing left to do. *)
LEMMA EndsInstalled ==
  ASSUME IInv, LockNext, Passes("vendor")
  PROVE  \A i \in DOMAIN cmd.targets : Installed(cmd.targets[i].name)
<1>1. cmd.pc \in {"vendor", "installing"} /\ cmd'.pc = "idle" /\ cmd'.exit = 0
  BY DEF Passes, IInv, CmdShape
<1>2. CASE EndVendor
  <2>1. cmd.left = <<>> /\ cmd.errors = {}
    BY <1>1, <1>2, ServerLockAssumption DEF EndVendor, Ended, Idle_
  <2> QED
    BY <1>1, <2>1 DEF IInv, VendorIsAhead
<1>3. CASE VendorOne \/ InstallPackage \/ EndInstall
  <2>1. cmd'.pc \in {"vendor", "installing"}
    BY <1>1, <1>3 DEF VendorOne, InstallPackage, EndInstall, NotVendored, IInv, CmdShape
  <2> QED
    BY <1>1, <2>1
<1>4. CASE Kill
  BY <1>1, <1>4, ServerLockAssumption DEF Kill, Idle_
<1>5. CASE Outside
  BY <1>1, <1>5 DEF Outside
<1>6. ASSUME NEW mode \in {"write", "check", "vendor"}, StartCommand(mode) PROVE FALSE
  BY <1>1, <1>6 DEF StartCommand
<1>7. CASE LockOne \/ EndCheck \/ Truncate \/ WriteLock
  BY <1>1, <1>7 DEF LockOne, EndCheck, Truncate, WriteLock
<1> QED
  BY <1>2, <1>3, <1>4, <1>5, <1>6, <1>7 DEF LockNext

(***************************************************************************)
(* What is vendored are packages of a tree some `lock` recorded for that   *)
(* server, also where npm failed or was killed, and a --vendor that ends   *)
(* well has installed the whole tree of the lock it read, for every        *)
(* target; for any constants.                                              *)
(***************************************************************************)
THEOREM VendoredIsLocked == LockSpec => VendoredWasLocked
<1>1. ASSUME IInv, IInv', [LockNext]_lockVars
      PROVE  [/\ \A n \in Servers_ : vendored'[n] # Nothing => WasLocked(n, vendored'[n], written')
              /\ Passes("vendor") =>
                    \A i \in DOMAIN cmd.targets :
                       LET n == cmd.targets[i].name IN
                       vendored[n] # Nothing /\ vendored[n] = cmd.found.servers[n].tree]_lockVars
  <2>1. \A n \in Servers_ : vendored'[n] # Nothing => WasLocked(n, vendored'[n], written')
    BY <1>1 DEF IInv, VendoredIsRecorded
  <2>2. CASE LockNext
    BY <1>1, <2>1, <2>2, EndsInstalled DEF Installed
  <2> QED
    BY <1>1, <2>2
<1> QED
  BY <1>1, IInvHolds, PTL DEF LockSpec, VendoredWasLocked
-----------------------------------------------------------------------------
(***************************************************************************)
(* A check that passes.  Of the targets it read, the first Done are in     *)
(* `fresh`, under the last launch of each name; without an error every     *)
(* one of those was resolved, or is of the kind that has no tree.          *)
(***************************************************************************)
MaybeTrees == Trees \cup {Nothing}

TreesOf(servers) == \A n \in DOMAIN servers : servers[n].tree \in MaybeTrees

TreesTyped ==
    /\ registry \in [Roots -> MaybeTrees]
    /\ lockFile \notin {Nothing, Garbled} => TreesOf(lockFile.servers)
    /\ cmd.pc \in {"resolve", "writing"} => TreesOf(cmd.fresh)
    /\ cmd.pc = "resolve" /\ cmd.mode = "check" => TreesOf(cmd.found.servers)

Done == Len(cmd.targets) - Len(cmd.left)

LastDone(i) ==
    \A j \in 1 .. Done : cmd.targets[j].name = cmd.targets[i].name => j <= i

(* The record of a launch, as lockOne leaves it. *)
IsRecordOf(record, t) ==
    /\ record.root = t.root
    /\ cmd.errors = {} =>
          /\ t.root \in Roots \cup Treeless
          /\ t.root \in Roots => record.tree # Nothing

CheckIsAhead ==
    cmd.pc = "resolve" =>
        /\ cmd.targets \in Seq(Launches) /\ Done \in Nat
        /\ \A j \in DOMAIN cmd.left : cmd.left[j] = cmd.targets[Done + j]
        /\ DOMAIN cmd.fresh = {cmd.targets[i].name : i \in 1 .. Done}
        /\ cmd.errors = {} => \A i \in 1 .. Done : cmd.targets[i].root \in Roots \cup Treeless
        /\ \A i \in 1 .. Done : LastDone(i) => IsRecordOf(cmd.fresh[cmd.targets[i].name], cmd.targets[i])

WritesWhenAsked == cmd.pc = "writing" => cmd.mode = "write"

CInv == TreesTyped /\ CheckIsAhead /\ WritesWhenAsked

LEMMA CheckInitHolds == LockInit => CInv
BY DEF LockInit, Idle_, CInv, TreesTyped, MaybeTrees, CheckIsAhead, WritesWhenAsked

LEMMA LockOneAdvances ==
  ASSUME IInv, CInv, LockOne
  PROVE  CInv'
<1> USE DEF IInv, CInv
<1> DEFINE t == Head(cmd.left)
           tree == IF t.root \in Roots THEN registry[t.root] ELSE Nothing
           record == LockEntry(t, tree)
<1>0. PICK d : d = Done
  OBVIOUS
<1>1. /\ cmd.pc = "resolve" /\ cmd.left # <<>> /\ cmd.left \in Seq(Launches)
      /\ UNCHANGED <<configured, registry, lockFile>>
  BY DEF LockOne, CmdShape
<1>2. cmd' = [cmd EXCEPT !.left = Tail(@),
                 !.errors = IF tree = Nothing /\ t.root \notin Treeless THEN @ \cup {t.name} ELSE @,
                 !.fresh = [n \in DOMAIN @ \cup {t.name} |-> IF n = t.name THEN record ELSE @[n]]]
  BY DEF LockOne
<1>3. /\ cmd'.pc = "resolve" /\ cmd'.mode = cmd.mode /\ cmd'.targets = cmd.targets
      /\ cmd'.found = cmd.found /\ cmd'.left = Tail(cmd.left)
      /\ cmd'.errors = IF tree = Nothing /\ t.root \notin Treeless THEN cmd.errors \cup {t.name} ELSE cmd.errors
      /\ cmd'.fresh = [n \in DOMAIN cmd.fresh \cup {t.name} |-> IF n = t.name THEN record ELSE cmd.fresh[n]]
  BY <1>1, <1>2 DEF CmdShape
<1>4. tree \in MaybeTrees /\ record.root = t.root /\ record.tree = tree
  BY DEF TreesTyped, MaybeTrees, LockEntry
<1>5. TreesTyped'
  BY <1>1, <1>3, <1>4 DEF TreesTyped, TreesOf
<1>6. /\ cmd.targets \in Seq(Launches) /\ d \in Nat /\ Len(cmd.left) \in Nat \ {0}
      /\ Len(cmd.targets) \in Nat /\ Tail(cmd.left) \in Seq(Launches)
      /\ Len(Tail(cmd.left)) = Len(cmd.left) - 1
      /\ \A j \in 1 .. Len(cmd.left) - 1 : Tail(cmd.left)[j] = cmd.left[j + 1]
  BY <1>0, <1>1 DEF CheckIsAhead
<1>7. Done' = d + 1 /\ t = cmd.targets[d + 1] /\ d + 1 \in Nat
  <2>1. t = cmd.left[1] /\ 1 \in DOMAIN cmd.left
    BY <1>1, <1>6
  <2>2. cmd.left[1] = cmd.targets[d + 1]
    BY <1>0, <1>1, <2>1 DEF CheckIsAhead
  <2>3. Done' = Len(cmd.targets) - (Len(cmd.left) - 1)
    BY <1>3, <1>6 DEF Done
  <2>4. d = Len(cmd.targets) - Len(cmd.left)
    BY <1>0 DEF Done
  <2>5. Done' = d + 1
    BY <1>6, <2>3, <2>4
  <2> QED
    BY <1>6, <2>1, <2>2, <2>5
<1>8. ASSUME NEW j \in DOMAIN cmd'.left PROVE cmd'.left[j] = cmd.targets[Done' + j]
  <2>1. j \in 1 .. Len(cmd.left) - 1 /\ cmd'.left[j] = cmd.left[j + 1]
    BY <1>3, <1>6
  <2>2. j + 1 \in DOMAIN cmd.left
    BY <1>1, <1>6, <2>1
  <2>3. cmd.left[j + 1] = cmd.targets[d + (j + 1)]
    BY <1>0, <1>1, <2>2 DEF CheckIsAhead
  <2>4. Done' + j = d + (j + 1)
    BY <1>6, <1>7, <2>1
  <2> QED
    BY <2>1, <2>3, <2>4
<1> HIDE DEF t, tree, record
<1>9. 1 .. d + 1 = (1 .. d) \cup {d + 1}
  BY <1>6
<1>10. DOMAIN cmd'.fresh = {cmd.targets[i].name : i \in 1 .. d + 1}
  <2>1. DOMAIN cmd.fresh = {cmd.targets[i].name : i \in 1 .. d}
    BY <1>0, <1>1 DEF CheckIsAhead
  <2> QED
    BY <1>3, <1>7, <1>9, <2>1
<1>11. ASSUME cmd'.errors = {}
       PROVE  cmd.errors = {} /\ (tree # Nothing \/ t.root \in Treeless)
  BY <1>3, <1>11
<1>12. cmd'.errors = {} => /\ t.root \in Roots \cup Treeless
                           /\ t.root \in Roots => tree # Nothing
  BY <1>11, TreesAssumption DEF tree
<1>13. cmd'.errors = {} => \A i \in 1 .. d + 1 : cmd.targets[i].root \in Roots \cup Treeless
  BY <1>0, <1>1, <1>7, <1>9, <1>11, <1>12 DEF CheckIsAhead
<1>14. ASSUME NEW i \in 1 .. d + 1, \A j \in 1 .. d + 1 : cmd.targets[j].name = cmd.targets[i].name => j <= i
       PROVE  IsRecordOf(cmd.fresh[cmd.targets[i].name], cmd.targets[i])'
  <2>1. CASE cmd.targets[i].name = t.name
    <3>1. i = d + 1
      BY <1>6, <1>7, <1>14, <2>1
    <3> QED
      BY <1>3, <1>4, <1>7, <1>12, <2>1, <3>1 DEF IsRecordOf
  <2>2. CASE cmd.targets[i].name # t.name
    <3>1. i \in 1 .. d
      BY <1>7, <1>9, <2>2
    <3>2. IsRecordOf(cmd.fresh[cmd.targets[i].name], cmd.targets[i])
      BY <1>0, <1>1, <1>9, <1>14, <3>1 DEF CheckIsAhead, LastDone
    <3>3. cmd'.fresh[cmd.targets[i].name] = cmd.fresh[cmd.targets[i].name]
      BY <1>3, <1>7, <1>10, <2>2, <3>1, <1>9
    <3> QED
      BY <1>3, <1>11, <3>2, <3>3 DEF IsRecordOf
  <2> QED
    BY <2>1, <2>2
<1>15. \A i \in 1 .. d + 1 : LastDone(i)' => IsRecordOf(cmd.fresh[cmd.targets[i].name], cmd.targets[i])'
  BY <1>3, <1>7, <1>14 DEF LastDone
<1>16. CheckIsAhead'
  <2>1. cmd'.targets \in Seq(Launches) /\ Done' \in Nat
    BY <1>3, <1>6, <1>7
  <2>2. DOMAIN cmd'.fresh = {cmd'.targets[i].name : i \in 1 .. Done'}
    BY <1>3, <1>7, <1>10
  <2>3. cmd'.errors = {} => \A i \in 1 .. Done' : cmd'.targets[i].root \in Roots \cup Treeless
    BY <1>3, <1>7, <1>13
  <2>4. \A i \in 1 .. Done' :
           LastDone(i)' => IsRecordOf(cmd.fresh[cmd.targets[i].name], cmd.targets[i])'
    BY <1>7, <1>15
  <2>5. \A j \in DOMAIN cmd'.left : cmd'.left[j] = cmd'.targets[Done' + j]
    BY <1>3, <1>8
  <2> QED
    BY <2>1, <2>2, <2>3, <2>4, <2>5 DEF CheckIsAhead
<1> QED
  BY <1>3, <1>5, <1>16 DEF WritesWhenAsked

LEMMA CheckStepHolds == IInv /\ CInv /\ [LockNext]_lockVars => CInv'
<1> SUFFICES ASSUME IInv, CInv, [LockNext]_lockVars PROVE CInv'
  OBVIOUS
<1> USE DEF CInv, WritesWhenAsked
<1>1. ASSUME NEW mode \in {"write", "check", "vendor"}, StartCommand(mode) PROVE CInv'
  <2>1. CASE cmd'.pc = "idle"
    BY <1>1, <2>1 DEF StartCommand, TreesTyped, CheckIsAhead
  <2>2. CASE cmd'.pc # "idle"
    <3>1. /\ configured \in Setups \ {Garbled} /\ lockFile # Garbled
          /\ mode # "write" => lockFile # Nothing
          /\ cmd' = [pc |-> IF mode = "vendor" THEN "vendor" ELSE "resolve", mode |-> mode,
                     targets |-> configured, left |-> configured, observed |-> surface,
                     found |-> lockFile, fresh |-> <<>>, errors |-> {}]
      BY <1>1, <2>2 DEF StartCommand, Ended, Idle_, IInv, SetupRead
    <3>2. cmd'.targets \in Seq(Launches) /\ cmd'.left = cmd'.targets /\ Done' = 0
      BY <3>1, ServerLockAssumption DEF Done
    <3>3. CheckIsAhead'
      BY <3>1, <3>2 DEF CheckIsAhead
    <3>4. TreesTyped'
      BY <1>1, <3>1 DEF StartCommand, TreesTyped, TreesOf
    <3> QED
      BY <3>1, <3>3, <3>4
  <2> QED
    BY <2>1, <2>2
<1>2. CASE LockOne
  BY <1>2, LockOneAdvances
<1>3. CASE EndCheck \/ EndVendor \/ Kill
  BY <1>3 DEF EndCheck, EndVendor, Kill, Ended, Idle_, TreesTyped, CheckIsAhead
<1>4. CASE Truncate
  BY <1>4 DEF Truncate, IInv, CmdShape, TreesTyped, CheckIsAhead
<1>5. CASE WriteLock
  BY <1>5 DEF WriteLock, Ended, Idle_, TreesTyped, TreesOf, CheckIsAhead
<1>6. CASE VendorOne \/ InstallPackage \/ EndInstall
  <2>1. cmd'.pc \in {"vendor", "installing"}
    BY <1>6 DEF VendorOne, InstallPackage, EndInstall, NotVendored, IInv, CmdShape
  <2> QED
    BY <1>6, <2>1 DEF VendorOne, InstallPackage, EndInstall, TreesTyped, CheckIsAhead
<1>7. CASE Outside
  <2>1. TreesTyped'
    BY <1>7 DEF Outside, Publish, EditSetup, Measure, RemoveTorn, TreesTyped, TreesOf, MaybeTrees
  <2> QED
    BY <1>7, <2>1 DEF Outside, CheckIsAhead, LastDone, IsRecordOf, Done
<1>8. CASE UNCHANGED lockVars
  BY <1>8 DEF lockVars, TreesTyped, TreesOf, CheckIsAhead, LastDone, IsRecordOf, Done
<1> QED
  BY <1>1, <1>2, <1>3, <1>4, <1>5, <1>6, <1>7, <1>8 DEF LockNext

LEMMA CheckInvHolds == LockSpec => [](IInv /\ CInv)
<1> QED
  BY InitHolds, StepHolds, CheckInitHolds, CheckStepHolds, PTL DEF LockSpec

(* Two records of npm servers without a difference have the same tree. *)
LEMMA NoDifferenceIsSame ==
  ASSUME NEW was, NEW now, was.tree \in MaybeTrees, now.tree \in Trees, DiffServer(was, now) = {}
  PROVE  was.root = now.root /\ was.tree # Nothing /\ SameTree(was.tree, now.tree)
<1> DEFINE names(r) == {p.name : p \in TreeOf(r)}
           both == names(was) \cap names(now)
<1>1. now.tree # Nothing /\ TreeOf(now) = now.tree /\ now.tree # {}
  BY TreesAssumption DEF TreeOf
<1>2. /\ was.root = now.root
      /\ names(now) \ names(was) = {} /\ names(was) \ names(now) = {}
      /\ \A n \in both : TreeIndex(was, n) = TreeIndex(now, n)
      /\ \A n \in both : \A v \in TreeIndex(was, n) \cap TreeIndex(now, n) :
            \/ Integrity(was, n, v) = Nothing \/ Integrity(now, n, v) = Nothing
            \/ Integrity(was, n, v) = Integrity(now, n, v)
      /\ HasHook(TreeOf(now)) \ HasHook(TreeOf(was)) = {}
  BY DEF DiffServer
<1>3. names(was) = names(now)
  BY <1>2
<1>4. was.tree # Nothing /\ TreeOf(was) = was.tree /\ was.tree \in Trees
  BY <1>1, <1>3 DEF TreeOf, MaybeTrees
<1>5. ASSUME NEW p \in was.tree PROVE <<p.name, p.version>> \in {<<q.name, q.version>> : q \in now.tree}
  <2>1. p.name \in both /\ p.version \in TreeIndex(was, p.name)
    BY <1>3, <1>4 DEF TreeIndex
  <2>2. p.version \in TreeIndex(now, p.name)
    BY <1>2, <2>1
  <2> QED
    BY <1>1, <2>2 DEF TreeIndex
<1>6. ASSUME NEW p \in now.tree PROVE <<p.name, p.version>> \in {<<q.name, q.version>> : q \in was.tree}
  <2>1. p.name \in both /\ p.version \in TreeIndex(now, p.name)
    BY <1>1, <1>3 DEF TreeIndex
  <2>2. p.version \in TreeIndex(was, p.name)
    BY <1>2, <2>1
  <2> QED
    BY <1>4, <2>2 DEF TreeIndex
<1>7. ASSUME NEW p \in was.tree, NEW q \in now.tree, p.name = q.name, p.version = q.version
      PROVE  /\ p.integrity = q.integrity \/ Nothing \in {p.integrity, q.integrity}
             /\ q.hook => p.hook
  <2>1. Integrity(was, p.name, p.version) = p.integrity
    BY <1>4, TreesAssumption DEF Integrity
  <2>2. Integrity(now, p.name, p.version) = q.integrity
    BY <1>1, <1>7, TreesAssumption DEF Integrity
  <2>3. /\ p.name \in both
        /\ p.version \in TreeIndex(was, p.name) \cap TreeIndex(now, p.name)
    BY <1>1, <1>3, <1>4, <1>7 DEF TreeIndex
  <2>4. ASSUME q.hook PROVE p.hook
    <3>1. <<q.name, q.version>> \in HasHook(was.tree)
      BY <1>1, <1>2, <1>4, <2>4 DEF HasHook
    <3>2. PICK r \in was.tree : r.hook /\ <<r.name, r.version>> = <<q.name, q.version>>
      BY <3>1 DEF HasHook
    <3> QED
      BY <1>4, <1>7, <3>2, TreesAssumption
  <2> QED
    BY <1>2, <2>1, <2>2, <2>3, <2>4
<1> QED
  BY <1>2, <1>4, <1>5, <1>6, <1>7 DEF SameTree

(* A passing check ends by EndCheck, with every target in `fresh`. *)
LEMMA EndsChecked ==
  ASSUME IInv, CInv, LockNext, Passes("check")
  PROVE  /\ cmd.pc = "resolve" /\ cmd.mode = "check" /\ cmd.left = <<>> /\ cmd.errors = {}
         /\ DiffLock(cmd.found.servers, cmd.fresh) = {}
<1>1. cmd.pc # "idle" /\ cmd.mode = "check" /\ cmd'.pc = "idle" /\ cmd'.exit = 0
      /\ cmd.pc \notin {"vendor", "installing"}
  BY DEF Passes, IInv, CmdShape
<1>2. CASE EndCheck
  BY <1>1, <1>2, ServerLockAssumption DEF EndCheck, Ended, Idle_
<1>3. CASE LockOne
  BY <1>1, <1>3 DEF LockOne, IInv, CmdShape
<1>4. CASE Kill
  BY <1>1, <1>4, ServerLockAssumption DEF Kill, Idle_
<1>5. CASE Truncate \/ EndVendor \/ VendorOne \/ InstallPackage \/ EndInstall
  BY <1>1, <1>5 DEF Truncate, EndVendor, VendorOne, InstallPackage, EndInstall
<1>6. CASE Outside
  BY <1>1, <1>6 DEF Outside
<1>7. ASSUME NEW mode \in {"write", "check", "vendor"}, StartCommand(mode) PROVE FALSE
  BY <1>1, <1>7 DEF StartCommand
<1>8. CASE WriteLock
  BY <1>1, <1>8 DEF WriteLock, CInv, WritesWhenAsked
<1> QED
  BY <1>2, <1>3, <1>4, <1>5, <1>6, <1>7, <1>8 DEF LockNext

(***************************************************************************)
(* A check that passes resolved every npm server it read; each, under the  *)
(* last launch of its name, is locked with that root and that tree, and    *)
(* nothing else is locked; for any setups, roots and trees.                *)
(***************************************************************************)
THEOREM CheckPassesOnLocked == LockSpec => CheckedIsLocked
<1> DEFINE locked == cmd.found.servers
           last(i) == \A j \in DOMAIN cmd.targets : cmd.targets[j].name = cmd.targets[i].name => j <= i
           IsLocked ==
              /\ DOMAIN locked = {cmd.targets[i].name : i \in DOMAIN cmd.targets}
              /\ \A i \in DOMAIN cmd.targets :
                    LET n == cmd.targets[i].name IN
                    /\ cmd.targets[i].root \in Roots \cup Treeless
                    /\ last(i) =>
                          /\ locked[n].root = cmd.targets[i].root
                          /\ locked[n].root \in Roots =>
                                /\ locked[n].tree # Nothing
                                /\ SameTree(locked[n].tree, cmd.fresh[n].tree)
<1>1. ASSUME IInv, CInv, LockNext, Passes("check") PROVE IsLocked
  <2>1. /\ cmd.pc = "resolve" /\ cmd.mode = "check" /\ cmd.left = <<>> /\ cmd.errors = {}
        /\ DiffLock(locked, cmd.fresh) = {}
    BY <1>1, EndsChecked
  <2>2. DOMAIN locked = DOMAIN cmd.fresh /\ \A n \in DOMAIN locked : DiffServer(locked[n], cmd.fresh[n]) = {}
    BY <2>1 DEF DiffLock
  <2>3. DOMAIN cmd.targets = 1 .. Done
    BY <1>1, <2>1 DEF CInv, CheckIsAhead, Done
  <2>4. /\ DOMAIN cmd.fresh = {cmd.targets[i].name : i \in DOMAIN cmd.targets}
        /\ \A i \in DOMAIN cmd.targets : cmd.targets[i].root \in Roots \cup Treeless
        /\ \A i \in DOMAIN cmd.targets :
              last(i) => IsRecordOf(cmd.fresh[cmd.targets[i].name], cmd.targets[i])
    BY <1>1, <2>1, <2>3 DEF CInv, CheckIsAhead, LastDone
  <2>5. ASSUME NEW i \in DOMAIN cmd.targets, last(i),
               NEW was, was = locked[cmd.targets[i].name],
               NEW is, is = cmd.fresh[cmd.targets[i].name]
        PROVE  /\ was.root = cmd.targets[i].root
               /\ was.root \in Roots => was.tree # Nothing /\ SameTree(was.tree, is.tree)
    <3>1. cmd.targets[i].name \in DOMAIN locked /\ cmd.targets[i].name \in DOMAIN cmd.fresh
      BY <2>2, <2>4
    <3>2. was.tree \in MaybeTrees /\ is.tree \in MaybeTrees /\ DiffServer(was, is) = {}
      BY <1>1, <2>1, <2>2, <2>5, <3>1 DEF CInv, TreesTyped, TreesOf
    <3>3. is.root = cmd.targets[i].root /\ (is.root \in Roots => is.tree \in Trees)
      BY <2>1, <2>4, <2>5, <3>2 DEF IsRecordOf, MaybeTrees
    <3>4. was.root = is.root
      BY <3>2 DEF DiffServer
    <3> QED
      BY <3>2, <3>3, <3>4, NoDifferenceIsSame
  <2> QED
    BY <2>2, <2>4, <2>5
<1>2. ASSUME IInv /\ CInv, [LockNext]_lockVars PROVE [Passes("check") => IsLocked]_lockVars
  BY <1>1, <1>2
<1> QED
  BY <1>2, CheckInvHolds, PTL DEF LockSpec, CheckedIsLocked

-----------------------------------------------------------------------------
(* The configs of the hosts, and the installs that write them. *)

(* What stands for a missing file, a broken one and a list of the wrong     *)
(* type is none of the objects a file may hold.                             *)
NoObjects == \A S, T : {Null, Broken, Odd, Array} \cap [S -> T] = {}

(* What an install holds at each of its steps. *)
Shaped(i) ==
    \/ i = AtRest
    \/ /\ i.pc \in {"gate", "cleared"}
       /\ i = [pc |-> i.pc, entry |-> i.entry, tool |-> i.tool, judged |-> i.judged,
               target |-> i.target, allowUnpinned |-> i.allowUnpinned,
               allowOverBudget |-> i.allowOverBudget]
    \/ /\ i.pc = "read"
       /\ i = [pc |-> i.pc, entry |-> i.entry, judged |-> i.judged, at |-> i.at,
               pinned |-> i.pinned, spec |-> i.spec]
    \/ /\ i.pc \in {"copy", "write"}
       /\ i = [pc |-> i.pc, entry |-> i.entry, judged |-> i.judged, at |-> i.at,
               pinned |-> i.pinned, spec |-> i.spec, doc |-> i.doc, copied |-> i.copied]

(* An install that read a file holds it, and its copy of it is kept. *)
Holds(i, kept) ==
    /\ Shaped(i)
    /\ i.pc \in {"read", "copy", "write"} => i.at \in Locations
    /\ i.pc \in {"copy", "write"} => IsDoc(i.doc)
    /\ i.pc = "write" => i.doc = EmptyDoc \/ <<i.at, i.copied>> \in kept

FilesHeld ==
    /\ IsConfig(config)
    /\ DOMAIN install = Installers
    /\ \A p \in Installers : Holds(install[p], backups)

LEMMA DocIsNoWord == ASSUME NoObjects, NEW d, IsDoc(d) PROVE d \notin {Null, Broken, Odd, Array}
<1>1. d \in [{"mcpServers", "servers"} -> {d.mcpServers, d.servers}]
  BY DEF IsDoc
<1> QED
  BY <1>1 DEF NoObjects

(* A server entered in a document: its list, and nothing else of it; none  *)
(* is entered in an array.                                                  *)
LEMMA EnteredIs ==
  ASSUME NoObjects, NEW d, IsDoc(d), NEW k \in {"mcpServers", "servers"}, NEW n, NEW x,
         NEW e, e = Entered(d, k, n, x)
  PROVE  /\ IsDoc(e)
         /\ d[k] = Array => e = d
         /\ d[k] # Array => IsTable(e[k])
         /\ \A j \in {"mcpServers", "servers"} : j # k => e[j] = d[j]
         /\ IsTable(d[k]) => \A m \in DOMAIN d[k] : m # n => m \in DOMAIN e[k] /\ e[k][m] = d[k][m]
<1>1. PICK was, list :
         /\ was = TableOf(d[k])
         /\ list = [m \in DOMAIN was \cup {n} |-> IF m = n THEN x ELSE was[m]]
  OBVIOUS
<1>2. CASE d[k] = Array
  BY <1>2 DEF Entered, IsTable
<1>3. CASE d[k] # Array
  <2>1. e = [d EXCEPT ![k] = list]
    BY <1>1, <1>3 DEF Entered
  <2>2. /\ IsDoc(e) /\ e[k] = list
        /\ \A j \in {"mcpServers", "servers"} : j # k => e[j] = d[j]
    BY <2>1 DEF IsDoc
  <2>3. list \in [DOMAIN was \cup {n} -> {list[m] : m \in DOMAIN was \cup {n}}]
    BY <1>1
  <2>4. IsTable(list)
    BY <2>3 DEF NoObjects, IsTable
  <2>5. IsTable(d[k]) => was = d[k]
    BY <1>1 DEF TableOf
  <2> QED
    BY <1>1, <1>3, <2>2, <2>4, <2>5
<1> QED
  BY <1>2, <1>3

LEMMA TargetIsAFile ==
  ASSUME NEW h, NEW t, ResolveTarget(h, t) # Null PROVE ResolveTarget(h, t) \in Locations
<1>1. h \in DOMAIN HostScopes /\ t \in HostScopes[h] /\ ResolveTarget(h, t) = <<h, t>>
  BY DEF ResolveTarget
<1>2. DOMAIN HostConfigPaths = 1 .. 7
  BY DEF HostConfigPaths
<1>3. \A n \in 1 .. 7 : HostConfigPaths[n] \in Locations
  BY <1>2 DEF Locations
<1>4. /\ <<"claude-code", "project">> = HostConfigPaths[1] /\ <<"claude-code", "user">> = HostConfigPaths[2]
      /\ <<"claude-desktop", "user">> = HostConfigPaths[3]
      /\ <<"cursor", "project">> = HostConfigPaths[4] /\ <<"cursor", "user">> = HostConfigPaths[5]
      /\ <<"vscode", "project">> = HostConfigPaths[6] /\ <<"codex", "user">> = HostConfigPaths[7]
  BY DEF HostConfigPaths
<1> QED
  BY <1>1, <1>3, <1>4 DEF HostScopes

LEMMA FilesHeldAtFirst == ASSUME InstallConstants, InstallInit PROVE FilesHeld
  BY DEF InstallConstants, InstallInit, FilesHeld, Holds, AtRest, Shaped

LEMMA FilesStayHeld ==
  ASSUME NoObjects, FilesHeld, [InstallNext]_installVars PROVE FilesHeld'
<1>1. ASSUME NEW p \in Installers, NEW i, install' = [install EXCEPT ![p] = i], Holds(i, backups'),
             backups \subseteq backups', IsConfig(config')
      PROVE  FilesHeld'
  BY <1>1 DEF FilesHeld, Holds
<1>2. CASE UNCHANGED installVars \/ MoveVault
  BY <1>2 DEF installVars, MoveVault, FilesHeld
<1>3. Holds(AtRest, backups)
  BY DEF Holds, AtRest, Shaped
<1>4. ASSUME NEW p \in Installers, Give_up(p), UNCHANGED <<config, backups>> PROVE FilesHeld'
  BY <1>1, <1>3, <1>4 DEF Give_up, FilesHeld
<1>5. ASSUME NEW p \in Installers, StartInstall(p) PROVE FilesHeld'
  <2>1. PICK i : i = install'[p]
    OBVIOUS
  <2>2. install' = [install EXCEPT ![p] = i] /\ Shaped(i) /\ i.pc = "gate"
    BY <1>5, <2>1 DEF StartInstall, FilesHeld, Shaped
  <2> QED
    BY <1>1, <1>5, <2>2 DEF StartInstall, Holds, FilesHeld
<1>6. ASSUME NEW p \in Installers, RunGate(p) PROVE FilesHeld'
  <2>1. install[p].pc = "gate" /\ Shaped(install[p])
    BY <1>6 DEF RunGate, FilesHeld, Holds
  <2>2. CASE ~Give_up(p)
    <3>1. PICK i, v, j : i = install[p] /\ v = vault[i.entry]
                         /\ j = [i EXCEPT !.pc = "cleared", !.judged = v]
      OBVIOUS
    <3>2. install' = [install EXCEPT ![p] = j]
      BY <1>6, <2>2, <3>1 DEF RunGate, FilesHeld
    <3>3. i = [pc |-> "gate", entry |-> i.entry, tool |-> i.tool, judged |-> i.judged,
               target |-> i.target, allowUnpinned |-> i.allowUnpinned,
               allowOverBudget |-> i.allowOverBudget]
      BY <2>1, <3>1 DEF Shaped, AtRest
    <3>4. j = [pc |-> "cleared", entry |-> i.entry, tool |-> i.tool, judged |-> v,
               target |-> i.target, allowUnpinned |-> i.allowUnpinned,
               allowOverBudget |-> i.allowOverBudget]
      BY <3>1, <3>3
    <3>5. Shaped(j) /\ j.pc = "cleared"
      BY <3>4 DEF Shaped
    <3> QED
      BY <1>1, <1>6, <3>2, <3>5 DEF RunGate, Holds, FilesHeld
  <2> QED
    BY <1>4, <1>6, <2>2 DEF RunGate
<1>7. ASSUME NEW p \in Installers, Prepare(p) PROVE FilesHeld'
  <2>1. CASE ~Give_up(p)
    <3>1. PICK i : i = install'[p]
      OBVIOUS
    <3>2. install' = [install EXCEPT ![p] = i] /\ Shaped(i) /\ i.pc = "read" /\ i.at \in Locations
      BY <1>7, <2>1, <3>1, TargetIsAFile DEF Prepare, FilesHeld, Shaped
    <3> QED
      BY <1>1, <1>7, <3>2 DEF Prepare, Holds, FilesHeld
  <2> QED
    BY <1>4, <1>7, <2>1 DEF Prepare
<1>8. ASSUME NEW p \in Installers, ReadTarget(p) PROVE FilesHeld'
  <2>1. PICK i, held : i = install[p] /\ held = config[install[p].at]
    OBVIOUS
  <2>2. CASE ~Give_up(p)
    <3>1. PICK j : j = [pc |-> IF held = Null THEN "write" ELSE "copy", entry |-> i.entry,
                        judged |-> i.judged, at |-> i.at, pinned |-> i.pinned, spec |-> i.spec,
                        doc |-> IF held = Null THEN EmptyDoc ELSE held, copied |-> Null]
      OBVIOUS
    <3>2. install' = [install EXCEPT ![p] = j] /\ held # Broken
      BY <1>8, <2>1, <2>2, <3>1 DEF ReadTarget, FilesHeld
    <3>3. Shaped(j) /\ (j.pc = "write" => j.doc = EmptyDoc)
      BY <3>1 DEF Shaped
    <3>4. IsDoc(j.doc) /\ j.at \in Locations
      BY <1>8, <2>1, <3>1, <3>2 DEF ReadTarget, FilesHeld, IsConfig, Holds, IsDoc, EmptyDoc
    <3> QED
      BY <1>1, <1>8, <3>2, <3>3, <3>4 DEF ReadTarget, Holds, FilesHeld
  <2> QED
    BY <1>4, <1>8, <2>2 DEF ReadTarget
<1>9. ASSUME NEW p \in Installers, CopyTarget(p) PROVE FilesHeld'
  <2>1. install[p].pc = "copy" /\ Shaped(install[p]) /\ IsDoc(install[p].doc)
    BY <1>9 DEF CopyTarget, FilesHeld, Holds
  <2>2. PICK i, c, j : i = install[p] /\ c = config[i.at]
                       /\ j = [i EXCEPT !.pc = "write", !.copied = c]
    OBVIOUS
  <2>3. install' = [install EXCEPT ![p] = j]
    BY <1>9, <2>2 DEF CopyTarget, FilesHeld
  <2>4. i = [pc |-> "copy", entry |-> i.entry, judged |-> i.judged, at |-> i.at,
             pinned |-> i.pinned, spec |-> i.spec, doc |-> i.doc, copied |-> i.copied]
    BY <2>1, <2>2 DEF Shaped, AtRest
  <2>5. j = [pc |-> "write", entry |-> i.entry, judged |-> i.judged, at |-> i.at,
             pinned |-> i.pinned, spec |-> i.spec, doc |-> i.doc, copied |-> c]
    BY <2>2, <2>4
  <2>6. Shaped(j) /\ j.doc = i.doc /\ j.at = i.at /\ j.copied = c
    BY <2>5 DEF Shaped
  <2>7. backups' = backups \cup {<<i.at, c>>} /\ i.at \in Locations
    BY <1>9, <2>1, <2>2 DEF CopyTarget, FilesHeld, Holds
  <2> QED
    BY <1>1, <1>9, <2>1, <2>2, <2>3, <2>6, <2>7 DEF CopyTarget, Holds, FilesHeld
<1>10. ASSUME NEW p \in Installers, WriteTarget(p) PROVE FilesHeld'
  <2>1. PICK i, e : i = install[p] /\ e = Entered(i.doc, TargetKey(i.at[1]), i.entry, i.spec)
    OBVIOUS
  <2>2. IsDoc(e)
    BY <1>10, <2>1, EnteredIs DEF WriteTarget, FilesHeld, Holds, TargetKey
  <2>3. config' = [config EXCEPT ![i.at] = e]
    BY <1>10, <2>1 DEF WriteTarget
  <2>4. IsConfig(config')
    BY <2>2, <2>3 DEF IsConfig, FilesHeld
  <2> QED
    BY <1>1, <1>3, <1>10, <2>4 DEF WriteTarget, Give_up
<1> QED
  BY <1>2, <1>5, <1>6, <1>7, <1>8, <1>9, <1>10 DEF InstallNext

(* A server of a list that its owner's install does not name stays in it.   *)
LEMMA OthersStay ==
  ASSUME NoObjects, NEW d, IsDoc(d), NEW k \in {"mcpServers", "servers"}, NEW n, NEW x,
         NEW s \in Servers(d) \ Servers(Entered(d, k, n, x))
  PROVE  s[2] = n
<1>1. PICK e : e = Entered(d, k, n, x)
  OBVIOUS
<1>2. /\ IsDoc(e) /\ (d[k] # Array => IsTable(e[k])) /\ (d[k] = Array => e = d)
      /\ \A j \in {"mcpServers", "servers"} : j # k => e[j] = d[j]
      /\ IsTable(d[k]) => \A m \in DOMAIN d[k] : m # n => m \in DOMAIN e[k] /\ e[k][m] = d[k][m]
  BY <1>1, EnteredIs
<1>3. Lists(d) = d /\ Lists(e) = e
  BY <1>2, DocIsNoWord DEF Lists
<1>4. PICK j \in {"mcpServers", "servers"} :
          IsTable(d[j]) /\ \E m \in DOMAIN d[j] : s = <<j, m, d[j][m]>>
  BY <1>3 DEF Servers
<1>5. PICK m \in DOMAIN d[j] : s = <<j, m, d[j][m]>>
  BY <1>4
<1>6. s \notin {<<j, y, e[j][y]>> : y \in DOMAIN e[j]} \/ ~IsTable(e[j])
  BY <1>1, <1>3 DEF Servers
<1>7. CASE j # k
  BY <1>2, <1>4, <1>5, <1>6, <1>7
<1>8. CASE j = k
  <2>1. IsTable(e[k])
    BY <1>2, <1>4, <1>8 DEF IsTable
  <2> QED
    BY <1>2, <1>4, <1>5, <1>6, <1>8, <2>1
<1> QED
  BY <1>7, <1>8

(* The install whose step writes a file is the one that had it to write.    *)
LEMMA WriterWrites ==
  ASSUME FilesHeld, [InstallNext]_installVars, NEW p \in Installers, NEW l \in Locations, Writes(p, l)
  PROVE  WriteTarget(p)
<1>1. install'[p] # install[p] /\ install'[p].pc = "idle"
  BY DEF Writes
<1>2. PICK q \in Installers : \/ StartInstall(q) \/ RunGate(q) \/ Prepare(q)
                               \/ ReadTarget(q) \/ CopyTarget(q) \/ WriteTarget(q)
  BY <1>1 DEF InstallNext, installVars, MoveVault
<1>3. CASE q # p
  BY <1>1, <1>2, <1>3
     DEF FilesHeld, StartInstall, RunGate, Prepare, ReadTarget, CopyTarget, WriteTarget, Give_up
<1>4. CASE q = p
  BY <1>2, <1>4 DEF Writes, StartInstall, RunGate, Prepare, ReadTarget, CopyTarget
<1> QED
  BY <1>3, <1>4

(***************************************************************************)
(* An install that finds the file as it read and copied it loses nobody's  *)
(* server.                                                                 *)
(***************************************************************************)
THEOREM NothingIsLost == NoObjects /\ InstallConstants => (InstallSpec => NothingLost)
<1> SUFFICES ASSUME NoObjects, InstallConstants PROVE InstallSpec => NothingLost
  OBVIOUS
<1>1. ASSUME FilesHeld, [InstallNext]_installVars, NEW p \in Installers, NEW l \in Locations,
             Writes(p, l), Unmoved(p, l), NEW s \in Servers(config[l]) \ Servers(config'[l])
      PROVE  s[2] = install[p].entry /\ \E b \in backups : b[1] = l /\ s \in Servers(b[2])
  <2>1. PICK i : i = install[p] /\ i.pc = "write" /\ i.at = l
    BY <1>1 DEF Writes
  <2>2. IsDoc(i.doc) /\ (i.doc = EmptyDoc \/ <<l, i.copied>> \in backups)
    BY <1>1, <2>1 DEF FilesHeld, Holds
  <2>3. Servers(EmptyDoc) = {} /\ Servers(Null) = {} /\ Servers(Broken) = {}
    BY DEF Servers, Lists, EmptyDoc, IsTable
  <2>4. i.doc = config[l] /\ i.doc # EmptyDoc
    BY <1>1, <2>1, <2>3 DEF Unmoved, Lists
  <2>5. <<l, config[l]>> \in backups
    BY <1>1, <2>1, <2>2, <2>4 DEF Unmoved
  <2>6. WriteTarget(p)
    BY <1>1, WriterWrites
  <2>7. PICK k \in {"mcpServers", "servers"} : k = TargetKey(l[1])
    BY DEF TargetKey
  <2>8. config'[l] = Entered(config[l], k, i.entry, i.spec)
    BY <1>1, <2>1, <2>4, <2>6, <2>7 DEF WriteTarget, FilesHeld, IsConfig
  <2>9. s[2] = i.entry
    BY <1>1, <2>2, <2>4, <2>8, OthersStay
  <2> QED
    BY <1>1, <2>1, <2>5, <2>9
<1>2. ASSUME FilesHeld, [InstallNext]_installVars
      PROVE  \A p \in Installers, l \in Locations :
                Writes(p, l) /\ Unmoved(p, l) =>
                   \A s \in Servers(config[l]) \ Servers(config'[l]) :
                      /\ s[2] = install[p].entry
                      /\ \E b \in backups : b[1] = l /\ s \in Servers(b[2])
  BY <1>1, <1>2
<1> QED
  BY <1>2, FilesHeldAtFirst, FilesStayHeld, PTL DEF InstallSpec, NothingLost

(***************************************************************************)
(* What an install writes is what is read there.                           *)
(***************************************************************************)
(* A server reached by URL is none of the launches a file may hold.         *)
RemoteIsNoLaunch == \A S, T : {Remote} \cap [S -> T] = {}

(* What an install writes for an entry in some state of the database.       *)
SpecFor(s) == [cmd |-> PinInstallCmd(s.cmd, s.version).cmd, movedByEnv |-> FALSE]
IsSpecFor(s, i) == i.spec = SpecFor(s) /\ i.pinned = PinInstallCmd(s.cmd, s.version).pinned

SpecsHeld ==
    /\ vault \in [Entries -> EntryStates]
    /\ \A p \in Installers :
          /\ install[p].pc \in {"gate", "cleared"} => install[p].tool \in EntryStates
          /\ install[p].pc \in {"read", "copy", "write"} => \E s \in EntryStates : IsSpecFor(s, install[p])

LEMMA SpecIsALaunch ==
  ASSUME NoObjects, RemoteIsNoLaunch, NEW s PROVE SpecFor(s) \notin {Remote, Odd}
<1>1. PICK c, m : c = PinInstallCmd(s.cmd, s.version).cmd /\ m = FALSE
  OBVIOUS
<1>2. PICK x : x = [cmd |-> c, movedByEnv |-> m]
  OBVIOUS
<1>3. x = SpecFor(s)
  BY <1>1, <1>2 DEF SpecFor
<1>4. x \in [{"cmd", "movedByEnv"} -> {c, m}]
  BY <1>2
<1>5. x # Remote
  BY <1>4 DEF RemoteIsNoLaunch
<1>6. x # Odd
  BY <1>4 DEF NoObjects
<1> QED
  BY <1>3, <1>5, <1>6

LEMMA CommandIsNotNull ==
  ASSUME NoObjects, NEW line, line = [runner |-> line.runner, argv |-> line.argv] PROVE line # Null
<1>1. line \in [{"runner", "argv"} -> {line.runner, line.argv}]
  OBVIOUS
<1> QED
  BY <1>1 DEF NoObjects

LEMMA PinnedImageIsRead ==
  ASSUME NoObjects, RemoteIsNoLaunch, NEW s, PlainEntry(s), s.cmd.runner = "docker",
         PinInstallCmd(s.cmd, s.version).pinned
  PROVE  IsExactVersion(Artifact(ToInstallCmd(SpecFor(s))).version)
<1>1. SpecFor(s).cmd = s.cmd /\ DigestPinned(s.cmd.argv)
  BY DEF SpecFor, PinInstallCmd
<1>2. ToInstallCmd(SpecFor(s)) = s.cmd
  BY <1>1, SpecIsALaunch DEF ToInstallCmd
<1>3. s.cmd # Null
  BY CommandIsNotNull DEF PlainEntry, IsCommand
<1> QED
  BY <1>1, <1>2, <1>3 DEF Artifact, ImageArtifact, DigestPinned

LEMMA PinnedPackageIsRead ==
  ASSUME NoObjects, RemoteIsNoLaunch, NEW s, PlainEntry(s), s.cmd.runner # "docker",
         PinInstallCmd(s.cmd, s.version).pinned
  PROVE  IsExactVersion(Artifact(ToInstallCmd(SpecFor(s))).version)
<1> DEFINE pin == PinInstallCmd(s.cmd, s.version)
           l == ParseLaunch(pin.cmd)
           canonical == CanonicalInstallCmd(s.cmd.runner, l)
           c == ParseLaunch(canonical)
<1>1. s.version \in Versions
  BY DEF PinInstallCmd, PinAt, IsExactVersion
<1>2. IsCommand(s.cmd) /\ PlainlyNamed(s.cmd)
  BY DEF PlainEntry
<1>3. /\ l.version = s.version /\ ~l.error
      /\ pin.cmd = [runner |-> s.cmd.runner, argv |-> pin.cmd.argv]
      /\ \E h : Repinned(s.cmd.argv, pin.cmd.argv, h)
  BY <1>1, <1>2, PinnedReads
<1>4. \A i \in DOMAIN l.bin : IsWord(l.bin[i])
  BY <1>1, <1>2, PinKeepsTheBinary DEF PlainEntry
<1>5. IsCommand(pin.cmd) /\ pin.cmd.runner = s.cmd.runner
  BY <1>2, <1>3 DEF IsCommand, Repinned
<1>6. ~c.error /\ c.version = s.version
  <2>1. CanonicalRunsTheSame(pin.cmd)
    BY <1>5, CanonicalIsTheSame
  <2>2. s.version # "latest"
    BY <1>1, LaunchConstants
  <2> QED
    BY <1>3, <1>4, <1>5, <2>1, <2>2 DEF CanonicalRunsTheSame
<1>7. ToInstallCmd(SpecFor(s)) = canonical
  <2>1. SpecFor(s).cmd = pin.cmd /\ SpecFor(s).movedByEnv = FALSE
    BY DEF SpecFor
  <2> QED
    BY <1>3, <1>5, <2>1, SpecIsALaunch DEF ToInstallCmd
<1>8. canonical = [runner |-> s.cmd.runner, argv |-> canonical.argv]
  BY DEF CanonicalInstallCmd
<1>9. canonical # Null
  BY <1>8, CommandIsNotNull
<1>10. Artifact(canonical) = LaunchedArtifact(c)
  BY <1>8, <1>9 DEF Artifact
<1> QED
  BY <1>1, <1>6, <1>7, <1>10 DEF LaunchedArtifact, IsExactVersion

LEMMA SpecsHeldAtFirst == ASSUME InstallInit PROVE SpecsHeld
  BY DEF InstallInit, SpecsHeld, AtRest

LEMMA SpecsStayHeld ==
  ASSUME FilesHeld, SpecsHeld, [InstallNext]_installVars PROVE SpecsHeld'
<1>1. ASSUME NEW p \in Installers, NEW i, install' = [install EXCEPT ![p] = i], UNCHANGED vault,
             i.pc \in {"gate", "cleared"} => i.tool \in EntryStates,
             i.pc \in {"read", "copy", "write"} => \E s \in EntryStates : IsSpecFor(s, i)
      PROVE  SpecsHeld'
  BY <1>1 DEF FilesHeld, SpecsHeld, IsSpecFor
<1>2. CASE UNCHANGED installVars \/ MoveVault
  BY <1>2 DEF installVars, MoveVault, SpecsHeld, IsSpecFor
<1>3. ASSUME NEW p \in Installers, Give_up(p), UNCHANGED vault PROVE SpecsHeld'
  BY <1>1, <1>3 DEF Give_up, AtRest
<1>4. ASSUME NEW p \in Installers, StartInstall(p) PROVE SpecsHeld'
  <2>1. PICK e \in Entries, t \in Targets, unpinned \in BOOLEAN, over \in BOOLEAN :
            install' = [install EXCEPT ![p] =
              [pc |-> "gate", entry |-> e, tool |-> vault[e], judged |-> Null, target |-> t,
               allowUnpinned |-> unpinned, allowOverBudget |-> over]]
    BY <1>4 DEF StartInstall
  <2>2. vault[e] \in EntryStates
    BY DEF SpecsHeld
  <2> QED
    BY <1>1, <1>4, <2>1, <2>2 DEF StartInstall
<1>5. ASSUME NEW p \in Installers, RunGate(p), ~Give_up(p) PROVE SpecsHeld'
  <2>1. PICK i, j : i = install[p] /\ j = [i EXCEPT !.pc = "cleared", !.judged = vault[i.entry]]
    OBVIOUS
  <2>2. install' = [install EXCEPT ![p] = j] /\ i.pc = "gate" /\ i.tool \in EntryStates /\ Shaped(i)
    BY <1>5, <2>1 DEF RunGate, FilesHeld, SpecsHeld, Holds
  <2>3. i = [pc |-> "gate", entry |-> i.entry, tool |-> i.tool, judged |-> i.judged,
             target |-> i.target, allowUnpinned |-> i.allowUnpinned,
             allowOverBudget |-> i.allowOverBudget]
    BY <2>2 DEF Shaped, AtRest
  <2>4. j.pc = "cleared" /\ j.tool = i.tool
    BY <2>1, <2>3
  <2> QED
    BY <1>1, <1>5, <2>2, <2>4 DEF RunGate
<1>6. ASSUME NEW p \in Installers, Prepare(p), ~Give_up(p) PROVE SpecsHeld'
  <2>1. PICK t, at, pin : /\ t = install[p] /\ at = ResolveTarget(t.target[1], t.target[2])
                          /\ pin = PinInstallCmd(t.tool.cmd, t.tool.version)
    OBVIOUS
  <2>2. PICK i : i = [pc |-> "read", entry |-> t.entry, judged |-> t.judged, at |-> at, pinned |-> pin.pinned,
                      spec |-> [cmd |-> pin.cmd, movedByEnv |-> FALSE]]
    OBVIOUS
  <2>3. install' = [install EXCEPT ![p] = i] /\ t.pc = "cleared"
    BY <1>6, <2>1, <2>2 DEF Prepare, BuildServerEntry
  <2>4. t.tool \in EntryStates
    BY <2>1, <2>3 DEF SpecsHeld
  <2>5. i.pc = "read" /\ IsSpecFor(t.tool, i)
    BY <2>1, <2>2 DEF IsSpecFor, SpecFor
  <2> QED
    BY <1>1, <1>6, <2>3, <2>4, <2>5 DEF Prepare
<1>7. ASSUME NEW p \in Installers, ReadTarget(p), ~Give_up(p) PROVE SpecsHeld'
  <2>1. PICK i, j : i = install[p] /\ j = install'[p]
    OBVIOUS
  <2>2. /\ install' = [install EXCEPT ![p] = j] /\ j.pc \in {"write", "copy"} /\ i.pc = "read"
        /\ j.spec = i.spec /\ j.pinned = i.pinned
    BY <1>7, <2>1 DEF ReadTarget, FilesHeld
  <2> QED
    BY <1>1, <1>7, <2>1, <2>2 DEF ReadTarget, SpecsHeld, IsSpecFor
<1>8. ASSUME NEW p \in Installers, CopyTarget(p) PROVE SpecsHeld'
  <2>1. PICK i, j : i = install[p] /\ j = [i EXCEPT !.pc = "write", !.copied = config[i.at]]
    OBVIOUS
  <2>2. install' = [install EXCEPT ![p] = j] /\ i.pc = "copy" /\ Shaped(i)
    BY <1>8, <2>1 DEF CopyTarget, FilesHeld, Holds
  <2>3. i = [pc |-> "copy", entry |-> i.entry, judged |-> i.judged, at |-> i.at,
             pinned |-> i.pinned, spec |-> i.spec, doc |-> i.doc, copied |-> i.copied]
    BY <2>2 DEF Shaped, AtRest
  <2>4. j.pc = "write" /\ j.spec = i.spec /\ j.pinned = i.pinned
    BY <2>1, <2>3
  <2>5. \E s \in EntryStates : IsSpecFor(s, i)
    BY <2>1, <2>2 DEF SpecsHeld
  <2>6. \E s \in EntryStates : IsSpecFor(s, j)
    BY <2>4, <2>5 DEF IsSpecFor
  <2> QED
    BY <1>1, <1>8, <2>2, <2>4, <2>6 DEF CopyTarget
<1>9. ASSUME NEW p \in Installers, WriteTarget(p) PROVE SpecsHeld'
  BY <1>3, <1>9 DEF WriteTarget
<1> QED
  BY <1>2, <1>3, <1>4, <1>5, <1>6, <1>7, <1>8, <1>9
     DEF InstallNext, RunGate, Prepare, ReadTarget

(* A server entered in the list a document is read from is read there; an  *)
(* array in its place is one no reader takes for a list.                    *)
LEMMA ArrayIsUnread ==
  ASSUME NoObjects, NEW d, IsDoc(d), NEW h, h = "vscode" => d.mcpServers = Null,
         d[TargetKey(h)] = Array, NEW n, NEW x
  PROVE  Unreadable(Entered(d, TargetKey(h), n, x))
<1>1. TargetKey(h) \in {"mcpServers", "servers"} /\ Entered(d, TargetKey(h), n, x) = d
  BY DEF TargetKey, Entered
<1>2. ListOf(d) = Array
  BY HostConfigConstants DEF ListOf, TargetKey
<1> QED
  BY <1>1, <1>2, DocIsNoWord DEF Unreadable

LEMMA EnteredIsRead ==
  ASSUME NoObjects, NEW d, IsDoc(d), NEW h, h = "vscode" => d.mcpServers = Null,
         d[TargetKey(h)] # Array, NEW n, NEW x, x # Odd
  PROVE  LET read == ParseConfig(Entered(d, TargetKey(h), n, x))
         IN  n \in DOMAIN read /\ read[n] = x
<1> DEFINE k == TargetKey(h)
           was == TableOf(d[k])
           list == [m \in DOMAIN was \cup {n} |-> IF m = n THEN x ELSE was[m]]
           e == Entered(d, k, n, x)
           read == ParseConfig(e)
<1>1. k \in {"mcpServers", "servers"} /\ (k = "servers" => d.mcpServers = Null)
  BY DEF TargetKey
<1>2. IsDoc(e) /\ IsTable(e[k]) /\ \A j \in {"mcpServers", "servers"} : j # k => e[j] = d[j]
  BY <1>1, EnteredIs
<1>3. e[k] = list
  BY <1>1 DEF Entered, IsDoc
<1>4. ListOf(e) = list
  <2>1. CASE k = "mcpServers"
    BY <1>2, <1>3, <2>1 DEF ListOf, IsTable
  <2>2. CASE k = "servers"
    BY <1>1, <1>2, <1>3, <2>2 DEF ListOf
  <2> QED
    BY <1>1, <2>1, <2>2
<1>5. e \notin {Null, Broken}
  BY <1>2, DocIsNoWord
<1>6. n \in DOMAIN list /\ list[n] = x
  OBVIOUS
<1> HIDE DEF list, e
<1>7. read = [m \in {y \in DOMAIN list : list[y] # Odd} |-> list[m]]
  BY <1>2, <1>3, <1>4, <1>5 DEF ParseConfig
<1>8. n \in DOMAIN read /\ read[n] = x
  BY <1>6, <1>7
<1> QED
  BY <1>8 DEF e

(* An install writes what every command then reads there: the same launch   *)
(* under that name, pinned where it was said to be - for any number of      *)
(* overlapping installs, edits and deaths, provided entries name their      *)
(* packages plainly.  Where the file has an array for a list nothing is     *)
(* entered, and the file it writes is one no reader takes for a list        *)
(* (hosts.cjs writeServerEntry, installed.cjs parseConfig).                 *)
THEOREM WrittenIsRead ==
    NoObjects /\ RemoteIsNoLaunch /\ InstallConstants /\ (\A s \in EntryStates : PlainEntry(s)) =>
        (InstallSpec => WrittenIsReadBack)
<1> SUFFICES ASSUME NoObjects, RemoteIsNoLaunch, InstallConstants, \A s \in EntryStates : PlainEntry(s)
             PROVE  InstallSpec => WrittenIsReadBack
  OBVIOUS
<1>1. ASSUME FilesHeld, SpecsHeld, [InstallNext]_installVars, NEW p \in Installers, NEW l \in Locations,
             WritesWhatIsRead(p, l), install[p].doc[TargetKey(l[1])] # Array
      PROVE  ReadBack(p, l)
  <2> USE DEF WritesWhatIsRead
  <2>1. PICK i : i = install[p] /\ i.pc = "write" /\ i.at = l
    BY <1>1 DEF Writes
  <2>2. PICK x \in EntryStates : IsSpecFor(x, i)
    BY <1>1, <2>1 DEF SpecsHeld
  <2>3. IsDoc(i.doc) /\ i.spec # Odd
    BY <1>1, <2>1, <2>2, SpecIsALaunch DEF FilesHeld, Holds, IsSpecFor
  <2>4. config'[l] = Entered(i.doc, TargetKey(l[1]), i.entry, i.spec)
    BY <1>1, <2>1, WriterWrites DEF WriteTarget, FilesHeld, IsConfig
  <2>5. i.entry \in DOMAIN ParseConfig(config'[l]) /\ ParseConfig(config'[l])[i.entry] = i.spec
    BY <1>1, <2>1, <2>3, <2>4, EnteredIsRead
  <2>6. l = <<l[1], l[2]>>
    BY DEF Locations, HostConfigPaths
  <2>7. PICK s : s = [host |-> l[1], scope |-> l[2], name |-> i.entry, cmd |-> ToInstallCmd(i.spec)]
    OBVIOUS
  <2>8. s \in ReadInstalledServers(config')
    BY <2>5, <2>7 DEF ReadInstalledServers
  <2>9. i.pinned => IsExactVersion(Artifact(s.cmd).version)
    BY <2>2, <2>7, PinnedImageIsRead, PinnedPackageIsRead DEF IsSpecFor
  <2> QED
    BY <2>1, <2>6, <2>7, <2>8, <2>9 DEF ReadBack
<1>2. InstallInit => FilesHeld /\ SpecsHeld
  BY FilesHeldAtFirst, SpecsHeldAtFirst
<1>3. FilesHeld /\ SpecsHeld /\ [InstallNext]_installVars => FilesHeld' /\ SpecsHeld'
  BY FilesStayHeld, SpecsStayHeld
<1>4. ASSUME FilesHeld, SpecsHeld, [InstallNext]_installVars, NEW p \in Installers, NEW l \in Locations,
             WritesWhatIsRead(p, l), install[p].doc[TargetKey(l[1])] = Array
      PROVE  Unreadable(config'[l])
  <2>1. PICK i : i = install[p] /\ i.pc = "write" /\ i.at = l /\ IsDoc(i.doc)
    BY <1>4 DEF WritesWhatIsRead, Writes, FilesHeld, Holds
  <2>2. config'[l] = Entered(i.doc, TargetKey(l[1]), i.entry, i.spec)
    BY <1>4, <2>1, WriterWrites DEF WritesWhatIsRead, WriteTarget, FilesHeld, IsConfig
  <2> QED
    BY <1>4, <2>1, <2>2, ArrayIsUnread DEF WritesWhatIsRead
<1>5. ASSUME FilesHeld, SpecsHeld, [InstallNext]_installVars
      PROVE  [\A p \in Installers, l \in Locations :
                WritesWhatIsRead(p, l) =>
                   IF install[p].doc[TargetKey(l[1])] = Array
                   THEN Unreadable(config'[l]) ELSE ReadBack(p, l)]_installVars
  BY <1>1, <1>4, <1>5
<1> QED
  BY <1>2, <1>3, <1>5, PTL DEF InstallSpec, WrittenIsReadBack

-----------------------------------------------------------------------------
(* Tool approvals (ToolApproval).                                           *)

ToolRecords == [print : Prints, day : 0..MaxDay]

LEMMA SurfaceTyped ==
  ASSUME NEW shown \in Surfaces
  PROVE  /\ DOMAIN shown \subseteq Tools
         /\ \A t \in DOMAIN shown : shown[t] \in Prints
BY DEF Tools, Prints

LEMMA ToolsTyped ==
  ASSUME NEW approval \in ApprovalRecords \cup {Absent}
  PROVE  /\ DOMAIN ToolsOf(approval) \subseteq Tools
         /\ \A t \in DOMAIN ToolsOf(approval) : ToolsOf(approval)[t] \in ToolRecords
<1>1. CASE approval = Absent
  BY <1>1 DEF ToolsOf, NoTools
<1>2. CASE approval # Absent
  <2>1. PICK T \in SUBSET Tools : approval.tools \in [T -> ToolRecords]
    BY <1>2 DEF ApprovalRecords, ToolRecords
  <2> QED
    BY <1>2, <2>1 DEF ToolsOf
<1> QED
  BY <1>1, <1>2

LEMMA ApprovalForTyped ==
  ASSUME NEW approval \in ApprovalRecords \cup {Absent}, NEW id
  PROVE  ApprovalFor(approval, id) \in ApprovalRecords \cup {Absent}
BY DEF ApprovalFor

LEMMA ApprovalsTyped ==
  ASSUME NEW doc \in Documents \cup {Absent}
  PROVE  Approvals(doc) \in ApprovalRecords \cup {Absent}
BY DEF Approvals, Documents

(* What approve() writes: every tool of it is either renewed, with what was *)
(* observed and today's date, or taken over from the approval that stood.   *)
LEMMA ApproveWrites ==
  ASSUME NEW approval \in ApprovalRecords \cup {Absent}, NEW shown \in Surfaces,
         NEW chosen \in SUBSET DOMAIN shown, NEW id \in MaybeIds, NEW day \in 0..MaxDay
  PROVE  LET base    == ApprovalFor(approval, id)
             renewed == Chosen(base, shown, chosen)
             outcome == Approve(approval, shown, chosen, id, day)
         IN  /\ renewed \subseteq DOMAIN shown
             /\ outcome \in ApprovalRecords
             /\ outcome.id = id
             /\ \A t \in DOMAIN outcome.tools :
                  \/ /\ t \in renewed
                     /\ outcome.tools[t].print = shown[t]
                     /\ outcome.tools[t].day = day
                  \/ /\ t \in DOMAIN ToolsOf(base)
                     /\ outcome.tools[t] = ToolsOf(base)[t]
<1> DEFINE base    == ApprovalFor(approval, id)
           known   == ToolsOf(base)
           renewed == Chosen(base, shown, chosen)
           kept    == IF chosen = {} THEN DOMAIN known \cap DOMAIN shown ELSE DOMAIN known
           tools   == [t \in kept \cup renewed |->
                         IF t \in renewed THEN ToolRecord(shown[t], day) ELSE known[t]]
           outcome == Approve(approval, shown, chosen, id, day)
<1>1. outcome = [id |-> id, day |-> day, tools |-> tools]
  BY DEF Approve
<1>2. renewed \subseteq DOMAIN shown
  BY DEF Chosen, Pending
<1>3. /\ DOMAIN known \subseteq Tools
      /\ \A t \in DOMAIN known : known[t] \in ToolRecords
  BY ApprovalForTyped, ToolsTyped
<1>4. kept \subseteq DOMAIN known
  OBVIOUS
<1> HIDE DEF known, renewed, kept, base
<1>5. \A t \in renewed : ToolRecord(shown[t], day) \in ToolRecords
  BY <1>2, SurfaceTyped DEF ToolRecord, ToolRecords
<1>6. tools \in [kept \cup renewed -> ToolRecords]
  BY <1>3, <1>4, <1>5
<1>7. kept \cup renewed \in SUBSET Tools
  BY <1>2, <1>3, <1>4, SurfaceTyped
<1>8. outcome \in ApprovalRecords
  BY <1>1, <1>6, <1>7 DEF ApprovalRecords, ToolRecords
<1>9. ASSUME NEW t \in DOMAIN outcome.tools
      PROVE  \/ /\ t \in renewed
                /\ outcome.tools[t].print = shown[t]
                /\ outcome.tools[t].day = day
             \/ t \in DOMAIN known /\ outcome.tools[t] = known[t]
  BY <1>1, <1>4, <1>9 DEF ToolRecord
<1> QED
  BY <1>1, <1>2, <1>8, <1>9 DEF known, renewed, base

LEMMA ApproveTyped ==
  ASSUME NEW approval \in ApprovalRecords \cup {Absent}, NEW shown \in Surfaces,
         NEW chosen \in SUBSET DOMAIN shown, NEW id \in MaybeIds, NEW day \in 0..MaxDay
  PROVE  /\ Approve(approval, shown, chosen, id, day) \in ApprovalRecords
         /\ Approve(approval, shown, chosen, id, day).id = id
BY ApproveWrites

-----------------------------------------------------------------------------
(* Types.                                                                  *)

LEMMA BusyRun ==
  ASSUME TypeOK, NEW p \in Procs, run[p] # Idle
  PROVE  /\ run[p].snap \in Documents \cup {Absent}
         /\ run[p].kind = "approve" =>
              /\ run[p].surface \in Surfaces
              /\ run[p].chosen \subseteq DOMAIN run[p].surface
              /\ run[p].id \in MaybeIds
              /\ run[p].day \in 0..MaxDay
<1>1. run[p] \in Runs
  BY DEF TypeOK
<1> QED
  BY <1>1 DEF Runs

LEMMA InitTyped == Init => TypeOK
BY ToolApprovalConstants DEF Init, TypeOK, MaybeIds

LEMMA FinishApproveTyped ==
  ASSUME TypeOK, NEW p \in Procs, FinishApprove(p)
  PROVE  TypeOK'
<1> DEFINE approval == Approvals(run[p].snap)
           r == run[p]
           base == ApprovalFor(approval, r.id)
           renewed == Chosen(base, r.surface, r.chosen)
<1>1. r # Idle /\ r.kind = "approve"
  BY DEF FinishApprove
<1>2. /\ r.snap \in Documents \cup {Absent}
      /\ r.surface \in Surfaces
      /\ r.chosen \in SUBSET DOMAIN r.surface
      /\ r.id \in MaybeIds
      /\ r.day \in 0..MaxDay
  BY <1>1, BusyRun
<1>3. approval \in ApprovalRecords \cup {Absent}
  BY <1>2, ApprovalsTyped
<1>4. /\ renewed \subseteq DOMAIN r.surface
      /\ ApprovesWritten(p) \in ApprovalRecords
  BY <1>2, <1>3, ApproveWrites DEF ApprovesWritten
<1>5. file' \in Documents \cup {Absent}
  BY <1>4 DEF FinishApprove, Documents
<1>6. signed' \subseteq [id : MaybeIds, tool : Tools, print : Prints, day : 0..MaxDay]
  <2>1. signed' = signed \cup
          {[id |-> r.id, tool |-> t, print |-> r.surface[t], day |-> r.day] : t \in renewed}
    BY DEF FinishApprove
  <2> HIDE DEF renewed, r
  <2>2. \A t \in renewed : t \in Tools /\ r.surface[t] \in Prints
    BY <1>2, <1>4, SurfaceTyped
  <2> QED
    BY <1>2, <2>1, <2>2 DEF TypeOK
<1>7. run' \in [Procs -> Runs \cup {Idle}]
  BY DEF FinishApprove, TypeOK
<1> QED
  BY <1>5, <1>6, <1>7 DEF FinishApprove, TypeOK

LEMMA NextTyped == TypeOK /\ [Next]_vars => TypeOK'
<1> SUFFICES ASSUME TypeOK, [Next]_vars PROVE TypeOK'
  OBVIOUS
<1>1. CASE Tick
  BY <1>1, ToolApprovalConstants DEF Tick, TypeOK
<1>2. ASSUME NEW id \in MaybeIds, Upgrade(id) PROVE TypeOK'
  BY <1>2 DEF Upgrade, TypeOK
<1>3. ASSUME NEW id \in MaybeIds, NEW shown \in Surfaces \cup {Absent}, Eval(id, shown)
      PROVE  TypeOK'
  BY <1>3 DEF Eval, TypeOK
<1>4. ASSUME NEW p \in Procs, StartLock(p) PROVE TypeOK'
  <2>1. [kind |-> "lock", snap |-> file] \in Runs
    BY DEF TypeOK, Runs
  <2> QED
    BY <1>4, <2>1 DEF StartLock, TypeOK
<1>5. ASSUME NEW p \in Procs, FinishLock(p) PROVE TypeOK'
  <2>1. run[p].snap \in Documents \cup {Absent}
    BY <1>5, BusyRun DEF FinishLock
  <2>2. file' \in Documents
    BY <1>5, <2>1, ApprovalsTyped DEF FinishLock, Documents
  <2> QED
    BY <1>5, <2>2 DEF FinishLock, TypeOK
<1>6. ASSUME NEW p \in Procs, NEW shown \in Surfaces, NEW chosen \in SUBSET Tools,
             StartApprove(p, shown, chosen)
      PROVE  TypeOK'
  <2>1. [kind |-> "approve", snap |-> file, surface |-> shown, chosen |-> chosen,
         id |-> launched, day |-> today] \in Runs
    BY <1>6 DEF StartApprove, TypeOK, Runs
  <2>2. begun' \in 0..MaxApprovals
    BY <1>6, ToolApprovalConstants DEF StartApprove, TypeOK
  <2> QED
    BY <1>6, <2>1, <2>2 DEF StartApprove, TypeOK
<1>7. ASSUME NEW p \in Procs, FinishApprove(p) PROVE TypeOK'
  BY <1>7, FinishApproveTyped
<1>8. ASSUME NEW p \in Procs, GiveUp(p) PROVE TypeOK'
  BY <1>8 DEF GiveUp, TypeOK
<1>9. CASE UNCHANGED vars
  BY <1>9 DEF vars, TypeOK
<1> QED
  BY <1>1, <1>2, <1>3, <1>4, <1>5, <1>6, <1>7, <1>8, <1>9 DEF Next

\* Every record on file stays a record, and every date a day that exists.
THEOREM ApprovalTypes == Spec => []TypeOK
<1>1. Init => TypeOK
  BY InitTyped
<1>2. TypeOK /\ [Next]_vars => TypeOK'
  BY NextTyped
<1> QED
  BY <1>1, <1>2, PTL DEF Spec

-----------------------------------------------------------------------------
(* Every tool on file was signed for.                                      *)

\* Signing more never takes an approval's ground away, as long as the only way
\* `named` changes is to become false.
LEMMA HeldStays ==
  ASSUME NEW approval \in ApprovalRecords \cup {Absent},
         ApprovalHeld(approval), signed \subseteq signed', named' => named
  PROVE  ApprovalHeld(approval)'
BY DEF ApprovalHeld

LEMMA ForHeld ==
  ASSUME NEW approval, NEW id, ApprovalHeld(approval)
  PROVE  ApprovalHeld(ApprovalFor(approval, id))
BY DEF ApprovalFor, ApprovalHeld

\* What an approve run writes is signed for: the renewed tools by this run, the
\* others by the approval that stood, which was made on the same artifact.
LEMMA WrittenHeld ==
  ASSUME TypeOK, NEW p \in Procs, FinishApprove(p),
         ApprovalHeld(Approvals(run[p].snap))
  PROVE  ApprovalHeld(Approvals(file))'
<1> DEFINE r == run[p]
           approval == Approvals(r.snap)
           base == ApprovalFor(approval, r.id)
           renewed == Chosen(base, r.surface, r.chosen)
           outcome == Approve(approval, r.surface, r.chosen, r.id, r.day)
           New(t) == [id |-> r.id, tool |-> t, print |-> r.surface[t], day |-> r.day]
<1>1. r # Idle /\ r.kind = "approve"
  BY DEF FinishApprove
<1>2. /\ r.snap \in Documents \cup {Absent}
      /\ r.surface \in Surfaces
      /\ r.chosen \in SUBSET DOMAIN r.surface
      /\ r.id \in MaybeIds
      /\ r.day \in 0..MaxDay
  BY <1>1, BusyRun
<1>3. approval \in ApprovalRecords \cup {Absent}
  BY <1>2, ApprovalsTyped
<1>4. /\ outcome.id = r.id
      /\ \A t \in DOMAIN outcome.tools :
           \/ /\ t \in renewed
              /\ outcome.tools[t].print = r.surface[t]
              /\ outcome.tools[t].day = r.day
           \/ t \in DOMAIN ToolsOf(base) /\ outcome.tools[t] = ToolsOf(base)[t]
  BY <1>2, <1>3, ApproveWrites
<1>5. /\ file' = [approvals |-> outcome]
      /\ signed' = signed \cup {New(t) : t \in renewed}
      /\ named' = (named /\ r.id # NoId)
  BY DEF FinishApprove, ApprovesWritten
<1>6. ApprovalHeld(base)
  BY ForHeld
<1>7. named' /\ base # Absent => base.id = r.id
  <2>1. base # Absent => \/ base.id = r.id
                         \/ base.id = NoId
                         \/ r.id = NoId
    BY DEF ApprovalFor
  <2> QED
    BY <1>5, <1>6, <2>1 DEF ApprovalHeld
<1>8. Approvals(file') = outcome \/ Approvals(file') = Absent
  BY <1>5 DEF Approvals
<1> HIDE DEF outcome, renewed, base, approval, r
<1>9. ASSUME NEW t \in DOMAIN outcome.tools
      PROVE  \E s \in signed' : /\ s.tool = t
                                /\ s.print = outcome.tools[t].print
                                /\ s.day = outcome.tools[t].day
                                /\ named' => s.id = r.id
  <2>1. CASE /\ t \in renewed
             /\ outcome.tools[t].print = r.surface[t]
             /\ outcome.tools[t].day = r.day
    <3>1. New(t) \in signed'
      BY <1>5, <2>1
    <3> QED
      BY <2>1, <3>1
  <2>2. CASE t \in DOMAIN ToolsOf(base) /\ outcome.tools[t] = ToolsOf(base)[t]
    <3>1. base # Absent /\ ToolsOf(base) = base.tools
      BY <2>2 DEF ToolsOf, NoTools
    <3>2. PICK s \in signed : /\ s.tool = t
                              /\ s.print = base.tools[t].print
                              /\ s.day = base.tools[t].day
                              /\ named => s.id = base.id
      BY <1>6, <2>2, <3>1 DEF ApprovalHeld
    <3> QED
      BY <1>5, <1>7, <2>2, <3>1, <3>2
  <2> QED
    BY <1>4, <2>1, <2>2
<1>10. named' => outcome.id # NoId
  BY <1>4, <1>5
<1>11. CASE Approvals(file') = Absent
  BY <1>11 DEF ApprovalHeld
<1>12. CASE Approvals(file') = outcome
  BY <1>4, <1>9, <1>10, <1>12 DEF ApprovalHeld
<1> QED
  BY <1>8, <1>11, <1>12

LEMMA InitInductive == Init => Inductive
BY InitTyped DEF Init, Inductive, Approvals, ApprovalHeld

LEMMA StepInductive == Inductive /\ [Next]_vars => Inductive'
<1> SUFFICES ASSUME Inductive, [Next]_vars PROVE Inductive'
  OBVIOUS
<1>1. TypeOK /\ TypeOK'
  BY NextTyped DEF Inductive
<1>2. /\ Approvals(file) \in ApprovalRecords \cup {Absent}
      /\ \A p \in Procs : run[p] # Idle =>
           Approvals(run[p].snap) \in ApprovalRecords \cup {Absent}
  BY <1>1, BusyRun, ApprovalsTyped DEF TypeOK
<1>3. ASSUME signed' = signed, named' = named, file' = file,
             \A p \in Procs : run'[p] # Idle =>
               run'[p].snap = file \/ (run[p] # Idle /\ run'[p].snap = run[p].snap)
      PROVE  Inductive'
  <2>1. ApprovalHeld(Approvals(file))'
    BY <1>3 DEF Inductive, ApprovalHeld, Approvals
  <2>2. ASSUME NEW p \in Procs, run'[p] # Idle
        PROVE  ApprovalHeld(Approvals(run[p].snap))'
    <3>1. CASE run'[p].snap = file
      BY <1>3, <3>1 DEF Inductive, ApprovalHeld, Approvals
    <3>2. CASE run[p] # Idle /\ run'[p].snap = run[p].snap
      BY <1>3, <3>2 DEF Inductive, ApprovalHeld, Approvals
    <3> QED
      BY <1>3, <2>2, <3>1, <3>2
  <2> QED
    BY <1>1, <2>1, <2>2 DEF Inductive
<1>4. CASE Tick
  BY <1>3, <1>4 DEF Tick
<1>5. ASSUME NEW id \in MaybeIds, Upgrade(id) PROVE Inductive'
  BY <1>3, <1>5 DEF Upgrade
<1>6. ASSUME NEW id \in MaybeIds, NEW shown \in Surfaces \cup {Absent}, Eval(id, shown)
      PROVE  Inductive'
  BY <1>3, <1>6 DEF Eval
<1>7. ASSUME NEW p \in Procs, StartLock(p) PROVE Inductive'
  BY <1>1, <1>3, <1>7 DEF StartLock, TypeOK
<1>8. ASSUME NEW p \in Procs, FinishLock(p) PROVE Inductive'
  <2>1. /\ run[p] # Idle
        /\ Approvals(file') = Approvals(run[p].snap) \/ Approvals(file') = Absent
        /\ signed' = signed /\ named' = named
    BY <1>8 DEF FinishLock, Approvals
  <2>2. ApprovalHeld(Approvals(file))'
    BY <2>1 DEF Inductive, ApprovalHeld
  <2>3. ASSUME NEW q \in Procs, run'[q] # Idle
        PROVE  ApprovalHeld(Approvals(run[q].snap))'
    <3>1. run'[q] = run[q]
      BY <1>1, <1>8, <2>3 DEF FinishLock, TypeOK
    <3> QED
      BY <2>1, <2>3, <3>1 DEF Inductive, ApprovalHeld
  <2> QED
    BY <1>1, <2>2, <2>3 DEF Inductive
<1>9. ASSUME NEW p \in Procs, NEW shown \in Surfaces, NEW chosen \in SUBSET Tools,
             StartApprove(p, shown, chosen)
      PROVE  Inductive'
  BY <1>1, <1>3, <1>9 DEF StartApprove, TypeOK
<1>10. ASSUME NEW p \in Procs, FinishApprove(p) PROVE Inductive'
  <2>1. run[p] # Idle /\ signed \subseteq signed' /\ (named' => named)
    BY <1>10 DEF FinishApprove
  <2>2. ApprovalHeld(Approvals(file))'
    BY <1>1, <1>10, <2>1, WrittenHeld DEF Inductive
  <2>3. ASSUME NEW q \in Procs, run'[q] # Idle
        PROVE  ApprovalHeld(Approvals(run[q].snap))'
    <3>1. run'[q] = run[q]
      BY <1>1, <1>10, <2>3 DEF FinishApprove, TypeOK
    <3> DEFINE approval == Approvals(run[q].snap)
    <3>2. ApprovalHeld(approval)
      BY <2>3, <3>1 DEF Inductive
    <3>3. approval' = approval
      BY <3>1
    <3> QED
      BY <2>1, <3>2, <3>3 DEF ApprovalHeld
  <2> QED
    BY <1>1, <2>2, <2>3 DEF Inductive
<1>11. ASSUME NEW p \in Procs, GiveUp(p) PROVE Inductive'
  BY <1>1, <1>3, <1>11 DEF GiveUp, TypeOK
<1>12. CASE UNCHANGED vars
  BY <1>3, <1>12 DEF vars
<1> QED
  BY <1>4, <1>5, <1>6, <1>7, <1>8, <1>9, <1>10, <1>11, <1>12 DEF Next

\* If the gate allows, each tool it looked at is one the applying approval
\* records with the same print and on an earlier day, and that was signed for.
LEMMA HeldIsApproved == Inductive => AllowedWasApproved
<1> SUFFICES ASSUME Inductive, NEW at \in 0..today, GateAnswer(at) = "allow",
                    NEW t \in DOMAIN GateSurface(at)
             PROVE  \E s \in signed : /\ s.tool = t
                                      /\ s.print = GateSurface(at)[t]
                                      /\ s.day <= at
                                      /\ named /\ launched # NoId => s.id = launched
  BY DEF AllowedWasApproved
<1> DEFINE approval == Approvals(file)
           dated    == ApprovedBy(approval, at)
           bound    == ApprovalFor(dated, launched)
           shown  == GateSurface(at)
<1>1. t \notin Pending(bound, shown)
  BY DEF GateAnswer, Answer
<1>2. /\ t \in DOMAIN ToolsOf(bound)
      /\ ToolsOf(bound)[t].print = shown[t]
  BY <1>1 DEF Pending
<1>3. bound # Absent /\ ToolsOf(bound) = bound.tools
  BY <1>2 DEF ToolsOf, NoTools
<1>4. /\ bound = dated
      /\ dated.id = NoId \/ launched = NoId \/ dated.id = launched
  BY <1>3 DEF ApprovalFor
<1>5. approval \in ApprovalRecords \cup {Absent}
  BY ApprovalsTyped DEF Inductive, TypeOK
<1>6. approval # Absent /\ ~(approval.day > at)
  BY <1>3, <1>4 DEF ApprovedBy
<1>7. /\ dated.id = approval.id
      /\ dated.tools = [u \in {v \in DOMAIN approval.tools : approval.tools[v].day <= at} |->
                          approval.tools[u]]
  BY <1>5, <1>6 DEF ApprovedBy, ApprovalRecords
<1>8. /\ t \in DOMAIN approval.tools
      /\ approval.tools[t].day <= at
      /\ approval.tools[t].print = shown[t]
  BY <1>2, <1>3, <1>4, <1>7
<1>9. ApprovalHeld(approval)
  BY DEF Inductive
<1>10. PICK s \in signed : /\ s.tool = t
                           /\ s.print = approval.tools[t].print
                           /\ s.day = approval.tools[t].day
                           /\ named => s.id = approval.id
  BY <1>6, <1>8, <1>9 DEF ApprovalHeld
<1> QED
  BY <1>4, <1>6, <1>7, <1>8, <1>9, <1>10 DEF ApprovalHeld

\* What the gate allows, today or replaying an earlier day, was approved by
\* then with exactly that print, and, while approvals name their artifact, for
\* the artifact launched: in every interleaving of lock and approve runs.
THEOREM NothingUnapproved == Spec => []AllowedWasApproved
<1>1. Init => Inductive
  BY InitInductive
<1>2. Inductive /\ [Next]_vars => Inductive'
  BY StepInductive
<1>3. Inductive => AllowedWasApproved
  BY HeldIsApproved
<1> QED
  BY <1>1, <1>2, <1>3, PTL DEF Spec

-----------------------------------------------------------------------------
(* No date is ahead of the clock.                                          *)

DatedBy(approval, at) ==
  approval # Absent =>
    approval.day <= at /\ \A t \in DOMAIN approval.tools : approval.tools[t].day <= at

Dated ==
  /\ DatedBy(Approvals(file), today)
  /\ \A p \in Procs : run[p] # Idle =>
       /\ DatedBy(Approvals(run[p].snap), today)
       /\ run[p].kind = "approve" => run[p].day <= today

LEMMA DatedLater ==
  ASSUME NEW approval \in ApprovalRecords \cup {Absent}, NEW at \in Int, NEW later \in Int,
         DatedBy(approval, at), at <= later
  PROVE  DatedBy(approval, later)
<1>1. CASE approval = Absent
  BY <1>1 DEF DatedBy
<1>2. CASE approval # Absent
  <2>1. PICK T \in SUBSET Tools : approval.tools \in [T -> ToolRecords]
    BY <1>2 DEF ApprovalRecords, ToolRecords
  <2>2. \A t \in DOMAIN approval.tools : approval.tools[t].day \in Int
    BY <2>1 DEF ToolRecords
  <2>3. approval.day \in Int
    BY <1>2 DEF ApprovalRecords
  <2> QED
    BY <2>2, <2>3 DEF DatedBy
<1> QED
  BY <1>1, <1>2

\* What approve() writes is dated by the day of the run or earlier.
LEMMA ApproveDated ==
  ASSUME NEW approval \in ApprovalRecords \cup {Absent}, NEW shown \in Surfaces,
         NEW chosen \in SUBSET DOMAIN shown, NEW id \in MaybeIds, NEW day \in 0..MaxDay,
         NEW at \in Int, day <= at, DatedBy(approval, at)
  PROVE  DatedBy(Approve(approval, shown, chosen, id, day), at)
<1> DEFINE base == ApprovalFor(approval, id)
           renewed == Chosen(base, shown, chosen)
           outcome == Approve(approval, shown, chosen, id, day)
<1>1. /\ outcome.id = id
      /\ \A t \in DOMAIN outcome.tools :
           \/ /\ t \in renewed
              /\ outcome.tools[t].print = shown[t]
              /\ outcome.tools[t].day = day
           \/ t \in DOMAIN ToolsOf(base) /\ outcome.tools[t] = ToolsOf(base)[t]
  BY ApproveWrites
<1>2. outcome.day = day
  BY DEF Approve
<1>3. \A t \in DOMAIN ToolsOf(base) : ToolsOf(base)[t].day <= at
  BY DEF DatedBy, ToolsOf, NoTools, ApprovalFor
<1> HIDE DEF outcome, renewed, base
<1>4. DatedBy(outcome, at)
  BY <1>1, <1>2, <1>3 DEF DatedBy
<1> QED
  BY <1>4 DEF outcome

LEMMA WrittenDated ==
  ASSUME TypeOK, Dated, NEW p \in Procs, run[p] # Idle, run[p].kind = "approve"
  PROVE  DatedBy(ApprovesWritten(p), today)
<1>1. /\ run[p].snap \in Documents \cup {Absent}
      /\ run[p].surface \in Surfaces
      /\ run[p].chosen \in SUBSET DOMAIN run[p].surface
      /\ run[p].id \in MaybeIds
      /\ run[p].day \in 0..MaxDay
  BY BusyRun
<1>2. Approvals(run[p].snap) \in ApprovalRecords \cup {Absent}
  BY <1>1, ApprovalsTyped
<1>3. run[p].day <= today /\ DatedBy(Approvals(run[p].snap), today) /\ today \in Int
  BY DEF Dated, TypeOK
<1> QED
  BY <1>1, <1>2, <1>3, ApproveDated DEF ApprovesWritten

LEMMA InitDated == Init => Dated
BY DEF Init, Dated, DatedBy, Approvals

LEMMA StepDated == TypeOK /\ Dated /\ [Next]_vars => Dated'
<1> SUFFICES ASSUME TypeOK, Dated, [Next]_vars PROVE Dated'
  OBVIOUS
<1>1. TypeOK'
  BY NextTyped
<1>2. /\ Approvals(file) \in ApprovalRecords \cup {Absent}
      /\ \A p \in Procs : run[p] # Idle =>
           Approvals(run[p].snap) \in ApprovalRecords \cup {Absent}
      /\ today \in Int /\ today' \in Int
  BY <1>1, BusyRun, ApprovalsTyped DEF TypeOK
<1>3. today <= today'
  BY <1>2 DEF Next, Tick, Upgrade, Eval, StartLock, FinishLock, StartApprove, FinishApprove,
              GiveUp, vars
\* Every run holds what it held, or what it has just read.
<1>4. ASSUME NEW p \in Procs, run'[p] # Idle
      PROVE  \/ run[p] # Idle /\ run'[p] = run[p]
             \/ /\ run'[p].snap = file /\ today' = today
                /\ run'[p].kind = "approve" => run'[p].day = today
  <2>1. ASSUME NEW q \in Procs, StartLock(q)
        PROVE  \/ run[p] # Idle /\ run'[p] = run[p]
               \/ /\ run'[p].snap = file /\ today' = today
                  /\ run'[p].kind = "approve" => run'[p].day = today
    BY <1>4, <2>1 DEF StartLock, TypeOK
  <2>2. ASSUME NEW q \in Procs, NEW shown \in Surfaces, NEW chosen \in SUBSET Tools,
               StartApprove(q, shown, chosen)
        PROVE  \/ run[p] # Idle /\ run'[p] = run[p]
               \/ /\ run'[p].snap = file /\ today' = today
                  /\ run'[p].kind = "approve" => run'[p].day = today
    BY <1>4, <2>2 DEF StartApprove, TypeOK
  <2>3. ASSUME NEW q \in Procs, FinishLock(q) \/ FinishApprove(q) \/ GiveUp(q)
        PROVE  run[p] # Idle /\ run'[p] = run[p]
    BY <1>4, <2>3 DEF FinishLock, FinishApprove, GiveUp, TypeOK
  <2>4. CASE UNCHANGED run
    BY <1>4, <2>4
  <2> QED
    BY <2>1, <2>2, <2>3, <2>4 DEF Next, Tick, Upgrade, Eval, vars
<1>5. ASSUME NEW p \in Procs, run'[p] # Idle
      PROVE  /\ DatedBy(Approvals(run'[p].snap), today')
             /\ run'[p].kind = "approve" => run'[p].day <= today'
  <2>1. CASE run[p] # Idle /\ run'[p] = run[p]
    <3>1. DatedBy(Approvals(run[p].snap), today')
      BY <1>2, <1>3, <2>1, DatedLater DEF Dated
    <3>2. ASSUME run[p].kind = "approve" PROVE run[p].day <= today'
      <4>1. run[p].day <= today /\ run[p].day \in Int
        BY <2>1, <3>2, BusyRun DEF Dated
      <4> QED
        BY <1>2, <1>3, <4>1
    <3> QED
      BY <2>1, <3>1, <3>2
  <2>2. CASE /\ run'[p].snap = file /\ today' = today
             /\ run'[p].kind = "approve" => run'[p].day = today
    BY <1>2, <2>2 DEF Dated
  <2> QED
    BY <1>4, <1>5, <2>1, <2>2
<1>6. DatedBy(Approvals(file'), today')
  <2>1. CASE UNCHANGED file
    <3>1. DatedBy(Approvals(file), today')
      BY <1>2, <1>3, DatedLater DEF Dated
    <3> QED
      BY <2>1, <3>1
  <2>2. ASSUME NEW p \in Procs, FinishLock(p) PROVE DatedBy(Approvals(file'), today')
    <3>1. /\ run[p] # Idle /\ today' = today
          /\ Approvals(file') = Approvals(run[p].snap) \/ Approvals(file') = Absent
      BY <2>2 DEF FinishLock, Approvals
    <3> QED
      BY <3>1 DEF Dated, DatedBy
  <2>3. ASSUME NEW p \in Procs, FinishApprove(p) PROVE DatedBy(Approvals(file'), today')
    <3>1. /\ run[p] # Idle /\ run[p].kind = "approve" /\ today' = today
          /\ Approvals(file') = ApprovesWritten(p) \/ Approvals(file') = Absent
      BY <2>3 DEF FinishApprove, Approvals
    <3>2. DatedBy(ApprovesWritten(p), today)
      BY <3>1, WrittenDated
    <3> QED
      BY <3>1, <3>2 DEF DatedBy
  <2> QED
    BY <2>1, <2>2, <2>3
      DEF Next, Tick, Upgrade, Eval, StartLock, StartApprove, GiveUp, vars
<1> QED
  BY <1>5, <1>6 DEF Dated

-----------------------------------------------------------------------------
(* What approve settles.                                                   *)

\* The tools of what approve() writes, one by one.
LEMMA ApproveKeeps ==
  ASSUME NEW approval, NEW shown, NEW chosen, NEW id, NEW day
  PROVE  LET base    == ApprovalFor(approval, id)
             known   == ToolsOf(base)
             kept    == IF chosen = {} THEN DOMAIN known \cap DOMAIN shown ELSE DOMAIN known
             renewed == Chosen(base, shown, chosen)
             tools   == Approve(approval, shown, chosen, id, day).tools
         IN  /\ DOMAIN tools = kept \cup renewed
             /\ \A t \in renewed : tools[t].print = shown[t]
             /\ \A t \in kept \ renewed : tools[t] = known[t]
BY DEF Approve, ToolRecord

LEMMA WholeApprovalAllows ==
  ASSUME TypeOK, Dated, NEW p \in Procs, FinishApprove(p), run[p].chosen = {},
         run[p].id = launched, GateSurface(today) = run[p].surface
  PROVE  GateAnswer(today)' = "allow"
<1> DEFINE r == run[p]
           approval == Approvals(r.snap)
           base == ApprovalFor(approval, r.id)
           known == ToolsOf(base)
           outcome == Approve(approval, r.surface, r.chosen, r.id, r.day)
<1>1. r # Idle /\ r.kind = "approve" /\ r.surface \in Surfaces /\ outcome \in ApprovalRecords
  <2>1. r # Idle /\ r.kind = "approve"
    BY DEF FinishApprove
  <2>2. /\ r.snap \in Documents \cup {Absent}
        /\ r.surface \in Surfaces
        /\ r.chosen \in SUBSET DOMAIN r.surface
        /\ r.id \in MaybeIds
        /\ r.day \in 0..MaxDay
    BY <2>1, BusyRun
  <2>3. approval \in ApprovalRecords \cup {Absent}
    BY <2>2, ApprovalsTyped
  <2> QED
    BY <2>1, <2>2, <2>3, ApproveWrites
<1>2. /\ outcome # Absent /\ outcome.id = launched /\ r.surface # Absent
      /\ outcome = [id |-> outcome.id, day |-> outcome.day, tools |-> outcome.tools]
      /\ outcome.tools = [t \in DOMAIN outcome.tools |-> outcome.tools[t]]
  BY <1>1, AbsentIsApart, ToolApprovalConstants DEF Approve
<1>3. DatedBy(outcome, today)
  BY <1>1, WrittenDated DEF ApprovesWritten
<1>4. \A t \in DOMAIN r.surface :
        t \in DOMAIN outcome.tools /\ outcome.tools[t].print = r.surface[t]
  BY ApproveKeeps DEF Chosen, Pending
<1>5. Approvals(file') = outcome /\ today' = today /\ launched' = launched /\ row' = row
  <2>1. file' = [approvals |-> outcome]
    BY DEF FinishApprove, ApprovesWritten
  <2>2. file' # Absent
    BY <1>1, <2>1, AbsentIsApart DEF Documents
  <2> QED
    BY <2>1, <2>2 DEF Approvals, FinishApprove
<1> HIDE DEF outcome, known, base, approval
<1>6. today \in Int
  BY DEF TypeOK
<1>7. ApprovedBy(outcome, today) = outcome
  <2>1. ~(outcome.day > today) /\
        {u \in DOMAIN outcome.tools : outcome.tools[u].day <= today} = DOMAIN outcome.tools
    <3>1. outcome.day \in Int
      BY <1>1 DEF ApprovalRecords
    <3> QED
      BY <1>2, <1>3, <1>6, <3>1 DEF DatedBy
  <2>2. ApprovedBy(outcome, today) =
          [outcome EXCEPT !.tools = [t \in DOMAIN outcome.tools |-> outcome.tools[t]]]
    BY <1>2, <2>1 DEF ApprovedBy
  <2> QED
    BY <1>2, <2>2
<1>8. ApprovalFor(outcome, launched) = outcome
  BY <1>2 DEF ApprovalFor
<1>9. Pending(outcome, r.surface) = {}
  BY <1>2, <1>4 DEF Pending, ToolsOf
<1>10. Answer(outcome, r.surface, launched, today) = "allow"
  BY <1>2, <1>7, <1>8, <1>9 DEF Answer
<1>11. GateSurface(today)' = r.surface
  BY <1>5 DEF GateSurface
<1>12. GateAnswer(today)' = Answer(Approvals(file'), GateSurface(today)', launched', today')
  BY DEF GateAnswer
<1> QED
  BY <1>5, <1>10, <1>11, <1>12

LEMMA PartialApprovalSettles ==
  ASSUME TypeOK, NEW p \in Procs, FinishApprove(p), run[p].chosen # {}
  PROVE  Pending(ApprovalFor(Approvals(file'), run[p].id), run[p].surface)
           = Pending(ApprovalFor(Approvals(run[p].snap), run[p].id), run[p].surface)
               \ run[p].chosen
<1> DEFINE r == run[p]
           approval == Approvals(r.snap)
           base == ApprovalFor(approval, r.id)
           known == ToolsOf(base)
           outcome == Approve(approval, r.surface, r.chosen, r.id, r.day)
<1>1. r.chosen \subseteq DOMAIN r.surface /\ outcome \in ApprovalRecords /\ outcome.id = r.id
  <2>1. r # Idle /\ r.kind = "approve"
    BY DEF FinishApprove
  <2>2. /\ r.snap \in Documents \cup {Absent}
        /\ r.surface \in Surfaces
        /\ r.chosen \in SUBSET DOMAIN r.surface
        /\ r.id \in MaybeIds
        /\ r.day \in 0..MaxDay
    BY <2>1, BusyRun
  <2>3. approval \in ApprovalRecords \cup {Absent}
    BY <2>2, ApprovalsTyped
  <2> QED
    BY <2>2, <2>3, ApproveTyped
<1>2. ApprovalFor(Approvals(file'), r.id) = outcome /\ ToolsOf(outcome) = outcome.tools
  <2>1. file' = [approvals |-> outcome]
    BY DEF FinishApprove, ApprovesWritten
  <2>2. file' # Absent /\ outcome # Absent
    BY <1>1, <2>1, AbsentIsApart DEF Documents
  <2> QED
    BY <1>1, <2>1, <2>2 DEF Approvals, ApprovalFor, ToolsOf
<1>3. /\ DOMAIN outcome.tools = DOMAIN known \cup r.chosen
      /\ \A t \in r.chosen : outcome.tools[t].print = r.surface[t]
      /\ \A t \in DOMAIN known \ r.chosen : outcome.tools[t] = known[t]
  BY ApproveKeeps DEF Chosen
<1> HIDE DEF outcome, approval, r
<1>4. ASSUME NEW t \in DOMAIN r.surface
      PROVE  (t \notin DOMAIN outcome.tools \/ outcome.tools[t].print # r.surface[t]) <=>
               /\ t \notin DOMAIN known \/ known[t].print # r.surface[t]
               /\ t \notin r.chosen
  BY <1>3
<1>5. Pending(outcome, r.surface) = Pending(base, r.surface) \ r.chosen
  BY <1>2, <1>4 DEF Pending
<1> QED
  BY <1>2, <1>5 DEF r, approval

\* An approval is of what it names: of everything, the gate allows what was
\* recorded last; of some tools, exactly those are no longer pending.
THEOREM ApprovalsSettle == Spec => ApprovalSettles
<1>1. Init => TypeOK /\ Dated
  BY InitTyped, InitDated
<1>2. TypeOK /\ Dated /\ [Next]_vars => (TypeOK /\ Dated)'
  BY NextTyped, StepDated
<1>3. TypeOK /\ Dated /\ [Next]_vars =>
        [\A p \in Procs : FinishApprove(p) =>
           IF run[p].chosen = {}
           THEN run[p].id = launched /\ GateSurface(today) = run[p].surface
                  => GateAnswer(today)' = "allow"
           ELSE Pending(ApprovalFor(Approvals(file'), run[p].id), run[p].surface)
                  = Pending(ApprovalFor(Approvals(run[p].snap), run[p].id), run[p].surface)
                      \ run[p].chosen]_vars
  BY WholeApprovalAllows, PartialApprovalSettles
<1> QED
  BY <1>1, <1>2, <1>3, PTL DEF Spec, ApprovalSettles
=============================================================================
