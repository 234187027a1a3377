---------------------------- MODULE ToolApproval ----------------------------
(***************************************************************************)
(* Tool-by-tool approval: mcp.lock.json as two commands write it and three *)
(* commands read it, for one server.                                       *)
(*                                                                         *)
(*   lock      reads the file, resolves dependency trees over the network, *)
(*             then replaces the file, carrying tool_approvals over from   *)
(*             what it read (lock.cjs main)                                *)
(*   approve   reads the file and an observed tool surface, then writes    *)
(*             the file back with the server's approval replaced           *)
(*             (approve.cjs main, lib/tool_approval.cjs)                   *)
(*   gate      check / verify / install / explain: orgModel                *)
(*                                                                         *)
(* Each run is a process that reads once and writes once, and anything may *)
(* happen in between.  The surface is what mcp_eval last recorded under    *)
(* the server's name, with the artifact it launched; a tool's description  *)
(* and schema hashes are one value, its print.  Of the file only the       *)
(* server's tool_approvals are kept: lock rebuilds the other section,      *)
(* servers, from what it resolved, and nothing here reads it.              *)
(***************************************************************************)
EXTENDS Integers, FiniteSets

CONSTANTS
  Procs,        \* command runs that may overlap
  Ids,          \* artifact ids a launch can name
  NoId,         \* a launch no artifact id can be read from
  Surfaces,     \* what tools/list may answer: tool names |-> prints
  Absent,       \* a missing file, section or row
  Idle,         \* a process between runs
  MaxDay,       \* bound on the calendar
  MaxApprovals  \* bound on the approve runs begun

MaybeIds == Ids \cup {NoId}
Tools == UNION {DOMAIN s : s \in Surfaces}
Prints == UNION {{s[t] : t \in DOMAIN s} : s \in Surfaces}

ASSUME ToolApprovalConstants ==
  /\ NoId \notin Ids
  /\ Absent \notin Surfaces
  /\ MaxDay \in Nat /\ MaxApprovals \in Nat

VARIABLES
  today,     \* the day every command reads from the wall clock
  launched,  \* the artifact the server launches now (config or vault pin)
  row,       \* the server's row in eval_results.json
  file,      \* mcp.lock.json
  run,       \* what each process holds in memory
  signed,    \* history: every tool a person approved, for which artifact, when
  named,     \* history: every approval so far named an artifact
  begun      \* history: the approve runs begun

vars == <<today, launched, row, file, run, signed, named, begun>>

-----------------------------------------------------------------------------
(* lib/tool_approval.cjs: pure functions of an approval and a surface.     *)

NoTools == [t \in {} |-> 0]

ToolsOf(approval) == IF approval = Absent THEN NoTools ELSE approval.tools

Approvals(doc) == IF doc = Absent THEN Absent ELSE doc.approvals

\* diffSurface(before, after): added and changed are what is pending.
Pending(approval, surface) ==
  LET known == ToolsOf(approval)
  IN {t \in DOMAIN surface : t \notin DOMAIN known \/ known[t].print # surface[t]}

Removed(approval, surface) == DOMAIN ToolsOf(approval) \ DOMAIN surface

\* A plausible slip: the approval is kept whatever artifact it was made on.
ApprovalForAny(approval, id) == approval

\* approvalFor(approved, artifactId): an approval of another artifact is none.
ApprovalFor(approval, id) ==
  IF approval = Absent \/ (approval.id # NoId /\ id # NoId /\ approval.id # id)
  THEN Absent
  ELSE approval

\* approve(): `chosen` = {} approves everything pending and drops what is gone.
Chosen(base, surface, chosen) ==
  IF chosen = {} THEN Pending(base, surface) ELSE chosen

\* A plausible slip: dated the day after it was made.
ToolRecordTomorrow(print, day) == [print |-> print, day |-> day + 1]

ToolRecord(print, day) == [print |-> print, day |-> day]

\* A plausible slip: a partial approval starts from the approval on file even
\* when that was made on another artifact.
ApproveUnbound(approval, surface, chosen, id, day) ==
  LET known   == ToolsOf(approval)
      renewed == Chosen(ApprovalFor(approval, id), surface, chosen)
  IN [id    |-> id,
      day   |-> day,
      tools |-> [t \in DOMAIN known \cup renewed |->
                   IF t \in renewed THEN ToolRecord(surface[t], day) ELSE known[t]]]

\* A plausible slip: approving everything keeps the old print of a changed tool.
ApproveAdditions(approval, surface, chosen, id, day) ==
  LET base    == ApprovalFor(approval, id)
      known   == ToolsOf(base)
      renewed == Chosen(base, surface, chosen)
  IN [id    |-> id,
      day   |-> day,
      tools |-> [t \in DOMAIN known \cup renewed |->
                   IF t \in DOMAIN known THEN known[t] ELSE ToolRecord(surface[t], day)]]

Approve(approval, surface, chosen, id, day) ==
  LET base    == ApprovalFor(approval, id)
      known   == ToolsOf(base)
      kept    == IF chosen = {} THEN DOMAIN known \cap DOMAIN surface ELSE DOMAIN known
      renewed == Chosen(base, surface, chosen)
  IN [id    |-> id,
      day   |-> day,
      tools |-> [t \in kept \cup renewed |->
                   IF t \in renewed THEN ToolRecord(surface[t], day) ELSE known[t]]]

-----------------------------------------------------------------------------
(* org_policy.cjs toolApprovalModel and its three callers, under           *)
(* toolApproval: "require".                                                *)

\* Only what had been approved by `at`, the whole record first.
ApprovedBy(approval, at) ==
  IF approval = Absent \/ approval.day > at
  THEN Absent
  ELSE [approval EXCEPT !.tools =
          [t \in {u \in DOMAIN approval.tools : approval.tools[u].day <= at} |->
             approval.tools[t]]]

\* The row org/tool-approval over toolApprovalModel's findings.
Answer(approval, surface, id, at) ==
  IF /\ surface # Absent
     /\ Pending(ApprovalFor(ApprovedBy(approval, at), id), surface) = {}
  THEN "allow"
  ELSE "deny"

\* The surface the gate looks at: the row's, unless it was recorded on another
\* artifact or after the day asked about.
GateSurface(at) ==
  IF \/ row = Absent
     \/ row.day > at
     \/ row.id # NoId /\ launched # NoId /\ row.id # launched
  THEN Absent
  ELSE row.surface

GateAnswer(at) == Answer(Approvals(file), GateSurface(at), launched, at)

-----------------------------------------------------------------------------
Init ==
  /\ today = 0
  /\ launched \in MaybeIds
  /\ row = Absent
  /\ file = Absent
  /\ run = [p \in Procs |-> Idle]
  /\ signed = {}
  /\ named = TRUE
  /\ begun = 0

Tick ==
  /\ today < MaxDay
  /\ today' = today + 1
  /\ UNCHANGED <<launched, row, file, run, signed, named, begun>>

\* Somebody edits the host config, or `verify --update` moves the vault's pin.
Upgrade(id) ==
  /\ launched # id
  /\ launched' = id
  /\ UNCHANGED <<today, row, file, run, signed, named, begun>>

\* mcp_eval launches the vault entry, which need not be what this project
\* launches, and replaces the row of that name; a failed launch has no surface.
Eval(id, surface) ==
  /\ row' = [id |-> id, surface |-> surface, day |-> today]
  /\ UNCHANGED <<today, launched, file, run, signed, named, begun>>

\* lock: everything is read before the first tree is resolved.
StartLock(p) ==
  /\ run[p] = Idle
  /\ run' = [run EXCEPT ![p] = [kind |-> "lock", snap |-> file]]
  /\ UNCHANGED <<today, launched, row, file, signed, named, begun>>

\* lock: the approvals are carried over from the document read at the start.
FinishLock(p) ==
  /\ run[p] # Idle /\ run[p].kind = "lock"
  /\ file' = [approvals |-> Approvals(run[p].snap)]
  /\ run' = [run EXCEPT ![p] = Idle]
  /\ UNCHANGED <<today, launched, row, signed, named, begun>>

\* approve: the surface comes from the eval row of that name, or from a saved
\* tools/list (--tools); a tool not offered is an error, and nothing to approve
\* or drop writes nothing.
StartApprove(p, surface, chosen) ==
  /\ run[p] = Idle
  /\ begun < MaxApprovals
  /\ begun' = begun + 1
  /\ surface # Absent
  /\ chosen \subseteq DOMAIN surface
  /\ LET bound == ApprovalFor(Approvals(file), launched)
     IN chosen # {} \/ Pending(bound, surface) # {} \/ Removed(bound, surface) # {}
  /\ run' = [run EXCEPT ![p] =
       [kind |-> "approve", snap |-> file, surface |-> surface, chosen |-> chosen,
        id |-> launched, day |-> today]]
  /\ UNCHANGED <<today, launched, row, file, signed, named>>

ApprovesWritten(p) ==
  Approve(Approvals(run[p].snap), run[p].surface, run[p].chosen, run[p].id, run[p].day)

FinishApprove(p) ==
  /\ run[p] # Idle /\ run[p].kind = "approve"
  /\ file' = [approvals |-> ApprovesWritten(p)]
  /\ signed' = signed \cup
       {[id |-> run[p].id, tool |-> t, print |-> run[p].surface[t], day |-> run[p].day] :
          t \in Chosen(ApprovalFor(Approvals(run[p].snap), run[p].id),
                       run[p].surface, run[p].chosen)}
  /\ named' = (named /\ run[p].id # NoId)
  /\ run' = [run EXCEPT ![p] = Idle]
  /\ UNCHANGED <<today, launched, row, begun>>

\* A run is interrupted, or stops on an error, before it writes.
GiveUp(p) ==
  /\ run[p] # Idle
  /\ run' = [run EXCEPT ![p] = Idle]
  /\ UNCHANGED <<today, launched, row, file, signed, named, begun>>

Next ==
  \/ Tick
  \/ \E id \in MaybeIds : Upgrade(id)
  \/ \E id \in MaybeIds, surface \in Surfaces \cup {Absent} : Eval(id, surface)
  \/ \E p \in Procs :
       \/ StartLock(p)
       \/ FinishLock(p)
       \/ \E surface \in Surfaces, chosen \in SUBSET Tools : StartApprove(p, surface, chosen)
       \/ FinishApprove(p)
       \/ GiveUp(p)

Spec == Init /\ [][Next]_vars

-----------------------------------------------------------------------------
(* What is promised.                                                       *)

ApprovalRecords ==
  [id : MaybeIds, day : 0..MaxDay,
   tools : UNION {[T -> [print : Prints, day : 0..MaxDay]] : T \in SUBSET Tools}]

Documents == [approvals : ApprovalRecords \cup {Absent}]

ASSUME AbsentIsApart == Absent \notin ApprovalRecords /\ Absent \notin Documents

Runs ==
  [kind : {"lock"}, snap : Documents \cup {Absent}]
  \cup
  {r \in [kind : {"approve"}, snap : Documents \cup {Absent}, surface : Surfaces,
          chosen : SUBSET Tools, id : MaybeIds, day : 0..MaxDay] :
     r.chosen \subseteq DOMAIN r.surface}

\* Types: every date on file is a day that exists, every record a record.
TypeOK ==
  /\ today \in 0..MaxDay
  /\ launched \in MaybeIds
  /\ row \in [id : MaybeIds, surface : Surfaces \cup {Absent}, day : 0..MaxDay] \cup {Absent}
  /\ file \in Documents \cup {Absent}
  /\ run \in [Procs -> Runs \cup {Idle}]
  /\ signed \subseteq [id : MaybeIds, tool : Tools, print : Prints, day : 0..MaxDay]
  /\ named \in BOOLEAN
  /\ begun \in 0..MaxApprovals

\* "A server's tools reach the model because somebody approved those tools":
\* whatever runs overlapped, when the gate allows, on today's date or replaying
\* an earlier one, each tool of the surface it looked at was approved by that
\* day with exactly that print; and as long as no approval was made for a
\* launch without an id, it was approved for the artifact launched now.
AllowedWasApproved ==
  \A at \in 0..today :
    GateAnswer(at) = "allow" =>
      \A t \in DOMAIN GateSurface(at) :
        \E s \in signed :
          /\ s.tool = t
          /\ s.print = GateSurface(at)[t]
          /\ s.day <= at
          /\ named /\ launched # NoId => s.id = launched

\* What makes that inductive: the approval in the file, and in every copy a run
\* read of it, holds nothing but tools signed for on the day and with the print
\* it records.
ApprovalHeld(approval) ==
  approval # Absent =>
    /\ named => approval.id # NoId
    /\ \A t \in DOMAIN approval.tools :
         \E s \in signed :
           /\ s.tool = t
           /\ s.print = approval.tools[t].print
           /\ s.day = approval.tools[t].day
           /\ named => s.id = approval.id

Inductive ==
  /\ TypeOK
  /\ ApprovalHeld(Approvals(file))
  /\ \A p \in Procs : run[p] # Idle => ApprovalHeld(Approvals(run[p].snap))

\* An approval is of what it names.  Of everything, by somebody who looked at the
\* surface recorded last: the gate allows as soon as the run has written.  Of some
\* tools ("a statement about those tools and nothing else"): what is pending for
\* the artifact after the write is what was pending in the file the run read, less
\* the tools named.  Whatever else was written meanwhile, and also when that file's
\* approval was made on another artifact.
ApprovalSettles ==
  [][\A p \in Procs : FinishApprove(p) =>
       IF run[p].chosen = {}
       THEN run[p].id = launched /\ GateSurface(today) = run[p].surface
              => GateAnswer(today)' = "allow"
       ELSE Pending(ApprovalFor(Approvals(file'), run[p].id), run[p].surface)
              = Pending(ApprovalFor(Approvals(run[p].snap), run[p].id), run[p].surface)
                  \ run[p].chosen]_vars

\* lib/tool_approval.cjs 16-18: "`lock` carries it over untouched; only
\* `mcp-vault approve` writes it."  What lock writes as tool_approvals is what
\* the file held at that moment.
LockLeavesApprovals ==
  [][\A p \in Procs : FinishLock(p) => Approvals(file') = Approvals(file)]_vars
=============================================================================
