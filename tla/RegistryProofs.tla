--------------------------- MODULE RegistryProofs ---------------------------
(***************************************************************************)
(* What a registry answers, from the cache that keeps it (Availability) to *)
(* the drafts a maintainer is handed (FindingReports).                     *)
(*                                                                         *)
(* The cache that every process shares is honest, and the verdict of a     *)
(* look earned, for any number of processes, attempts and ticks and any    *)
(* shelf life.  The argument follows an answer: what a server says is true *)
(* at the tick it is received in, a record of the cache carries that tick, *)
(* a request carries the record it read, and a look the instant it began;  *)
(* `last` only grows, so that none of this is undone by what happens later.*)
(*                                                                         *)
(* The drafts are about what is on record when they are built, and their   *)
(* directory keeps what others put there, for any entries, releases and    *)
(* days, any number of runs, and any moment at which one is killed.        *)
(*                                                                         *)
(* What a run of `upgrade` recommends is confirmed, for any releases,      *)
(* advisories and answers.  That argument needs the order of versions      *)
(* (VersionProofs): the target is the least that is past every fix only    *)
(* because the comparison is a total order.                                *)
(***************************************************************************)
EXTENDS Availability, FindingReports, VersionProofs, FiniteSetTheorems, WellFoundedInduction, TLAPS

Record   == CacheRecords \cup {NoRecord}
Sendings == [phase : {"sending"}, url : Urls, started : Nat, cached : Record, attempt : 0 .. Retries]
Waitings == [phase : {"responded"}, url : Urls, started : Nat, cached : Record, attempt : 0 .. Retries,
             response : Responses]
Dones    == [phase : {"done"}, url : Urls, started : Nat, result : Results]
Hungs    == [phase : {"hung"}, url : Urls]

(* What a server has, it serves now; nothing was served later than now.     *)
HistoryKept ==
    \A u \in Urls : /\ last[u][doc[u]] = now
                    /\ \A c \in Contents : last[u][c] <= now

RecordServed(u, record) ==
    record # NoRecord => ServedSince(u, record.body, record.stored_at)

ResponseTrue(r) ==
    /\ r.response.kind = "ok" => ServedSince(r.url, r.response.body, now)
    /\ r.response.kind = "absent" => ServedSince(r.url, Absent, now)
    /\ r.response.kind = "unmodified" =>
          r.cached # NoRecord /\ ServedSince(r.url, r.cached.body, now)

ResultTrue(u, started, result) ==
    /\ (result.ok /\ ~result.stale) => ServedSince(u, result.body, started - Ttl + 1)
    /\ (~result.ok /\ result.status = "absent") => ServedSince(u, Absent, started)

RequestTrue(p) ==
    LET r == req[p]
    IN  /\ r.phase \in {"sending", "responded"} => r.started <= now /\ RecordServed(r.url, r.cached)
        /\ r.phase = "responded" => ResponseTrue(r)
        /\ r.phase = "done" => r.started <= now /\ ResultTrue(r.url, r.started, r.result)

(* The request of a look is for the document the look is at; it began with  *)
(* the look, or later, when the version was found absent.                   *)
Asks(p, u) == req[p].phase \in {"sending", "responded", "done"} /\ req[p].url = u

LookTrue(p) ==
    /\ look[p].step = "version" =>
          \/ req[p].phase = "hung"
          \/ Asks(p, "version") /\ req[p].started = look[p].started
    /\ look[p].step = "package" =>
          /\ ServedSince("version", Absent, look[p].started)
          /\ req[p].phase = "hung" \/ (Asks(p, "package") /\ look[p].started <= req[p].started)
    /\ Decided(p, {"gone", "version-gone"}) => ServedSince("version", Absent, look[p].started)
    /\ Decided(p, {"gone"}) => ServedSince("package", Absent, look[p].started)
    /\ (Decided(p, Bodies) /\ ~look[p].stale) =>
          ServedSince("version", look[p].verdict, look[p].started - Ttl + 1)

IInv ==
    /\ TypeOK
    /\ HistoryKept
    /\ \A u \in Urls : RecordServed(u, cache[u])
    /\ \A p \in Procs : RequestTrue(p) /\ LookTrue(p)

-----------------------------------------------------------------------------
(* The requests of each phase, and what they carry. *)
LEMMA Phases ==
  ASSUME HttpTypeOK, NEW p \in Procs
  PROVE  /\ req[p].phase = "sending" => req[p] \in Sendings
         /\ req[p].phase = "responded" => req[p] \in Waitings
         /\ req[p].phase = "done" => req[p] \in Dones
         /\ req[p].phase = "hung" => req[p] \in Hungs
BY DEF HttpTypeOK, RequestStates, NoRequest, Sendings, Waitings, Dones, Hungs, Record

LEMMA States ==
  RequestStates = {NoRequest} \cup Sendings \cup Waitings \cup Dones \cup Hungs
BY DEF RequestStates, Sendings, Waitings, Dones, Hungs, Record

Asking  == [step : {"version", "package"}, started : Nat, stale : {FALSE}]
Settled == [step : {"decided"}, started : Nat, stale : BOOLEAN, verdict : Verdicts]

LEMMA Stages ==
  ASSUME TypeOK, NEW p \in Procs
  PROVE  /\ look[p].step \in {"version", "package"} => look[p] \in Asking
         /\ look[p].step = "decided" => look[p] \in Settled
         /\ look[p].step \in {"none", "version", "package", "decided"}
<1>1. look[p] \in {NoLook} \cup Asking \cup Settled
  BY DEF TypeOK, Asking, Settled
<1>2. CASE look[p] = NoLook
  BY <1>2 DEF NoLook
<1>3. CASE look[p] \in Asking
  BY <1>3 DEF Asking
<1>4. CASE look[p] \in Settled
  BY <1>4 DEF Settled
<1> QED
  BY <1>1, <1>2, <1>3, <1>4

LEMMA Recorded ==
  ASSUME NEW record \in Record, record # NoRecord
  PROVE  record \in CacheRecords /\ record.body \in Contents /\ record.stored_at \in Nat
BY DEF Record, CacheRecords, Contents

LEMMA TheDocuments == {"version", "package"} = Urls /\ Absent \in Contents /\ Bodies \subseteq Contents
BY AvailabilityConstants DEF Contents

-----------------------------------------------------------------------------
LEMMA InitHolds == Init => IInv
<1> SUFFICES ASSUME Init PROVE IInv
  OBVIOUS
<1>1. /\ now = 0 /\ doc \in [Urls -> Contents]
      /\ last = [u \in Urls |-> [c \in Contents |-> IF doc[u] = c THEN 0 ELSE Never]]
      /\ cache \in [Urls -> {NoRecord} \cup [stored_at : {0}, body : Bodies]]
      /\ \A u \in Urls : cache[u] # NoRecord => cache[u].body = doc[u]
      /\ req = [p \in Procs |-> NoRequest]
      /\ look = [p \in Procs |-> NoLook]
      /\ looks = 0 /\ changes = 0
  BY DEF Init, HttpInit
<1>2. last \in [Urls -> [Contents -> Nat \cup {Never}]]
  BY <1>1 DEF Never
<1>3. cache \in [Urls -> CacheRecords \cup {NoRecord}]
  BY <1>1 DEF CacheRecords
<1>4. req \in [Procs -> RequestStates]
  BY <1>1 DEF RequestStates
<1>5. HttpTypeOK
  BY <1>1, <1>2, <1>3, <1>4 DEF HttpTypeOK
<1>6. TypeOK
  BY <1>1, <1>5, AvailabilityConstants DEF TypeOK
<1>7. HistoryKept
  BY <1>1 DEF HistoryKept, Never
<1>8. ASSUME NEW u \in Urls PROVE RecordServed(u, cache[u])
  BY <1>1 DEF RecordServed, ServedSince, NoRecord, Never
<1>9. ASSUME NEW p \in Procs PROVE RequestTrue(p) /\ LookTrue(p)
  BY <1>1, <1>9 DEF RequestTrue, LookTrue, NoRequest, NoLook, Decided
<1> QED
  BY <1>6, <1>7, <1>8, <1>9 DEF IInv

-----------------------------------------------------------------------------
(* The world's steps: `last` grows, and no request is between a server's    *)
(* answer and its own reading of it when the clock moves.                   *)

Grows ==
    /\ now <= now'
    /\ \A u \in Urls, c \in Contents : last[u][c] <= last'[u][c]

LEMMA StillServed ==
  ASSUME HttpTypeOK, HttpTypeOK', Grows,
         NEW u \in Urls, NEW c \in Contents, NEW from \in Int, ServedSince(u, c, from)
  PROVE  ServedSince(u, c, from)'
BY DEF HttpTypeOK, Grows, ServedSince, Never

LEMMA TickGrows ==
  ASSUME IInv, Clock
  PROVE  TypeOK' /\ HistoryKept' /\ Grows
<1>1. HttpTypeOK /\ HistoryKept
  BY DEF IInv, TypeOK
<1>2. /\ now \in Nat /\ now' = now + 1
      /\ last' = [u \in Urls |-> [last[u] EXCEPT ![doc[u]] = now + 1]]
      /\ UNCHANGED <<doc, cache, req, look, looks, changes>>
  BY DEF IInv, TypeOK, HttpTypeOK, Clock, Tick
<1>3. ASSUME NEW u \in Urls
      PROVE  /\ doc[u] \in Contents /\ last[u] \in [Contents -> Nat \cup {Never}]
             /\ last'[u] = [last[u] EXCEPT ![doc[u]] = now + 1]
             /\ last'[u] \in [Contents -> Nat \cup {Never}]
             /\ last'[u][doc[u]] = now + 1
             /\ \A c \in Contents : last'[u][c] <= now + 1 /\ last[u][c] <= last'[u][c]
  <2>1. doc[u] \in Contents /\ last[u] \in [Contents -> Nat \cup {Never}]
    BY <1>1 DEF HttpTypeOK
  <2>2. last'[u] = [last[u] EXCEPT ![doc[u]] = now + 1]
    BY <1>2
  <2>3. \A c \in Contents : last[u][c] <= now /\ last[u][c] \in Int
    BY <1>1, <2>1 DEF HistoryKept, Never
  <2> QED
    BY <1>2, <2>1, <2>2, <2>3
<1>4. last' \in [Urls -> [Contents -> Nat \cup {Never}]]
  BY <1>2, <1>3
<1>5. TypeOK'
  <2>1. HttpTypeOK'
    BY <1>1, <1>2, <1>4 DEF HttpTypeOK
  <2>2. TypeOK /\ UNCHANGED <<look, looks, changes>>
    BY <1>2 DEF IInv
  <2> QED
    BY <2>1, <2>2 DEF TypeOK
<1>6. HistoryKept'
  BY <1>2, <1>3 DEF HistoryKept
<1> QED
  BY <1>2, <1>3, <1>5, <1>6 DEF Grows

LEMMA ChangeGrows ==
  ASSUME IInv, RegistryChanges
  PROVE  TypeOK' /\ HistoryKept' /\ Grows
<1>1. HttpTypeOK /\ HistoryKept /\ now \in Nat
  BY DEF IInv, TypeOK, HttpTypeOK
<1>2. PICK content \in [Urls -> Contents] : ServerSets(content)
  <2>1. PICK version \in Contents, package \in {"present", Absent} :
          ServerSets([u \in Urls |-> IF u = "version" THEN version ELSE package])
    BY DEF RegistryChanges
  <2>2. package \in Contents
    BY AvailabilityConstants DEF Contents
  <2> QED
    BY <2>1, <2>2
<1>3. /\ doc' = content /\ changes' = changes + 1 /\ changes < MaxChanges
      /\ last' = [u \in Urls |-> [last[u] EXCEPT ![content[u]] = now]]
      /\ UNCHANGED <<now, cache, req, look, looks>>
  BY <1>2 DEF ServerSets, RegistryChanges
<1>4. ASSUME NEW u \in Urls
      PROVE  /\ content[u] \in Contents
             /\ last'[u] \in [Contents -> Nat \cup {Never}]
             /\ last'[u][content[u]] = now
             /\ \A c \in Contents : last'[u][c] <= now /\ last[u][c] <= last'[u][c]
  <2>1. content[u] \in Contents /\ last[u] \in [Contents -> Nat \cup {Never}]
    BY <1>1 DEF HttpTypeOK
  <2>2. last'[u] = [last[u] EXCEPT ![content[u]] = now]
    BY <1>3
  <2>3. \A c \in Contents : last[u][c] <= now /\ last[u][c] \in Int
    BY <1>1, <2>1 DEF HistoryKept, Never
  <2> QED
    BY <1>1, <2>1, <2>2, <2>3
<1>5. last' \in [Urls -> [Contents -> Nat \cup {Never}]]
  BY <1>3, <1>4
<1>6. changes' \in 0 .. MaxChanges
  BY <1>3, AvailabilityConstants DEF IInv, TypeOK
<1>7. TypeOK'
  <2>1. HttpTypeOK'
    BY <1>1, <1>2, <1>3, <1>5 DEF HttpTypeOK
  <2>2. TypeOK /\ UNCHANGED <<look, looks>>
    BY <1>3 DEF IInv
  <2> QED
    BY <1>6, <2>1, <2>2 DEF TypeOK
<1>8. HistoryKept'
  BY <1>3, <1>4 DEF HistoryKept
<1> QED
  BY <1>1, <1>3, <1>4, <1>7, <1>8 DEF Grows

LEMMA WorldStep ==
  ASSUME IInv, Clock \/ RegistryChanges
  PROVE  IInv'
<1>1. TypeOK' /\ HistoryKept' /\ Grows
  BY TickGrows, ChangeGrows
<1>2. /\ HttpTypeOK /\ HttpTypeOK' /\ now \in Nat
      /\ UNCHANGED <<cache, req, look>>
      /\ now' = now \/ \A p \in Procs : req[p].phase # "responded"
  BY <1>1 DEF IInv, TypeOK, HttpTypeOK, Clock, Tick, InExchange, RegistryChanges, ServerSets
<1>3. ASSUME NEW u \in Urls, NEW record \in Record, RecordServed(u, record)
      PROVE  RecordServed(u, record)'
  <2>1. CASE record # NoRecord
    BY <1>1, <1>2, <1>3, <2>1, Recorded, StillServed DEF RecordServed
  <2> QED
    BY <2>1 DEF RecordServed
<1>4. ASSUME NEW u \in Urls PROVE RecordServed(u, cache[u])'
  <2>1. cache[u] \in Record /\ RecordServed(u, cache[u])
    BY <1>2 DEF IInv, HttpTypeOK, Record
  <2> QED
    BY <1>2, <1>3, <2>1 DEF RecordServed
<1>5. ASSUME NEW p \in Procs PROVE RequestTrue(p)'
  <2> DEFINE r == req[p]
  <2>1. RequestTrue(p) /\ req'[p] = r
    BY <1>2 DEF IInv
  <2>2. CASE r.phase \in {"sending", "responded"}
    <3>1. r.started \in Nat /\ r.url \in Urls /\ r.cached \in Record
      BY <1>2, <2>2, Phases DEF Sendings, Waitings
    <3>2. r.started <= now' /\ RecordServed(r.url, r.cached)'
      BY <1>1, <1>2, <1>3, <2>1, <2>2, <3>1 DEF RequestTrue, Grows, HttpTypeOK
    <3>3. r.phase = "responded" => ResponseTrue(r)'
      <4> SUFFICES ASSUME r.phase = "responded" PROVE ResponseTrue(r)'
        OBVIOUS
      <4>1. now' = now /\ ResponseTrue(r) /\ r.response \in Responses
        BY <1>2, <2>1, Phases DEF RequestTrue, Waitings
      <4>2. r.response.kind = "ok" => ServedSince(r.url, r.response.body, now)'
        BY <1>1, <1>2, <3>1, <4>1, StillServed, TheDocuments DEF ResponseTrue, Responses
      <4>3. r.response.kind = "absent" => ServedSince(r.url, Absent, now)'
        BY <1>1, <1>2, <3>1, <4>1, StillServed, TheDocuments DEF ResponseTrue
      <4>4. r.response.kind = "unmodified" =>
               r.cached # NoRecord /\ ServedSince(r.url, r.cached.body, now)'
        BY <1>1, <1>2, <3>1, <4>1, StillServed, Recorded DEF ResponseTrue
      <4> QED
        BY <2>1, <4>2, <4>3, <4>4 DEF ResponseTrue
    <3> QED
      BY <2>1, <2>2, <3>2, <3>3 DEF RequestTrue
  <2>3. CASE r.phase = "done"
    <3>1. r.started \in Nat /\ r.url \in Urls /\ r.result \in Results
      BY <1>2, <2>3, Phases DEF Dones
    <3>2. r.started <= now /\ ResultTrue(r.url, r.started, r.result)
      BY <2>1, <2>3 DEF RequestTrue
    <3>3. (r.result.ok /\ ~r.result.stale) => ServedSince(r.url, r.result.body, r.started - Ttl + 1)'
      <4>1. r.started - Ttl + 1 \in Int
        BY <3>1, HttpConstants
      <4>2. r.result.ok => r.result.body \in Contents
        BY <3>1, TheDocuments DEF Results
      <4> QED
        BY <1>1, <1>2, <3>1, <3>2, <4>1, <4>2, StillServed DEF ResultTrue
    <3>4. (~r.result.ok /\ r.result.status = "absent") => ServedSince(r.url, Absent, r.started)'
      BY <1>1, <1>2, <3>1, <3>2, StillServed, TheDocuments DEF ResultTrue
    <3> QED
      BY <1>1, <1>2, <2>1, <2>3, <3>1, <3>2, <3>3, <3>4 DEF RequestTrue, ResultTrue, Grows, HttpTypeOK
  <2> QED
    BY <2>1, <2>2, <2>3 DEF RequestTrue
<1>6. ASSUME NEW p \in Procs PROVE LookTrue(p)'
  <2>1. LookTrue(p) /\ look'[p] = look[p] /\ req'[p] = req[p]
    BY <1>2 DEF IInv
  <2>0. TypeOK
    BY DEF IInv
  <2>9. look[p].step # "none" => look[p].started \in Nat
    BY <2>0, Stages DEF Asking, Settled
  <2>2. look[p].step # "none" => look[p].started \in Nat /\ look[p].started - Ttl + 1 \in Int
    BY <2>9, HttpConstants
  <2>3. look[p].step = "package" => ServedSince("version", Absent, look[p].started)'
    BY <1>1, <1>2, <2>1, <2>2, StillServed, TheDocuments DEF LookTrue
  <2>4. Decided(p, {"gone", "version-gone"}) => ServedSince("version", Absent, look[p].started)'
    BY <1>1, <1>2, <2>1, <2>2, StillServed, TheDocuments DEF LookTrue, Decided
  <2>5. Decided(p, {"gone"}) => ServedSince("package", Absent, look[p].started)'
    BY <1>1, <1>2, <2>1, <2>2, StillServed, TheDocuments DEF LookTrue, Decided
  <2>6. (Decided(p, Bodies) /\ ~look[p].stale) =>
           ServedSince("version", look[p].verdict, look[p].started - Ttl + 1)'
    BY <1>1, <1>2, <2>1, <2>2, StillServed, TheDocuments DEF LookTrue, Decided
  <2> QED
    BY <2>1, <2>3, <2>4, <2>5, <2>6 DEF LookTrue, Decided, Asks
<1> QED
  BY <1>1, <1>4, <1>5, <1>6 DEF IInv

-----------------------------------------------------------------------------
(* The steps of one process: its request, its look and perhaps the file of  *)
(* the cache change, and neither the clock nor the server does.             *)

LEMMA LocalStep ==
  ASSUME IInv, NEW p \in Procs, NEW r \in RequestStates, NEW l \in {NoLook} \cup Asking \cup Settled,
         req' = [req EXCEPT ![p] = r], look' = [look EXCEPT ![p] = l],
         UNCHANGED <<now, doc, last>>,
         cache' \in [Urls -> Record], \A u \in Urls : RecordServed(u, cache'[u]),
         looks' \in 0 .. MaxLooks, changes' \in 0 .. MaxChanges,
         RequestTrue(p)', LookTrue(p)'
  PROVE  IInv'
<1>1. TypeOK'
  <2>1. TypeOK /\ HttpTypeOK
    BY DEF IInv, TypeOK
  <2>2. req' \in [Procs -> RequestStates]
    BY <2>1 DEF HttpTypeOK
  <2>3. HttpTypeOK'
    BY <2>1, <2>2 DEF HttpTypeOK, Record
  <2>4. look' \in [Procs -> {NoLook} \cup Asking \cup Settled]
    BY <2>1 DEF TypeOK, Asking, Settled
  <2> QED
    BY <2>3, <2>4 DEF TypeOK, Asking, Settled
<1>2. HistoryKept'
  BY DEF IInv, HistoryKept
<1>3. \A u \in Urls : RecordServed(u, cache[u])'
  BY DEF RecordServed, ServedSince
<1>4. ASSUME NEW q \in Procs, q # p
      PROVE  RequestTrue(q)' /\ LookTrue(q)'
  <2>1. req'[q] = req[q] /\ look'[q] = look[q] /\ RequestTrue(q) /\ LookTrue(q)
    BY <1>4 DEF IInv, TypeOK, HttpTypeOK
  <2> QED
    BY <2>1 DEF RequestTrue, ResponseTrue, ResultTrue, RecordServed, LookTrue, Decided, Asks, ServedSince
<1> QED
  BY <1>1, <1>2, <1>3, <1>4 DEF IInv

LEMMA CacheRead ==
  ASSUME IInv
  PROVE  /\ now \in Nat /\ req \in [Procs -> RequestStates] /\ cache \in [Urls -> Record]
         /\ \A u \in Urls : RecordServed(u, cache[u])
         /\ looks \in 0 .. MaxLooks /\ changes \in 0 .. MaxChanges
         /\ look \in [Procs -> {NoLook} \cup Asking \cup Settled]
BY DEF IInv, TypeOK, HttpTypeOK, Record, Asking, Settled

(* A request that starts is for the document, from now on.                  *)
LEMMA RequestStarts ==
  ASSUME IInv, NEW p \in Procs, NEW u \in Urls, Request(p, u)
  PROVE  /\ \E r \in RequestStates : req' = [req EXCEPT ![p] = r]
         /\ UNCHANGED <<now, doc, last, cache>>
         /\ Asks(p, u)' /\ req'[p].started = now /\ RequestTrue(p)'
<1> DEFINE record == cache[u]
<1>1. /\ now \in Nat /\ req \in [Procs -> RequestStates] /\ record \in Record
      /\ RecordServed(u, record)
      /\ Ttl \in Nat \ {0} /\ Retries \in Nat
  BY CacheRead, HttpConstants
<1>2. UNCHANGED <<now, doc, last, cache>>
  BY DEF Request
<1>3. CASE CacheFresh(record)
  <2>1. record # NoRecord /\ now - record.stored_at < Ttl
    BY <1>3 DEF CacheFresh
  <2>2. record.stored_at \in Nat /\ record.body \in Bodies
    BY <1>1, <2>1 DEF Record, CacheRecords
  <2> DEFINE r == [phase |-> "done", url |-> u, started |-> now, result |-> Answered(record.body)]
  <2>3. r \in RequestStates
    BY <1>1, <2>2, States DEF Dones, Results, Answered
  <2>4. req' = [req EXCEPT ![p] = r] /\ req'[p] = r
    BY <1>1, <1>3 DEF Request, Finished
  <2>5. ServedSince(u, record.body, now - Ttl + 1)
    <3>1. last[u][record.body] \in Int /\ last[u][record.body] >= record.stored_at
      BY <1>1, <2>1, <2>2, TheDocuments DEF RecordServed, ServedSince, IInv, TypeOK, HttpTypeOK, Never
    <3> QED
      BY <1>1, <2>1, <2>2, <3>1 DEF ServedSince
  <2>6. RequestTrue(p)'
    BY <1>1, <1>2, <2>4, <2>5 DEF RequestTrue, ResultTrue, Answered, ServedSince
  <2>7. Asks(p, u)' /\ req'[p].started = now
    BY <2>4 DEF Asks
  <2> HIDE DEF r
  <2> QED
    BY <1>2, <2>3, <2>4, <2>6, <2>7
<1>4. CASE ~CacheFresh(record)
  <2> DEFINE r == Sending(u, record)
  <2>1. r \in RequestStates
    BY <1>1, States DEF Sendings, Sending
  <2>2. req' = [req EXCEPT ![p] = r] /\ req'[p] = r
    BY <1>1, <1>4 DEF Request
  <2>3. RequestTrue(p)'
    BY <1>1, <1>2, <2>2 DEF RequestTrue, Sending, RecordServed, ServedSince
  <2>4. Asks(p, u)' /\ req'[p].started = now
    BY <2>2 DEF Asks, Sending
  <2> HIDE DEF r
  <2> QED
    BY <1>2, <2>1, <2>2, <2>3, <2>4
<1> QED
  BY <1>3, <1>4

(* What an exchange leaves of a request: it is hung, or it is the same      *)
(* request, with what it claims true.                                       *)
Moves(p) ==
    /\ req[p].phase \in {"sending", "responded"}
    /\ \E r \in RequestStates : req' = [req EXCEPT ![p] = r]
    /\ UNCHANGED <<now, doc, last>>
    /\ cache' \in [Urls -> Record] /\ \A u \in Urls : RecordServed(u, cache'[u])
    /\ RequestTrue(p)'
    /\ \/ req'[p].phase = "hung"
       \/ /\ req'[p].phase \in {"sending", "responded", "done"}
          /\ req'[p].url = req[p].url /\ req'[p].started = req[p].started

LEMMA RespondMoves ==
  ASSUME IInv, NEW p \in Procs, Respond(p)
  PROVE  Moves(p)
<1> DEFINE q == req[p]
<1>1. /\ HttpTypeOK /\ HistoryKept /\ RequestTrue(p)
      /\ q.phase = "sending" /\ UNCHANGED <<now, doc, last, cache>>
      /\ now \in Nat /\ req \in [Procs -> RequestStates] /\ cache \in [Urls -> Record]
      /\ \A u \in Urls : RecordServed(u, cache[u])
  BY CacheRead DEF IInv, TypeOK, Respond
<1>2. /\ q.url \in Urls /\ q.started \in Nat /\ q.cached \in Record /\ q.attempt \in 0 .. Retries
      /\ q.started <= now /\ RecordServed(q.url, q.cached)
  BY <1>1, Phases DEF Sendings, RequestTrue
<1>3. PICK res \in MayAnswer(q) :
        req' = [req EXCEPT ![p] = [phase |-> "responded", url |-> @.url, started |-> @.started,
                                   cached |-> @.cached, attempt |-> @.attempt, response |-> res]]
  BY DEF Respond
<1>4. PICK r : r = [phase |-> "responded", url |-> q.url, started |-> q.started,
                    cached |-> q.cached, attempt |-> q.attempt, response |-> res]
  OBVIOUS
<1>5. /\ req' = [req EXCEPT ![p] = r] /\ req'[p] = r
      /\ r.phase = "responded" /\ r.url = q.url /\ r.started = q.started /\ r.cached = q.cached
      /\ r.response = res
  BY <1>1, <1>3, <1>4
<1>6. doc[q.url] \in Contents /\ last[q.url][doc[q.url]] = now
  BY <1>1, <1>2 DEF HttpTypeOK, HistoryKept
<1>7. res \in Responses
  BY <1>6 DEF MayAnswer, Responses, Contents
<1>8. r \in RequestStates
  BY <1>2, <1>4, <1>7, States DEF Waitings
<1>9. ResponseTrue(r)
  <2>1. res.kind = "ok" => res.body = doc[q.url]
    BY DEF MayAnswer
  <2>2. res.kind = "absent" => doc[q.url] = Absent
    BY DEF MayAnswer
  <2>3. res.kind = "unmodified" => q.cached # NoRecord /\ q.cached.body = doc[q.url]
    BY DEF MayAnswer
  <2> QED
    BY <1>1, <1>5, <1>6, <2>1, <2>2, <2>3 DEF ResponseTrue, ServedSince, HttpTypeOK
<1>10. RequestTrue(p)'
  BY <1>1, <1>2, <1>5, <1>9 DEF RequestTrue, RecordServed, ResponseTrue, ServedSince
<1> QED
  BY <1>1, <1>2, <1>5, <1>8, <1>10 DEF Moves

(* A request that ends as `result` says, the cache as it may be left.       *)
LEMMA FinishMoves ==
  ASSUME IInv, NEW p \in Procs, req[p].phase = "responded", NEW result \in Results,
         Finished(p, req[p].url, req[p].started, result),
         ResultTrue(req[p].url, req[p].started, result),
         UNCHANGED <<now, doc, last>>,
         cache' \in [Urls -> Record], \A u \in Urls : RecordServed(u, cache'[u])
  PROVE  Moves(p)
<1>1. /\ req[p].url \in Urls /\ req[p].started \in Nat /\ req[p].started <= now
      /\ now \in Nat /\ req \in [Procs -> RequestStates]
  BY CacheRead, Phases DEF IInv, TypeOK, Waitings, RequestTrue
<1>2. PICK r : r = [phase |-> "done", url |-> req[p].url, started |-> req[p].started, result |-> result]
  OBVIOUS
<1>3. r \in RequestStates
  BY <1>1, <1>2, States DEF Dones
<1>4. req' = [req EXCEPT ![p] = r] /\ req'[p] = r
  BY <1>1, <1>2 DEF Finished
<1>5. RequestTrue(p)'
  BY <1>1, <1>2, <1>4 DEF RequestTrue, ResultTrue, ServedSince
<1> QED
  BY <1>1, <1>2, <1>3, <1>4, <1>5 DEF Moves

LEMMA ReceiveMoves ==
  ASSUME IInv, NEW p \in Procs, Receive(p)
  PROVE  Moves(p)
<1> DEFINE q == req[p]
<1>1. /\ HttpTypeOK /\ RequestTrue(p) /\ q.phase = "responded" /\ UNCHANGED <<now, doc, last>>
      /\ now \in Nat /\ req \in [Procs -> RequestStates] /\ cache \in [Urls -> Record]
      /\ \A u \in Urls : RecordServed(u, cache[u])
      /\ Ttl \in Nat \ {0} /\ Retries \in Nat
  BY CacheRead, HttpConstants DEF IInv, TypeOK, Receive
<1>2. /\ q.url \in Urls /\ q.started \in Nat /\ q.cached \in Record /\ q.attempt \in 0 .. Retries
      /\ q.response \in Responses
      /\ q.started <= now /\ RecordServed(q.url, q.cached) /\ ResponseTrue(q)
  BY <1>1, Phases DEF Waitings, RequestTrue
(* What was served now is fresh enough for any request begun by now.        *)
<1>3. ASSUME NEW body \in Bodies, ServedSince(q.url, body, now)
      PROVE  /\ Answered(body) \in Results
             /\ ResultTrue(q.url, q.started, Answered(body))
             /\ RecordServed(q.url, [stored_at |-> now, body |-> body])
             /\ [stored_at |-> now, body |-> body] \in Record
  <2>1. last[q.url][body] \in Int
    BY <1>1, <1>2, <1>3, TheDocuments DEF HttpTypeOK, Never
  <2>2. last[q.url][body] >= now /\ last[q.url][body] >= q.started - Ttl + 1
    BY <1>1, <1>2, <1>3, <2>1 DEF ServedSince
  <2>3. Answered(body) \in Results /\ ResultTrue(q.url, q.started, Answered(body))
    BY <2>2 DEF Answered, Results, ResultTrue, ServedSince
  <2> QED
    BY <1>1, <2>2, <2>3 DEF RecordServed, ServedSince, Record, CacheRecords
(* A body served now is stored, and answered.                               *)
<1>4. ASSUME NEW body \in Bodies, ServedSince(q.url, body, now),
             cache' = [cache EXCEPT ![q.url] = [stored_at |-> now, body |-> body]],
             Finished(p, q.url, q.started, Answered(body))
      PROVE  Moves(p)
  <2>1. cache' \in [Urls -> Record] /\ \A u \in Urls : RecordServed(u, cache'[u])
    BY <1>1, <1>2, <1>3, <1>4
  <2> QED
    BY <1>1, <1>3, <1>4, <2>1, FinishMoves
<1>5. CASE Revalidated(p)
  <2>1. /\ q.cached # NoRecord /\ ServedSince(q.url, q.cached.body, now)
        /\ q.cached \in CacheRecords
    BY <1>2, <1>5 DEF Revalidated, ResponseTrue, Record
  <2>2. [q.cached EXCEPT !.stored_at = now] = [stored_at |-> now, body |-> q.cached.body]
        /\ q.cached.body \in Bodies
    BY <2>1 DEF CacheRecords
  <2> QED
    BY <1>4, <1>5, <2>1, <2>2 DEF Revalidated
<1>6. CASE Fetched(p)
  <2>1. q.response.body \in Bodies /\ ServedSince(q.url, q.response.body, now)
    BY <1>2, <1>6 DEF Fetched, ResponseTrue, Responses
  <2> QED
    BY <1>4, <1>6, <2>1 DEF Fetched
<1>7. CASE Garbled(p)
  <2>1. Failed("garbled") \in Results /\ ResultTrue(q.url, q.started, Failed("garbled"))
    BY DEF Failed, Results, ResultTrue
  <2>2. UNCHANGED cache /\ Finished(p, q.url, q.started, Failed("garbled"))
    BY <1>7 DEF Garbled
  <2> QED
    BY <1>1, <2>1, <2>2, FinishMoves
<1>8. CASE NextAttempt(p)
  <2>1. PICK r : r = [phase |-> "sending", url |-> q.url, started |-> q.started,
                      cached |-> q.cached, attempt |-> q.attempt + 1]
    OBVIOUS
  <2>2. r \in RequestStates
    BY <1>1, <1>2, <1>8, <2>1, States DEF Sendings, NextAttempt
  <2>3. req' = [req EXCEPT ![p] = r] /\ req'[p] = r /\ UNCHANGED cache
    BY <1>1, <1>8, <2>1 DEF NextAttempt
  <2>4. RequestTrue(p)'
    BY <1>1, <1>2, <2>1, <2>3 DEF RequestTrue, RecordServed, ServedSince
  <2> QED
    BY <1>1, <1>2, <2>1, <2>2, <2>3, <2>4 DEF Moves
<1>9. CASE Exhausted(p)
  <2>1. /\ q.response.kind \in {"transient", "refused", "absent"} /\ UNCHANGED cache
        /\ Finished(p, q.url, q.started, GiveUp(q))
    BY <1>9 DEF Exhausted
  <2>2. GiveUp(q) \in Results /\ ResultTrue(q.url, q.started, GiveUp(q))
    <3>1. CASE q.cached # NoRecord
      <4>1. q.cached.body \in Bodies
        BY <1>2, <3>1 DEF Record, CacheRecords
      <4> QED
        BY <3>1, <4>1 DEF GiveUp, Outdated, Results, ResultTrue
    <3>2. CASE q.cached = NoRecord
      <4>1. GiveUp(q) = Failed(q.response.kind) /\ Failed(q.response.kind) \in Results
        BY <2>1, <3>2 DEF GiveUp, Failed, Results
      <4>2. q.response.kind = "absent" => ServedSince(q.url, Absent, q.started)
        <5>1. last[q.url][Absent] \in Int
          BY <1>1, <1>2, TheDocuments DEF HttpTypeOK, Never
        <5> QED
          BY <1>1, <1>2, <5>1 DEF ResponseTrue, ServedSince
      <4> QED
        BY <4>1, <4>2 DEF ResultTrue, Failed
    <3> QED
      BY <3>1, <3>2
  <2> QED
    BY <1>1, <2>1, <2>2, FinishMoves
<1> QED
  BY <1>5, <1>6, <1>7, <1>8, <1>9 DEF Receive

LEMMA CutMoves ==
  ASSUME IInv, NEW p \in Procs, CutShort(p)
  PROVE  Moves(p)
<1>1. /\ req[p].phase = "sending" /\ req[p].url \in Urls /\ req \in [Procs -> RequestStates]
      /\ UNCHANGED <<now, doc, last, cache>> /\ cache \in [Urls -> Record]
      /\ \A u \in Urls : RecordServed(u, cache[u])
  BY CacheRead, Phases DEF CutShort, IInv, TypeOK, Sendings
<1>2. PICK r : r = [phase |-> "hung", url |-> req[p].url]
  OBVIOUS
<1>3. r \in RequestStates
  BY <1>1, <1>2, States DEF Hungs
<1>4. req' = [req EXCEPT ![p] = r] /\ req'[p] = r
  BY <1>1, <1>2 DEF CutShort
<1> QED
  BY <1>1, <1>2, <1>3, <1>4 DEF Moves, RequestTrue

LEMMA ExchangeHolds ==
  ASSUME IInv, NEW p \in Procs, Exchange(p)
  PROVE  IInv'
<1>1. Moves(p) /\ UNCHANGED <<look, looks, changes>>
  BY RespondMoves, ReceiveMoves, CutMoves DEF Exchange
<1>2. PICK r \in RequestStates : req' = [req EXCEPT ![p] = r]
  BY <1>1 DEF Moves
<1>3. /\ look[p] \in {NoLook} \cup Asking \cup Settled /\ look' = [look EXCEPT ![p] = look[p]]
      /\ looks' \in 0 .. MaxLooks /\ changes' \in 0 .. MaxChanges
  BY <1>1, CacheRead
<1>4. LookTrue(p)'
  <2>1. LookTrue(p) /\ look'[p] = look[p] /\ last' = last
    BY <1>1 DEF Moves, IInv
  <2>2. look[p].step \in {"version", "package"} =>
           \/ req'[p].phase = "hung"
           \/ /\ req'[p].phase \in {"sending", "responded", "done"}
              /\ req'[p].url = look[p].step /\ look[p].started <= req'[p].started
              /\ look[p].step = "version" => req'[p].started = look[p].started
    <3> SUFFICES ASSUME look[p].step \in {"version", "package"}
                 PROVE  \/ req'[p].phase = "hung"
                        \/ /\ req'[p].phase \in {"sending", "responded", "done"}
                           /\ req'[p].url = look[p].step /\ look[p].started <= req'[p].started
                           /\ look[p].step = "version" => req'[p].started = look[p].started
      OBVIOUS
    <3>1. req[p].phase \in {"sending", "responded"} /\ TypeOK /\ HttpTypeOK
      BY <1>1 DEF Moves, IInv, TypeOK
    <3>2. look[p].started \in Nat /\ req[p].started \in Nat
      BY <3>1, Stages, Phases DEF Asking, Sendings, Waitings
    <3>3. /\ req[p].url = look[p].step /\ look[p].started <= req[p].started
          /\ look[p].step = "version" => req[p].started = look[p].started
      BY <2>1, <3>1, <3>2 DEF LookTrue, Asks
    <3> QED
      BY <1>1, <3>3 DEF Moves
  <2> QED
    BY <2>1, <2>2 DEF LookTrue, Decided, Asks, ServedSince
<1> QED
  BY <1>1, <1>2, <1>3, <1>4, LocalStep DEF Moves

-----------------------------------------------------------------------------
(* The steps of a look. *)

LEMMA StartHolds ==
  ASSUME IInv, NEW p \in Procs, StartLook(p)
  PROVE  IInv'
<1>1. /\ Request(p, "version") /\ looks' = looks + 1 /\ looks < MaxLooks /\ UNCHANGED changes
      /\ look' = [look EXCEPT ![p] = [step |-> "version", started |-> now, stale |-> FALSE]]
  BY DEF StartLook
<1>2. PICK l : l = [step |-> "version", started |-> now, stale |-> FALSE]
  OBVIOUS
<1>3. l \in Asking /\ look' = [look EXCEPT ![p] = l] /\ look'[p] = l
  BY <1>1, <1>2, CacheRead DEF Asking
<1>4. /\ \E r \in RequestStates : req' = [req EXCEPT ![p] = r]
      /\ UNCHANGED <<now, doc, last, cache>>
      /\ Asks(p, "version")' /\ req'[p].started = now /\ RequestTrue(p)'
  BY <1>1, RequestStarts, TheDocuments
<1>5. LookTrue(p)'
  BY <1>2, <1>3, <1>4 DEF LookTrue, Decided
<1>6. looks' \in 0 .. MaxLooks /\ changes' \in 0 .. MaxChanges
  BY <1>1, CacheRead, AvailabilityConstants
<1>7. cache' \in [Urls -> Record] /\ \A u \in Urls : RecordServed(u, cache'[u])
  BY <1>4, CacheRead
<1> QED
  BY <1>3, <1>4, <1>5, <1>6, <1>7, LocalStep

(* A verdict, of the kind the request that is done has earned.              *)
LEMMA DecideHolds ==
  ASSUME IInv, NEW p \in Procs, look[p].step \in {"version", "package"},
         NEW verdict \in Verdicts, NEW stale \in BOOLEAN,
         Decide(p, verdict, stale), UNCHANGED <<looks, changes>>,
         verdict \in {"gone", "version-gone"} => ServedSince("version", Absent, look[p].started),
         verdict = "gone" => ServedSince("package", Absent, look[p].started),
         verdict \in Bodies /\ ~stale => ServedSince("version", verdict, look[p].started - Ttl + 1)
  PROVE  IInv'
<1>1. look[p].started \in Nat /\ req \in [Procs -> RequestStates]
  BY CacheRead, Stages DEF IInv, Asking
<1>2. PICK l : l = [step |-> "decided", started |-> look[p].started, stale |-> stale, verdict |-> verdict]
  OBVIOUS
<1>3. l \in Settled /\ look' = [look EXCEPT ![p] = l] /\ look'[p] = l
  BY <1>1, <1>2, CacheRead DEF Settled, Decide
<1>4. NoRequest \in RequestStates /\ req' = [req EXCEPT ![p] = NoRequest] /\ req'[p] = NoRequest
  BY <1>1, States DEF Decide
<1>5. UNCHANGED <<now, doc, last, cache>>
  BY DEF Decide
<1>6. RequestTrue(p)'
  BY <1>4 DEF RequestTrue, NoRequest
<1>7. LookTrue(p)'
  BY <1>2, <1>3, <1>5 DEF LookTrue, Decided, ServedSince
<1>8. /\ cache' \in [Urls -> Record] /\ \A u \in Urls : RecordServed(u, cache'[u])
      /\ looks' \in 0 .. MaxLooks /\ changes' \in 0 .. MaxChanges
  BY <1>5, CacheRead
<1> QED
  BY <1>3, <1>4, <1>5, <1>6, <1>7, <1>8, LocalStep

(* What a look knows of the request it waited for.                          *)
LEMMA AskedAndDone ==
  ASSUME IInv, NEW p \in Procs, req[p].phase = "done", look[p].step \in {"version", "package"}
  PROVE  /\ req[p].url = look[p].step /\ req[p].result \in Results
         /\ req[p].started \in Nat /\ look[p].started \in Nat /\ look[p].started <= req[p].started
         /\ look[p].step = "version" => req[p].started = look[p].started
         /\ ResultTrue(look[p].step, req[p].started, req[p].result)
         /\ look[p] \in Asking
<1>1. TypeOK /\ HttpTypeOK /\ RequestTrue(p) /\ LookTrue(p)
  BY DEF IInv, TypeOK
<1>2. look[p] \in Asking /\ req[p] \in Dones
  BY <1>1, Stages, Phases
<1>3. /\ req[p].url \in Urls /\ req[p].started \in Nat /\ req[p].result \in Results
      /\ look[p].started \in Nat
  BY <1>2 DEF Asking, Dones
<1>4. ResultTrue(req[p].url, req[p].started, req[p].result)
  BY <1>1 DEF RequestTrue
<1>5. /\ req[p].url = look[p].step /\ look[p].started <= req[p].started
      /\ look[p].step = "version" => req[p].started = look[p].started
  BY <1>1, <1>3 DEF LookTrue, Asks
<1> QED
  BY <1>2, <1>3, <1>4, <1>5

LEMMA VersionHolds ==
  ASSUME IInv, NEW p \in Procs, AskedVersion(p)
  PROVE  IInv'
<1> DEFINE result == req[p].result
<1>1. /\ look[p].step = "version" /\ req[p].phase = "done" /\ UNCHANGED <<looks, changes>>
      /\ req[p].started = look[p].started /\ result \in Results /\ look[p].started \in Nat
      /\ ResultTrue("version", look[p].started, result) /\ look[p] \in Asking
  BY AskedAndDone DEF AskedVersion
<1>2. "gone" \notin Bodies /\ "version-gone" \notin Bodies /\ "unknown" \notin Bodies
  BY AvailabilityConstants
<1>3. CASE VersionFound(p)
  <2>1. /\ result.ok /\ result.body \in Bodies /\ Stale(result) \in BOOLEAN
        /\ Decide(p, result.body, Stale(result))
    BY <1>1, <1>3 DEF VersionFound, VerdictOf, Results, Stale
  <2>2. ~Stale(result) => ServedSince("version", result.body, look[p].started - Ttl + 1)
    BY <1>1, <2>1 DEF Stale, ResultTrue
  <2> QED
    BY <1>1, <1>2, <2>1, <2>2, DecideHolds DEF Verdicts
<1>4. CASE VersionUnknown(p)
  <2>1. Decide(p, "unknown", FALSE)
    BY <1>4 DEF VersionUnknown
  <2> QED
    BY <1>1, <1>2, <2>1, DecideHolds DEF Verdicts
<1>5. CASE VersionAbsent(p)
  <2>1. /\ Request(p, "package") /\ look' = [look EXCEPT ![p].step = "package"]
        /\ ServedSince("version", Absent, look[p].started)
    BY <1>1, <1>5 DEF VersionAbsent, ResultTrue
  <2>2. PICK l : l = [look[p] EXCEPT !.step = "package"]
    OBVIOUS
  <2>3. /\ l \in Asking /\ l.step = "package" /\ l.started = look[p].started
        /\ look' = [look EXCEPT ![p] = l] /\ look'[p] = l
    BY <1>1, <2>1, <2>2, CacheRead DEF Asking
  <2>4. /\ \E r \in RequestStates : req' = [req EXCEPT ![p] = r]
        /\ UNCHANGED <<now, doc, last, cache>>
        /\ Asks(p, "package")' /\ req'[p].started = now /\ RequestTrue(p)'
    BY <2>1, RequestStarts, TheDocuments
  <2>5. look[p].started <= now
    BY <1>1, Phases DEF IInv, RequestTrue
  <2>6. LookTrue(p)'
    BY <2>1, <2>3, <2>4, <2>5 DEF LookTrue, Decided, ServedSince
  <2>7. /\ cache' \in [Urls -> Record] /\ \A u \in Urls : RecordServed(u, cache'[u])
        /\ looks' \in 0 .. MaxLooks /\ changes' \in 0 .. MaxChanges
    BY <1>1, <2>4, CacheRead
  <2> QED
    BY <2>3, <2>4, <2>6, <2>7, LocalStep
<1> QED
  BY <1>3, <1>4, <1>5 DEF AskedVersion

LEMMA PackageHolds ==
  ASSUME IInv, NEW p \in Procs, AskedPackage(p)
  PROVE  IInv'
<1> DEFINE result == req[p].result
<1>1. /\ look[p].step = "package" /\ req[p].phase = "done" /\ UNCHANGED <<looks, changes>>
      /\ req[p].started \in Nat /\ look[p].started \in Nat /\ look[p].started <= req[p].started
      /\ result \in Results /\ ResultTrue("package", req[p].started, result)
      /\ Decide(p, PackageVerdict(result), Stale(result))
  BY AskedAndDone DEF AskedPackage
<1>2. ServedSince("version", Absent, look[p].started)
  BY <1>1 DEF IInv, LookTrue
<1>3. "gone" \notin Bodies /\ "version-gone" \notin Bodies /\ "unknown" \notin Bodies
  BY AvailabilityConstants
<1>4. PackageVerdict(result) \in {"version-gone", "gone", "unknown"} /\ Stale(result) \in BOOLEAN
  BY <1>1 DEF PackageVerdict, Stale, Results
<1>5. PackageVerdict(result) = "gone" => ServedSince("package", Absent, look[p].started)
  <2>1. PackageVerdict(result) = "gone" => ServedSince("package", Absent, req[p].started)
    BY <1>1 DEF PackageVerdict, ResultTrue
  <2>2. last["package"][Absent] \in Int
    BY TheDocuments DEF IInv, TypeOK, HttpTypeOK, Never
  <2> QED
    BY <1>1, <2>1, <2>2 DEF ServedSince
<1> QED
  BY <1>1, <1>2, <1>3, <1>4, <1>5, DecideHolds DEF Verdicts

-----------------------------------------------------------------------------
LEMMA StepHolds == IInv /\ [Next]_vars => IInv'
<1>1. ASSUME IInv, UNCHANGED vars PROVE IInv'
  BY <1>1 DEF vars, IInv, TypeOK, HttpTypeOK, HistoryKept, RecordServed, RequestTrue, ResponseTrue,
              ResultTrue, LookTrue, Decided, Asks, ServedSince
<1> QED
  BY <1>1, WorldStep, StartHolds, ExchangeHolds, VersionHolds, PackageHolds DEF Next

LEMMA IInvHolds == Spec => []IInv
<1> QED
  BY InitHolds, StepHolds, PTL DEF Spec

(***************************************************************************)
(* What the cache says was served at the tick it is stamped with, and an   *)
(* answer that is not marked stale was true less than one shelf life       *)
(* before its request, for any number of processes, retries and ticks.     *)
(* (lib/http.cjs request, writeCache.)                                     *)
(***************************************************************************)
THEOREM TheCacheIsHonest == Spec => []CacheIsHonest
<1>1. IInv => CacheIsHonest
  BY DEF IInv, CacheIsHonest, RecordServed, RequestTrue, ResultTrue
<1> QED
  BY <1>1, IInvHolds, PTL

(***************************************************************************)
(* `gone` and `version-gone` are never the effect of an outage, and a      *)
(* release reported published, deprecated or yanked without a stale answer *)
(* was so within a shelf life of the look.  (checkNpm, checkPypi.)         *)
(***************************************************************************)
THEOREM TheVerdictIsEarned == Spec => []VerdictIsEarned
<1>1. IInv => VerdictIsEarned
  BY DEF IInv, VerdictIsEarned, LookTrue
<1> QED
  BY <1>1, IInvHolds, PTL

-----------------------------------------------------------------------------
(***************************************************************************)
(* ReadyIsCurrent.  What is stored has dates that can be compared, and a   *)
(* row that recommends a release was answered about that release: the row  *)
(* under way and the row a maintainer saved.  A run's drafts are built in  *)
(* one step from what is stored, so that they inherit both.                *)
(***************************************************************************)
Asked(row) == row.state = "upgrade" => row.target \in row.clean

InFlight(row) ==
    row = [pc |-> row.pc, state |-> row.state, current |-> row.current, vulns |-> row.vulns,
           listed |-> row.listed, target |-> row.target, latest |-> row.latest,
           clean |-> row.clean, passed |-> row.passed]

AdviceHeld ==
    /\ Asked(advice)
    /\ advice.pc # "idle" => InFlight(advice)
    /\ advice.pc \notin {"idle", "done"} => advice.state = Null

StoredHeld ==
    /\ IsEvidence(evidence) /\ (eval = Null \/ eval.on \in Nat)
    /\ today \in Nat
    /\ upgradeFile = Null \/ Asked(upgradeFile)

DraftIsCurrent(d) ==
    d.ready =>
        \A f \in d.findings :
            /\ d.day <= f.on + MaxAge[f.dim]
            /\ OfEval(f) \/ f.of = d.pin \/ (f.type = "availability" /\ f.status = "gone")
            /\ f.type = "advisory" => f.plan # Null /\ f.plan.current = d.pin
            /\ Target(f) # Null => Target(f) \in f.plan.clean

IsRun(r) ==
    /\ r.pc \in {"idle", "write"}
    /\ r.pc = "write" =>
          r = [pc |-> r.pc, built |-> r.built, ours |-> r.ours, left |-> r.left, todo |-> r.todo]

ReadyInv ==
    /\ AdviceHeld /\ StoredHeld /\ IsRun(run)
    /\ run.pc = "write" => \A d \in run.built : DraftIsCurrent(d)

IsTool(tool) == IsEvidence(tool.evidence) /\ IsDrift(tool.drift)

LEMMA FindingHolds ==
    ASSUME NEW tool, IsTool(tool), NEW row, row = Null \/ Asked(row), NEW day \in Nat,
           NEW f \in FindingsFor(tool, row, day), ~f.stale, ~AdvisoriesMissing(f)
    PROVE  /\ day <= f.on + MaxAge[f.dim]
           /\ OfEval(f) \/ f.of = tool.pin \/ (f.type = "availability" /\ f.status = "gone")
           /\ f.type = "advisory" => f.plan # Null /\ f.plan.current = tool.pin
           /\ Target(f) # Null => Target(f) \in f.plan.clean
<1> DEFINE e == tool.evidence
           plan == PlanFor(tool, row)
           told == {d \in EvidenceAboutArtifact(tool) : TypeOf(d, e.dims[d].status) # Null}
           fact(type, dim, status, of, on) ==
              [type |-> type, dim |-> dim, status |-> status, of |-> of, on |-> on,
               stale |-> IsStale(dim, on, day), plan |-> IF type = "advisory" THEN plan ELSE Null]
           read(d) == fact(TypeOf(d, e.dims[d].status), d, e.dims[d].status, e.of, e.dims[d].on)
<1>1. \/ \E d \in told : f = read(d)
      \/ /\ tool.drift # Null
         /\ f = fact("surface-unexplained", "smoke", "drift", tool.drift.of, tool.drift.on)
  BY DEF FindingsFor
<1>2. f.dim \in Dims /\ f.on \in Nat /\ f.stale = IsStale(f.dim, f.on, day)
      /\ f.plan = IF f.type = "advisory" THEN plan ELSE Null
  BY <1>1, FindingReportsConstants DEF EvidenceAboutArtifact, IsTool, IsEvidence, IsDrift
<1>3. day <= f.on + MaxAge[f.dim]
  <2>1. f.on \in Nat /\ MaxAge[f.dim] \in Nat
    BY <1>2, FindingReportsConstants
  <2>2. ~IsStale(f.dim, f.on, day)
    BY <1>2, Zenon
  <2> QED
    BY <2>1, <2>2 DEF IsStale
<1>4. ASSUME ~OfEval(f) PROVE f.of = tool.pin \/ (f.type = "availability" /\ f.status = "gone")
  <2>1. PICK d \in told : f = read(d)
    BY <1>1, <1>4 DEF OfEval
  <2>2. f.of = e.of /\ f.type = TypeOf(d, f.status) /\ f.status = e.dims[d].status
    BY <2>1
  <2>3. e.of = tool.pin \/ (d = "availability" /\ f.status = "gone")
    BY <2>1, <2>2 DEF EvidenceAboutArtifact
  <2>4. TypeOf("availability", "gone") = "availability"
    BY DEF TypeOf
  <2> QED
    BY <2>2, <2>3, <2>4
<1>6. ASSUME f.type = "advisory" PROVE f.plan # Null /\ f.plan.current = tool.pin
  <2>1. f.plan # Null /\ f.plan = plan
    BY <1>2, <1>6 DEF AdvisoriesMissing
  <2> QED
    BY <2>1 DEF PlanFor
<1>5. ASSUME Target(f) # Null PROVE Target(f) \in f.plan.clean
  <2>1. f.plan # Null /\ f.plan.state = "upgrade" /\ Target(f) = f.plan.target
    BY <1>5 DEF Target
  <2>2. f.plan = row /\ row # Null
    BY <1>2, <2>1 DEF PlanFor
  <2> QED
    BY <2>1, <2>2 DEF Asked
<1> QED
  BY <1>3, <1>4, <1>5, <1>6

LEMMA BuiltIsCurrent ==
    ASSUME StoredHeld, NEW d \in BuildReports
    PROVE  DraftIsCurrent(d)
<1>1. PICK n \in Names : d = Draft(n, Database[n], IF n = Entry THEN upgradeFile ELSE Null, today)
  BY DEF BuildReports, Database
<1> DEFINE tool == Database[n]
           row == IF n = Entry THEN upgradeFile ELSE Null
<1>2. IsTool(tool)
  <2>1. CASE n = Entry
    BY <2>1, FindingReportsConstants DEF Database, StoredHeld, IsTool, IsDrift
  <2>2. CASE n # Entry
    BY <2>2, FindingReportsConstants DEF Database, IsTool, Names
  <2> QED
    BY <2>1, <2>2
<1>3. row = Null \/ Asked(row)
  BY DEF StoredHeld
<1> HIDE DEF tool, row
<1>4. /\ d.day = today /\ d.pin = tool.pin /\ d.findings = FindingsFor(tool, row, today)
      /\ d.ready => \A f \in d.findings : ~f.stale /\ ~AdvisoriesMissing(f)
  BY <1>1 DEF Draft, tool, row
<1>5. ASSUME d.ready, NEW f \in d.findings
      PROVE  /\ d.day <= f.on + MaxAge[f.dim]
             /\ OfEval(f) \/ f.of = d.pin \/ (f.type = "availability" /\ f.status = "gone")
             /\ f.type = "advisory" => f.plan # Null /\ f.plan.current = d.pin
             /\ Target(f) # Null => Target(f) \in f.plan.clean
  <2>1. today \in Nat
    BY DEF StoredHeld
  <2> QED
    BY <1>2, <1>3, <1>4, <1>5, <2>1, FindingHolds DEF OfEval
<1> QED
  BY <1>5 DEF DraftIsCurrent
LEMMA RowIs ==
    ASSUME NEW r, InFlight(r), NEW state
    PROVE  Row(r, state) = [pc |-> "done", state |-> state, current |-> r.current,
                            vulns |-> r.vulns, listed |-> r.listed, target |-> r.target,
                            latest |-> r.latest, clean |-> r.clean, passed |-> r.passed]
<1>1. PICK s : s = [r EXCEPT !.pc = "done"]
  OBVIOUS
<1>2. s = [pc |-> "done", state |-> r.state, current |-> r.current,
           vulns |-> r.vulns, listed |-> r.listed, target |-> r.target,
           latest |-> r.latest, clean |-> r.clean, passed |-> r.passed]
  BY <1>1 DEF InFlight
<1>3. [s EXCEPT !.state = state]
         = [pc |-> "done", state |-> state, current |-> r.current,
            vulns |-> r.vulns, listed |-> r.listed, target |-> r.target,
            latest |-> r.latest, clean |-> r.clean, passed |-> r.passed]
  BY <1>2
<1> QED
  BY <1>1, <1>3 DEF Row

LEMMA RowHeld ==
    ASSUME NEW r, InFlight(r), NEW state, state = "upgrade" => r.target \in r.clean
    PROVE  InFlight(Row(r, state)) /\ Asked(Row(r, state))
<1>1. PICK x : x = Row(r, state)
  OBVIOUS
<1>2. x = [pc |-> "done", state |-> state, current |-> r.current,
           vulns |-> r.vulns, listed |-> r.listed, target |-> r.target,
           latest |-> r.latest, clean |-> r.clean, passed |-> r.passed]
  BY <1>1, RowIs
<1>3. InFlight(x) /\ x.state = state /\ x.target = r.target /\ x.clean = r.clean
  BY <1>2 DEF InFlight
<1> QED
  BY <1>1, <1>3 DEF Asked

(* The questions of a run under way, each with the row it leaves.           *)
LEMMA QuestionsKeep ==
    ASSUME AdviceHeld,
           StartUpgrade \/ AskNow \/ AskPublished \/ AskTarget \/ AskLatest \/ UNCHANGED advice
    PROVE  AdviceHeld'
<1>1. ASSUME NEW x, InFlight(x), Asked(x), x.pc = "done" \/ x.state = Null, advice' = x
      PROVE  AdviceHeld'
  BY <1>1 DEF AdviceHeld, InFlight, Asked
<1>2. CASE UNCHANGED advice
  BY <1>2 DEF AdviceHeld, InFlight, Asked
<1>3. CASE StartUpgrade
  <2>1. PICK x : x = advice'
    OBVIOUS
  <2>2. x = [pc |-> "now", state |-> Null, current |-> pin, vulns |-> {}, listed |-> {},
             target |-> Null, latest |-> Null, clean |-> {}, passed |-> {}]
    BY <1>3, <2>1 DEF StartUpgrade
  <2>3. InFlight(x) /\ Asked(x) /\ x.state = Null
    BY <2>2, UpgradeConstants DEF InFlight, Asked
  <2> QED
    BY <1>1, <2>1, <2>3
<1>4. ASSUME NEW r, InFlight(r), NEW state, state = "upgrade" => r.target \in r.clean,
             advice' = Row(r, state)
      PROVE  AdviceHeld'
  <2>1. PICK x : x = Row(r, state)
    OBVIOUS
  <2>2. InFlight(x) /\ Asked(x) /\ x.pc = "done"
    BY <1>4, <2>1, RowHeld, RowIs
  <2> QED
    BY <1>1, <1>4, <2>1, <2>2
<1>5. CASE AskNow
  <2>1. InFlight(advice) /\ advice.state = Null
    BY <1>5 DEF AskNow, AdviceHeld
  <2>2. InFlight([advice EXCEPT !.vulns = Null]) /\ InFlight([advice EXCEPT !.clean = {advice.current}])
    BY <2>1 DEF InFlight
  <2>3. ASSUME NEW found, advice' = [advice EXCEPT !.pc = "list", !.vulns = found]
        PROVE  AdviceHeld'
    <3>1. PICK y : y = [advice EXCEPT !.pc = "list"]
      OBVIOUS
    <3>2. InFlight(y) /\ y.state = Null
      BY <2>1, <3>1 DEF InFlight
    <3>3. PICK x : x = [y EXCEPT !.vulns = found]
      OBVIOUS
    <3>4. InFlight(x) /\ x.state = Null
      BY <3>2, <3>3 DEF InFlight
    <3> QED
      BY <1>1, <2>3, <3>1, <3>3, <3>4, UpgradeConstants DEF Asked
  <2> QED
    BY <1>4, <1>5, <2>2, <2>3 DEF AskNow
<1>6. CASE AskPublished
  <2>1. InFlight(advice) /\ advice.state = Null
    BY <1>6 DEF AskPublished, AdviceHeld
  <2>2. ASSUME NEW listed, NEW target, NEW latest,
               advice' = [advice EXCEPT !.pc = "target", !.listed = listed,
                                        !.target = target, !.latest = latest]
        PROVE  AdviceHeld'
    <3>1. PICK y : y = [advice EXCEPT !.pc = "target", !.listed = listed]
      OBVIOUS
    <3>2. InFlight(y) /\ y.state = Null
      BY <2>1, <3>1 DEF InFlight
    <3>3. PICK x : x = [y EXCEPT !.target = target, !.latest = latest]
      OBVIOUS
    <3>4. InFlight(x) /\ x.state = Null
      BY <3>2, <3>3 DEF InFlight
    <3> QED
      BY <1>1, <2>2, <3>1, <3>3, <3>4, UpgradeConstants DEF Asked
  <2>3. \A state : state \in {"unknown", "no-fix"} =>
            (advice' = Row(advice, state) => AdviceHeld')
    BY <1>4, <2>1
  <2> QED
    BY <1>6, <2>2, <2>3 DEF AskPublished, PlanUpgrade
<1>7. CASE AskTarget
  <2>1. InFlight(advice) /\ advice.state = Null
    BY <1>7 DEF AskTarget, AdviceHeld
  <2>2. PICK y : y = [advice EXCEPT !.clean = {advice.target}]
    OBVIOUS
  <2>3. InFlight(y) /\ y.target \in y.clean
    BY <2>1, <2>2 DEF InFlight
  <2>4. ASSUME advice' = [advice EXCEPT !.pc = "latest", !.passed = {advice.target}]
        PROVE  AdviceHeld'
    <3>1. PICK x : x = advice'
      OBVIOUS
    <3>2. InFlight(x) /\ x.state = Null
      BY <2>1, <2>4, <3>1 DEF InFlight
    <3> QED
      BY <1>1, <3>1, <3>2, UpgradeConstants DEF Asked
  <2>5. \A state : state \in {"upgrade-unconfirmed", "no-clean-target"} =>
            (advice' = Row(advice, state) => AdviceHeld')
    BY <1>4, <2>1
  <2> QED
    BY <1>4, <1>7, <2>2, <2>3, <2>4, <2>5 DEF AskTarget
<1>8. CASE AskLatest
  <2>1. InFlight(advice)
    BY <1>8 DEF AskLatest, AdviceHeld
  <2>2. PICK y : y = [advice EXCEPT !.target = advice.latest, !.clean = {advice.latest}]
    OBVIOUS
  <2>3. InFlight(y) /\ y.target \in y.clean
    BY <2>1, <2>2 DEF InFlight
  <2> QED
    BY <1>4, <1>8, <2>1, <2>2, <2>3 DEF AskLatest
<1> QED
  BY <1>2, <1>3, <1>5, <1>6, <1>7, <1>8

LEMMA ReadyInitHolds == ReportsInit => ReadyInv
<1> SUFFICES ASSUME ReportsInit PROVE ReadyInv
  OBVIOUS
<1>1. AdviceHeld
  BY UpgradeConstants DEF ReportsInit, UpgradeInit, NoAdvice, AdviceHeld, Asked
<1>2. StoredHeld /\ run.pc = "idle"
  BY DEF ReportsInit, StoredHeld, IsEvidence, Resting
<1> QED
  BY <1>1, <1>2 DEF ReadyInv, IsRun

(* What happens between two runs, and what it leaves in the files.          *)
LEMMA MeanwhileKeeps == ASSUME ReadyInv, Meanwhile PROVE AdviceHeld' /\ StoredHeld'
<1>1. AdviceHeld /\ StoredHeld
  BY DEF ReadyInv
<1>2. ASSUME UNCHANGED stored PROVE StoredHeld'
  BY <1>1, <1>2 DEF StoredHeld, stored, IsEvidence, Asked
<1>3. ASSUME UNCHANGED advice PROVE AdviceHeld'
  BY <1>1, <1>3 DEF AdviceHeld, InFlight, Asked
<1>4. ASSUME AskNow \/ AskPublished \/ AskTarget \/ AskLatest \/ StartUpgrade \/ MoveFeed,
             UNCHANGED stored
      PROVE  AdviceHeld' /\ StoredHeld'
  BY <1>1, <1>2, <1>4, QuestionsKeep DEF MoveFeed
<1>5. ASSUME NEW dim \in Dims, NEW status, evidence' = Merged(dim, status),
             UNCHANGED <<eval, upgradeFile, today, advice>>
      PROVE  AdviceHeld' /\ StoredHeld'
  <2>1. PICK e, known : e = evidence' /\ known = IF evidence # Null /\ evidence.of = pin THEN evidence.dims ELSE <<>>
    OBVIOUS
  <2>2. /\ DOMAIN e.dims = DOMAIN known \cup {dim}
        /\ \A d \in DOMAIN e.dims :
              e.dims[d] = IF d = dim THEN [status |-> status, on |-> today] ELSE known[d]
    BY <1>5, <2>1 DEF Merged
  <2>3. DOMAIN known \subseteq Dims /\ \A d \in DOMAIN known : known[d].on \in Nat
    BY <1>1, <2>1 DEF StoredHeld, IsEvidence
  <2>4. IsEvidence(e)
    BY <1>1, <2>2, <2>3 DEF StoredHeld, IsEvidence
  <2> QED
    BY <1>1, <1>3, <1>5, <2>1, <2>4 DEF StoredHeld, IsEvidence, Asked
<1>10. CASE Verify \/ CheckAvailability
  BY <1>5, <1>10, FindingReportsConstants DEF Verify, CheckAvailability, adviceVars
<1>6. CASE Eval
  <2>1. eval'.on = today
    BY <1>6 DEF Eval
  <2>2. UNCHANGED <<evidence, upgradeFile, today, advice>>
    BY <1>6 DEF Eval, adviceVars
  <2> QED
    BY <1>1, <1>3, <2>1, <2>2 DEF StoredHeld, IsEvidence, Asked
<1>7. CASE ApplyRefresh \/ TouchDirectory
  BY <1>2, <1>3, <1>7 DEF ApplyRefresh, TouchDirectory, adviceVars
<1>8. CASE SaveUpgrade
  <2>1. upgradeFile' = advice /\ UNCHANGED <<evidence, eval, today, advice>>
    BY <1>8 DEF SaveUpgrade, adviceVars
  <2>2. Asked(advice)
    BY <1>1 DEF AdviceHeld
  <2> QED
    BY <1>1, <1>3, <2>1, <2>2 DEF StoredHeld, IsEvidence, Asked
<1>9. CASE NextDay
  <2>1. today' = today + 1 /\ UNCHANGED <<evidence, eval, upgradeFile, advice>>
    BY <1>9 DEF NextDay, adviceVars
  <2> QED
    BY <1>1, <1>3, <2>1 DEF StoredHeld, IsEvidence, Asked
<1> QED
  BY <1>4, <1>6, <1>7, <1>8, <1>9, <1>10 DEF Meanwhile

LEMMA ReadyStepKeeps == ReadyInv /\ [ReportsNext]_reportVars => ReadyInv'
<1> SUFFICES ASSUME ReadyInv, [ReportsNext]_reportVars PROVE ReadyInv'
  OBVIOUS
<1>1. AdviceHeld /\ StoredHeld /\ IsRun(run)
  BY DEF ReadyInv
<1>2. ASSUME UNCHANGED <<adviceVars, stored>> PROVE AdviceHeld' /\ StoredHeld'
  BY <1>1, <1>2 DEF AdviceHeld, StoredHeld, stored, adviceVars, InFlight, Asked, IsEvidence
<1>3. ASSUME NEW r, run' = r, IsRun(r), r.pc = "write" => \A d \in r.built : DraftIsCurrent(d),
             AdviceHeld' /\ StoredHeld'
      PROVE  ReadyInv'
  <2>1. \A d : DraftIsCurrent(d)' <=> DraftIsCurrent(d)
    BY DEF DraftIsCurrent, Target
  <2> QED
    BY <1>3, <2>1 DEF ReadyInv, IsRun
<1>4. CASE UNCHANGED reportVars
  BY <1>1, <1>2, <1>3, <1>4 DEF reportVars, stored, ReadyInv
<1>5. CASE StartReports
  <2>1. AdviceHeld' /\ StoredHeld'
    BY <1>2, <1>5 DEF StartReports
  <2>2. PICK r : r = [pc |-> "write", built |-> BuildReports, ours |-> Ours, left |-> DOMAIN dir,
                      todo |-> {d.name : d \in BuildReports}]
    OBVIOUS
  <2>3. r.built = BuildReports /\ IsRun(r)
    BY <2>2 DEF IsRun
  <2>4. \A d \in r.built : DraftIsCurrent(d)
    BY <1>1, <2>3, BuiltIsCurrent
  <2>5. run' = Resting \/ run' = r
    BY <1>5, <2>2 DEF StartReports
  <2> QED
    BY <1>3, <2>1, <2>3, <2>4, <2>5 DEF IsRun, Resting
<1>6. CASE RemoveOne \/ WriteDraft
  <2>1. AdviceHeld' /\ StoredHeld'
    BY <1>2, <1>6 DEF RemoveOne, WriteDraft
  <2>2. run.pc = "write"
    BY <1>6 DEF RemoveOne, WriteDraft
  <2>3. run = [pc |-> run.pc, built |-> run.built, ours |-> run.ours, left |-> run.left, todo |-> run.todo]
    BY <1>1, <2>2 DEF IsRun
  <2>4. PICK r : r = run'
    OBVIOUS
  <2>5. r.pc = "write" /\ r.built = run.built /\ IsRun(r)
    BY <1>6, <2>2, <2>3, <2>4 DEF RemoveOne, WriteDraft, IsRun
  <2> QED
    BY <1>3, <2>1, <2>2, <2>4, <2>5 DEF ReadyInv
<1>7. CASE WriteIndex \/ Kill
  BY <1>2, <1>3, <1>7 DEF WriteIndex, Kill, IsRun, Resting
<1>8. CASE Meanwhile
  <2>1. run' = run
    BY <1>8 DEF Meanwhile
  <2> QED
    BY <1>1, <1>3, <1>8, <2>1, MeanwhileKeeps DEF ReadyInv
<1> QED
  BY <1>4, <1>5, <1>6, <1>7, <1>8 DEF ReportsNext

(* A draft called ready is fresh; what it takes from the stored evidence is *)
(* about the release it names, or that the name is gone; its advisories are *)
(* the feed's answer about that release, and the release it points to was   *)
(* asked about.  What an eval saw may be of the release before              *)
(* (finding_reports.cjs findingsFor, buildReports).                         *)
THEOREM ReadyDraftsAreCurrent == ReportsSpec => []ReadyIsCurrent
<1>1. ReadyInv => ReadyIsCurrent
  BY DEF ReadyInv, ReadyIsCurrent, DraftIsCurrent
<1> QED
  BY <1>1, ReadyInitHolds, ReadyStepKeeps, PTL DEF ReportsSpec

-----------------------------------------------------------------------------
(***************************************************************************)
(* DirectoryIsKept.  Whenever an index can be read, each draft beside it   *)
(* is one it lists.  While a run writes, whatever of somebody else's is    *)
(* there has a name the index listed; what is no longer to be removed is   *)
(* what this run wrote, and the index is not among it.                     *)
(***************************************************************************)
DirHeld(c) ==
    ("index" \in DOMAIN c /\ c["index"].kind = "index") =>
        \A f \in DOMAIN c : c[f].kind = "draft" => c[f].draft \in c["index"].drafts

WriteHeld(r, c) ==
    r.pc = "write" =>
        /\ \A d \in r.built : d.name # "index"
        /\ r.todo \subseteq {d.name : d \in r.built}
        /\ \A f \in DOMAIN c : c[f] = Theirs => f \in r.ours
        /\ \A f \in DOMAIN c \ r.left :
              f # "index" /\ (c[f].kind = "draft" => c[f].draft \in r.built)

DirInv == IsRun(run) /\ DirHeld(dir) /\ WriteHeld(run, dir)

LEMMA DraftNames == ASSUME NEW d \in BuildReports PROVE d.name # "index"
<1>1. PICK n \in Names : d = Draft(n, Database[n], IF n = Entry THEN upgradeFile ELSE Null, today)
  BY DEF BuildReports, Database
<1>2. d.name = n
  BY <1>1 DEF Draft
<1> QED
  BY <1>2, FindingReportsConstants

LEMMA DirStepKeeps == DirInv /\ [ReportsNext]_reportVars => DirInv'
<1> SUFFICES ASSUME DirInv, [ReportsNext]_reportVars PROVE DirInv'
  OBVIOUS
<1>1. IsRun(run) /\ DirHeld(dir) /\ WriteHeld(run, dir)
  BY DEF DirInv
<1>2. ASSUME NEW r, run' = r, IsRun(r), NEW c, dir' = c, DirHeld(c), WriteHeld(r, c)
      PROVE  DirInv'
  BY <1>2 DEF DirInv, IsRun, DirHeld, WriteHeld, Theirs
<1>3. IsRun(Resting) /\ \A c : WriteHeld(Resting, c)
  BY DEF IsRun, WriteHeld, Resting
<1>4. CASE UNCHANGED <<run, dir>>
  BY <1>1, <1>2, <1>4
<1>5. CASE StartReports
  <2>1. dir' = dir
    BY <1>5 DEF StartReports
  <2>2. CASE run' = Resting
    BY <1>1, <1>2, <1>3, <2>1, <2>2
  <2>3. CASE run' # Resting
    <3>1. PICK r : r = run'
      OBVIOUS
    <3>2. /\ r = [pc |-> "write", built |-> BuildReports, ours |-> Ours, left |-> DOMAIN dir,
                  todo |-> {d.name : d \in BuildReports}]
          /\ DOMAIN dir = {} \/ (Readable /\ DOMAIN dir \ Ours = {})
      BY <1>5, <2>3, <3>1 DEF StartReports
    <3>3. /\ IsRun(r) /\ r.built = BuildReports /\ r.left = DOMAIN dir /\ r.ours = Ours
          /\ r.todo = {d.name : d \in BuildReports}
      BY <3>2 DEF IsRun
    <3>4. DOMAIN dir \subseteq Ours
      BY <3>2
    <3>5. WriteHeld(r, dir)
      BY <3>3, <3>4, DraftNames DEF WriteHeld
    <3> QED
      BY <1>1, <1>2, <2>1, <3>1, <3>3, <3>5
  <2> QED
    BY <2>2, <2>3
<1>6. ASSUME run.pc = "write"
      PROVE  run = [pc |-> "write", built |-> run.built, ours |-> run.ours, left |-> run.left, todo |-> run.todo]
  BY <1>1, <1>6 DEF IsRun
<1>7. CASE RemoveOne
  <2>1. PICK f \in run.left : /\ dir' = [g \in DOMAIN dir \ {f} |-> dir[g]]
                              /\ run' = [run EXCEPT !.left = @ \ {f}]
    BY <1>7 DEF RemoveOne
  <2>2. PICK c, r : c = dir' /\ r = run'
    OBVIOUS
  <2>3. run.pc = "write"
    BY <1>7 DEF RemoveOne
  <2>4. /\ IsRun(r) /\ r.pc = "write" /\ r.built = run.built /\ r.todo = run.todo
        /\ r.left = run.left \ {f} /\ r.ours = run.ours
    BY <1>6, <2>1, <2>2, <2>3 DEF IsRun
  <2>5. DOMAIN c = DOMAIN dir \ {f} /\ \A g \in DOMAIN c : c[g] = dir[g]
    BY <2>1, <2>2
  <2>6. DirHeld(c)
    BY <1>1, <2>5 DEF DirHeld
  <2>7. WriteHeld(r, c)
    BY <1>1, <2>3, <2>4, <2>5 DEF WriteHeld
  <2> QED
    BY <1>2, <2>2, <2>4, <2>6, <2>7
<1>9. ASSUME run.pc = "write", run.left = {} PROVE "index" \notin DOMAIN dir
  BY <1>1, <1>9 DEF WriteHeld
<1>10. CASE WriteDraft
  <2>1. PICK f \in run.todo : /\ dir' = With(f, DraftFile(CHOOSE d \in run.built : d.name = f))
                              /\ run' = [run EXCEPT !.todo = @ \ {f}]
    BY <1>10 DEF WriteDraft
  <2>2. run.pc = "write" /\ run.left = {}
    BY <1>10 DEF WriteDraft
  <2>3. PICK c, r, d : c = dir' /\ r = run' /\ d = CHOOSE x \in run.built : x.name = f
    OBVIOUS
  <2>4. d \in run.built /\ f # "index"
    BY <1>1, <2>1, <2>2, <2>3 DEF WriteHeld
  <2>5. /\ DOMAIN c = DOMAIN dir \cup {f} /\ c[f] = DraftFile(d)
        /\ \A g \in DOMAIN dir : g # f => c[g] = dir[g]
    BY <2>1, <2>3 DEF With
  <2>6. /\ IsRun(r) /\ r.pc = "write" /\ r.built = run.built /\ r.left = run.left
        /\ r.todo = run.todo \ {f} /\ r.ours = run.ours
    BY <1>6, <2>1, <2>2, <2>3 DEF IsRun
  <2>7. DirHeld(c)
    BY <1>9, <2>2, <2>4, <2>5 DEF DirHeld
  <2>8. DraftFile(d) # Theirs /\ DraftFile(d).draft = d
    BY DEF DraftFile, Theirs
  <2>9. WriteHeld(r, c)
    BY <1>1, <2>2, <2>4, <2>5, <2>6, <2>8 DEF WriteHeld
  <2> QED
    BY <1>2, <2>3, <2>6, <2>7, <2>9
<1>11. CASE WriteIndex
  <2>1. run.pc = "write" /\ run.left = {} /\ run' = Resting
    BY <1>11 DEF WriteIndex
  <2>2. PICK c : c = dir'
    OBVIOUS
  <2>3. /\ DOMAIN c = DOMAIN dir \cup {"index"} /\ c["index"] = IndexFile(run.built)
        /\ \A g \in DOMAIN dir : g # "index" => c[g] = dir[g]
    BY <1>11, <2>2 DEF WriteIndex, With
  <2>4. /\ c["index"].drafts = run.built /\ c["index"].kind = "index" /\ c["index"] # Theirs
    BY <2>3 DEF IndexFile, Theirs
  <2>5. DirHeld(c)
    BY <1>1, <2>1, <2>3, <2>4 DEF DirHeld, WriteHeld
  <2> QED
    BY <1>2, <1>3, <2>1, <2>2, <2>5
<1>12. CASE Kill
  <2>1. run.pc = "write" /\ run' = Resting
    BY <1>12 DEF Kill
  <2>2. CASE dir' = dir
    BY <1>1, <1>2, <1>3, <2>1, <2>2
  <2>3. ASSUME NEW f, run.left = {}, dir' = With(f, Torn) PROVE DirInv'
    <3>1. PICK c : c = dir'
      OBVIOUS
    <3>2. /\ DOMAIN c = DOMAIN dir \cup {f} /\ c[f] = Torn
          /\ \A g \in DOMAIN dir : g # f => c[g] = dir[g]
      BY <2>3, <3>1 DEF With
    <3>3. Torn.kind = "torn" /\ "index" \notin DOMAIN dir
      BY <1>9, <2>1, <2>3 DEF Torn
    <3>4. DirHeld(c)
      BY <3>2, <3>3 DEF DirHeld
    <3> QED
      BY <1>2, <1>3, <2>1, <3>1, <3>4
  <2> QED
    BY <1>12, <2>2, <2>3 DEF Kill
<1>13. CASE Meanwhile /\ dir' # dir
  <2>1. run.pc = "idle" /\ run' = run
    BY <1>13 DEF Meanwhile
  <2>2. TouchDirectory
    BY <1>13 DEF Meanwhile, Verify, CheckAvailability, Eval, ApplyRefresh, SaveUpgrade, NextDay
  <2>3. PICK c : c = dir'
    OBVIOUS
  <2>4. WriteHeld(run, c)
    BY <2>1 DEF WriteHeld
  <2>5. ASSUME NEW f, dir' = With(f, Theirs) PROVE DirHeld(c)
    <3>1. /\ DOMAIN c = DOMAIN dir \cup {f} /\ c[f] = Theirs
          /\ \A g \in DOMAIN dir : g # f => c[g] = dir[g]
      BY <2>3, <2>5 DEF With
    <3>2. Theirs.kind = "theirs"
      BY DEF Theirs
    <3> QED
      BY <1>1, <3>1, <3>2 DEF DirHeld
  <2>6. ASSUME dir' = <<>> PROVE DirHeld(c)
    BY <2>3, <2>6 DEF DirHeld
  <2> QED
    BY <1>1, <1>2, <2>1, <2>2, <2>3, <2>4, <2>5, <2>6 DEF TouchDirectory
<1>14. Meanwhile => UNCHANGED run
  BY DEF Meanwhile
<1> QED
  BY <1>4, <1>5, <1>7, <1>10, <1>11, <1>12, <1>13, <1>14 DEF ReportsNext, reportVars

LEMMA DirInvariant == ReportsSpec => []DirInv
<1>1. ReportsInit => DirInv
  BY DEF ReportsInit, DirInv, IsRun, DirHeld, WriteHeld, Resting
<1> QED
  BY <1>1, DirStepKeeps, PTL DEF ReportsSpec

(* Whenever an index can be read, the drafts beside it are those it lists,  *)
(* after any number of kills; and no step of a run removes or replaces      *)
(* somebody's file under a name no index listed (writeReports).             *)
THEOREM DirectoryKept == ReportsSpec => DirectoryIsKept
<1>1. DirInv /\ [ReportsNext]_reportVars =>
        [/\ (Readable /\ run.pc = "idle") =>
              \A f \in DOMAIN dir : dir[f].kind = "draft" => dir[f].draft \in Listed
         /\ run.pc = "write" =>
              \A f \in DOMAIN dir \ run.ours : dir[f] = Theirs => Kept(f)]_reportVars
  BY DEF DirInv, DirHeld, WriteHeld, Readable, Listed
<1> QED
  BY <1>1, DirInvariant, PTL DEF ReportsSpec, DirectoryIsKept

-----------------------------------------------------------------------------
(***************************************************************************)
(* UpgradeIsConfirmed, of one run's record r.  A version reaches if it may *)
(* be recommended: it is past every fix.  Once a target is chosen it is    *)
(* the least that reaches, of what the registry listed, and the latest     *)
(* reaches as well; the shorter move a run passes over is that target.     *)
(***************************************************************************)
Reaches(r, v) ==
    /\ v # Odd /\ ~IsPrerelease(Ecosystem, v)
    /\ \A f \in FixedVersions(r.vulns) : Comparator(Ecosystem, v, f) >= 0

Shorter(r, v) == {w \in r.listed : Reaches(r, w) /\ Comparator(Ecosystem, w, v) < 0}

Confirmed(r) ==
    /\ r.state = "clear" => r.current \in r.clean
    /\ r.state = "upgrade" =>
          /\ r.target \in r.clean \cap r.listed
          /\ Reaches(r, r.target)
          /\ Shorter(r, r.target) # {} =>
                \E w \in r.passed \cap Shorter(r, r.target) : Shorter(r, w) = {}

TargetHeld(r) ==
    /\ \A v \in r.listed : v = Odd \/ IsVersion(Ecosystem, v)
    /\ r.target \in r.listed /\ Reaches(r, r.target)
    /\ \A w \in r.listed : Reaches(r, w) => Comparator(Ecosystem, r.target, w) <= 0
    /\ r.latest # Null => r.latest \in r.listed /\ Reaches(r, r.latest)

AdviceSound(r) ==
    /\ r.pc # "idle" => InFlight(r)
    /\ r.pc # "done" => r.state = Null
    /\ r.pc = "list" => r.vulns \subseteq DOMAIN Fixes /\ IsFiniteSet(r.vulns)
    /\ r.pc \in {"target", "latest"} => TargetHeld(r)
    /\ r.pc = "latest" => r.passed = {r.target} /\ r.latest # Null
    /\ Confirmed(r)

UpgradeInv == feed \in Feeds /\ published \in Published /\ AdviceSound(advice)

LEMMA StateIs == ASSUME NEW r, r.state = Null PROVE Confirmed(r)
  BY UpgradeConstants DEF Confirmed

(* A row that recommends nothing. *)
LEMMA OtherRow ==
    ASSUME NEW r, InFlight(r), NEW state, state \notin {"clear", "upgrade"}
    PROVE  AdviceSound(Row(r, state))
<1>1. PICK x : x = Row(r, state)
  OBVIOUS
<1>2. x = [pc |-> "done", state |-> state, current |-> r.current,
           vulns |-> r.vulns, listed |-> r.listed, target |-> r.target,
           latest |-> r.latest, clean |-> r.clean, passed |-> r.passed]
  BY <1>1, RowIs
<1>3. x.pc = "done" /\ x.state = state /\ InFlight(x)
  BY <1>2 DEF InFlight
<1> QED
  BY <1>1, <1>3 DEF AdviceSound, Confirmed

(* Nothing shorter reaches than the target. *)
LEMMA TargetIsLeast == ASSUME NEW r, TargetHeld(r) PROVE Shorter(r, r.target) = {}
<1> SUFFICES ASSUME NEW w \in Shorter(r, r.target) PROVE FALSE
  OBVIOUS
<1>1. w \in r.listed /\ Reaches(r, w) /\ Comparator(Ecosystem, w, r.target) < 0
  BY DEF Shorter
<1>2. Comparator(Ecosystem, r.target, w) <= 0
  BY <1>1 DEF TargetHeld
<1>3. IsVersion(Ecosystem, w) /\ IsVersion(Ecosystem, r.target) /\ Ecosystem \in Ecosystems
  BY <1>1, UpgradeConstants DEF TargetHeld, Reaches, Ecosystems
<1>4. /\ Comparator(Ecosystem, w, r.target) \in Signs
      /\ Comparator(Ecosystem, w, r.target) = -Comparator(Ecosystem, r.target, w)
  BY <1>3, ComparatorSigns
<1>5. Comparator(Ecosystem, r.target, w) \in Signs
  BY <1>3, ComparatorSigns
<1> QED
  BY <1>1, <1>2, <1>4, <1>5 DEF Signs

(* A row that recommends what was asked about: the target, or the latest.   *)
LEMMA TargetRow ==
    ASSUME NEW r, InFlight(r), TargetHeld(r)
    PROVE  AdviceSound(Row([r EXCEPT !.clean = {r.target}], "upgrade"))
<1>1. PICK y : y = [r EXCEPT !.clean = {r.target}]
  OBVIOUS
<1>2. /\ InFlight(y)
      /\ y = [pc |-> r.pc, state |-> r.state, current |-> r.current,
              vulns |-> r.vulns, listed |-> r.listed, target |-> r.target,
              latest |-> r.latest, clean |-> {r.target}, passed |-> r.passed]
  BY <1>1 DEF InFlight
<1>3. PICK x : x = Row(y, "upgrade")
  OBVIOUS
<1>4. x = [pc |-> "done", state |-> "upgrade", current |-> r.current,
           vulns |-> r.vulns, listed |-> r.listed, target |-> r.target,
           latest |-> r.latest, clean |-> {r.target}, passed |-> r.passed]
  BY <1>2, <1>3, RowIs
<1>5. /\ InFlight(x) /\ x.pc = "done" /\ x.state = "upgrade"
      /\ x.target = r.target /\ x.clean = {r.target} /\ x.listed = r.listed /\ x.vulns = r.vulns
  BY <1>4 DEF InFlight
<1>6. \A v : Reaches(x, v) <=> Reaches(r, v)
  BY <1>5 DEF Reaches
<1>7. Shorter(x, x.target) = Shorter(r, r.target)
  BY <1>5, <1>6 DEF Shorter
<1>8. Confirmed(x)
  BY <1>5, <1>6, <1>7, TargetIsLeast DEF Confirmed, TargetHeld
<1> QED
  BY <1>1, <1>3, <1>5, <1>8 DEF AdviceSound

LEMMA LatestRow ==
    ASSUME NEW r, InFlight(r), TargetHeld(r), r.passed = {r.target}, r.latest # Null
    PROVE  AdviceSound(Row([r EXCEPT !.target = r.latest, !.clean = {r.latest}], "upgrade"))
<1>1. PICK y : y = [r EXCEPT !.target = r.latest, !.clean = {r.latest}]
  OBVIOUS
<1>2. /\ InFlight(y)
      /\ y = [pc |-> r.pc, state |-> r.state, current |-> r.current,
              vulns |-> r.vulns, listed |-> r.listed, target |-> r.latest,
              latest |-> r.latest, clean |-> {r.latest}, passed |-> r.passed]
  BY <1>1 DEF InFlight
<1>3. PICK x : x = Row(y, "upgrade")
  OBVIOUS
<1>4. x = [pc |-> "done", state |-> "upgrade", current |-> r.current,
           vulns |-> r.vulns, listed |-> r.listed, target |-> r.latest,
           latest |-> r.latest, clean |-> {r.latest}, passed |-> r.passed]
  <2>1. /\ y.current = r.current /\ y.vulns = r.vulns /\ y.listed = r.listed
        /\ y.target = r.latest /\ y.latest = r.latest
        /\ y.clean = {r.latest} /\ y.passed = r.passed
    BY <1>2
  <2>2. x = [pc |-> "done", state |-> "upgrade", current |-> y.current,
             vulns |-> y.vulns, listed |-> y.listed, target |-> y.target,
             latest |-> y.latest, clean |-> y.clean, passed |-> y.passed]
    BY <1>2, <1>3, RowIs
  <2> QED
    BY <2>1, <2>2
<1>5. /\ InFlight(x) /\ x.pc = "done" /\ x.state = "upgrade" /\ x.passed = {r.target}
      /\ x.target = r.latest /\ x.clean = {r.latest} /\ x.listed = r.listed /\ x.vulns = r.vulns
  BY <1>4 DEF InFlight
<1>6. \A v : Reaches(x, v) <=> Reaches(r, v)
  BY <1>5 DEF Reaches
<1>7. \A v : Shorter(x, v) = Shorter(r, v)
  BY <1>5, <1>6 DEF Shorter
<1>8. Shorter(r, r.target) = {}
  BY TargetIsLeast
<1>9. Shorter(r, r.latest) # {} => r.target \in Shorter(r, r.latest)
  <2>1. SUFFICES ASSUME NEW w \in Shorter(r, r.latest) PROVE r.target \in Shorter(r, r.latest)
    OBVIOUS
  <2>2. w \in r.listed /\ Reaches(r, w) /\ Comparator(Ecosystem, w, r.latest) < 0
    BY DEF Shorter
  <2>3. Comparator(Ecosystem, r.target, w) <= 0
    BY <2>2 DEF TargetHeld
  <2>4. /\ IsVersion(Ecosystem, w) /\ IsVersion(Ecosystem, r.target)
        /\ IsVersion(Ecosystem, r.latest) /\ Ecosystem \in Ecosystems
    BY <2>2, UpgradeConstants DEF TargetHeld, Reaches, Ecosystems
  <2>5. Triangle(Comparator(Ecosystem, r.target, w), Comparator(Ecosystem, w, r.latest),
                 Comparator(Ecosystem, r.target, r.latest))
    BY <2>4, ComparatorOrders
  <2>6. Comparator(Ecosystem, r.target, r.latest) < 0
    BY <2>2, <2>3, <2>5 DEF Triangle, Signs
  <2> QED
    BY <2>6 DEF Shorter, TargetHeld
<1>10. Confirmed(x)
  BY <1>5, <1>6, <1>7, <1>8, <1>9 DEF Confirmed, TargetHeld
<1> QED
  BY <1>1, <1>3, <1>5, <1>10 DEF AdviceSound

(* The fixes that apply are finitely many, each read or Odd.                *)
LEMMA FixesAre ==
    ASSUME NEW vulns, vulns \subseteq DOMAIN Fixes, IsFiniteSet(vulns)
    PROVE  /\ IsFiniteSet(FixedVersions(vulns))
           /\ \A v \in FixedVersions(vulns) : v = Odd \/ IsVersion(Ecosystem, v)
<1> DEFINE named == {Fixes[a] : a \in vulns}
<1>1. IsFiniteSet(named)
  <2> DEFINE fixOf == [a \in vulns |-> Fixes[a]]
  <2>1. fixOf \in Surjection(vulns, named)
    BY DEF Surjection
  <2> QED
    BY <2>1, FS_Surjection
<1>2. \A s \in named : IsFiniteSet(s)
  BY UpgradeConstants
<1>3. IsFiniteSet(UNION named)
  BY <1>1, <1>2, FS_UNION
<1>4. \A v \in UNION named : v = Odd \/ IsVersion(Ecosystem, v)
  BY UpgradeConstants
<1> QED
  BY <1>3, <1>4 DEF FixedVersions

(* What is planned from a list of the registry.                             *)
LEMMA PlanSound ==
    ASSUME NEW r, InFlight(r), r.state = Null, r.vulns \subseteq DOMAIN Fixes,
           IsFiniteSet(r.vulns), NEW listed \in Published
    PROVE  AdviceSound(PlanUpgrade(r, listed))
<1> DEFINE targets == FixedVersions(r.vulns)
           needed == MaxVersion(Ecosystem, SetToSeq(targets))
           near == Candidates(listed, needed)
           final == {v \in listed : ~IsPrerelease(Ecosystem, v)}
           latest == MaxVersion(Ecosystem, SetToSeq(final))
           target == Shortest(near)
<1>1. CASE targets = {} \/ Odd \in targets \/ near = {}
  <2>1. PlanUpgrade(r, listed) \in {Row(r, "no-fix"), Row(r, "unknown")}
    BY <1>1 DEF PlanUpgrade
  <2> QED
    BY <2>1, OtherRow
<1>2. CASE targets # {} /\ Odd \notin targets /\ near # {}
  <2>1. /\ Ecosystem \in Ecosystems /\ IsFiniteSet(listed)
        /\ \A v \in listed : v = Odd \/ IsVersion(Ecosystem, v)
    BY UpgradeConstants DEF Ecosystems
  <2>2. IsFiniteSet(targets) /\ \A v \in targets : IsVersion(Ecosystem, v)
    BY <1>2, FixesAre
  <2>3. needed \in targets /\ \A f \in targets : Comparator(Ecosystem, needed, f) >= 0
    BY <1>2, <2>1, <2>2, MaxOfVersions
  <2> DEFINE reaches(v) == /\ v # Odd /\ ~IsPrerelease(Ecosystem, v)
                           /\ \A f \in targets : Comparator(Ecosystem, v, f) >= 0
  <2>4. ASSUME NEW v, IsVersion(Ecosystem, v), Comparator(Ecosystem, v, needed) >= 0
        PROVE  \A f \in targets : Comparator(Ecosystem, v, f) >= 0
    <3> TAKE f \in targets
    <3>1. Triangle(Comparator(Ecosystem, v, needed), Comparator(Ecosystem, needed, f),
                   Comparator(Ecosystem, v, f))
      BY <2>1, <2>2, <2>3, <2>4, ComparatorOrders
    <3>2. Comparator(Ecosystem, needed, f) >= 0
      BY <2>3
    <3> QED
      BY <2>4, <3>1, <3>2 DEF Triangle, Signs
  <2>5. \A v \in listed : v \in near <=> reaches(v)
    <3> TAKE v \in listed
    <3>1. v \in near => reaches(v)
      BY <2>1, <2>4 DEF Candidates
    <3>2. reaches(v) => v \in near
      BY <2>3 DEF Candidates
    <3> QED
      BY <3>1, <3>2
  <2>6. near \subseteq listed /\ IsFiniteSet(near) /\ \A v \in near : IsVersion(Ecosystem, v)
    BY <2>1, FS_Subset DEF Candidates
  <2>7. target \in near /\ \A w \in near : Comparator(Ecosystem, target, w) <= 0
    <3>1. \E v \in near : \A w \in near : Comparator(Ecosystem, v, w) <= 0
      BY <1>2, <2>1, <2>6, LeastVersion
    <3> QED
      BY <3>1 DEF Shortest
  <2>8. ASSUME latest # Null PROVE latest \in listed /\ reaches(latest)
    <3>1. near \subseteq final /\ final \subseteq listed /\ IsFiniteSet(final)
      BY <2>1, FS_Subset DEF Candidates
    <3>2. target \in final /\ target # Odd
      BY <2>5, <2>6, <2>7, <3>1
    <3>3. /\ Odd \notin final /\ latest \in final
          /\ \A v \in final : Comparator(Ecosystem, latest, v) >= 0
      <4>1. final # {Odd} /\ final # {}
        BY <3>2
      <4>2. \A v \in final : v = Odd \/ IsVersion(Ecosystem, v)
        BY <2>1
      <4> HIDE DEF final
      <4> QED
        BY <2>1, <2>8, <3>1, <4>1, <4>2, MaxOfSet
    <3>4. IsVersion(Ecosystem, latest)
      BY <2>1, <3>1, <3>3
    <3>5. \A f \in targets : Comparator(Ecosystem, latest, f) >= 0
      <4> TAKE f \in targets
      <4>1. IsVersion(Ecosystem, target) /\ IsVersion(Ecosystem, f)
        BY <2>2, <2>6, <2>7
      <4>2. Triangle(Comparator(Ecosystem, latest, target), Comparator(Ecosystem, target, f),
                     Comparator(Ecosystem, latest, f))
        BY <2>1, <3>4, <4>1, ComparatorOrders
      <4>3. Comparator(Ecosystem, latest, target) >= 0 /\ Comparator(Ecosystem, target, f) >= 0
        BY <2>5, <2>6, <2>7, <3>2, <3>3
      <4> QED
        BY <4>2, <4>3 DEF Triangle, Signs
    <3>6. latest # Odd /\ ~IsPrerelease(Ecosystem, latest) /\ latest \in listed
      BY <3>3
    <3> QED
      BY <3>5, <3>6
  <2> HIDE DEF near, target, latest, final, needed
  <2>9. PICK x : x = PlanUpgrade(r, listed)
    OBVIOUS
  <2>10. x = [r EXCEPT !.pc = "target", !.listed = listed, !.target = target, !.latest = latest]
    BY <1>2, <2>9 DEF PlanUpgrade, near, target, latest, final, needed
  <2>11. x = [pc |-> "target", state |-> r.state, current |-> r.current,
              vulns |-> r.vulns, listed |-> listed, target |-> target,
              latest |-> latest, clean |-> r.clean, passed |-> r.passed]
    BY <2>10 DEF InFlight
  <2>12. /\ InFlight(x) /\ x.pc = "target" /\ x.state = Null /\ x.vulns = r.vulns
         /\ x.listed = listed /\ x.target = target /\ x.latest = latest
    BY <2>11 DEF InFlight
  <2>13. \A v : Reaches(x, v) <=> reaches(v)
    BY <2>12 DEF Reaches
  <2>14. TargetHeld(x)
    BY <2>1, <2>5, <2>6, <2>7, <2>8, <2>12, <2>13 DEF TargetHeld
  <2> QED
    BY <2>9, <2>12, <2>14, StateIs DEF AdviceSound
<1> QED
  BY <1>1, <1>2

LEMMA UpgradeInitHolds == UpgradeInit => UpgradeInv
  BY UpgradeConstants DEF UpgradeInit, UpgradeInv, NoAdvice, AdviceSound, Confirmed

LEMMA UpgradeStepHolds == UpgradeInv /\ [UpgradeNext]_adviceVars => UpgradeInv'
<1> SUFFICES ASSUME UpgradeInv, [UpgradeNext]_adviceVars PROVE UpgradeInv'
  OBVIOUS
<1>1. feed \in Feeds /\ published \in Published /\ AdviceSound(advice)
  BY DEF UpgradeInv
<1>2. ASSUME NEW x, advice' = x, AdviceSound(x), UNCHANGED <<feed, published>> PROVE UpgradeInv'
  BY <1>1, <1>2 DEF UpgradeInv
<1>3. CASE StartUpgrade
  <2>1. PICK x : x = advice'
    OBVIOUS
  <2>2. x = [pc |-> "now", state |-> Null, current |-> pin, vulns |-> {}, listed |-> {},
             target |-> Null, latest |-> Null, clean |-> {}, passed |-> {}]
    BY <1>3, <2>1 DEF StartUpgrade
  <2>3. InFlight(x) /\ x.pc = "now" /\ x.state = Null
    BY <2>2 DEF InFlight
  <2>4. AdviceSound(x)
    BY <2>3, StateIs DEF AdviceSound
  <2> QED
    BY <1>2, <1>3, <2>1, <2>4 DEF StartUpgrade
<1>4. CASE AskNow
  <2>1. InFlight(advice) /\ advice.state = Null /\ UNCHANGED <<feed, published>>
    BY <1>1, <1>4 DEF AskNow, AdviceSound
  <2>2. CASE advice' = Row([advice EXCEPT !.vulns = Null], "unknown")
    <3>1. InFlight([advice EXCEPT !.vulns = Null])
      BY <2>1 DEF InFlight
    <3> QED
      BY <1>2, <2>1, <2>2, <3>1, OtherRow
  <2>3. CASE advice' = Row([advice EXCEPT !.clean = {advice.current}], "clear")
    <3>1. PICK y : y = [advice EXCEPT !.clean = {advice.current}]
      OBVIOUS
    <3>2. InFlight(y) /\ y.current \in y.clean
      BY <2>1, <3>1 DEF InFlight
    <3>3. PICK x : x = Row(y, "clear")
      OBVIOUS
    <3>4. x = [pc |-> "done", state |-> "clear", current |-> y.current,
               vulns |-> y.vulns, listed |-> y.listed, target |-> y.target,
               latest |-> y.latest, clean |-> y.clean, passed |-> y.passed]
      BY <3>2, <3>3, RowIs
    <3>5. InFlight(x) /\ x.pc = "done" /\ x.state = "clear" /\ x.current \in x.clean
      BY <3>2, <3>4 DEF InFlight
    <3>6. AdviceSound(x)
      BY <3>5 DEF AdviceSound, Confirmed
    <3> QED
      BY <1>2, <2>1, <2>3, <3>1, <3>3, <3>6
  <2>4. CASE advice' = [advice EXCEPT !.pc = "list", !.vulns = OsvFor(advice.current)]
    <3>1. PICK x : x = advice'
      OBVIOUS
    <3>2. x = [pc |-> "list", state |-> advice.state, current |-> advice.current,
               vulns |-> OsvFor(advice.current), listed |-> advice.listed,
               target |-> advice.target, latest |-> advice.latest,
               clean |-> advice.clean, passed |-> advice.passed]
      BY <2>1, <2>4, <3>1 DEF InFlight
    <3>3. InFlight(x) /\ x.pc = "list" /\ x.state = Null /\ x.vulns = OsvFor(advice.current)
      BY <2>1, <3>2 DEF InFlight
    <3>4. OsvFor(advice.current) \subseteq DOMAIN feed
      BY DEF OsvFor
    <3>5. DOMAIN feed \subseteq DOMAIN Fixes /\ IsFiniteSet(DOMAIN feed)
      BY <1>1, UpgradeConstants
    <3>6. x.vulns \subseteq DOMAIN Fixes /\ IsFiniteSet(x.vulns)
      BY <3>3, <3>4, <3>5, FS_Subset
    <3>7. AdviceSound(x)
      BY <3>3, <3>6, StateIs DEF AdviceSound
    <3> QED
      BY <1>2, <2>1, <3>1, <3>7
  <2> QED
    BY <1>4, <2>2, <2>3, <2>4 DEF AskNow
<1>5. CASE AskPublished
  <2>1. /\ InFlight(advice) /\ advice.state = Null /\ UNCHANGED <<feed, published>>
        /\ advice.vulns \subseteq DOMAIN Fixes /\ IsFiniteSet(advice.vulns)
    BY <1>1, <1>5 DEF AskPublished, AdviceSound
  <2>2. CASE advice' = Row(advice, "unknown")
    BY <1>2, <2>1, <2>2, OtherRow
  <2>3. CASE advice' = PlanUpgrade(advice, published)
    BY <1>1, <1>2, <2>1, <2>3, PlanSound
  <2> QED
    BY <1>5, <2>2, <2>3 DEF AskPublished
<1>6. CASE AskTarget
  <2>1. /\ InFlight(advice) /\ advice.state = Null /\ UNCHANGED <<feed, published>>
        /\ TargetHeld(advice)
    BY <1>1, <1>6 DEF AskTarget, AdviceSound
  <2>2. CASE advice' \in {Row(advice, "upgrade-unconfirmed"), Row(advice, "no-clean-target")}
    BY <1>2, <2>1, <2>2, OtherRow
  <2>3. CASE advice' = Row([advice EXCEPT !.clean = {advice.target}], "upgrade")
    BY <1>2, <2>1, <2>3, TargetRow
  <2>4. CASE /\ advice' = [advice EXCEPT !.pc = "latest", !.passed = {advice.target}]
             /\ advice.latest # Null
    <3>1. PICK x : x = advice'
      OBVIOUS
    <3>2. x = [pc |-> "latest", state |-> advice.state, current |-> advice.current,
               vulns |-> advice.vulns, listed |-> advice.listed,
               target |-> advice.target, latest |-> advice.latest,
               clean |-> advice.clean, passed |-> {advice.target}]
      BY <2>1, <2>4, <3>1 DEF InFlight
    <3>3. /\ InFlight(x) /\ x.pc = "latest" /\ x.state = Null /\ x.passed = {x.target}
          /\ x.vulns = advice.vulns /\ x.listed = advice.listed
          /\ x.target = advice.target /\ x.latest = advice.latest /\ x.latest # Null
      BY <2>1, <2>4, <3>2 DEF InFlight
    <3>4. TargetHeld(x)
      BY <2>1, <3>3 DEF TargetHeld, Reaches
    <3>5. AdviceSound(x)
      BY <3>3, <3>4, StateIs DEF AdviceSound
    <3> QED
      BY <1>2, <2>1, <3>1, <3>5
  <2> QED
    BY <1>6, <2>2, <2>3, <2>4 DEF AskTarget
<1>7. CASE AskLatest
  <2>1. /\ InFlight(advice) /\ advice.state = Null /\ UNCHANGED <<feed, published>>
        /\ TargetHeld(advice) /\ advice.passed = {advice.target} /\ advice.latest # Null
    BY <1>1, <1>7 DEF AskLatest, AdviceSound
  <2>2. CASE advice' = Row(advice, "no-clean-target")
    BY <1>2, <2>1, <2>2, OtherRow
  <2>3. CASE advice' = Row([advice EXCEPT !.target = advice.latest, !.clean = {advice.latest}],
                           "upgrade")
    BY <1>2, <2>1, <2>3, LatestRow
  <2> QED
    BY <1>7, <2>2, <2>3 DEF AskLatest
<1>8. CASE MoveFeed
  BY <1>1, <1>8 DEF MoveFeed, UpgradeInv
<1>9. CASE UNCHANGED adviceVars
  BY <1>1, <1>9 DEF adviceVars, UpgradeInv
<1> QED
  BY <1>3, <1>4, <1>5, <1>6, <1>7, <1>8, <1>9 DEF UpgradeNext

(***************************************************************************)
(* Whatever the feed and the registry say, and however they move between   *)
(* the questions: a release is recommended only when it was listed, is     *)
(* past every fix an applying advisory names and was asked about itself,   *)
(* and a shorter move is passed over only for advisories of its own.       *)
(* (suggest_upgrade.cjs: planUpgrade, checkEntry.)                         *)
(***************************************************************************)
THEOREM OnlyTheConfirmed == UpgradeSpec => []UpgradeIsConfirmed
<1>1. UpgradeInv => UpgradeIsConfirmed
  BY DEF UpgradeInv, AdviceSound, Confirmed, UpgradeIsConfirmed, Shorter, Reaches
<1> QED
  BY <1>1, UpgradeInitHolds, UpgradeStepHolds, PTL DEF UpgradeSpec

(* The same of a run that drafts are built beside, which saves the row and  *)
(* moves the pin.  (finding_reports.cjs reads what `upgrade --json` wrote.) *)
THEOREM OnlyTheConfirmedIsReported == ReportsSpec => []UpgradeIsConfirmed
<1>1. ReportsInit => UpgradeInv
  BY UpgradeInitHolds DEF ReportsInit
<1>2. UpgradeInv /\ [ReportsNext]_reportVars => UpgradeInv'
  <2> SUFFICES ASSUME UpgradeInv, [ReportsNext]_reportVars PROVE UpgradeInv'
    OBVIOUS
  <2>1. CASE UpgradeNext
    BY <2>1, UpgradeStepHolds
  <2>2. CASE UNCHANGED <<feed, published, advice>>
    BY <2>2 DEF UpgradeInv
  <2>3. CASE StartReports \/ RemoveOne \/ WriteDraft \/ WriteIndex \/ Kill
    <3>1. UNCHANGED adviceVars
      BY <2>3 DEF StartReports, RemoveOne, WriteDraft, WriteIndex, Kill
    <3> QED
      BY <2>2, <3>1 DEF adviceVars
  <2>4. CASE Verify \/ CheckAvailability \/ Eval \/ ApplyRefresh \/ SaveUpgrade \/ NextDay \/ TouchDirectory
    <3>1. UNCHANGED adviceVars \/ UNCHANGED <<feed, published, advice>>
      BY <2>4 DEF Verify, CheckAvailability, Eval, ApplyRefresh, SaveUpgrade, NextDay, TouchDirectory
    <3> QED
      BY <2>2, <3>1 DEF adviceVars
  <2>5. CASE UNCHANGED reportVars
    BY <2>2, <2>5 DEF reportVars, adviceVars
  <2> QED
    BY <2>1, <2>3, <2>4, <2>5 DEF ReportsNext, Meanwhile, UpgradeNext
<1>3. UpgradeInv => UpgradeIsConfirmed
  BY DEF UpgradeInv, AdviceSound, Confirmed, UpgradeIsConfirmed, Shorter, Reaches
<1> QED
  BY <1>1, <1>2, <1>3, PTL DEF ReportsSpec
=============================================================================
