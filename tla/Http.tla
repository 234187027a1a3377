-------------------------------- MODULE Http --------------------------------
(***************************************************************************)
(* scripts/lib/http.cjs: one GET with retries, revalidation by ETag and a  *)
(* cache on disk that every process of the user shares.                    *)
(*                                                                         *)
(* A request reads the cache once, when it starts.  Transport is external: *)
(* an exchange takes less than one tick of the clock (its time limit is    *)
(* 10 s, a cache entry lives for minutes), a server that still serves what *)
(* it was asked to confirm may answer 304 (a server that sends no ETag     *)
(* never does), and a response may be cut short.                           *)
(* Redirects, which only the GitHub lookups follow, are not modelled.      *)
(*                                                                         *)
(* `last` is a history variable: when each url last had each content.      *)
(***************************************************************************)
EXTENDS Integers

CONSTANTS
    Procs,      \* requests that may be under way at once
    Urls,
    Bodies,     \* what a url may serve
    Absent,     \* the content of a url that answers 404
    Retries,    \* attempts after the first
    Ttl,        \* how long a cached body is fresh, in ticks
    MaxTime     \* bound on the clock

ASSUME HttpConstants ==
    /\ Absent \notin Bodies
    /\ Retries \in Nat /\ Ttl \in Nat \ {0} /\ MaxTime \in Nat

VARIABLES
    now,
    doc,        \* [Urls -> Bodies \cup {Absent}]: what the server has
    last,       \* history: [Urls -> [content -> tick it was last served]]
    cache,      \* [Urls -> record or NoRecord]: the files under http/
    req         \* [Procs -> the request a process has under way]

httpVars == <<now, doc, last, cache, req>>

Contents == Bodies \cup {Absent}
Never    == -1
NoRecord == [stored_at |-> Never]

CacheRecords == [stored_at : Nat, body : Bodies]

NoRequest == [phase |-> "none"]

(* What `once` resolves with, as far as `request` tells answers apart.      *)
(* "transient" is no status, 403, 429 or 5xx; "refused" any other status    *)
(* that is neither 2xx, 304 nor 404; "garbled" a 2xx that is not JSON.      *)
Responses ==
    [kind : {"ok"}, body : Bodies] \cup
    [kind : {"unmodified", "absent", "transient", "refused", "garbled"}]

ShouldRetry(res) == res.kind = "transient"

(* Mutant of CacheFresh: fresh for one tick too long.                       *)
CacheFreshLate(record) == record # NoRecord /\ now - record.stored_at <= Ttl

CacheFresh(record) == record # NoRecord /\ now - record.stored_at < Ttl

-----------------------------------------------------------------------------
(* The result of a request. *)

Results ==
    [ok : {TRUE}, body : Bodies, stale : BOOLEAN] \cup
    [ok : {FALSE}, status : {"absent", "transient", "refused", "garbled"}]

Answered(body) == [ok |-> TRUE, body |-> body, stale |-> FALSE]
Outdated(body) == [ok |-> TRUE, body |-> body, stale |-> TRUE]
Failed(status) == [ok |-> FALSE, status |-> status]

(* Mutant of GiveUp: "the caller is told which" is forgotten.               *)
GiveUpSilently(r) == IF r.cached # NoRecord THEN Answered(r.cached.body)
                     ELSE Failed(r.response.kind)

(* After the last attempt: a stale cache entry beats nothing at all.        *)
GiveUp(r) == IF r.cached # NoRecord THEN Outdated(r.cached.body)
             ELSE Failed(r.response.kind)

-----------------------------------------------------------------------------
(* The cache of an earlier run may be there. *)
HttpInit ==
    /\ now = 0
    /\ doc \in [Urls -> Contents]
    /\ last = [u \in Urls |-> [c \in Contents |-> IF doc[u] = c THEN 0 ELSE Never]]
    /\ cache \in [Urls -> {NoRecord} \cup [stored_at : {0}, body : Bodies]]
    /\ \A u \in Urls : cache[u] # NoRecord => cache[u].body = doc[u]
    /\ req = [p \in Procs |-> NoRequest]

InExchange(p) == req[p].phase = "responded"

Tick ==
    /\ now < MaxTime
    /\ \A p \in Procs : ~InExchange(p)
    /\ now' = now + 1
    /\ last' = [u \in Urls |-> [last[u] EXCEPT ![doc[u]] = now + 1]]
    /\ UNCHANGED <<doc, cache, req>>

(* The registry publishes, marks or removes (external).                     *)
ServerSets(content) ==
    /\ content # doc
    /\ doc' = content
    /\ last' = [u \in Urls |-> [last[u] EXCEPT ![content[u]] = now]]
    /\ UNCHANGED <<now, cache, req>>

Sending(u, cached) ==
    [phase |-> "sending", url |-> u, started |-> now, cached |-> cached,
     attempt |-> 0]

Finished(p, u, started, result) ==
    req' = [req EXCEPT ![p] = [phase |-> "done", url |-> u,
                               started |-> started, result |-> result]]

(* request(): the cache is read once; a fresh record is the answer.         *)
Request(p, u) ==
    LET cached == cache[u]
    IN  /\ IF CacheFresh(cached)
           THEN Finished(p, u, now, Answered(cached.body))
           ELSE req' = [req EXCEPT ![p] = Sending(u, cached)]
        /\ UNCHANGED <<now, doc, last, cache>>

(* What a server may answer to one attempt.  The ETag of a cached body is   *)
(* sent along; a server that still has that body may answer 304.            *)
MayAnswer(r) ==
    {[kind |-> k] : k \in {"transient", "refused", "garbled"}} \cup
    (IF doc[r.url] = Absent THEN {[kind |-> "absent"]}
     ELSE {[kind |-> "ok", body |-> doc[r.url]]}) \cup
    (IF r.cached # NoRecord /\ r.cached.body = doc[r.url]
     THEN {[kind |-> "unmodified"]} ELSE {})

Respond(p) ==
    /\ req[p].phase = "sending"
    /\ \E res \in MayAnswer(req[p]) :
        req' = [req EXCEPT ![p] =
            [phase |-> "responded", url |-> @.url, started |-> @.started,
             cached |-> @.cached, attempt |-> @.attempt, response |-> res]]
    /\ UNCHANGED <<now, doc, last, cache>>

(* The connection closes after the headers and before the end of the body:  *)
(* `once` listens for 'end' on the response and 'error' on the request, and *)
(* gets neither; the time limit went with the socket.                       *)
CutShort(p) ==
    /\ req[p].phase = "sending"
    /\ req' = [req EXCEPT ![p] = [phase |-> "hung", url |-> @.url]]
    /\ UNCHANGED <<now, doc, last, cache>>

(* Not modified: the record is stored again as of now.                      *)
Revalidated(p) ==
    LET r == req[p]
    IN  /\ r.response.kind = "unmodified"
        /\ cache' = [cache EXCEPT ![r.url] = [r.cached EXCEPT !.stored_at = now]]
        /\ Finished(p, r.url, r.started, Answered(r.cached.body))

Fetched(p) ==
    LET r == req[p]
    IN  /\ r.response.kind = "ok"
        /\ cache' = [cache EXCEPT ![r.url] =
                [stored_at |-> now, body |-> r.response.body]]
        /\ Finished(p, r.url, r.started, Answered(r.response.body))

(* Not JSON: an error at once, the cached copy notwithstanding.             *)
Garbled(p) ==
    LET r == req[p]
    IN  /\ r.response.kind = "garbled"
        /\ Finished(p, r.url, r.started, Failed("garbled"))
        /\ UNCHANGED cache

(* Mutants of NextAttempt: the number of attempts has no limit; the         *)
(* attempts are not counted.                                                *)
NextAttemptUnlimited(p) ==
    LET r == req[p]
    IN  /\ ShouldRetry(r.response)
        /\ req' = [req EXCEPT ![p] =
                [phase |-> "sending", url |-> r.url, started |-> r.started,
                 cached |-> r.cached, attempt |-> r.attempt + 1]]
        /\ UNCHANGED cache

NextAttemptUncounted(p) ==
    LET r == req[p]
    IN  /\ ShouldRetry(r.response)
        /\ r.attempt < Retries
        /\ req' = [req EXCEPT ![p] =
                [phase |-> "sending", url |-> r.url, started |-> r.started,
                 cached |-> r.cached, attempt |-> r.attempt]]
        /\ UNCHANGED cache

NextAttempt(p) ==
    LET r == req[p]
    IN  /\ ShouldRetry(r.response)
        /\ r.attempt < Retries
        /\ req' = [req EXCEPT ![p] =
                [phase |-> "sending", url |-> r.url, started |-> r.started,
                 cached |-> r.cached, attempt |-> r.attempt + 1]]
        /\ UNCHANGED cache

(* Mutant of Exhausted: a copy that is fallen back on is stored as of now.  *)
ExhaustedRestamping(p) ==
    LET r == req[p]
    IN  /\ r.response.kind \in {"transient", "refused", "absent"}
        /\ r.attempt = Retries \/ ~ShouldRetry(r.response)
        /\ Finished(p, r.url, r.started, GiveUp(r))
        /\ cache' = IF r.cached = NoRecord THEN cache
                    ELSE [cache EXCEPT ![r.url] =
                            [r.cached EXCEPT !.stored_at = now]]

Exhausted(p) ==
    LET r == req[p]
    IN  /\ r.response.kind \in {"transient", "refused", "absent"}
        /\ r.attempt = Retries \/ ~ShouldRetry(r.response)
        /\ Finished(p, r.url, r.started, GiveUp(r))
        /\ UNCHANGED cache

Receive(p) ==
    /\ req[p].phase = "responded"
    /\ \/ Revalidated(p)
       \/ Fetched(p)
       \/ Garbled(p)
       \/ NextAttempt(p)
       \/ Exhausted(p)
    /\ UNCHANGED <<now, doc, last>>

-----------------------------------------------------------------------------
RequestStates ==
    {NoRequest} \cup
    [phase : {"sending"}, url : Urls, started : Nat,
     cached : CacheRecords \cup {NoRecord}, attempt : 0 .. Retries] \cup
    [phase : {"responded"}, url : Urls, started : Nat,
     cached : CacheRecords \cup {NoRecord}, attempt : 0 .. Retries,
     response : Responses] \cup
    [phase : {"done"}, url : Urls, started : Nat, result : Results] \cup
    [phase : {"hung"}, url : Urls]

HttpTypeOK ==
    /\ now \in Nat
    /\ doc \in [Urls -> Contents]
    /\ last \in [Urls -> [Contents -> Nat \cup {Never}]]
    /\ cache \in [Urls -> CacheRecords \cup {NoRecord}]
    /\ req \in [Procs -> RequestStates]

(* The server had this content at some instant of the ticks from `from` on. *)
ServedSince(u, content, from) == last[u][content] >= from

(* A record of the cache was being served at the tick it is stamped with,   *)
(* although a process stamps again, on a 304, a copy it read before another *)
(* process replaced the file; and an answer that is not marked stale was    *)
(* true less than one shelf life before the request started, whatever       *)
(* failed on the way.  (request, writeCache in its 304 branch.)             *)
CacheIsHonest ==
    /\ \A u \in Urls : cache[u] # NoRecord =>
          ServedSince(u, cache[u].body, cache[u].stored_at)
    /\ \A p \in Procs :
          (req[p].phase = "done" /\ req[p].result.ok) =>
              req[p].result.stale
              \/ ServedSince(req[p].url, req[p].result.body,
                             req[p].started - Ttl + 1)
=============================================================================
