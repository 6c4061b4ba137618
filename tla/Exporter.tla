------------------------------ MODULE Exporter -------------------------------
(***************************************************************************)
(* The serving exporter: HTTP requests (module Middleware), the scrape that *)
(* each request for the metrics path runs, and the calls to Tdarr that each *)
(* scrape makes.  Scrapes overlap: they share the context that run cancels  *)
(* at shutdown and the mutex of the unknown-status counters.  Nothing of    *)
(* the HTTP request reaches a scrape: a client that leaves stops nothing.   *)
(*                                                                          *)
(* A call is the one of module Call, which Transport implements.  The calls *)
(* of a sweep come one after the other here (http_max_concurrency 1); their *)
(* pool is PieFanout, what the cache decides is ScrapeCache.                *)
(***************************************************************************)
EXTENDS Middleware, Sequences

CONSTANT MaxLibs   \* BOUND: libraries a scrape sweeps

ASSUME ExporterAssumption == MaxLibs \in Nat

VARIABLES
  scrape,    \* scrape[r]: the Collect call of request r
  call,      \* call[r]: its request to Tdarr, as in module Call
  baseCtx,   \* scrapeCtx of run: "live" or "done"
  mu         \* who holds unknownStatusMu: a request, or "nobody"

vars == << http, scrape, call, baseCtx, mu >>

\* What Collect is to do next: fetch a document, publish the counters, send.
Fetches == {"status", "stats", "libs", "pies", "nodes"}
Scrape ==
  [at : Fetches \cup {"none", "lock", "locked", "ended"},
   left : 0..MaxLibs,          \* libraries the sweep has still to ask for
   partial : BOOLEAN,
   failed : BOOLEAN,           \* history: a call failed or collect panicked
   up : Seq({0, 1})]           \* the tdarr_up samples sent to the registry

TypeOK ==
  /\ HttpTypeOK
  /\ scrape \in [Requests -> Scrape]
  /\ call \in [Requests -> {"idle", "asking", "answered", "data", "error"}]
  /\ baseCtx \in {"live", "done"}
  /\ mu \in Requests \cup {"nobody"}

Init ==
  /\ HttpInit
  /\ scrape = [r \in Requests |->
                 [at |-> "none", left |-> 0, partial |-> FALSE, failed |-> FALSE,
                  up |-> << >>]]
  /\ call = [r \in Requests |-> "idle"]
  /\ baseCtx = "live" /\ mu = "nobody"

-----------------------------------------------------------------------------
(* One scrape *)

\* The request is routed; for the metrics path the registry calls Collect.
Begin(r, route) ==
  /\ Serve(r, route)
  /\ scrape' = IF route = "metrics" THEN [scrape EXCEPT ![r].at = "status"] ELSE scrape
  /\ UNCHANGED << call, baseCtx, mu >>

\* Collect ends: the one tdarr_up sample goes out.
End(s, up) == [s EXCEPT !.at = "ended", !.up = Append(s.up, up)]

Ask(r) ==
  /\ scrape[r].at \in Fetches /\ call[r] \notin {"asking", "answered"}
  /\ call' = [call EXCEPT ![r] = "asking"]
  /\ UNCHANGED << http, scrape, baseCtx, mu >>

\* Tdarr answers, as long as the context of the call lives.
Answer(r) ==
  /\ call[r] = "asking" /\ baseCtx = "live"
  /\ call' = [call EXCEPT ![r] = "answered"]
  /\ UNCHANGED << http, scrape, baseCtx, mu >>

\* status and stats are decoded and (status) emitted.
TakeDocument(r) ==
  /\ call[r] = "answered" /\ scrape[r].at \in {"status", "stats"}
  /\ scrape' = [scrape EXCEPT ![r].at = IF scrape[r].at = "status" THEN "stats" ELSE "libs"]
  /\ call' = [call EXCEPT ![r] = "data"]
  /\ UNCHANGED << http, baseCtx, mu >>

\* The library list: nothing to sweep on a cache hit or an empty list.
TakeLibraries(r, n) ==
  /\ call[r] = "answered" /\ scrape[r].at = "libs"
  /\ scrape' = [scrape EXCEPT ![r].left = n,
                              ![r].at = IF n = 0 THEN "lock" ELSE "pies"]
  /\ call' = [call EXCEPT ![r] = "data"]
  /\ UNCHANGED << http, baseCtx, mu >>

\* A library is done with; after the last one the series are emitted.
OneLess(s) == [s EXCEPT !.left = s.left - 1, !.at = IF s.left = 1 THEN "lock" ELSE "pies"]

\* The figures of a library: an unknown status is counted under the mutex.
TakePie(r) ==
  /\ call[r] = "answered" /\ scrape[r].at = "pies" /\ mu = "nobody"
  /\ scrape' = [scrape EXCEPT ![r] = OneLess(scrape[r])]
  /\ call' = [call EXCEPT ![r] = "data"]
  /\ UNCHANGED << http, baseCtx, mu >>

\* The last document: collect returns without an error.
TakeNodes(r) ==
  /\ call[r] = "answered" /\ scrape[r].at = "nodes"
  /\ scrape' = [scrape EXCEPT ![r] = End(scrape[r], IF scrape[r].partial THEN 0 ELSE 1)]
  /\ call' = [call EXCEPT ![r] = "data"]
  /\ UNCHANGED << http, baseCtx, mu >>

\* A call fails or its answer cannot be used; the per-call timeout and a
\* cancelled context make sure that it does not stay open.
CallFails(r) ==
  /\ call[r] \in {"asking", "answered"}
  /\ call' = [call EXCEPT ![r] = "error"]
  /\ scrape' = [scrape EXCEPT ![r] =
       IF scrape[r].at = "pies"
       THEN [OneLess(scrape[r]) EXCEPT !.partial = TRUE, !.failed = TRUE]
       ELSE [End(scrape[r], 0) EXCEPT !.failed = TRUE]]
  /\ UNCHANGED << http, baseCtx, mu >>

\* The counters are sent to the registry with the mutex held throughout.
LockCounters(r) ==
  /\ scrape[r].at = "lock" /\ mu = "nobody"
  /\ mu' = r
  /\ scrape' = [scrape EXCEPT ![r].at = "locked"]
  /\ UNCHANGED << http, call, baseCtx >>

(* Mutant: the mutex is not released on the way out. *)
UnlockCounters_Forgotten(r) ==
  /\ scrape[r].at = "locked"
  /\ scrape' = [scrape EXCEPT ![r].at = "nodes"]
  /\ UNCHANGED << http, call, baseCtx, mu >>

UnlockCounters(r) ==
  /\ scrape[r].at = "locked"
  /\ mu' = "nobody"
  /\ scrape' = [scrape EXCEPT ![r].at = "nodes"]
  /\ UNCHANGED << http, call, baseCtx >>

(* Mutant: Collect goes on after its recover and sends tdarr_up again. *)
CollectPanics_Twice(r) ==
  /\ scrape[r].at \in {"status", "stats", "libs", "lock", "nodes"}
  /\ call[r] \in {"idle", "data", "error"}
  /\ scrape' = [scrape EXCEPT ![r] = [End(End(scrape[r], 0), 0) EXCEPT !.failed = TRUE]]
  /\ UNCHANGED << http, call, baseCtx, mu >>

\* A panic on the goroutine of the scrape, between two calls: the deferred
\* recover of Collect sends tdarr_up 0 in the place of the normal one.  While
\* the sweep runs that goroutine only waits, and what runs under the mutex
\* cannot panic.
CollectPanics(r) ==
  /\ scrape[r].at \in {"status", "stats", "libs", "lock", "nodes"}
  /\ call[r] \in {"idle", "data", "error"}
  /\ scrape' = [scrape EXCEPT ![r] = [End(scrape[r], 0) EXCEPT !.failed = TRUE]]
  /\ UNCHANGED << http, call, baseCtx, mu >>

\* run has left awaitShutdown.
CancelScrapes ==
  /\ baseCtx = "live" /\ baseCtx' = "done"
  /\ UNCHANGED << http, scrape, call, mu >>

ScrapeStep(r) ==
  \/ Ask(r) \/ Answer(r) \/ CallFails(r)
  \/ TakeDocument(r) \/ (\E n \in 0..MaxLibs : TakeLibraries(r, n))
  \/ TakePie(r) \/ TakeNodes(r)
  \/ LockCounters(r) \/ UnlockCounters(r)
  \/ CollectPanics(r)

-----------------------------------------------------------------------------
(* The response.  The metrics handler writes when the registry has gathered, *)
(* after the end of Collect; the other handlers write at once.               *)

Gathered(r) == http[r].route = "metrics" => scrape[r].at = "ended"

HandlerStep(r) ==
  /\ Gathered(r)
  /\ \/ WriteHeader(r) \/ (\E arrives \in BOOLEAN : Write(r, arrives))
     \/ Return(r)
     \/ (\E kind \in {"fault", "abort"} : Panics(r, kind)) \/ WriterPanics(r)

HttpStep(r) ==
  /\ HandlerStep(r) \/ Abort(r) \/ Recover(r) \/ PeerLeaves(r)
  /\ UNCHANGED << scrape, call, baseCtx, mu >>

Next ==
  \/ \E r \in Requests :
       (\E route \in Routes : Begin(r, route)) \/ ScrapeStep(r) \/ HttpStep(r)
  \/ CancelScrapes

Spec == Init /\ [][Next]_vars

\* The goroutines of a scrape keep running, a call is resolved within its
\* timeout, and a Go mutex that is released again and again is acquired in
\* the end.  Nothing is assumed of clients.
Resolve(r) == call[r] = "asking" /\ (Answer(r) \/ CallFails(r))
Take(r) == call[r] = "answered" /\ scrape[r].at # "pies" /\ ScrapeStep(r)

Fairness ==
  \A r \in Requests :
    /\ WF_vars(Ask(r)) /\ WF_vars(Resolve(r)) /\ WF_vars(Take(r))
    /\ SF_vars(TakePie(r)) /\ SF_vars(LockCounters(r)) /\ WF_vars(UnlockCounters(r))

FairSpec == Spec /\ Fairness

-----------------------------------------------------------------------------
(* Properties *)

(* Every scrape tells Prometheus once how it went, before its response can  *)
(* be written, and says 1 only if no call failed and nothing panicked: on   *)
(* every way out of collect, recovered panics among them                    *)
(* (tdarr.go:542-566, 624-748).                                             *)
UpOnce ==
  \A r \in Requests :
    LET s == scrape[r] IN
    /\ Len(s.up) = (IF s.at = "ended" THEN 1 ELSE 0)
    /\ s.at = "ended" => s.up = << IF s.failed THEN 0 ELSE 1 >>
    /\ http[r].route = "metrics" /\ http[r].sent # 0 => s.at = "ended"

(* A scrape that began ends: it may wait for the mutex another scrape holds,  *)
(* its client may be gone without stopping it, and nothing but the timeout    *)
(* of each call limits it (tdarr.go:542-566, 733-738, transport.go:104-107).  *)
ScrapesEnd ==
  \A r \in Requests :
    (scrape[r].at # "none") ~> (scrape[r].at = "ended")
=============================================================================
