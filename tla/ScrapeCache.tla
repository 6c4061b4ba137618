---------------------------- MODULE ScrapeCache ----------------------------
(***************************************************************************)
(* Concurrent scrapes sharing the library-stats cache.                     *)
(*                                                                         *)
(* Every GET of the metrics path runs TdarrCollector.Collect               *)
(* (internal/collector/tdarr.go) on a goroutine of its own.  Collect reads *)
(* four documents from Tdarr one after the other while Tdarr keeps         *)
(* changing and while other scrapes run, and decides from two of them      *)
(* (the totals and the library list) whether the per-library figures of an *)
(* earlier sweep may be published again or have to be fetched anew.        *)
(*                                                                         *)
(* Tdarr is external.  What it would answer is a fixed history of states,  *)
(* one per change, and `now' is the change it has reached: nothing is      *)
(* assumed about the history, so totals may go down and come back to a     *)
(* value they had before (docs/metrics-internals.md: the global totals     *)
(* decrease when a file is deleted) and a change may move neither the      *)
(* totals nor the library list.                                            *)
(*                                                                         *)
(* Any call may fail at any time: a transport error, a non-2xx status, an  *)
(* undecodable body, a cancelled context and an unparsable score all take  *)
(* the same way out of collect(), and so does a panic on the goroutine of  *)
(* the scrape while it handles an answer.  The pool of goroutines inside   *)
(* fetchPies is the subject of module PieFanout; here each library is      *)
(* answered once, in any order.                                            *)
(***************************************************************************)
EXTENDS Naturals, Figures

CONSTANTS
    Scrapers,     \* slots for scrapes running at the same time
    LibIds,       \* library ids (_id)
    Names,        \* library names
    Totals,       \* values of the ten cached counters, taken as one value
    ZeroTotals,   \* all ten counters zero: the value Go initialises them to
    LibLists,     \* the library lists Tdarr may report
    UnknownKeys,  \* (kind, status) pairs outside the known enums
    UnknownIn,    \* UnknownIn[id]: the unknown pairs in the pie of library id
    MaxChanges    \* bound: number of changes Tdarr goes through

LibraryInfo == [id : LibIds, name : Names \cup {Blank}]

ASSUME ScrapeCacheAssumption ==
    /\ ZeroTotals \in Totals
    /\ LibLists \subseteq SUBSET LibraryInfo
    /\ UnknownIn \in [LibIds -> SUBSET UnknownKeys]
    /\ MaxChanges \in Nat

Time == 0 .. MaxChanges

(* One document set of Tdarr: what StatisticsJSONDB and                    *)
(* LibrarySettingsJSONDB hold between two changes.                         *)
TdarrState == [totals : Totals, libs : LibLists]

(* One library's figures.  `at' is the change Tdarr had reached when it    *)
(* answered get-pies: it stands for the figures themselves.                *)
PieStats == [lib : LibraryInfo, at : Time]

(* libStatsSnapshot.  A nil stats slice and an empty one are the same      *)
(* value: fetchPies appends to a nil slice.                                *)
Snapshot == [totals : Totals, stats : SUBSET PieStats,
             fingerprint : SUBSET LibraryInfo]

VARIABLES
    history,              \* history[t]: what Tdarr reports after t changes
    now,                  \* how many changes Tdarr has gone through
    statsCache,           \* TdarrCollector.statsCache.snap
    unknownStatusCounts,  \* the keys of that map, counts are not kept
    scrape                \* scrape[s]: the locals of the Collect call in slot s

vars == <<history, now, statsCache, unknownStatusCounts, scrape>>

(* "done": Emit was reached, the scrape published its view and tdarr_up.   *)
(* "failed": the scrape published tdarr_up 0 and none of the view.         *)
PCs == {"idle", "status", "stats", "libs", "cache", "sweep", "emit", "nodes",
        "done", "failed"}

Scrape == [pc : PCs, metric : Totals, allLibs : SUBSET LibraryInfo,
           pending : SUBSET LibraryInfo, pieData : SUBSET PieStats,
           partialFail : BOOLEAN, exposed : SUBSET UnknownKeys, up : {0, 1}]

(* The zero values Go gives the locals of a new call.                      *)
NewScrape(pc) ==
    [pc |-> pc, metric |-> ZeroTotals, allLibs |-> {}, pending |-> {},
     pieData |-> {}, partialFail |-> FALSE, exposed |-> {}, up |-> 0]

TypeOK ==
    /\ history \in [Time -> TdarrState]
    /\ now \in Time
    /\ statsCache \in Snapshot
    /\ unknownStatusCounts \subseteq UnknownKeys
    /\ scrape \in [Scrapers -> Scrape]

Init ==
    /\ history \in [Time -> TdarrState]
    /\ now = 0
    /\ statsCache = [totals |-> ZeroTotals, stats |-> {}, fingerprint |-> {}]
    /\ unknownStatusCounts = {}
    /\ scrape = [s \in Scrapers |-> NewScrape("idle")]

-----------------------------------------------------------------------------
(* Tdarr.                                                                  *)

TdarrChanges ==
    /\ now < MaxChanges
    /\ now' = now + 1
    /\ UNCHANGED <<history, statsCache, unknownStatusCounts, scrape>>

-----------------------------------------------------------------------------
(* The steps of Collect and collect.                                       *)

At(s, pc) == scrape[s].pc = pc

(* Mutant: the unknown-status counters are made anew for every scrape.     *)
BeginScrape_ResetsCounters(s) ==
    /\ scrape[s].pc \in {"idle", "done", "failed"}
    /\ scrape' = [scrape EXCEPT ![s] = NewScrape("status")]
    /\ unknownStatusCounts' = {}
    /\ UNCHANGED <<history, now, statsCache>>

BeginScrape(s) ==
    /\ scrape[s].pc \in {"idle", "done", "failed"}
    /\ scrape' = [scrape EXCEPT ![s] = NewScrape("status")]
    /\ UNCHANGED <<history, now, statsCache, unknownStatusCounts>>

(* One of the first three documents cannot be had: an error return of      *)
(* collect, or a panic recovered by Collect.  Only tdarr_up 0 follows.     *)
UpstreamFails(s) ==
    /\ scrape[s].pc \in {"status", "stats", "libs"}
    /\ scrape' = [scrape EXCEPT ![s] = NewScrape("failed")]
    /\ UNCHANGED <<history, now, statsCache, unknownStatusCounts>>

GetStatus(s) ==
    /\ At(s, "status")
    /\ scrape' = [scrape EXCEPT ![s] = [@ EXCEPT !.pc = "stats"]]
    /\ UNCHANGED <<history, now, statsCache, unknownStatusCounts>>

GetStats(s) ==
    /\ At(s, "stats")
    /\ scrape' = [scrape EXCEPT ![s] =
                    [@ EXCEPT !.pc = "libs",
                              !.metric = history[now].totals]]
    /\ UNCHANGED <<history, now, statsCache, unknownStatusCounts>>

GetLibraries(s) ==
    /\ At(s, "libs")
    /\ scrape' = [scrape EXCEPT ![s] =
                    [@ EXCEPT !.pc = "cache",
                              !.allLibs = history[now].libs]]
    /\ UNCHANGED <<history, now, statsCache, unknownStatusCounts>>

(* Mutant: the totals are not compared.                                    *)
ShouldRefetch_NoTotals(cached, metric, fingerprint) ==
    cached.stats = {} \/ cached.fingerprint # fingerprint

(* The fingerprint is a sorted copy of the library list: as a set it is    *)
(* the list.                                                               *)
ShouldRefetch(cached, metric, fingerprint) ==
    \/ cached.stats = {}
    \/ cached.totals # metric
    \/ cached.fingerprint # fingerprint

UseCache(s) ==
    /\ At(s, "cache")
    /\ ~ShouldRefetch(statsCache, scrape[s].metric, scrape[s].allLibs)
    /\ scrape' = [scrape EXCEPT ![s] =
                    [@ EXCEPT !.pc = "emit",
                              !.pieData = statsCache.stats]]
    /\ UNCHANGED <<history, now, statsCache, unknownStatusCounts>>

StartSweep(s) ==
    /\ At(s, "cache")
    /\ ShouldRefetch(statsCache, scrape[s].metric, scrape[s].allLibs)
    /\ scrape' = [scrape EXCEPT ![s] =
                    [@ EXCEPT !.pc = "sweep",
                              !.pending = scrape[s].allLibs]]
    /\ UNCHANGED <<history, now, statsCache, unknownStatusCounts>>

(* Mutant: the counter is keyed by the library instead of (kind, status).  *)
PieSucceeds_CountsLibrary(s, lib) ==
    /\ At(s, "sweep")
    /\ lib \in scrape[s].pending
    /\ lib.name # Blank
    /\ scrape' = [scrape EXCEPT ![s] =
                    [@ EXCEPT !.pending = scrape[s].pending \ {lib},
                              !.pieData = scrape[s].pieData
                                            \cup {[lib |-> lib, at |-> now]}]]
    /\ unknownStatusCounts' = unknownStatusCounts \cup {lib.id}
    /\ UNCHANGED <<history, now, statsCache>>

(* getLibStats, a library that succeeds: the figures are labelled with the *)
(* id and name of the list, the statuses normalised (which counts the      *)
(* unknown ones) and the result handed over.                               *)
PieSucceeds(s, lib) ==
    /\ At(s, "sweep")
    /\ lib \in scrape[s].pending
    /\ lib.name # Blank
    /\ scrape' = [scrape EXCEPT ![s] =
                    [@ EXCEPT !.pending = scrape[s].pending \ {lib},
                              !.pieData = scrape[s].pieData
                                            \cup {[lib |-> lib, at |-> now]}]]
    /\ unknownStatusCounts' = unknownStatusCounts \cup UnknownIn[lib.id]
    /\ UNCHANGED <<history, now, statsCache>>

(* getLibStats, the two early `continue's: the request failed, or the      *)
(* library has no name.                                                    *)
PieDropped(s, lib) ==
    /\ At(s, "sweep")
    /\ lib \in scrape[s].pending
    /\ scrape' = [scrape EXCEPT ![s] =
                    [@ EXCEPT !.pending = scrape[s].pending \ {lib},
                              !.partialFail = TRUE]]
    /\ UNCHANGED <<history, now, statsCache, unknownStatusCounts>>

(* Mutants: a partial sweep is cached; a partial sweep empties the cache;  *)
(* a library that is in the cache already keeps the figures it has there,  *)
(* the per-library cache that the comment on shouldRefetch warns against.  *)
EndSweep_CachesPartial(s) ==
    /\ At(s, "sweep")
    /\ scrape[s].pending = {}
    /\ statsCache' = [totals |-> scrape[s].metric, stats |-> scrape[s].pieData,
                      fingerprint |-> scrape[s].allLibs]
    /\ scrape' = [scrape EXCEPT ![s] = [@ EXCEPT !.pc = "emit"]]
    /\ UNCHANGED <<history, now, unknownStatusCounts>>

EndSweep_ClearsOnPartial(s) ==
    /\ At(s, "sweep")
    /\ scrape[s].pending = {}
    /\ statsCache' =
         [totals |-> scrape[s].metric,
          stats |-> IF scrape[s].partialFail THEN {} ELSE scrape[s].pieData,
          fingerprint |-> scrape[s].allLibs]
    /\ scrape' = [scrape EXCEPT ![s] = [@ EXCEPT !.pc = "emit"]]
    /\ UNCHANGED <<history, now, unknownStatusCounts>>

EndSweep_PerLibrary(s) ==
    /\ At(s, "sweep")
    /\ scrape[s].pending = {}
    /\ LET kept == {p \in statsCache.stats : p.lib \in scrape[s].allLibs}
           new  == {p \in scrape[s].pieData : \A k \in kept : k.lib # p.lib}
       IN  statsCache' =
             IF scrape[s].partialFail THEN statsCache
             ELSE [totals |-> scrape[s].metric, stats |-> kept \cup new,
                   fingerprint |-> scrape[s].allLibs]
    /\ scrape' = [scrape EXCEPT ![s] = [@ EXCEPT !.pc = "emit"]]
    /\ UNCHANGED <<history, now, unknownStatusCounts>>

(* The end of fetchPies and the cache write that follows it.               *)
EndSweep(s) ==
    /\ At(s, "sweep")
    /\ scrape[s].pending = {}
    /\ statsCache' =
         IF scrape[s].partialFail THEN statsCache
         ELSE [totals |-> scrape[s].metric, stats |-> scrape[s].pieData,
               fingerprint |-> scrape[s].allLibs]
    /\ scrape' = [scrape EXCEPT ![s] = [@ EXCEPT !.pc = "emit"]]
    /\ UNCHANGED <<history, now, unknownStatusCounts>>

(* Mutant: the figures are read from the cache again when they are emitted. *)
Emit_FromCache(s) ==
    /\ At(s, "emit")
    /\ scrape' = [scrape EXCEPT ![s] =
                    [@ EXCEPT !.pc = "nodes",
                              !.pieData = statsCache.stats,
                              !.exposed = unknownStatusCounts]]
    /\ UNCHANGED <<history, now, statsCache, unknownStatusCounts>>

(* emitGeneralMetrics, emitPieMetrics and the unknown-status counters.     *)
Emit(s) ==
    /\ At(s, "emit")
    /\ scrape' = [scrape EXCEPT ![s] =
                    [@ EXCEPT !.pc = "nodes",
                              !.exposed = unknownStatusCounts]]
    /\ UNCHANGED <<history, now, statsCache, unknownStatusCounts>>

(* Mutant: the partial flag is lost on the way to tdarr_up.                *)
GetNodes_IgnoresPartial(s, answered) ==
    /\ At(s, "nodes")
    /\ scrape' = [scrape EXCEPT ![s] =
                    [@ EXCEPT !.pc = "done",
                              !.up = IF answered THEN 1 ELSE 0]]
    /\ UNCHANGED <<history, now, statsCache, unknownStatusCounts>>

(* The last document and the return of Collect.  `answered' is FALSE when  *)
(* the call fails: the view has been emitted by then, only tdarr_up tells. *)
GetNodes(s, answered) ==
    /\ At(s, "nodes")
    /\ scrape' = [scrape EXCEPT ![s] =
                    [@ EXCEPT !.pc = "done",
                              !.up = IF answered /\ ~scrape[s].partialFail
                                     THEN 1 ELSE 0]]
    /\ UNCHANGED <<history, now, statsCache, unknownStatusCounts>>

ScrapeStep(s) ==
    \/ UpstreamFails(s)
    \/ GetStatus(s)
    \/ GetStats(s)
    \/ GetLibraries(s)
    \/ UseCache(s)
    \/ StartSweep(s)
    \/ \E lib \in scrape[s].pending : PieSucceeds(s, lib) \/ PieDropped(s, lib)
    \/ EndSweep(s)
    \/ Emit(s)
    \/ \E answered \in BOOLEAN : GetNodes(s, answered)

Next ==
    \/ TdarrChanges
    \/ \E s \in Scrapers : BeginScrape(s) \/ ScrapeStep(s)

Spec == Init /\ [][Next]_vars

-----------------------------------------------------------------------------
(* Properties.                                                             *)

(* The cache holds whole sweeps only: whatever scrapes fail, overlap or    *)
(* are overtaken, a snapshot that can be served has one set of figures for *)
(* every library of the fingerprint it is served under                     *)
(* (collect, tdarr.go:707-724).                                            *)
CacheComplete ==
    statsCache.stats # {} =>
        OnePiePerLibrary(statsCache.stats, statsCache.fingerprint)

(* tdarr_up 1 tells Prometheus that no library is missing: a scrape that   *)
(* ends with it published figures for every library of the list it read    *)
(* itself, also when another scrape swept them (Collect, tdarr.go:557-565). *)
UpMeansComplete ==
    \A s \in Scrapers :
        At(s, "done") /\ scrape[s].up = 1 =>
            OnePiePerLibrary(scrape[s].pieData, scrape[s].allLibs)

(* By time t of history h Tdarr had reported `totals', then `libs', and    *)
(* every figure of `pies' is an answer it gave after that.                 *)
ReadInOrder(h, t, totals, libs, pies) ==
    \E i \in 0 .. t : \E j \in i .. t :
        /\ h[i].totals = totals
        /\ h[j].libs = libs
        /\ \A p \in pies : p.at \in j .. t

(* No figure is older than what it is published beside: Tdarr had reported *)
(* the published totals, and then the published library list, before it    *)
(* answered with any of the published per-library figures.  It holds for   *)
(* figures taken from the cache, through any overlap of scrapes, and when  *)
(* totals come back to an earlier value (shouldRefetch, tdarr.go:620-622). *)
FreshView ==
    \A s \in Scrapers :
        scrape[s].pc \in {"emit", "nodes", "done"} =>
            ReadInOrder(history, now, scrape[s].metric, scrape[s].allLibs,
                        scrape[s].pieData)

(* Enum drift stays visible: a scrape that publishes a library publishes   *)
(* the unknown-status counters of that library too, also on a cache hit,   *)
(* when the scrape itself counted nothing (tdarr.go:84, 439-444, 733-738). *)
DriftExposed ==
    \A s \in Scrapers :
        scrape[s].pc \in {"nodes", "done"} =>
            \A p \in scrape[s].pieData : UnknownIn[p.lib.id] \subseteq scrape[s].exposed

(* What scrape s has read, it has read of Tdarr's last state.              *)
UpToDate(s) ==
    /\ scrape[s].pc \in {"libs", "cache", "sweep"} =>
          scrape[s].metric = history[now].totals
    /\ scrape[s].pc \in {"cache", "sweep"} => scrape[s].allLibs = history[now].libs

(* Tdarr has stopped changing, the cache holds its last state and no       *)
(* scrape is left that started before.                                     *)
Settled ==
    /\ now = MaxChanges
    /\ statsCache.stats # {}
    /\ statsCache.totals = history[now].totals
    /\ statsCache.fingerprint = history[now].libs
    /\ \A s \in Scrapers : UpToDate(s)

(* The cache earns its keep: while Tdarr does not change, no further sweep *)
(* is started, and neither a failing sweep nor one that overlaps with the  *)
(* hit can make the next scrape sweep again (tdarr.go:698-724).            *)
ReuseWhenSettled ==
    [][Settled => /\ Settled'
                  /\ \A s \in Scrapers : At(s, "sweep")' => At(s, "sweep")]_vars

(* No two scrapes have overlapped: a slot that was used once is never idle *)
(* again, and no more than one has been used.                              *)
Sequential == \E s \in Scrapers : \A t \in Scrapers : t = s \/ At(t, "idle")

(* Scrapes that do not overlap never go back in time: a snapshot is        *)
(* replaced only by more recent figures.  Of two overlapping sweeps the    *)
(* slower one may write last (tdarr.go:156-158, 718-723).                  *)
CacheAdvances ==
    [][Sequential => \A new \in statsCache'.stats, old \in statsCache.stats :
                       old.at <= new.at]_statsCache

(* What View knows of scrape s: its figures from the moment they are       *)
(* emitted, whether it swept for them or found them in the cache.          *)
Stage(pc) ==
    CASE pc = "idle" -> "off"
      [] pc \in {"status", "stats"} -> "started"
      [] pc = "libs" -> "totals"
      [] pc \in {"cache", "sweep", "emit"} -> "libs"
      [] pc = "nodes" -> "published"
      [] pc = "done" -> "answered"
      [] pc = "failed" -> "failed"

Published(s) ==
    IF scrape[s].pc \in {"nodes", "done"}
    THEN {[lib |-> p.lib, figures |-> history[p.at].totals] : p \in scrape[s].pieData}
    ELSE {}

(* The totals Tdarr has had since it first had those that scrape s read.   *)
Seen(s) ==
    IF scrape[s].pc \in {"libs", "cache", "sweep", "emit", "nodes", "done"}
    THEN {history[t].totals :
            t \in {u \in 0 .. now : \E e \in 0 .. u : history[e].totals = scrape[s].metric}}
    ELSE {}

ViewOf(s) == INSTANCE View WITH
    TdarrStates <- TdarrState, stage <- Stage(scrape[s].pc), totals <- scrape[s].metric,
    libs <- scrape[s].allLibs, seen <- Seen(s), pies <- Published(s), up <- scrape[s].up

(* Totals that Tdarr has left do not come back.  Without this the totals   *)
(* do not tell whether anything happened, see ReuseWhenUnchanged.          *)
TotalsTell ==
    \A t \in Time : \A u \in 0 .. t : \A v \in 0 .. u :
        history[t].totals = history[v].totals => history[u].totals = history[v].totals

(* As long as totals do not come back, cache, sweeps and other scrapes are *)
(* invisible: each published figure is one that Tdarr would have given the *)
(* scrape itself, at some moment since the scrape read the totals, however *)
(* old the answer in the cache is and whichever scrape asked for it.  The  *)
(* moment may precede the scrape's own reading of the list.  The view does *)
(* not change once it is out, and tdarr_up 1 means that it is whole        *)
(* (tdarr.go:609-622, 624-748).                                            *)
ImplementsView ==
    /\ \A s \in Scrapers : ViewOf(s)!Init
    /\ [][TotalsTell => \A s \in Scrapers : [ViewOf(s)!Next]_(ViewOf(s)!viewVars)]_vars

(* "per-library stats are cached and reused when nothing has changed since *)
(* the last scrape" (README.md:128): figures are reused only beside totals *)
(* that Tdarr had when it answered with them.                              *)
ReuseWhenUnchanged ==
    [][\A s \in Scrapers :
         UseCache(s) => \A p \in statsCache.stats :
                           history[p.at].totals = scrape[s].metric]_vars
=============================================================================
