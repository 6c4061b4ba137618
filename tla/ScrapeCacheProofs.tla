------------------------- MODULE ScrapeCacheProofs -------------------------
(***************************************************************************)
(* What ScrapeCache guarantees for any number of overlapping scrapes, any  *)
(* library lists and any history of Tdarr.                                 *)
(*                                                                         *)
(* CacheComplete, UpMeansComplete, FreshView and DriftExposed speak of the *)
(* cache and of finished scrapes.  None is inductive: what the cache holds *)
(* was gathered by a scrape while others ran.  IInv says of every stage of *)
(* a scrape what it has gathered so far, and of the cache the same as of a *)
(* finished sweep.  Gathering adds what CacheAdvances needs, and from IInv *)
(* follows that every scrape implements View.                              *)
(***************************************************************************)
EXTENDS ScrapeCache, TLAPS

(* The operators below speak of one scrape r, or one snapshot c, at time t *)
(* of history h: what a step leaves alone it then leaves true.             *)

(* The scrape has not begun to gather figures.                             *)
NothingGathered(r) == r.pieData = {} /\ ~r.partialFail

(* A sweep under way: every library is still to be asked, or has been      *)
(* asked and has its figures, or has cost the scrape its partial flag.     *)
SweepInv(r) ==
    /\ r.pending \subseteq r.allLibs
    /\ \A p \in r.pieData : p.lib \notin r.pending /\ p.lib.name # Blank
    /\ \A p, q \in r.pieData : p.lib = q.lib => p = q
    /\ ~r.partialFail => {p.lib : p \in r.pieData} \cup r.pending = r.allLibs

ScrapeInv(h, t, r) ==
    /\ r.pc \in {"status", "stats", "libs", "cache"} => NothingGathered(r)
    /\ r.pc = "libs" => \E i \in 0 .. t : h[i].totals = r.metric
    /\ r.pc \in {"cache", "sweep", "emit", "nodes", "done"} =>
          ReadInOrder(h, t, r.metric, r.allLibs, r.pieData)
    /\ r.pc = "sweep" => SweepInv(r)
    /\ r.pc \in {"sweep", "emit", "nodes", "done"} =>
          \A p \in r.pieData : p.lib \in r.allLibs
    /\ r.pc \in {"emit", "nodes", "done"} /\ ~r.partialFail =>
          OnePiePerLibrary(r.pieData, r.allLibs)
    /\ r.pc = "done" /\ r.up = 1 => ~r.partialFail

CacheInv(h, t, c) ==
    c.stats # {} => /\ OnePiePerLibrary(c.stats, c.fingerprint)
                    /\ ReadInOrder(h, t, c.totals, c.fingerprint, c.stats)

(* The unknown statuses of every set of figures held anywhere are counted, *)
(* and a scrape that has emitted the counters has emitted theirs.          *)
Counted(keys, pies) == \A p \in pies : UnknownIn[p.lib.id] \subseteq keys

DriftInv(keys, r) ==
    /\ Counted(keys, r.pieData)
    /\ r.pc \in {"nodes", "done"} => Counted(r.exposed, r.pieData)

IInv ==
    /\ TypeOK
    /\ CacheInv(history, now, statsCache)
    /\ Counted(unknownStatusCounts, statsCache.stats)
    /\ \A s \in Scrapers : /\ ScrapeInv(history, now, scrape[s])
                            /\ DriftInv(unknownStatusCounts, scrape[s])

-----------------------------------------------------------------------------
(* Every variable keeps its type, whatever the scrapes do.                 *)
LEMMA NewScrapeType == \A pc \in PCs : NewScrape(pc) \in Scrape
  BY ScrapeCacheAssumption DEF NewScrape, Scrape

LEMMA InitType == Init => TypeOK
<1> SUFFICES ASSUME Init PROVE TypeOK
  OBVIOUS
<1>1. "idle" \in PCs
  BY DEF PCs
<1>2. scrape \in [Scrapers -> Scrape]
  BY <1>1, NewScrapeType DEF Init
<1>3. statsCache \in Snapshot
  BY ScrapeCacheAssumption DEF Init, Snapshot
<1>4. now \in Time
  BY ScrapeCacheAssumption DEF Init, Time
<1> QED  BY <1>2, <1>3, <1>4 DEF Init, TypeOK

LEMMA NextType == TypeOK /\ [Next]_vars => TypeOK'
<1> SUFFICES ASSUME TypeOK, [Next]_vars PROVE TypeOK'
  OBVIOUS
<1>t. /\ history \in [Time -> TdarrState]
      /\ now \in Time
      /\ statsCache \in Snapshot
      /\ unknownStatusCounts \subseteq UnknownKeys
      /\ scrape \in [Scrapers -> Scrape]
  BY DEF TypeOK
<1>u. scrape \in [Scrapers -> Scrape]
  BY <1>t
<1>v. \A s \in Scrapers : scrape[s] \in Scrape
  BY <1>u
<1>1. CASE TdarrChanges
  <2>1. now' \in Time
    BY <1>1, <1>t, ScrapeCacheAssumption DEF TdarrChanges, Time
  <2> QED  BY <1>1, <1>t, <2>1 DEF TdarrChanges, TypeOK
<1>2. ASSUME NEW s \in Scrapers, BeginScrape(s) \/ UpstreamFails(s) PROVE TypeOK'
  <2>1. NewScrape("status") \in Scrape /\ NewScrape("failed") \in Scrape
    BY NewScrapeType DEF PCs
  <2>2. scrape' \in [Scrapers -> Scrape]
    BY <1>2, <1>t, <2>1 DEF BeginScrape, UpstreamFails
  <2> QED  BY <1>2, <1>t, <2>2 DEF BeginScrape, UpstreamFails, TypeOK
<1>3. ASSUME NEW s \in Scrapers, GetStatus(s) PROVE TypeOK'
  <2>1. [scrape[s] EXCEPT !.pc = "stats"] \in Scrape
    BY <1>v DEF Scrape, PCs
  <2>9. scrape' \in [Scrapers -> Scrape]
    BY <1>3, <1>u, <2>1 DEF GetStatus
  <2> QED  BY <1>3, <1>t, <2>9 DEF GetStatus, TypeOK
<1>4. ASSUME NEW s \in Scrapers, GetStats(s) PROVE TypeOK'
  <2>1. history[now].totals \in Totals
    BY <1>t DEF TdarrState
  <2>2. [scrape[s] EXCEPT !.pc = "libs", !.metric = history[now].totals] \in Scrape
    BY <1>v, <2>1 DEF Scrape, PCs
  <2>9. scrape' \in [Scrapers -> Scrape]
    BY <1>4, <1>u, <2>2 DEF GetStats
  <2> QED  BY <1>4, <1>t, <2>9 DEF GetStats, TypeOK
<1>5. ASSUME NEW s \in Scrapers, GetLibraries(s) PROVE TypeOK'
  <2>1. history[now].libs \in SUBSET LibraryInfo
    BY <1>t, ScrapeCacheAssumption DEF TdarrState
  <2>8. [scrape[s] EXCEPT !.pc = "cache", !.allLibs = history[now].libs] \in Scrape
    BY <1>5, <1>v, <2>1 DEF GetLibraries, Scrape, PCs
  <2>9. scrape' \in [Scrapers -> Scrape]
    BY <1>5, <1>u, <2>8 DEF GetLibraries
  <2> QED  BY <1>5, <1>t, <2>9 DEF GetLibraries, TypeOK
<1>6. ASSUME NEW s \in Scrapers, UseCache(s) PROVE TypeOK'
  <2>1. statsCache.stats \in SUBSET PieStats
    BY <1>t DEF Snapshot
  <2>2. [scrape[s] EXCEPT !.pc = "emit", !.pieData = statsCache.stats] \in Scrape
    BY <1>v, <2>1 DEF Scrape, PCs
  <2>9. scrape' \in [Scrapers -> Scrape]
    BY <1>6, <1>u, <2>2 DEF UseCache
  <2> QED  BY <1>6, <1>t, <2>9 DEF UseCache, TypeOK
<1>7. ASSUME NEW s \in Scrapers, StartSweep(s) PROVE TypeOK'
  <2>1. scrape[s].allLibs \in SUBSET LibraryInfo
    BY <1>v DEF Scrape
  <2>2. [scrape[s] EXCEPT !.pc = "sweep", !.pending = scrape[s].allLibs] \in Scrape
    BY <1>v, <2>1 DEF Scrape, PCs
  <2>9. scrape' \in [Scrapers -> Scrape]
    BY <1>7, <1>u, <2>2 DEF StartSweep
  <2> QED  BY <1>7, <1>t, <2>9 DEF StartSweep, TypeOK
<1>8. ASSUME NEW s \in Scrapers, NEW lib \in scrape[s].pending, PieSucceeds(s, lib) PROVE TypeOK'
  <2>1. lib \in LibraryInfo
    BY <1>u DEF Scrape
  <2>2. [lib |-> lib, at |-> now] \in PieStats
    BY <1>t, <2>1 DEF PieStats
  <2>3. unknownStatusCounts' \subseteq UnknownKeys
    BY <1>8, <1>t, <2>1, ScrapeCacheAssumption DEF PieSucceeds, LibraryInfo
  <2>8. [scrape[s] EXCEPT !.pending = @ \ {lib},
                           !.pieData = @ \cup {[lib |-> lib, at |-> now]}] \in Scrape
    BY <1>8, <1>v, <2>2 DEF PieSucceeds, Scrape, PCs
  <2>9. scrape' \in [Scrapers -> Scrape]
    BY <1>8, <1>u, <2>8 DEF PieSucceeds
  <2> QED  BY <1>8, <1>t, <2>3, <2>9 DEF PieSucceeds, TypeOK
<1>9. ASSUME NEW s \in Scrapers, NEW lib \in scrape[s].pending, PieDropped(s, lib) PROVE TypeOK'
  <2>8. [scrape[s] EXCEPT !.pending = @ \ {lib}, !.partialFail = TRUE] \in Scrape
    BY <1>9, <1>v DEF PieDropped, Scrape, PCs
  <2>9. scrape' \in [Scrapers -> Scrape]
    BY <1>9, <1>u, <2>8 DEF PieDropped
  <2> QED  BY <1>9, <1>t, <2>9 DEF PieDropped, TypeOK
<1>10. ASSUME NEW s \in Scrapers, EndSweep(s) PROVE TypeOK'
  <2>1. statsCache' \in Snapshot
    BY <1>10, <1>t, <1>v DEF EndSweep, Scrape, Snapshot
  <2>2. [scrape[s] EXCEPT !.pc = "emit"] \in Scrape
    BY <1>v DEF Scrape, PCs
  <2>9. scrape' \in [Scrapers -> Scrape]
    BY <1>10, <1>u, <2>2 DEF EndSweep
  <2> QED  BY <1>10, <1>t, <2>1, <2>9 DEF EndSweep, TypeOK
<1>11. ASSUME NEW s \in Scrapers, Emit(s) PROVE TypeOK'
  <2>8. [scrape[s] EXCEPT !.pc = "nodes", !.exposed = unknownStatusCounts] \in Scrape
    BY <1>11, <1>t, <1>v DEF Emit, Scrape, PCs
  <2>9. scrape' \in [Scrapers -> Scrape]
    BY <1>11, <1>u, <2>8 DEF Emit
  <2> QED  BY <1>11, <1>t, <2>9 DEF Emit, TypeOK
<1>12. ASSUME NEW s \in Scrapers, NEW answered \in BOOLEAN, GetNodes(s, answered) PROVE TypeOK'
  <2>8. [scrape[s] EXCEPT !.pc = "done",
                           !.up = IF answered /\ ~scrape[s].partialFail THEN 1 ELSE 0] \in Scrape
    BY <1>12, <1>v DEF GetNodes, Scrape, PCs
  <2>9. scrape' \in [Scrapers -> Scrape]
    BY <1>12, <1>u, <2>8 DEF GetNodes
  <2> QED  BY <1>12, <1>t, <2>9 DEF GetNodes, TypeOK
<1>13. CASE UNCHANGED vars
  BY <1>13, <1>t DEF vars, TypeOK
<1> QED
  BY <1>1, <1>2, <1>3, <1>4, <1>5, <1>6, <1>7, <1>8, <1>9, <1>10, <1>11, <1>12,
     <1>13 DEF Next, ScrapeStep

THEOREM TypeCorrect == Spec => []TypeOK
<1> QED  BY InitType, NextType, PTL DEF Spec

-----------------------------------------------------------------------------
(* Time passing takes nothing back from what was read in order.            *)
LEMMA ReadInOrderLater ==
  ASSUME NEW h, NEW t \in Nat, NEW totals, NEW libs, NEW pies,
         ReadInOrder(h, t, totals, libs, pies)
  PROVE  ReadInOrder(h, t + 1, totals, libs, pies)
<1>0. PICK i \in 0 .. t : \E j \in i .. t :
        /\ h[i].totals = totals
        /\ h[j].libs = libs
        /\ \A p \in pies : p.at \in j .. t
  BY DEF ReadInOrder
<1>1. PICK j \in i .. t :
        /\ h[i].totals = totals
        /\ h[j].libs = libs
        /\ \A p \in pies : p.at \in j .. t
  BY <1>0
<1>2. i \in 0 .. t + 1 /\ j \in i .. t + 1
  OBVIOUS
<1>3. \A p \in pies : p.at \in j .. t + 1
  BY <1>1
<1> QED  BY <1>1, <1>2, <1>3 DEF ReadInOrder

(* An answer given now is in order after everything read before.           *)
LEMMA ReadInOrderNow ==
  ASSUME NEW h, NEW t \in Nat, NEW totals, NEW libs, NEW pies, NEW lib,
         ReadInOrder(h, t, totals, libs, pies)
  PROVE  ReadInOrder(h, t, totals, libs, pies \cup {[lib |-> lib, at |-> t]})
<1>0. PICK i \in 0 .. t : \E j \in i .. t :
        /\ h[i].totals = totals
        /\ h[j].libs = libs
        /\ \A p \in pies : p.at \in j .. t
  BY DEF ReadInOrder
<1>1. PICK j \in i .. t :
        /\ h[i].totals = totals
        /\ h[j].libs = libs
        /\ \A p \in pies : p.at \in j .. t
  BY <1>0
<1>2. t \in j .. t
  OBVIOUS
<1>3. \A p \in pies \cup {[lib |-> lib, at |-> t]} : p.at \in j .. t
  BY <1>1, <1>2
<1> QED  BY <1>1, <1>3 DEF ReadInOrder

(* The list is read after the totals, and before any figure.               *)
LEMMA ReadInOrderList ==
  ASSUME NEW h, NEW t \in Nat, NEW totals, \E i \in 0 .. t : h[i].totals = totals
  PROVE  ReadInOrder(h, t, totals, h[t].libs, {})
<1>1. PICK i \in 0 .. t : h[i].totals = totals
  OBVIOUS
<1>2. t \in i .. t
  OBVIOUS
<1> QED  BY <1>1, <1>2 DEF ReadInOrder

(* A change of Tdarr disturbs neither a scrape nor the cache.              *)
LEMMA InvLater ==
  ASSUME NEW h, NEW t \in Nat
  PROVE  /\ \A r : ScrapeInv(h, t, r) => ScrapeInv(h, t + 1, r)
         /\ \A c : CacheInv(h, t, c) => CacheInv(h, t + 1, c)
<1>1. \A totals : (\E i \in 0 .. t : h[i].totals = totals)
                     => \E i \in 0 .. t + 1 : h[i].totals = totals
  OBVIOUS
<1>2. ASSUME NEW r, ScrapeInv(h, t, r) PROVE ScrapeInv(h, t + 1, r)
  <2>1. r.pc = "libs" => \E i \in 0 .. t + 1 : h[i].totals = r.metric
    BY <1>1, <1>2 DEF ScrapeInv
  <2>2. r.pc \in {"cache", "sweep", "emit", "nodes", "done"} =>
          ReadInOrder(h, t + 1, r.metric, r.allLibs, r.pieData)
    BY <1>2, ReadInOrderLater DEF ScrapeInv
  <2> QED  BY <1>2, <2>1, <2>2 DEF ScrapeInv
<1>3. ASSUME NEW c, CacheInv(h, t, c) PROVE CacheInv(h, t + 1, c)
  BY <1>3, ReadInOrderLater DEF CacheInv
<1> QED  BY <1>2, <1>3

(* A step of one scrape: it is enough to look at that scrape and the cache. *)
LEMMA ScrapeStepInv ==
  ASSUME IInv, TypeOK', NEW s \in Scrapers,
         UNCHANGED <<history, now>>,
         unknownStatusCounts \subseteq unknownStatusCounts',
         \A q \in Scrapers : q # s => scrape'[q] = scrape[q],
         CacheInv(history, now, statsCache'),
         Counted(unknownStatusCounts', statsCache'.stats),
         ScrapeInv(history, now, scrape'[s]),
         DriftInv(unknownStatusCounts', scrape'[s])
  PROVE  IInv'
<1>1. ASSUME NEW q \in Scrapers
      PROVE  /\ ScrapeInv(history', now', scrape'[q])
             /\ DriftInv(unknownStatusCounts', scrape'[q])
  <2>1. CASE q = s
    BY <2>1
  <2>2. CASE q # s
    <3>1. scrape'[q] = scrape[q]
      BY <2>2
    <3>2. DriftInv(unknownStatusCounts, scrape[q])
      BY DEF IInv
    <3>3. DriftInv(unknownStatusCounts', scrape[q])
      BY <3>2 DEF DriftInv, Counted
    <3> QED  BY <3>1, <3>3 DEF IInv
  <2> QED  BY <2>1, <2>2
<1> QED  BY <1>1 DEF IInv

-----------------------------------------------------------------------------
(* IInv holds initially and is preserved by every step.                    *)
LEMMA InitInv == Init => IInv
<1> SUFFICES ASSUME Init PROVE IInv
  OBVIOUS
<1>1. TypeOK
  BY InitType
<1>2. CacheInv(history, now, statsCache) /\ Counted(unknownStatusCounts, statsCache.stats)
  BY DEF Init, CacheInv, Counted
<1>3. ASSUME NEW s \in Scrapers
      PROVE  ScrapeInv(history, now, scrape[s]) /\ DriftInv(unknownStatusCounts, scrape[s])
  <2>1. scrape[s] = NewScrape("idle")
    BY DEF Init
  <2> QED  BY <2>1 DEF NewScrape, ScrapeInv, DriftInv, Counted
<1> QED  BY <1>1, <1>2, <1>3 DEF IInv

LEMMA NextInv == IInv /\ [Next]_vars => IInv'
<1> SUFFICES ASSUME IInv, [Next]_vars PROVE IInv'
  OBVIOUS
<1>t. TypeOK /\ TypeOK'
  BY NextType DEF IInv
<1>n. now \in Nat
  BY <1>t, ScrapeCacheAssumption DEF TypeOK, Time
<1>c. /\ CacheInv(history, now, statsCache)
      /\ Counted(unknownStatusCounts, statsCache.stats)
  BY DEF IInv
<1>r. \A s \in Scrapers : /\ scrape[s] \in Scrape
                          /\ ScrapeInv(history, now, scrape[s])
                          /\ DriftInv(unknownStatusCounts, scrape[s])
  BY <1>t DEF IInv, TypeOK
<1>d. scrape \in [Scrapers -> Scrape]
  BY <1>t DEF TypeOK
<1>1. CASE TdarrChanges
  <2>1. /\ now' = now + 1
        /\ UNCHANGED <<history, statsCache, unknownStatusCounts, scrape>>
    BY <1>1 DEF TdarrChanges
  <2>2. /\ CacheInv(history, now + 1, statsCache)
        /\ \A s \in Scrapers : ScrapeInv(history, now + 1, scrape[s])
    BY <1>n, <1>c, <1>r, InvLater
  <2> QED  BY <1>t, <1>c, <1>r, <2>1, <2>2 DEF IInv
<1>2. ASSUME NEW s \in Scrapers, BeginScrape(s) \/ UpstreamFails(s) PROVE IInv'
  <2>1. /\ scrape'[s] \in {NewScrape("status"), NewScrape("failed")}
        /\ \A q \in Scrapers : q # s => scrape'[q] = scrape[q]
        /\ UNCHANGED <<history, now, statsCache, unknownStatusCounts>>
    BY <1>2, <1>d DEF BeginScrape, UpstreamFails
  <2>2. /\ ScrapeInv(history, now, scrape'[s])
        /\ DriftInv(unknownStatusCounts, scrape'[s])
    BY <2>1 DEF NewScrape, ScrapeInv, NothingGathered, DriftInv, Counted
  <2> QED  BY <1>t, <1>c, <2>1, <2>2, ScrapeStepInv
<1>3. ASSUME NEW s \in Scrapers, GetStatus(s) PROVE IInv'
  <2>1. /\ scrape'[s] = [scrape[s] EXCEPT !.pc = "stats"]
        /\ \A q \in Scrapers : q # s => scrape'[q] = scrape[q]
        /\ UNCHANGED <<history, now, statsCache, unknownStatusCounts>>
        /\ scrape[s].pc = "status"
    BY <1>3, <1>d DEF GetStatus, At
  <2>2. /\ scrape'[s].pc = "stats"
        /\ scrape'[s].pieData = scrape[s].pieData
        /\ scrape'[s].partialFail = scrape[s].partialFail
    BY <1>r, <2>1 DEF Scrape
  <2>3. ScrapeInv(history, now, scrape'[s])
    BY <1>r, <2>1, <2>2 DEF ScrapeInv, NothingGathered
  <2>4. DriftInv(unknownStatusCounts, scrape'[s])
    BY <1>r, <2>2 DEF DriftInv
  <2> QED  BY <1>t, <1>c, <2>1, <2>3, <2>4, ScrapeStepInv
<1>4. ASSUME NEW s \in Scrapers, GetStats(s) PROVE IInv'
  <2>1. /\ scrape'[s] = [scrape[s] EXCEPT !.pc = "libs", !.metric = history[now].totals]
        /\ \A q \in Scrapers : q # s => scrape'[q] = scrape[q]
        /\ UNCHANGED <<history, now, statsCache, unknownStatusCounts>>
        /\ scrape[s].pc = "stats"
    BY <1>4, <1>d DEF GetStats, At
  <2>2. /\ scrape'[s].pc = "libs"
        /\ scrape'[s].metric = history[now].totals
        /\ scrape'[s].pieData = scrape[s].pieData
        /\ scrape'[s].partialFail = scrape[s].partialFail
    BY <1>r, <2>1 DEF Scrape
  <2>3. \E i \in 0 .. now : history[i].totals = scrape'[s].metric
    BY <1>n, <2>2
  <2>4. ScrapeInv(history, now, scrape'[s])
    BY <1>r, <2>1, <2>2, <2>3 DEF ScrapeInv, NothingGathered
  <2>5. DriftInv(unknownStatusCounts, scrape'[s])
    BY <1>r, <2>2 DEF DriftInv
  <2> QED  BY <1>t, <1>c, <2>1, <2>4, <2>5, ScrapeStepInv
<1>5. ASSUME NEW s \in Scrapers, GetLibraries(s) PROVE IInv'
  <2>1. /\ scrape'[s] = [scrape[s] EXCEPT !.pc = "cache", !.allLibs = history[now].libs]
        /\ \A q \in Scrapers : q # s => scrape'[q] = scrape[q]
        /\ UNCHANGED <<history, now, statsCache, unknownStatusCounts>>
        /\ scrape[s].pc = "libs"
    BY <1>5, <1>d DEF GetLibraries, At
  <2>2. /\ scrape'[s].pc = "cache"
        /\ scrape'[s].metric = scrape[s].metric
        /\ scrape'[s].allLibs = history[now].libs
        /\ scrape'[s].pieData = scrape[s].pieData
        /\ scrape'[s].partialFail = scrape[s].partialFail
    BY <1>r, <2>1 DEF Scrape
  <2>3. /\ scrape[s].pieData = {}
        /\ \E i \in 0 .. now : history[i].totals = scrape[s].metric
    BY <1>r, <2>1 DEF ScrapeInv, NothingGathered
  <2>4. ReadInOrder(history, now, scrape'[s].metric, scrape'[s].allLibs, scrape'[s].pieData)
    BY <1>n, <2>2, <2>3, ReadInOrderList
  <2>5. ScrapeInv(history, now, scrape'[s])
    BY <1>r, <2>1, <2>2, <2>4 DEF ScrapeInv, NothingGathered
  <2>6. DriftInv(unknownStatusCounts, scrape'[s])
    BY <1>r, <2>2 DEF DriftInv
  <2> QED  BY <1>t, <1>c, <2>1, <2>5, <2>6, ScrapeStepInv
<1>6. ASSUME NEW s \in Scrapers, UseCache(s) PROVE IInv'
  <2>1. /\ scrape'[s] = [scrape[s] EXCEPT !.pc = "emit", !.pieData = statsCache.stats]
        /\ \A q \in Scrapers : q # s => scrape'[q] = scrape[q]
        /\ UNCHANGED <<history, now, statsCache, unknownStatusCounts>>
        /\ scrape[s].pc = "cache"
        /\ statsCache.stats # {}
        /\ statsCache.totals = scrape[s].metric
        /\ statsCache.fingerprint = scrape[s].allLibs
    BY <1>6, <1>d DEF UseCache, ShouldRefetch, At
  <2>2. /\ scrape'[s].pc = "emit"
        /\ scrape'[s].metric = scrape[s].metric
        /\ scrape'[s].allLibs = scrape[s].allLibs
        /\ scrape'[s].pieData = statsCache.stats
    BY <1>r, <2>1 DEF Scrape
  <2>3. /\ OnePiePerLibrary(scrape'[s].pieData, scrape'[s].allLibs)
        /\ ReadInOrder(history, now, scrape'[s].metric, scrape'[s].allLibs,
                       scrape'[s].pieData)
    BY <1>c, <2>1, <2>2 DEF CacheInv
  <2>4. ScrapeInv(history, now, scrape'[s])
    BY <2>2, <2>3 DEF ScrapeInv, OnePiePerLibrary
  <2>5. DriftInv(unknownStatusCounts, scrape'[s])
    BY <1>c, <2>2 DEF DriftInv
  <2> QED  BY <1>t, <1>c, <2>1, <2>4, <2>5, ScrapeStepInv
<1>7. ASSUME NEW s \in Scrapers, StartSweep(s) PROVE IInv'
  <2>1. /\ scrape'[s] = [scrape[s] EXCEPT !.pc = "sweep", !.pending = scrape[s].allLibs]
        /\ \A q \in Scrapers : q # s => scrape'[q] = scrape[q]
        /\ UNCHANGED <<history, now, statsCache, unknownStatusCounts>>
        /\ scrape[s].pc = "cache"
    BY <1>7, <1>d DEF StartSweep, At
  <2>2. /\ scrape'[s].pc = "sweep"
        /\ scrape'[s].metric = scrape[s].metric
        /\ scrape'[s].allLibs = scrape[s].allLibs
        /\ scrape'[s].pending = scrape[s].allLibs
        /\ scrape'[s].pieData = scrape[s].pieData
        /\ scrape'[s].partialFail = scrape[s].partialFail
    BY <1>r, <2>1 DEF Scrape
  <2>3. scrape[s].pieData = {}
    BY <1>r, <2>1 DEF ScrapeInv, NothingGathered
  <2>4. SweepInv(scrape'[s])
    BY <2>2, <2>3 DEF SweepInv
  <2>5. ScrapeInv(history, now, scrape'[s])
    BY <1>r, <2>1, <2>2, <2>3, <2>4 DEF ScrapeInv
  <2>6. DriftInv(unknownStatusCounts, scrape'[s])
    BY <1>r, <2>2 DEF DriftInv
  <2> QED  BY <1>t, <1>c, <2>1, <2>5, <2>6, ScrapeStepInv
<1>8. ASSUME NEW s \in Scrapers, NEW lib \in scrape[s].pending, PieSucceeds(s, lib)
      PROVE  IInv'
  <2> DEFINE pie == [lib |-> lib, at |-> now]
  <2>1. /\ scrape'[s] = [scrape[s] EXCEPT !.pending = scrape[s].pending \ {lib},
                                          !.pieData = scrape[s].pieData \cup {pie}]
        /\ \A q \in Scrapers : q # s => scrape'[q] = scrape[q]
        /\ UNCHANGED <<history, now, statsCache>>
        /\ unknownStatusCounts' = unknownStatusCounts \cup UnknownIn[lib.id]
        /\ scrape[s].pc = "sweep"
        /\ lib.name # Blank
    BY <1>8, <1>d DEF PieSucceeds, At
  <2>2. /\ scrape'[s].pc = "sweep"
        /\ scrape'[s].metric = scrape[s].metric
        /\ scrape'[s].allLibs = scrape[s].allLibs
        /\ scrape'[s].pending = scrape[s].pending \ {lib}
        /\ scrape'[s].pieData = scrape[s].pieData \cup {pie}
        /\ scrape'[s].partialFail = scrape[s].partialFail
    BY <1>r, <2>1 DEF Scrape
  <2>3. /\ SweepInv(scrape[s])
        /\ ReadInOrder(history, now, scrape[s].metric, scrape[s].allLibs, scrape[s].pieData)
        /\ \A p \in scrape[s].pieData : p.lib \in scrape[s].allLibs
    BY <1>r, <2>1 DEF ScrapeInv
  <2>4. pie.lib = lib
    OBVIOUS
  <2>5. SweepInv(scrape'[s])
    <3>1. scrape'[s].pending \subseteq scrape'[s].allLibs
      BY <2>2, <2>3 DEF SweepInv
    <3>2. \A p \in scrape'[s].pieData : p.lib \notin scrape'[s].pending /\ p.lib.name # Blank
      BY <2>1, <2>2, <2>3, <2>4 DEF SweepInv
    <3>3. \A p, q \in scrape'[s].pieData : p.lib = q.lib => p = q
      BY <2>2, <2>3, <2>4 DEF SweepInv
    <3>4. ASSUME ~scrape'[s].partialFail
          PROVE  {p.lib : p \in scrape'[s].pieData} \cup scrape'[s].pending
                   = scrape'[s].allLibs
      <4>1. {p.lib : p \in scrape[s].pieData} \cup scrape[s].pending = scrape[s].allLibs
        BY <2>2, <2>3, <3>4 DEF SweepInv
      <4>2. {p.lib : p \in scrape'[s].pieData} = {p.lib : p \in scrape[s].pieData} \cup {lib}
        BY <2>2, <2>4
      <4>3. lib \in scrape[s].pending
        OBVIOUS
      <4>4. scrape'[s].pending \cup {lib} = scrape[s].pending
        BY <2>2, <4>3
      <4> QED  BY <2>2, <4>1, <4>2, <4>4
    <3> QED  BY <3>1, <3>2, <3>3, <3>4 DEF SweepInv
  <2>6. ReadInOrder(history, now, scrape'[s].metric, scrape'[s].allLibs, scrape'[s].pieData)
    <3>1. ReadInOrder(history, now, scrape[s].metric, scrape[s].allLibs,
                      scrape[s].pieData \cup {[lib |-> lib, at |-> now]})
      BY <1>n, <2>3, ReadInOrderNow
    <3> QED  BY <2>2, <3>1
  <2>7. ScrapeInv(history, now, scrape'[s])
    <3>1. \A p \in scrape'[s].pieData : p.lib \in scrape'[s].allLibs
      BY <2>2, <2>3, <2>4 DEF SweepInv
    <3> QED  BY <2>2, <2>5, <2>6, <3>1 DEF ScrapeInv
  <2>8. DriftInv(unknownStatusCounts', scrape'[s])
    <3>1. Counted(unknownStatusCounts, scrape[s].pieData)
      BY <1>r DEF DriftInv
    <3>2. Counted(unknownStatusCounts', scrape'[s].pieData)
      BY <2>1, <2>2, <2>4, <3>1 DEF Counted
    <3> QED  BY <2>2, <3>2 DEF DriftInv
  <2>9. Counted(unknownStatusCounts', statsCache'.stats)
    BY <1>c, <2>1 DEF Counted
  <2> QED  BY <1>t, <1>c, <2>1, <2>7, <2>8, <2>9, ScrapeStepInv
<1>9. ASSUME NEW s \in Scrapers, NEW lib \in scrape[s].pending, PieDropped(s, lib)
      PROVE  IInv'
  <2>1. /\ scrape'[s] = [scrape[s] EXCEPT !.pending = scrape[s].pending \ {lib},
                                          !.partialFail = TRUE]
        /\ \A q \in Scrapers : q # s => scrape'[q] = scrape[q]
        /\ UNCHANGED <<history, now, statsCache, unknownStatusCounts>>
        /\ scrape[s].pc = "sweep"
    BY <1>9, <1>d DEF PieDropped, At
  <2>2. /\ scrape'[s].pc = "sweep"
        /\ scrape'[s].metric = scrape[s].metric
        /\ scrape'[s].allLibs = scrape[s].allLibs
        /\ scrape'[s].pending = scrape[s].pending \ {lib}
        /\ scrape'[s].pieData = scrape[s].pieData
        /\ scrape'[s].partialFail = TRUE
    BY <1>r, <2>1 DEF Scrape
  <2>3. SweepInv(scrape'[s])
    BY <1>r, <2>1, <2>2 DEF ScrapeInv, SweepInv
  <2>4. ScrapeInv(history, now, scrape'[s])
    BY <1>r, <2>1, <2>2, <2>3 DEF ScrapeInv
  <2>5. DriftInv(unknownStatusCounts, scrape'[s])
    BY <1>r, <2>1, <2>2 DEF DriftInv
  <2> QED  BY <1>t, <1>c, <2>1, <2>4, <2>5, ScrapeStepInv
<1>10. ASSUME NEW s \in Scrapers, EndSweep(s) PROVE IInv'
  <2>1. /\ scrape'[s] = [scrape[s] EXCEPT !.pc = "emit"]
        /\ \A q \in Scrapers : q # s => scrape'[q] = scrape[q]
        /\ UNCHANGED <<history, now, unknownStatusCounts>>
        /\ statsCache' = IF scrape[s].partialFail THEN statsCache
                         ELSE [totals |-> scrape[s].metric, stats |-> scrape[s].pieData,
                               fingerprint |-> scrape[s].allLibs]
        /\ scrape[s].pc = "sweep"
        /\ scrape[s].pending = {}
    BY <1>10, <1>d DEF EndSweep, At
  <2>2. /\ scrape'[s].pc = "emit"
        /\ scrape'[s].metric = scrape[s].metric
        /\ scrape'[s].allLibs = scrape[s].allLibs
        /\ scrape'[s].pieData = scrape[s].pieData
        /\ scrape'[s].partialFail = scrape[s].partialFail
    BY <1>r, <2>1 DEF Scrape
  <2>3. /\ SweepInv(scrape[s])
        /\ ReadInOrder(history, now, scrape[s].metric, scrape[s].allLibs, scrape[s].pieData)
        /\ \A p \in scrape[s].pieData : p.lib \in scrape[s].allLibs
    BY <1>r, <2>1 DEF ScrapeInv
  <2>4. ~scrape[s].partialFail => OnePiePerLibrary(scrape[s].pieData, scrape[s].allLibs)
    BY <2>1, <2>3 DEF SweepInv, OnePiePerLibrary
  <2>5. ScrapeInv(history, now, scrape'[s])
    BY <2>2, <2>3, <2>4 DEF ScrapeInv
  <2>6. DriftInv(unknownStatusCounts, scrape'[s])
    BY <1>r, <2>1, <2>2 DEF DriftInv
  <2>7. CacheInv(history, now, statsCache') /\ Counted(unknownStatusCounts, statsCache'.stats)
    <3>1. CASE scrape[s].partialFail
      BY <1>c, <2>1, <3>1
    <3>2. CASE ~scrape[s].partialFail
      <4>1. /\ statsCache'.totals = scrape[s].metric
            /\ statsCache'.stats = scrape[s].pieData
            /\ statsCache'.fingerprint = scrape[s].allLibs
        BY <2>1, <3>2
      <4>2. CacheInv(history, now, statsCache')
        BY <2>3, <2>4, <3>2, <4>1 DEF CacheInv
      <4>3. Counted(unknownStatusCounts, statsCache'.stats)
        BY <1>r, <4>1 DEF DriftInv
      <4> QED  BY <4>2, <4>3
    <3> QED  BY <3>1, <3>2
  <2> QED  BY <1>t, <2>1, <2>5, <2>6, <2>7, ScrapeStepInv
<1>11. ASSUME NEW s \in Scrapers, Emit(s) PROVE IInv'
  <2>1. /\ scrape'[s] = [scrape[s] EXCEPT !.pc = "nodes", !.exposed = unknownStatusCounts]
        /\ \A q \in Scrapers : q # s => scrape'[q] = scrape[q]
        /\ UNCHANGED <<history, now, statsCache, unknownStatusCounts>>
        /\ scrape[s].pc = "emit"
    BY <1>11, <1>d DEF Emit, At
  <2>2. /\ scrape'[s].pc = "nodes"
        /\ scrape'[s].metric = scrape[s].metric
        /\ scrape'[s].allLibs = scrape[s].allLibs
        /\ scrape'[s].pieData = scrape[s].pieData
        /\ scrape'[s].partialFail = scrape[s].partialFail
        /\ scrape'[s].exposed = unknownStatusCounts
    BY <1>r, <2>1 DEF Scrape
  <2>3. ScrapeInv(history, now, scrape'[s])
    BY <1>r, <2>1, <2>2 DEF ScrapeInv
  <2>4. DriftInv(unknownStatusCounts, scrape'[s])
    BY <1>r, <2>2 DEF DriftInv
  <2> QED  BY <1>t, <1>c, <2>1, <2>3, <2>4, ScrapeStepInv
<1>12. ASSUME NEW s \in Scrapers, NEW answered \in BOOLEAN, GetNodes(s, answered)
       PROVE  IInv'
  <2>1. /\ scrape'[s] = [scrape[s] EXCEPT !.pc = "done",
                           !.up = IF answered /\ ~scrape[s].partialFail THEN 1 ELSE 0]
        /\ \A q \in Scrapers : q # s => scrape'[q] = scrape[q]
        /\ UNCHANGED <<history, now, statsCache, unknownStatusCounts>>
        /\ scrape[s].pc = "nodes"
    BY <1>12, <1>d DEF GetNodes, At
  <2>2. /\ scrape'[s].pc = "done"
        /\ scrape'[s].metric = scrape[s].metric
        /\ scrape'[s].allLibs = scrape[s].allLibs
        /\ scrape'[s].pieData = scrape[s].pieData
        /\ scrape'[s].partialFail = scrape[s].partialFail
        /\ scrape'[s].exposed = scrape[s].exposed
        /\ scrape'[s].up = IF answered /\ ~scrape[s].partialFail THEN 1 ELSE 0
    BY <1>r, <2>1 DEF Scrape
  <2>3. scrape'[s].up = 1 => ~scrape'[s].partialFail
    BY <2>2
  <2>4. ScrapeInv(history, now, scrape'[s])
    BY <1>r, <2>1, <2>2, <2>3 DEF ScrapeInv
  <2>5. DriftInv(unknownStatusCounts, scrape'[s])
    BY <1>r, <2>1, <2>2 DEF DriftInv
  <2> QED  BY <1>t, <1>c, <2>1, <2>4, <2>5, ScrapeStepInv
<1>13. CASE UNCHANGED vars
  BY <1>13, <1>t, <1>c, <1>r DEF vars, IInv
<1> QED
  BY <1>1, <1>2, <1>3, <1>4, <1>5, <1>6, <1>7, <1>8, <1>9, <1>10, <1>11, <1>12,
     <1>13 DEF Next, ScrapeStep

LEMMA InductiveInv == Spec => []IInv
<1> QED  BY InitInv, NextInv, PTL DEF Spec

-----------------------------------------------------------------------------
(* A snapshot that can be served has one set of figures for every library  *)
(* of its fingerprint, whatever sweeps fail or overlap.                    *)
THEOREM CacheCompleteAlways == Spec => []CacheComplete
<1>1. IInv => CacheComplete
  BY DEF IInv, CacheInv, CacheComplete
<1> QED  BY <1>1, InductiveInv, PTL

(* A scrape that ends with tdarr_up 1 published every library it listed.   *)
THEOREM UpMeansCompleteAlways == Spec => []UpMeansComplete
<1>1. IInv => UpMeansComplete
  BY DEF IInv, ScrapeInv, UpMeansComplete, At
<1> QED  BY <1>1, InductiveInv, PTL

(* No published figure is older than the totals and the list beside it,    *)
(* for any history of Tdarr and any number of scrapes.                     *)
THEOREM FreshViewAlways == Spec => []FreshView
<1>1. IInv => FreshView
  BY DEF IInv, ScrapeInv, FreshView
<1> QED  BY <1>1, InductiveInv, PTL

(* A scrape that publishes a library publishes the counters of the unknown *)
(* statuses in its figures.                                                *)
THEOREM DriftExposedAlways == Spec => []DriftExposed
<1>1. IInv => DriftExposed
  BY DEF IInv, DriftInv, Counted, DriftExposed
<1> QED  BY <1>1, InductiveInv, PTL

-----------------------------------------------------------------------------
(* Once the cache holds Tdarr's last state it goes on holding it.  A scrape *)
(* that is up to date can only start no sweep, or end one that writes what *)
(* the cache already says.                                                 *)
LEMMA SettledStep ==
  ASSUME IInv, Next, Settled
  PROVE  Settled' /\ \A s \in Scrapers : At(s, "sweep")' => At(s, "sweep")
<1>d. scrape \in [Scrapers -> Scrape] /\ \A s \in Scrapers : scrape[s] \in Scrape
  BY DEF IInv, TypeOK
<1>s. /\ now = MaxChanges
      /\ statsCache.stats # {}
      /\ statsCache.totals = history[now].totals
      /\ statsCache.fingerprint = history[now].libs
      /\ \A s \in Scrapers : UpToDate(s)
  BY DEF Settled
<1>f. statsCache.fingerprint # {}
  BY <1>s DEF IInv, CacheInv, OnePiePerLibrary
<1>q. ASSUME NEW s \in Scrapers,
             UNCHANGED <<history, now>>,
             \A q \in Scrapers : q # s => scrape'[q] = scrape[q],
             statsCache' = statsCache
               \/ /\ statsCache'.stats # {}
                  /\ statsCache'.totals = history[now].totals
                  /\ statsCache'.fingerprint = history[now].libs,
             scrape'[s].pc = "sweep" => scrape[s].pc = "sweep",
             UpToDate(s)'
      PROVE  Settled' /\ \A q \in Scrapers : At(q, "sweep")' => At(q, "sweep")
  <2>1. ASSUME NEW q \in Scrapers
        PROVE  UpToDate(q)' /\ (At(q, "sweep")' => At(q, "sweep"))
    BY <1>q, <1>s DEF UpToDate, At
  <2> QED  BY <1>q, <1>s, <2>1 DEF Settled
<1>1. CASE TdarrChanges
  BY <1>1, <1>s, ScrapeCacheAssumption DEF TdarrChanges
<1>2. ASSUME NEW s \in Scrapers, BeginScrape(s) \/ UpstreamFails(s)
      PROVE  Settled' /\ \A q \in Scrapers : At(q, "sweep")' => At(q, "sweep")
  <2>1. /\ scrape'[s] \in {NewScrape("status"), NewScrape("failed")}
        /\ \A q \in Scrapers : q # s => scrape'[q] = scrape[q]
        /\ UNCHANGED <<history, now, statsCache>>
    BY <1>2, <1>d DEF BeginScrape, UpstreamFails
  <2>2. scrape'[s].pc \in {"status", "failed"}
    BY <2>1 DEF NewScrape
  <2> QED  BY <1>q, <2>1, <2>2 DEF UpToDate
<1>3. ASSUME NEW s \in Scrapers, GetStatus(s) \/ UseCache(s) \/ Emit(s)
      PROVE  Settled' /\ \A q \in Scrapers : At(q, "sweep")' => At(q, "sweep")
  <2>1. /\ \A q \in Scrapers : q # s => scrape'[q] = scrape[q]
        /\ UNCHANGED <<history, now, statsCache>>
    BY <1>3, <1>d DEF GetStatus, UseCache, Emit
  <2>2. scrape'[s].pc \in {"stats", "emit", "nodes"}
    BY <1>3, <1>d DEF GetStatus, UseCache, Emit, Scrape
  <2> QED  BY <1>q, <2>1, <2>2 DEF UpToDate
<1>4. ASSUME NEW s \in Scrapers, GetStats(s)
      PROVE  Settled' /\ \A q \in Scrapers : At(q, "sweep")' => At(q, "sweep")
  <2>1. /\ \A q \in Scrapers : q # s => scrape'[q] = scrape[q]
        /\ UNCHANGED <<history, now, statsCache>>
    BY <1>4, <1>d DEF GetStats
  <2>2. scrape'[s].pc = "libs" /\ scrape'[s].metric = history[now].totals
    BY <1>4, <1>d DEF GetStats, Scrape
  <2> QED  BY <1>q, <2>1, <2>2 DEF UpToDate
<1>5. ASSUME NEW s \in Scrapers, GetLibraries(s)
      PROVE  Settled' /\ \A q \in Scrapers : At(q, "sweep")' => At(q, "sweep")
  <2>1. /\ \A q \in Scrapers : q # s => scrape'[q] = scrape[q]
        /\ UNCHANGED <<history, now, statsCache>>
        /\ scrape[s].pc = "libs"
        /\ scrape' = [scrape EXCEPT ![s] = [scrape[s] EXCEPT !.pc = "cache",
                                                  !.allLibs = history[now].libs]]
    BY <1>5, <1>d DEF GetLibraries, At
  <2>2. /\ scrape'[s].pc = "cache"
        /\ scrape'[s].metric = scrape[s].metric
        /\ scrape'[s].allLibs = history[now].libs
    BY <2>1, <1>d DEF Scrape
  <2> QED  BY <1>q, <1>s, <2>1, <2>2 DEF UpToDate
<1>6. ASSUME NEW s \in Scrapers, StartSweep(s) PROVE FALSE
  BY <1>6, <1>s DEF StartSweep, ShouldRefetch, UpToDate, At
<1>7. ASSUME NEW s \in Scrapers, NEW lib \in scrape[s].pending,
             PieSucceeds(s, lib) \/ PieDropped(s, lib)
      PROVE  Settled' /\ \A q \in Scrapers : At(q, "sweep")' => At(q, "sweep")
  <2>1. /\ \A q \in Scrapers : q # s => scrape'[q] = scrape[q]
        /\ UNCHANGED <<history, now, statsCache>>
    BY <1>7, <1>d DEF PieSucceeds, PieDropped
  <2>2. /\ scrape'[s].pc = scrape[s].pc
        /\ scrape'[s].metric = scrape[s].metric
        /\ scrape'[s].allLibs = scrape[s].allLibs
    <3>1. CASE PieSucceeds(s, lib)
      <4>1. scrape' = [scrape EXCEPT ![s] =
                [scrape[s] EXCEPT !.pending = scrape[s].pending \ {lib},
                                  !.pieData = scrape[s].pieData
                                                \cup {[lib |-> lib, at |-> now]}]]
        BY <3>1 DEF PieSucceeds
      <4> QED  BY <4>1, <1>d DEF Scrape
    <3>2. CASE PieDropped(s, lib)
      <4>1. scrape' = [scrape EXCEPT ![s] =
                [scrape[s] EXCEPT !.pending = scrape[s].pending \ {lib},
                                  !.partialFail = TRUE]]
        BY <3>2 DEF PieDropped
      <4> QED  BY <4>1, <1>d DEF Scrape
    <3> QED  BY <1>7, <3>1, <3>2
  <2>3. UpToDate(s)
    BY <1>s
  <2>4. UpToDate(s)'
    BY <2>1, <2>2, <2>3 DEF UpToDate
  <2> QED  BY <1>q, <2>1, <2>2, <2>4
<1>8. ASSUME NEW s \in Scrapers, EndSweep(s)
      PROVE  Settled' /\ \A q \in Scrapers : At(q, "sweep")' => At(q, "sweep")
  <2>1. /\ \A q \in Scrapers : q # s => scrape'[q] = scrape[q]
        /\ UNCHANGED <<history, now>>
        /\ scrape[s].pc = "sweep"
        /\ scrape[s].pending = {}
        /\ statsCache' = IF scrape[s].partialFail THEN statsCache
                         ELSE [totals |-> scrape[s].metric, stats |-> scrape[s].pieData,
                               fingerprint |-> scrape[s].allLibs]
    BY <1>8, <1>d DEF EndSweep, At
  <2>2. scrape'[s].pc = "emit"
    BY <1>8, <1>d DEF EndSweep, Scrape
  <2>3. /\ scrape[s].metric = history[now].totals
        /\ scrape[s].allLibs = history[now].libs
    BY <1>s, <2>1 DEF UpToDate
  <2>4. ~scrape[s].partialFail => scrape[s].pieData # {}
    BY <1>f, <1>s, <2>1, <2>3 DEF IInv, ScrapeInv, SweepInv
  <2>5. statsCache' = statsCache
          \/ /\ statsCache'.stats # {}
             /\ statsCache'.totals = history[now].totals
             /\ statsCache'.fingerprint = history[now].libs
    BY <2>1, <2>3, <2>4
  <2> QED  BY <1>q, <2>1, <2>2, <2>5 DEF UpToDate
<1>9. ASSUME NEW s \in Scrapers, NEW answered \in BOOLEAN, GetNodes(s, answered)
      PROVE  Settled' /\ \A q \in Scrapers : At(q, "sweep")' => At(q, "sweep")
  <2>1. /\ \A q \in Scrapers : q # s => scrape'[q] = scrape[q]
        /\ UNCHANGED <<history, now, statsCache>>
        /\ scrape' = [scrape EXCEPT ![s] = [scrape[s] EXCEPT !.pc = "done",
                         !.up = IF answered /\ ~scrape[s].partialFail THEN 1 ELSE 0]]
    BY <1>9, <1>d DEF GetNodes
  <2>2. scrape'[s].pc = "done"
    BY <2>1, <1>d DEF Scrape
  <2> QED  BY <1>q, <2>1, <2>2 DEF UpToDate
<1> QED
  BY <1>1, <1>2, <1>3, <1>4, <1>5, <1>6, <1>7, <1>8, <1>9 DEF Next, ScrapeStep

(* While Tdarr does not change no further sweep is started, and no sweep   *)
(* that fails or overlaps can make the cache useless.                      *)
THEOREM ReuseWhenSettledAlways == Spec => ReuseWhenSettled
<1>1. IInv /\ [Next]_vars =>
        [Settled => /\ Settled'
                    /\ \A s \in Scrapers : At(s, "sweep")' => At(s, "sweep")]_vars
  BY SettledStep
<1> QED  BY <1>1, InductiveInv, PTL DEF Spec, ReuseWhenSettled

-----------------------------------------------------------------------------
(* While no two scrapes have overlapped, what a sweep gathers is at least  *)
(* as recent as what the cache holds: nobody else writes the cache during  *)
(* the sweep.                                                              *)
Gathering ==
    Sequential =>
        \A s \in Scrapers : At(s, "sweep") =>
            \A new \in scrape[s].pieData, old \in statsCache.stats : old.at <= new.at

LEMMA CachedBefore ==
  ASSUME IInv
  PROVE  now \in Nat /\ \A p \in statsCache.stats : p.at \in Nat /\ p.at <= now
<1>1. now \in Nat
  BY ScrapeCacheAssumption DEF IInv, TypeOK, Time
<1>2. CASE statsCache.stats # {}
  <2>1. ReadInOrder(history, now, statsCache.totals, statsCache.fingerprint, statsCache.stats)
    BY <1>2 DEF IInv, CacheInv
  <2> QED  BY <1>1, <2>1 DEF ReadInOrder
<1> QED  BY <1>1, <1>2

(* A slot that takes a step is not idle after it: when scrapes have not    *)
(* overlapped it is the only one.                                          *)
LEMMA OneSlot ==
  ASSUME TypeOK, NEW s \in Scrapers, BeginScrape(s) \/ ScrapeStep(s), Sequential'
  PROVE  /\ Sequential
         /\ \A q \in Scrapers : q # s => At(q, "idle") /\ At(q, "idle")'
<1>1. scrape \in [Scrapers -> Scrape] /\ \A q \in Scrapers : scrape[q] \in Scrape
  BY DEF TypeOK
<1>2. \A q \in Scrapers : q # s => scrape'[q] = scrape[q]
  BY <1>1 DEF BeginScrape, ScrapeStep, UpstreamFails, GetStatus, GetStats, GetLibraries,
     UseCache, StartSweep, PieSucceeds, PieDropped, EndSweep, Emit, GetNodes
<1>3. ~At(s, "idle")'
  <2>1. CASE BeginScrape(s) \/ UpstreamFails(s)
    BY <1>1, <2>1 DEF BeginScrape, UpstreamFails, NewScrape, At
  <2>2. CASE GetStatus(s) \/ GetStats(s) \/ GetLibraries(s) \/ UseCache(s)
    BY <1>1, <2>2 DEF GetStatus, GetStats, GetLibraries, UseCache, At, Scrape
  <2>3. CASE StartSweep(s) \/ EndSweep(s) \/ Emit(s)
    BY <1>1, <2>3 DEF StartSweep, EndSweep, Emit, At, Scrape
  <2>4. ASSUME NEW lib \in scrape[s].pending, PieSucceeds(s, lib) \/ PieDropped(s, lib)
        PROVE  ~At(s, "idle")'
    BY <1>1, <2>4 DEF PieSucceeds, PieDropped, At, Scrape
  <2>5. ASSUME NEW answered \in BOOLEAN, GetNodes(s, answered) PROVE ~At(s, "idle")'
    BY <1>1, <2>5 DEF GetNodes, At, Scrape
  <2> QED  BY <2>1, <2>2, <2>3, <2>4, <2>5 DEF ScrapeStep
<1>4. \A q \in Scrapers : q # s => At(q, "idle")'
  BY <1>3 DEF Sequential
<1> QED  BY <1>2, <1>4 DEF At, Sequential

LEMMA NextGathering == IInv /\ Gathering /\ [Next]_vars => Gathering'
<1> SUFFICES ASSUME IInv, Gathering, [Next]_vars, Sequential',
                    NEW s \in Scrapers, At(s, "sweep")',
                    NEW new \in scrape'[s].pieData, NEW old \in statsCache'.stats
             PROVE  old.at <= new.at
  BY DEF Gathering
<1>d. scrape \in [Scrapers -> Scrape] /\ \A q \in Scrapers : scrape[q] \in Scrape
  BY DEF IInv, TypeOK
<1>1. CASE TdarrChanges \/ UNCHANGED vars
  BY <1>1 DEF TdarrChanges, vars, Gathering, Sequential, At
<1>2. ASSUME NEW q \in Scrapers, BeginScrape(q) \/ ScrapeStep(q) PROVE old.at <= new.at
  <2>1. Sequential /\ q = s
    BY <1>2, OneSlot DEF IInv, At
  <2>2. CASE BeginScrape(s) \/ UpstreamFails(s) \/ GetStatus(s) \/ GetStats(s)
               \/ GetLibraries(s) \/ UseCache(s) \/ EndSweep(s) \/ Emit(s)
    <3>1. CASE BeginScrape(s) \/ UpstreamFails(s)
      BY <1>d, <3>1 DEF BeginScrape, UpstreamFails, NewScrape, At
    <3>2. CASE GetStatus(s) \/ GetStats(s) \/ GetLibraries(s) \/ UseCache(s)
      BY <1>d, <3>2 DEF GetStatus, GetStats, GetLibraries, UseCache, At, Scrape
    <3>3. CASE EndSweep(s) \/ Emit(s)
      BY <1>d, <3>3 DEF EndSweep, Emit, At, Scrape
    <3> QED  BY <2>2, <3>1, <3>2, <3>3
  <2>3. CASE StartSweep(s)
    <3>1. scrape'[s].pieData = {}
      BY <1>d, <2>3 DEF StartSweep, IInv, ScrapeInv, NothingGathered, At, Scrape
    <3> QED  BY <3>1
  <2>4. ASSUME NEW lib \in scrape[s].pending, PieSucceeds(s, lib) PROVE old.at <= new.at
    <3>1. /\ At(s, "sweep") /\ statsCache' = statsCache
          /\ scrape' = [scrape EXCEPT ![s] =
                [scrape[s] EXCEPT !.pending = scrape[s].pending \ {lib},
                                  !.pieData = scrape[s].pieData
                                                \cup {[lib |-> lib, at |-> now]}]]
      BY <2>4 DEF PieSucceeds
    <3>2. new \in scrape[s].pieData \/ new.at = now
      BY <1>d, <3>1 DEF Scrape
    <3> QED  BY <2>1, <3>1, <3>2, CachedBefore DEF Gathering
  <2>5. ASSUME NEW lib \in scrape[s].pending, PieDropped(s, lib) PROVE old.at <= new.at
    <3>1. /\ At(s, "sweep") /\ statsCache' = statsCache
          /\ scrape' = [scrape EXCEPT ![s] =
                [scrape[s] EXCEPT !.pending = scrape[s].pending \ {lib},
                                  !.partialFail = TRUE]]
      BY <2>5 DEF PieDropped
    <3>2. scrape'[s].pieData = scrape[s].pieData
      BY <1>d, <3>1 DEF Scrape
    <3> QED  BY <2>1, <3>1, <3>2 DEF Gathering
  <2>6. ASSUME NEW answered \in BOOLEAN, GetNodes(s, answered) PROVE FALSE
    BY <1>d, <2>6 DEF GetNodes, At, Scrape
  <2> QED  BY <1>2, <2>1, <2>2, <2>3, <2>4, <2>5, <2>6 DEF ScrapeStep
<1> QED  BY <1>1, <1>2 DEF Next

LEMMA AdvanceStep ==
  ASSUME IInv, Gathering, Next, statsCache' # statsCache, Sequential,
         NEW new \in statsCache'.stats, NEW old \in statsCache.stats
  PROVE  old.at <= new.at
<1>1. PICK s \in Scrapers : EndSweep(s)
  BY DEF Next, ScrapeStep, TdarrChanges, BeginScrape, UpstreamFails, GetStatus, GetStats,
     GetLibraries, UseCache, StartSweep, PieSucceeds, PieDropped, Emit, GetNodes
<1>2. At(s, "sweep") /\ statsCache'.stats = scrape[s].pieData
  BY <1>1 DEF EndSweep
<1> QED  BY <1>2 DEF Gathering

(* Scrapes that do not overlap only ever replace the cache by more recent  *)
(* figures.                                                                *)
THEOREM CacheAdvancesAlways == Spec => CacheAdvances
<1>1. Init => Gathering
  BY DEF Init, Gathering, NewScrape, At
<1>2. IInv /\ Gathering /\ [Next]_vars =>
        [Sequential => \A new \in statsCache'.stats, old \in statsCache.stats :
                         old.at <= new.at]_statsCache
  BY AdvanceStep DEF vars
<1> QED  BY <1>1, <1>2, InductiveInv, NextGathering, PTL DEF Spec, CacheAdvances

-----------------------------------------------------------------------------
(* The refinement of View.                                                 *)

(* A step that shows nothing of scrape s: its place in View, what it has   *)
(* read and what it has published stay the same.                           *)
Hidden(s) ==
    /\ UNCHANGED <<history, now>>
    /\ Stage(scrape'[s].pc) = Stage(scrape[s].pc)
    /\ scrape'[s].metric = scrape[s].metric
    /\ scrape'[s].allLibs = scrape[s].allLibs
    /\ Seen(s)' = Seen(s)
    /\ Published(s)' = Published(s)
    /\ scrape'[s].up = scrape[s].up

LEMMA HiddenStutters ==
  ASSUME NEW s \in Scrapers, Hidden(s)
  PROVE  UNCHANGED ViewOf(s)!viewVars
  BY DEF Hidden, ViewOf!viewVars, ViewOf!tdarr

LEMMA StageValues ==
  /\ Stage("idle") = "off" /\ Stage("status") = "started" /\ Stage("stats") = "started"
  /\ Stage("libs") = "totals" /\ Stage("cache") = "libs" /\ Stage("sweep") = "libs"
  /\ Stage("emit") = "libs" /\ Stage("nodes") = "published" /\ Stage("done") = "answered"
  /\ Stage("failed") = "failed"
  BY DEF Stage

(* The totals tell whether anything happened: right after they are read    *)
(* there is one value only that Tdarr may have had since it had them.      *)
LEMMA SeenAtRead ==
  ASSUME TypeOK, TotalsTell
  PROVE  {history[t].totals :
            t \in {u \in 0 .. now : \E e \in 0 .. u : history[e].totals = history[now].totals}}
           = {history[now].totals}
<1>n. now \in 0 .. MaxChanges /\ now \in Nat
  BY ScrapeCacheAssumption DEF TypeOK, Time
<1> DEFINE after == {u \in 0 .. now : \E e \in 0 .. u : history[e].totals = history[now].totals}
<1>1. now \in after
  BY <1>n
<1>2. ASSUME NEW t \in after PROVE history[t].totals = history[now].totals
  <2>1. PICK e \in 0 .. t : history[e].totals = history[now].totals
    OBVIOUS
  <2>2. now \in Time /\ t \in 0 .. now
    BY <1>n DEF Time
  <2> QED  BY <2>1, <2>2 DEF TotalsTell
<1> HIDE DEF after
<1>3. {history[t].totals : t \in after} = {history[now].totals}
  BY <1>1, <1>2
<1> QED  BY <1>3 DEF after

(* A change of Tdarr adds the new totals, for a scrape that has read some. *)
LEMMA SeenLater ==
  ASSUME IInv, TdarrChanges, NEW s \in Scrapers
  PROVE  Seen(s)' = IF Seen(s) = {} THEN {} ELSE Seen(s) \cup {history[now'].totals}
<1>n. now \in Nat /\ now' = now + 1 /\ UNCHANGED <<history, scrape>>
  BY ScrapeCacheAssumption DEF IInv, TypeOK, Time, TdarrChanges
<1> DEFINE Read == scrape[s].pc \in {"libs", "cache", "sweep", "emit", "nodes", "done"}
           after(t) == {u \in 0 .. t : \E e \in 0 .. u : history[e].totals = scrape[s].metric}
<1>1. CASE ~Read
  BY <1>n, <1>1 DEF Seen
<1>2. CASE Read
  <2>1. PICK i \in 0 .. now : history[i].totals = scrape[s].metric
    BY <1>2 DEF IInv, ScrapeInv, ReadInOrder
  <2>2. now \in after(now)
    BY <1>n, <2>1
  <2>3. after(now + 1) = after(now) \cup {now + 1}
    BY <1>n, <2>1
  <2>4. /\ Seen(s) = {history[t].totals : t \in after(now)}
        /\ Seen(s)' = {history[t].totals : t \in after(now + 1)}
    BY <1>n, <1>2 DEF Seen
  <2> HIDE DEF after
  <2> QED  BY <1>n, <2>2, <2>3, <2>4
<1> QED  BY <1>1, <1>2

(* The figures of a scrape are answers that Tdarr gave after it had the    *)
(* totals which the scrape read.                                           *)
LEMMA FiguresSeen ==
  ASSUME IInv, NEW s \in Scrapers, scrape[s].pc = "emit", NEW p \in scrape[s].pieData
  PROVE  history[p.at].totals \in Seen(s)
<1>1. ReadInOrder(history, now, scrape[s].metric, scrape[s].allLibs, scrape[s].pieData)
  BY DEF IInv, ScrapeInv
<1>2. PICK i \in 0 .. now : \E j \in i .. now :
         /\ history[i].totals = scrape[s].metric
         /\ \A q \in scrape[s].pieData : q.at \in j .. now
  BY <1>1 DEF ReadInOrder
<1>3. now \in Nat
  BY ScrapeCacheAssumption DEF IInv, TypeOK, Time
<1>4. p.at \in 0 .. now /\ i \in 0 .. p.at
  BY <1>2, <1>3
<1> QED  BY <1>2, <1>4 DEF Seen

(* A step of scrape s is a step of View or invisible in it.                *)
LEMMA ScrapeMaps ==
  ASSUME IInv, TotalsTell, NEW s \in Scrapers, BeginScrape(s) \/ ScrapeStep(s)
  PROVE  [ViewOf(s)!Next]_(ViewOf(s)!viewVars)
<1>d. scrape \in [Scrapers -> Scrape] /\ scrape[s] \in Scrape
  BY DEF IInv, TypeOK
<1>i. ScrapeInv(history, now, scrape[s])
  BY DEF IInv
<1>h. UNCHANGED <<history, now>>
  BY DEF BeginScrape, ScrapeStep, UpstreamFails, GetStatus, GetStats, GetLibraries,
     UseCache, StartSweep, PieSucceeds, PieDropped, EndSweep, Emit, GetNodes
<1>1. CASE BeginScrape(s)
  <2>1. scrape[s].pc \in {"idle", "done", "failed"} /\ scrape'[s] = NewScrape("status")
    BY <1>1, <1>d DEF BeginScrape
  <2>2. ViewOf(s)!Start
    BY <1>h, <2>1, StageValues DEF ViewOf!Start, ViewOf!Blanked, ViewOf!tdarr, NewScrape,
       Published, Seen
  <2> QED  BY <2>2 DEF ViewOf!Next
<1>2. CASE UpstreamFails(s)
  <2>1. scrape[s].pc \in {"status", "stats", "libs"} /\ scrape'[s] = NewScrape("failed")
    BY <1>2, <1>d DEF UpstreamFails
  <2>2. ViewOf(s)!Fail
    BY <1>h, <2>1, StageValues DEF ViewOf!Fail, ViewOf!Blanked, ViewOf!tdarr, NewScrape,
       Published, Seen
  <2> QED  BY <2>2 DEF ViewOf!Next
<1>3. CASE GetStats(s)
  <2>1. /\ scrape[s].pc = "stats"
        /\ scrape'[s] = [scrape[s] EXCEPT !.pc = "libs", !.metric = history[now].totals]
    BY <1>3, <1>d DEF GetStats, At
  <2>2. /\ scrape'[s].pc = "libs" /\ scrape'[s].metric = history[now].totals
        /\ scrape'[s].allLibs = scrape[s].allLibs /\ scrape'[s].up = scrape[s].up
    BY <1>d, <2>1 DEF Scrape
  <2>3. Seen(s)' = {scrape'[s].metric}
    BY <1>h, <2>2, SeenAtRead DEF IInv, Seen
  <2>4. ViewOf(s)!ReadTotals
    BY <1>h, <2>1, <2>2, <2>3, StageValues DEF ViewOf!ReadTotals, ViewOf!tdarr, Published
  <2> QED  BY <2>4 DEF ViewOf!Next
<1>4. CASE GetLibraries(s)
  <2>1. /\ scrape[s].pc = "libs"
        /\ scrape'[s] = [scrape[s] EXCEPT !.pc = "cache", !.allLibs = history[now].libs]
    BY <1>4, <1>d DEF GetLibraries, At
  <2>2. /\ scrape'[s].pc = "cache" /\ scrape'[s].allLibs = history[now].libs
        /\ scrape'[s].metric = scrape[s].metric /\ scrape'[s].up = scrape[s].up
    BY <1>d, <2>1 DEF Scrape
  <2>3. ViewOf(s)!ReadLibs
    BY <1>h, <2>1, <2>2, StageValues DEF ViewOf!ReadLibs, ViewOf!tdarr, Published,
       Seen
  <2> QED  BY <2>3 DEF ViewOf!Next
<1>5. CASE GetStatus(s) \/ UseCache(s) \/ StartSweep(s) \/ EndSweep(s)
  <2>1. /\ scrape'[s].metric = scrape[s].metric
        /\ scrape'[s].allLibs = scrape[s].allLibs
        /\ scrape'[s].up = scrape[s].up
    BY <1>5, <1>d DEF GetStatus, UseCache, StartSweep, EndSweep, Scrape
  <2>2. \/ scrape[s].pc = "status" /\ scrape'[s].pc = "stats"
        \/ scrape[s].pc \in {"cache", "sweep"} /\ scrape'[s].pc \in {"sweep", "emit"}
    <3>1. CASE GetStatus(s)
      BY <1>d, <3>1 DEF GetStatus, At, Scrape
    <3>2. CASE UseCache(s)
      BY <1>d, <3>2 DEF UseCache, At, Scrape
    <3>3. CASE StartSweep(s)
      BY <1>d, <3>3 DEF StartSweep, At, Scrape
    <3>4. CASE EndSweep(s)
      BY <1>d, <3>4 DEF EndSweep, At, Scrape
    <3> QED  BY <1>5, <3>1, <3>2, <3>3, <3>4
  <2>3. Hidden(s)
    BY <1>h, <2>1, <2>2, StageValues DEF Hidden, Published, Seen
  <2> QED  BY <2>3, HiddenStutters
<1>6. ASSUME NEW lib \in scrape[s].pending, PieSucceeds(s, lib) \/ PieDropped(s, lib)
      PROVE  Hidden(s)
  <2>1. scrape[s].pc = "sweep"
        /\ \/ scrape'[s] = [scrape[s] EXCEPT !.pending = scrape[s].pending \ {lib},
                              !.pieData = scrape[s].pieData
                                            \cup {[lib |-> lib, at |-> now]}]
           \/ scrape'[s] = [scrape[s] EXCEPT !.pending = scrape[s].pending \ {lib},
                                             !.partialFail = TRUE]
    BY <1>6, <1>d DEF PieSucceeds, PieDropped, At
  <2>2. /\ scrape'[s].pc = "sweep" /\ scrape'[s].metric = scrape[s].metric
        /\ scrape'[s].allLibs = scrape[s].allLibs /\ scrape'[s].up = scrape[s].up
    BY <1>d, <2>1 DEF Scrape
  <2> QED  BY <1>h, <2>1, <2>2 DEF Hidden, Published, Seen
<1>7. CASE Emit(s)
  <2>1. /\ scrape[s].pc = "emit"
        /\ scrape'[s] = [scrape[s] EXCEPT !.pc = "nodes", !.exposed = unknownStatusCounts]
    BY <1>7, <1>d DEF Emit, At
  <2>2. /\ scrape'[s].pc = "nodes" /\ scrape'[s].pieData = scrape[s].pieData
        /\ scrape'[s].metric = scrape[s].metric /\ scrape'[s].up = scrape[s].up
        /\ scrape'[s].allLibs = scrape[s].allLibs
    BY <1>d, <2>1 DEF Scrape
  <2>3. /\ Published(s)' = {[lib |-> p.lib, figures |-> history[p.at].totals] :
                               p \in scrape[s].pieData}
        /\ Seen(s)' = Seen(s)
    BY <1>h, <2>1, <2>2 DEF Published, Seen
  <2>4. \A p \in Published(s)' : p.lib \in scrape[s].allLibs /\ p.figures \in Seen(s)
    BY <1>i, <2>1, <2>3, FiguresSeen DEF ScrapeInv
  <2>5. ViewOf(s)!Publish
    BY <1>h, <2>1, <2>2, <2>3, <2>4, StageValues DEF ViewOf!Publish, ViewOf!tdarr
  <2> QED  BY <2>5 DEF ViewOf!Next
<1>8. ASSUME NEW answered \in BOOLEAN, GetNodes(s, answered) PROVE ViewOf(s)!Answer
  <2>1. /\ scrape[s].pc = "nodes"
        /\ scrape'[s] = [scrape[s] EXCEPT !.pc = "done",
                           !.up = IF answered /\ ~scrape[s].partialFail THEN 1 ELSE 0]
    BY <1>8, <1>d DEF GetNodes, At
  <2>2. /\ scrape'[s].pc = "done" /\ scrape'[s].pieData = scrape[s].pieData
        /\ scrape'[s].metric = scrape[s].metric /\ scrape'[s].allLibs = scrape[s].allLibs
        /\ scrape'[s].up = IF answered /\ ~scrape[s].partialFail THEN 1 ELSE 0
    BY <1>d, <2>1 DEF Scrape
  <2>3. scrape'[s].up = 1 => OnePiePerLibrary(scrape[s].pieData, scrape[s].allLibs)
    BY <1>i, <2>1, <2>2 DEF ScrapeInv
  <2>4. scrape'[s].up = 1 => ViewOf(s)!OnePiePerLibrary(Published(s), scrape[s].allLibs)
    <3> DEFINE Figure(p) == [lib |-> p.lib, figures |-> history[p.at].totals]
    <3>1. Published(s) = {Figure(p) : p \in scrape[s].pieData}
      BY <2>1 DEF Published
    <3>2. \A p : Figure(p).lib = p.lib
      OBVIOUS
    <3> HIDE DEF Figure
    <3> QED  BY <2>3, <3>1, <3>2 DEF ViewOf!OnePiePerLibrary, OnePiePerLibrary
  <2>5. Published(s)' = Published(s) /\ Seen(s)' = Seen(s)
    BY <1>h, <2>1, <2>2 DEF Published, Seen
  <2> QED  BY <1>h, <2>1, <2>2, <2>4, <2>5, StageValues DEF ViewOf!Answer, ViewOf!tdarr
<1> QED
  BY <1>1, <1>2, <1>3, <1>4, <1>5, <1>6, <1>7, <1>8, HiddenStutters DEF ScrapeStep, ViewOf!Next

LEMMA NextMaps ==
  ASSUME IInv, TotalsTell, Next, NEW s \in Scrapers
  PROVE  [ViewOf(s)!Next]_(ViewOf(s)!viewVars)
<1>1. CASE TdarrChanges
  <2>1. ViewOf(s)!TdarrChanges
    BY <1>1, SeenLater DEF TdarrChanges, ViewOf!TdarrChanges, Published
  <2> QED  BY <2>1 DEF ViewOf!Next
<1>2. ASSUME NEW q \in Scrapers, BeginScrape(q) \/ ScrapeStep(q)
      PROVE  [ViewOf(s)!Next]_(ViewOf(s)!viewVars)
  <2>1. CASE q = s
    BY <1>2, <2>1, ScrapeMaps
  <2>2. CASE q # s
    <3>1. scrape'[s] = scrape[s] /\ UNCHANGED <<history, now>>
      BY <1>2, <2>2 DEF IInv, TypeOK, BeginScrape, ScrapeStep, UpstreamFails, GetStatus,
         GetStats, GetLibraries, UseCache, StartSweep, PieSucceeds, PieDropped, EndSweep,
         Emit, GetNodes
    <3>2. Hidden(s)
      BY <3>1 DEF Hidden, Published, Seen
    <3> QED  BY <3>2, HiddenStutters
  <2> QED  BY <2>1, <2>2
<1> QED  BY <1>1, <1>2 DEF Next

LEMMA InitMaps ==
  ASSUME Init, NEW s \in Scrapers
  PROVE  ViewOf(s)!Init
<1>1. scrape[s] = NewScrape("idle")
  BY DEF Init
<1> QED  BY <1>1, StageValues DEF Init, Time, NewScrape, Published, Seen, ViewOf!Init, ViewOf!Blanked

(* As long as totals do not come back, every scrape behaves as if there    *)
(* were no cache, no sweep and no other scrape: each of its steps is one   *)
(* of View, or invisible in it (collect, tdarr.go:624-748).                *)
THEOREM ViewImplemented == Spec => ImplementsView
<1>1. Init => \A s \in Scrapers : ViewOf(s)!Init
  BY InitMaps
<1>2. IInv /\ [Next]_vars =>
        [TotalsTell => \A s \in Scrapers : [ViewOf(s)!Next]_(ViewOf(s)!viewVars)]_vars
  BY NextMaps DEF vars
<1> QED  BY <1>1, <1>2, InductiveInv, PTL DEF Spec, ImplementsView
=============================================================================
