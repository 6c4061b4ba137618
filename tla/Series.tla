------------------------------- MODULE Series --------------------------------
(***************************************************************************)
(* The per-library and per-node series of one scrape: emitPieMetrics and   *)
(* emitNodeMetrics walk the decoded documents and send const metrics to    *)
(* the registry, which keeps the first metric of a name and label values   *)
(* and drops a second one with an error.  Tdarr's nodes and workers are    *)
(* JSON objects: Go walks those maps in any order, and their keys need not *)
(* be the ids that become labels.                                          *)
(*                                                                         *)
(* A series is [name, labels, value].  The gauges of one label set that    *)
(* are sent unconditionally are one series here; a value is 1 where no     *)
(* property speaks of it.  Labels beside the ids, types and names (a file, *)
(* a pid) are left out: series that differ in nothing else count as one.   *)
(***************************************************************************)
EXTENDS Integers, FiniteSets, Sequences

CONSTANTS
  PieDocs,   \* results of a sweep: sequences of libraries
  NodeDocs,  \* node documents: functions from map keys to nodes
  Lower,     \* strings.ToLower on the slice names in use
  EtaParts   \* fmt.Sscanf("%d:%d:%d") on the ETAs it accepts: << h, m, s >>

\* What decoding leaves of get-pies and of the node document.  `parsed' names
\* the resource stats of a node that are numbers.
ResourceMetrics ==
  {"node_heap_used_bytes", "node_heap_total_bytes", "node_host_cpu_ratio",
   "node_host_mem_used_bytes", "node_host_mem_total_bytes"}
TdarrPieStats ==
  [id : STRING, name : STRING, statuses : SUBSET STRING, codecs : Seq(STRING)]
TdarrNodeWorkers ==
  [id : STRING, type : STRING, status : STRING, plugin : STRING, eta : STRING]
IsTdarrNode(n) ==
  /\ n.parsed \subseteq ResourceMetrics
  /\ IsFiniteSet(DOMAIN n.workers)
  /\ \A w \in DOMAIN n.workers : n.workers[w] \in TdarrNodeWorkers

ASSUME SeriesAssumption ==
  /\ PieDocs \subseteq Seq(TdarrPieStats)
  /\ \A ns \in NodeDocs : \A k \in DOMAIN ns : IsTdarrNode(ns[k])

VARIABLES
  pies, nodes,        \* the documents of this scrape
  walked,             \* how many libraries have been started
  sliced,             \* how many slices of that library have been sent
  todo,               \* keys of the nodes not started yet
  key,                \* the key of the node being walked
  phase,              \* pies, nodes, count, emit, done
  counting, emitting, \* worker keys the two loops over node.Workers have left
  counts,             \* workerCountResult: both its maps, by label pair
  exposed, dropped    \* what the registry keeps, what it reports as duplicate

documents == << pies, nodes >>
libraries == << walked, sliced >>
walk == << todo, key, counting, emitting, counts >>
registry == << exposed, dropped >>
vars == << documents, libraries, walk, phase, registry >>

-----------------------------------------------------------------------------
(* Labels *)

knownWorkerTypeDims == {"transcode", "healthcheck"} \X {"cpu", "gpu"}

\* Tdarr's compound worker types and the two labels they are split into.
Compounds == [transcodecpu |-> << "transcode", "cpu" >>,
              transcodegpu |-> << "transcode", "gpu" >>,
              healthcheckcpu |-> << "healthcheck", "cpu" >>,
              healthcheckgpu |-> << "healthcheck", "gpu" >>]

parseWorkerType(api) ==
  IF api \in DOMAIN Compounds THEN Compounds[api] ELSE << api, "unknown" >>

parseEtaSeconds(eta) ==
  LET p == EtaParts[eta] IN p[1] * 3600 + p[2] * 60 + p[3]

Metric(name, labels, value) == [name |-> name, labels |-> labels, value |-> value]

\* The registry keeps the first metric with a name and label values.
Same(s, t) == s.name = t.name /\ s.labels = t.labels
Seen(s) == \E t \in exposed : Same(s, t)
Send(metrics) ==
  /\ exposed' = exposed \cup {s \in metrics : ~Seen(s)}
  /\ dropped' = dropped \cup {s \in metrics : Seen(s)}

-----------------------------------------------------------------------------
Init ==
  /\ pies \in PieDocs /\ nodes \in NodeDocs
  /\ walked = 0 /\ sliced = 0
  /\ todo = DOMAIN nodes /\ key = ""
  /\ phase = "pies"
  /\ counting = {} /\ emitting = {}
  /\ counts = [d \in knownWorkerTypeDims |-> 0]
  /\ exposed = {} /\ dropped = {}

\* The series of one library before its slices, and one of its slices.
PieMetrics(pie) ==
  {Metric("library_info", << pie.id, pie.name >>, 1), Metric("library", << pie.id >>, 1)}
  \cup {Metric("library_transcodes", << pie.id, s >>, 1) : s \in pie.statuses}

SliceMetric(pie, j) ==
  Metric("library_video_codecs", << pie.id, Lower[pie.codecs[j]] >>, 1)

AllSliced == walked > 0 => sliced = Len(pies[walked].codecs)

\* emitPieMetrics, the next library up to its slices.
EmitPie ==
  /\ phase = "pies" /\ AllSliced /\ walked < Len(pies)
  /\ Send(PieMetrics(pies[walked + 1]))
  /\ walked' = walked + 1 /\ sliced' = 0
  /\ UNCHANGED << documents, walk, phase >>

\* emitPieSlices; one of its five lists stands for all.
EmitSlice ==
  /\ phase = "pies" /\ ~AllSliced
  /\ Send({SliceMetric(pies[walked], sliced + 1)})
  /\ sliced' = sliced + 1
  /\ UNCHANGED << documents, walked, walk, phase >>

EndPies ==
  /\ phase = "pies" /\ AllSliced /\ walked = Len(pies)
  /\ phase' = "nodes"
  /\ UNCHANGED << documents, libraries, walk, registry >>

\* The gauges of a node, the resource stats that parse (emitParsedFloat skips
\* the others) and the limits of all four types.
NodeMetrics(n) ==
  {Metric(m, << n.id, n.name >>, 1) : m \in {"node"} \cup n.parsed}
  \cup {Metric("node_worker_limit", << n.id, n.name, d[1], d[2] >>, 1) :
          d \in knownWorkerTypeDims}

(* Mutant: the maps of countWorkersByType are those of the node before. *)
StartNode_KeepsCounts(k) ==
  /\ phase = "nodes" /\ k \in todo
  /\ Send(NodeMetrics(nodes[k]))
  /\ todo' = todo \ {k} /\ key' = k /\ phase' = "count"
  /\ counting' = DOMAIN nodes[k].workers
  /\ emitting' = DOMAIN nodes[k].workers
  /\ UNCHANGED << documents, libraries, counts >>

\* The next node, until countWorkersByType starts.
StartNode(k) ==
  /\ phase = "nodes" /\ k \in todo
  /\ Send(NodeMetrics(nodes[k]))
  /\ todo' = todo \ {k} /\ key' = k /\ phase' = "count"
  /\ counting' = DOMAIN nodes[k].workers
  /\ emitting' = DOMAIN nodes[k].workers
  /\ counts' = [d \in knownWorkerTypeDims |-> 0]
  /\ UNCHANGED << documents, libraries >>

\* Known types are counted by label pair, others by Tdarr's own string.
CountWorker(w) ==
  /\ phase = "count" /\ w \in counting
  /\ LET api == nodes[key].workers[w].type
         d == IF parseWorkerType(api)[2] = "unknown" THEN << api, "unknown" >>
              ELSE parseWorkerType(api) IN
     counts' = [e \in DOMAIN counts \cup {d} |->
                  (IF e \in DOMAIN counts THEN counts[e] ELSE 0) + (IF e = d THEN 1 ELSE 0)]
  /\ counting' = counting \ {w}
  /\ UNCHANGED << documents, libraries, todo, key, emitting, phase, registry >>

CountMetric(n, d, count) ==
  Metric("node_worker_count", << n.id, n.name, d[1], d[2] >>, count)

\* Zeros for the known types, and the unknown ones there are.
EmitCounts ==
  /\ phase = "count" /\ counting = {}
  /\ Send({CountMetric(nodes[key], d, counts[d]) : d \in DOMAIN counts})
  /\ phase' = "emit"
  /\ UNCHANGED << documents, libraries, walk >>

InfoMetric(n, w) ==
  LET t == parseWorkerType(w.type) IN
  Metric("node_worker_info", << n.id, n.name, w.id, t[1], t[2] >>, 1)

(* Mutant: the status series of a worker does not name the worker. *)
WorkerMetrics_NoId(n, w) ==
  {InfoMetric(n, w), Metric("node_worker", << n.id, n.name, w.id >>, 1),
   Metric("node_worker_status", << n.id, n.name, w.status >>, 1)}

\* The series of one worker: the plugin step only when there is one, the time
\* left only when it parses.
WorkerMetrics(n, w) ==
  {InfoMetric(n, w), Metric("node_worker", << n.id, n.name, w.id >>, 1),
   Metric("node_worker_status", << n.id, n.name, w.id, w.status >>, 1)}
  \cup {Metric("node_worker_plugin", << n.id, n.name, w.id, p >>, 1) :
          p \in {w.plugin} \ {""}}
  \cup {Metric("node_worker_eta_seconds", << n.id, n.name, w.id >>, parseEtaSeconds(e)) :
          e \in {w.eta} \cap DOMAIN EtaParts}

(* Mutant: a time left that does not parse ends the loop over the workers. *)
EmitWorker_Breaks(w) ==
  /\ phase = "emit" /\ w \in emitting
  /\ Send(WorkerMetrics(nodes[key], nodes[key].workers[w]))
  /\ emitting' = IF nodes[key].workers[w].eta \in DOMAIN EtaParts THEN emitting \ {w} ELSE {}
  /\ UNCHANGED << documents, libraries, todo, key, counting, counts, phase >>

EmitWorker(w) ==
  /\ phase = "emit" /\ w \in emitting
  /\ Send(WorkerMetrics(nodes[key], nodes[key].workers[w]))
  /\ emitting' = emitting \ {w}
  /\ UNCHANGED << documents, libraries, todo, key, counting, counts, phase >>

EndNode ==
  /\ phase = "emit" /\ emitting = {}
  /\ phase' = "nodes"
  /\ UNCHANGED << documents, libraries, walk, registry >>

EndNodes ==
  /\ phase = "nodes" /\ todo = {}
  /\ phase' = "done"
  /\ UNCHANGED << documents, libraries, walk, registry >>

Next ==
  \/ EmitPie \/ EmitSlice \/ EndPies
  \/ \E k \in DOMAIN nodes : StartNode(k)
  \/ \E w \in counting : CountWorker(w)
  \/ EmitCounts
  \/ \E w \in emitting : EmitWorker(w)
  \/ EndNode \/ EndNodes

Spec == Init /\ [][Next]_vars

-----------------------------------------------------------------------------
(* Properties *)

Injective(f) == \A x, y \in DOMAIN f : f[x] = f[y] => x = y

\* What Tdarr's ids promise: libraries, nodes and the workers of one node are
\* told apart by their ids, and slices of one list by their lower-case names.
DistinctNodes == Injective([k \in DOMAIN nodes |-> << nodes[k].id, nodes[k].name >>])
DistinctWorkers(n) == Injective([w \in DOMAIN n.workers |-> n.workers[w].id])
DistinctPies ==
  /\ Injective([i \in DOMAIN pies |-> pies[i].id])
  /\ \A i \in DOMAIN pies :
       Injective([j \in DOMAIN pies[i].codecs |-> Lower[pies[i].codecs[j]]])

Value(name, labels) ==
  (CHOOSE s \in exposed : s.name = name /\ s.labels = labels).value
Shown(name, labels) == \E s \in exposed : s.name = name /\ s.labels = labels

\* The pairs of type labels a node has a count for.
Dims(n) ==
  knownWorkerTypeDims \cup {parseWorkerType(n.workers[w].type) : w \in DOMAIN n.workers}

(* When the documents keep their ids apart nothing is lost to the registry, *)
(* although unknown worker types, slices and statuses bring labels of       *)
(* their own (tdarr.go:784-820, 880-893, 895-952).                          *)
NoDuplicates ==
  (DistinctPies /\ DistinctNodes /\ \A k \in DOMAIN nodes : DistinctWorkers(nodes[k]))
    => dropped = {}

(* A duplicate costs one value and no series: whatever ids the documents    *)
(* repeat, whatever does not parse and in whatever order they are walked,   *)
(* every label set they call for is in the answer in the end                *)
(* (tdarr.go:784-820, 836-954).                                             *)
NothingMissing ==
  phase = "done" =>
    /\ \A i \in DOMAIN pies :
         /\ \A s \in PieMetrics(pies[i]) : Shown(s.name, s.labels)
         /\ \A j \in DOMAIN pies[i].codecs :
              Shown("library_video_codecs", SliceMetric(pies[i], j).labels)
    /\ \A k \in DOMAIN nodes :
         LET n == nodes[k] IN
         /\ \A s \in NodeMetrics(n) : Shown(s.name, s.labels)
         /\ \A d \in Dims(n) : Shown("node_worker_count", << n.id, n.name, d[1], d[2] >>)
         /\ \A w \in DOMAIN n.workers :
              \A s \in WorkerMetrics(n, n.workers[w]) : Shown(s.name, s.labels)

\* How many workers of a node have a pair of type labels, and how many are
\* shown with it.
OfType(n, d) ==
  Cardinality({w \in DOMAIN n.workers : parseWorkerType(n.workers[w].type) = d})
ShownOfType(n, d) ==
  Cardinality({s \in exposed : /\ s.name = "node_worker_info"
                               /\ s.labels[1] = n.id /\ s.labels[2] = n.name
                               /\ s.labels[4] = d[1] /\ s.labels[5] = d[2]})

(* The two loops over the workers of a node agree: for every pair of type   *)
(* labels the count is the number of workers shown with those labels, all   *)
(* workers of the document are among them, and the four known pairs are     *)
(* there even when they are zero (tdarr.go:880-903, tdarr_nodes.go:328-349).*)
CountsAgree ==
  phase = "done" /\ DistinctNodes =>
    \A k \in DOMAIN nodes :
      LET n == nodes[k] IN
      DistinctWorkers(n) =>
        \A d \in Dims(n) :
          /\ Value("node_worker_count", << n.id, n.name, d[1], d[2] >>) = ShownOfType(n, d)
          /\ ShownOfType(n, d) = OfType(n, d)
=============================================================================
