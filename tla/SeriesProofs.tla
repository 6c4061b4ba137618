---------------------------- MODULE SeriesProofs -----------------------------
(***************************************************************************)
(* What Series guarantees for documents of any size, walked in any order.  *)
(*                                                                         *)
(* The registry is the only memory of the walk, so IInv says of it where   *)
(* each of its series comes from (Origins), and of each document walked so *)
(* far that its series are there (Answered).  Both follow the walk: which  *)
(* slices, counts and workers it has passed is read off its variables.     *)
(***************************************************************************)
EXTENDS Series, FiniteSetTheorems, FunctionTheorems, SequenceTheorems,
        TLAPS

(* The walk so far.                                                        *)
Slice(i, j) ==
  i \in 1 .. walked /\ j \in DOMAIN pies[i].codecs /\ (i = walked => j <= sliced)
Started == DOMAIN nodes \ todo
Counted(k) == k \in Started /\ (k = key => phase # "count")
Walked(k, w) ==
  k \in Started /\ w \in DOMAIN nodes[k].workers /\ (k = key => w \notin emitting)

Walk ==
  /\ pies \in PieDocs /\ nodes \in NodeDocs
  /\ phase \in {"pies", "nodes", "count", "emit", "done"}
  /\ walked \in 0 .. Len(pies) /\ sliced \in Nat
  /\ walked > 0 => sliced <= Len(pies[walked].codecs)
  /\ phase # "pies" => walked = Len(pies) /\ AllSliced
  /\ todo \subseteq DOMAIN nodes
  /\ phase = "done" => todo = {}
  /\ phase \in {"count", "emit"} => key \in Started
  /\ phase = "count" => /\ counting \subseteq DOMAIN nodes[key].workers
                        /\ emitting = DOMAIN nodes[key].workers
  /\ phase = "emit" => emitting \subseteq DOMAIN nodes[key].workers
  /\ phase \in {"pies", "nodes", "done"} => emitting = {}

(* What countWorkersByType has made of some of the workers of a node.      *)
Tally(n, ws) ==
  [d \in knownWorkerTypeDims \cup {parseWorkerType(n.workers[w].type) : w \in ws} |->
     Cardinality({w \in ws : parseWorkerType(n.workers[w].type) = d})]

Counting ==
  phase = "count" =>
    counts = Tally(nodes[key], DOMAIN nodes[key].workers \ counting)

(* The document a series comes from.                                       *)
FromPie(s) == \E i \in 1 .. walked : s \in PieMetrics(pies[i])
FromSlice(s) == \E i, j \in Nat : Slice(i, j) /\ s = SliceMetric(pies[i], j)
FromNode(s) == \E k \in Started : s \in NodeMetrics(nodes[k])
FromCount(s) ==
  \E k \in DOMAIN nodes : Counted(k) /\
    \E d \in Dims(nodes[k]) : s = CountMetric(nodes[k], d, OfType(nodes[k], d))
FromWorker(s) ==
  \E k \in DOMAIN nodes : \E w \in DOMAIN nodes[k].workers :
    Walked(k, w) /\ s \in WorkerMetrics(nodes[k], nodes[k].workers[w])

Origin(s) == FromPie(s) \/ FromSlice(s) \/ FromNode(s) \/ FromCount(s) \/ FromWorker(s)
Origins == \A s \in exposed : Origin(s)

(* The label sets of everything walked are there, the workers themselves   *)
(* and, when nodes are told apart, the counts with their values.           *)
Answered ==
  /\ \A i \in 1 .. walked : \A s \in PieMetrics(pies[i]) : Shown(s.name, s.labels)
  /\ \A i, j \in Nat :
       Slice(i, j) => Shown("library_video_codecs", SliceMetric(pies[i], j).labels)
  /\ \A k \in Started : \A s \in NodeMetrics(nodes[k]) : Shown(s.name, s.labels)
  /\ \A k \in DOMAIN nodes : Counted(k) =>
       \A d \in Dims(nodes[k]) :
         Shown("node_worker_count", << nodes[k].id, nodes[k].name, d[1], d[2] >>)
  /\ \A k \in DOMAIN nodes : \A w \in DOMAIN nodes[k].workers : Walked(k, w) =>
       \A s \in WorkerMetrics(nodes[k], nodes[k].workers[w]) : Shown(s.name, s.labels)

InfoShown ==
  \A k \in DOMAIN nodes : \A w \in DOMAIN nodes[k].workers :
    Walked(k, w) => InfoMetric(nodes[k], nodes[k].workers[w]) \in exposed

CountsShown ==
  DistinctNodes =>
    \A k \in DOMAIN nodes : Counted(k) =>
      \A d \in Dims(nodes[k]) :
        CountMetric(nodes[k], d, OfType(nodes[k], d)) \in exposed

IInv ==
  /\ Walk /\ Counting /\ Origins /\ Answered /\ InfoShown /\ CountsShown /\ NoDuplicates

-----------------------------------------------------------------------------
(* The operators of the model.                                             *)

(* What the registry does with a batch of metrics.                         *)
LEMMA SendShows ==
  ASSUME NEW M, Send(M)
  PROVE  /\ exposed \subseteq exposed'
         /\ \A s \in exposed' : s \in exposed \/ s \in M
         /\ \A s \in M : Shown(s.name, s.labels)'
         /\ \A s \in dropped' : s \in dropped \/ (s \in M /\ Seen(s))
  BY DEF Send, Shown, Seen, Same

LEMMA ShownLater ==
  ASSUME exposed \subseteq exposed'
  PROVE  \A name, labels : Shown(name, labels) => Shown(name, labels)'
  BY DEF Shown

LEMMA RegistryGrows ==
  ASSUME Next
  PROVE  /\ exposed \subseteq exposed'
         /\ \A s \in dropped' : s \in dropped \/ Seen(s)
<1>1. CASE \E M : Send(M)
  BY <1>1, SendShows
<1>2. CASE UNCHANGED registry
  BY <1>2 DEF registry
<1> QED  BY <1>1, <1>2 DEF Next, EmitPie, EmitSlice, EndPies, StartNode, CountWorker,
           EmitCounts, EmitWorker, EndNode, EndNodes

(* A series that nobody has sent before is kept.                           *)
LEMMA SendFresh ==
  ASSUME NEW M, Send(M), \A s \in M : ~Seen(s)
  PROVE  exposed' = exposed \cup M /\ dropped' = dropped
  BY DEF Send

LEMMA ParseDim ==
  ASSUME NEW api
  PROVE  /\ parseWorkerType(api) = << parseWorkerType(api)[1], parseWorkerType(api)[2] >>
         /\ parseWorkerType(api)[2] = "unknown" => parseWorkerType(api) = << api, "unknown" >>
<1>1. DOMAIN Compounds = {"transcodecpu", "transcodegpu", "healthcheckcpu", "healthcheckgpu"}
  BY DEF Compounds
<1>2. CASE api \in DOMAIN Compounds
  BY <1>1, <1>2 DEF parseWorkerType, Compounds
<1>3. CASE api \notin DOMAIN Compounds
  BY <1>3 DEF parseWorkerType
<1> QED  BY <1>2, <1>3

LEMMA DimPairs ==
  ASSUME NEW n, NEW d \in Dims(n)
  PROVE  d = << d[1], d[2] >>
<1>1. CASE d \in knownWorkerTypeDims
  BY <1>1 DEF knownWorkerTypeDims
<1>2. CASE \E w \in DOMAIN n.workers : d = parseWorkerType(n.workers[w].type)
  BY <1>2, ParseDim
<1> QED  BY <1>1, <1>2 DEF Dims

(* The names and the first labels of the series of a library, a node, a    *)
(* worker.                                                                 *)
LEMMA PieLabels ==
  ASSUME NEW pie, NEW s \in PieMetrics(pie)
  PROVE  /\ s.name \in {"library_info", "library", "library_transcodes"}
         /\ s.labels[1] = pie.id
  BY DEF PieMetrics, Metric

LEMMA NodeLabels ==
  ASSUME NEW n, IsTdarrNode(n), NEW s \in NodeMetrics(n)
  PROVE  /\ s.name \in {"node", "node_worker_limit"} \cup ResourceMetrics
         /\ s.labels[1] = n.id /\ s.labels[2] = n.name
  BY DEF NodeMetrics, Metric, IsTdarrNode

LEMMA WorkerLabels ==
  ASSUME NEW n, NEW w, NEW s \in WorkerMetrics(n, w)
  PROVE  /\ s.name \in {"node_worker_info", "node_worker", "node_worker_status",
                         "node_worker_plugin", "node_worker_eta_seconds"}
         /\ s.labels[1] = n.id /\ s.labels[2] = n.name /\ s.labels[3] = w.id
         /\ s.name = "node_worker_info" => s = InfoMetric(n, w)
<1>1. CASE s = InfoMetric(n, w)
  BY <1>1 DEF InfoMetric, Metric
<1>2. CASE s = Metric("node_worker", << n.id, n.name, w.id >>, 1)
  BY <1>2 DEF Metric
<1>3. CASE s = Metric("node_worker_status", << n.id, n.name, w.id, w.status >>, 1)
  BY <1>3 DEF Metric
<1>4. CASE \E p : s = Metric("node_worker_plugin", << n.id, n.name, w.id, p >>, 1)
  BY <1>4 DEF Metric
<1>5. CASE \E v : s = Metric("node_worker_eta_seconds", << n.id, n.name, w.id >>, v)
  BY <1>5 DEF Metric
<1> QED  BY <1>1, <1>2, <1>3, <1>4, <1>5 DEF WorkerMetrics

LEMMA CountLabels ==
  ASSUME NEW n, NEW d, NEW c
  PROVE  LET s == CountMetric(n, d, c) IN
         /\ s.name = "node_worker_count" /\ s.value = c
         /\ s.labels = << n.id, n.name, d[1], d[2] >>
         /\ s.labels[1] = n.id /\ s.labels[2] = n.name
  BY DEF CountMetric, Metric

LEMMA SliceLabels ==
  ASSUME NEW pie, NEW j
  PROVE  LET s == SliceMetric(pie, j) IN
         /\ s.name = "library_video_codecs"
         /\ s.labels = << pie.id, Lower[pie.codecs[j]] >>
         /\ s.labels[1] = pie.id /\ s.labels[2] = Lower[pie.codecs[j]]
  BY DEF SliceMetric, Metric

(* Counting one more worker is what CountWorker does to the counts.        *)
OneMore(t, d, u) ==
  /\ DOMAIN u = DOMAIN t \cup {d}
  /\ \A e \in DOMAIN u :
       u[e] = (IF e \in DOMAIN t THEN t[e] ELSE 0) + (IF e = d THEN 1 ELSE 0)

LEMMA TallyNone ==
  ASSUME NEW n
  PROVE  Tally(n, {}) = [d \in knownWorkerTypeDims |-> 0]
  BY FS_EmptySet DEF Tally

LEMMA TallyMore ==
  ASSUME NEW n, NEW ws, IsFiniteSet(ws), NEW w, w \notin ws
  PROVE  OneMore(Tally(n, ws), parseWorkerType(n.workers[w].type), Tally(n, ws \cup {w}))
<1> DEFINE dim(v) == parseWorkerType(n.workers[v].type)
           d == dim(w)
           Of(S, e) == {v \in S : dim(v) = e}
           dims == knownWorkerTypeDims \cup {dim(v) : v \in ws}
<1>1. \A S : Tally(n, S) = [e \in knownWorkerTypeDims \cup {dim(v) : v \in S} |->
                                Cardinality(Of(S, e))]
  BY DEF Tally
<1>2. \A e : IsFiniteSet(Of(ws, e)) /\ Cardinality(Of(ws, e)) \in Nat
  <2> SUFFICES ASSUME NEW e PROVE IsFiniteSet(Of(ws, e)) /\ Cardinality(Of(ws, e)) \in Nat
    OBVIOUS
  <2>1. Of(ws, e) \in SUBSET ws
    OBVIOUS
  <2>2. IsFiniteSet(Of(ws, e))
    BY <2>1, FS_Subset
  <2> QED  BY <2>2, FS_CardinalityType
<1>3. \A e : e \notin dims => Cardinality(Of(ws, e)) = 0
  <2> SUFFICES ASSUME NEW e, e \notin dims PROVE Cardinality(Of(ws, e)) = 0
    OBVIOUS
  <2>1. Of(ws, e) = {}
    OBVIOUS
  <2> QED  BY <2>1, FS_EmptySet
<1>4. \A e : Cardinality(Of(ws \cup {w}, e)) =
               Cardinality(Of(ws, e)) + (IF e = d THEN 1 ELSE 0)
  <2> SUFFICES ASSUME NEW e
               PROVE  Cardinality(Of(ws \cup {w}, e)) =
                        Cardinality(Of(ws, e)) + (IF e = d THEN 1 ELSE 0)
    OBVIOUS
  <2>1. CASE e = d
    <3>1. Of(ws \cup {w}, e) = Of(ws, e) \cup {w} /\ w \notin Of(ws, e)
      BY <2>1
    <3>2. IsFiniteSet(Of(ws, e)) /\ Cardinality(Of(ws, e)) \in Nat
      BY <1>2
    <3> HIDE DEF Of
    <3>3. Cardinality(Of(ws, e) \cup {w}) = Cardinality(Of(ws, e)) + 1
      BY <3>1, <3>2, FS_AddElement
    <3> QED  BY <3>1, <3>3, <2>1
  <2>2. CASE e # d
    <3>1. Of(ws \cup {w}, e) = Of(ws, e)
      BY <2>2
    <3> HIDE DEF Of, d
    <3> QED  BY <3>1, <2>2, <1>2
  <2> QED  BY <2>1, <2>2
<1>5. knownWorkerTypeDims \cup {dim(v) : v \in ws \cup {w}} = dims \cup {d}
  OBVIOUS
<1>6. Tally(n, ws \cup {w}) = [e \in dims \cup {d} |-> Cardinality(Of(ws \cup {w}, e))]
  BY <1>1, <1>5
<1>7. Tally(n, ws) = [e \in dims |-> Cardinality(Of(ws, e))]
  BY <1>1
<1> HIDE DEF Of, dims, dim
<1> QED  BY <1>3, <1>4, <1>6, <1>7 DEF dim, OneMore

LEMMA TallyAll ==
  ASSUME NEW n
  PROVE  /\ DOMAIN Tally(n, DOMAIN n.workers) = Dims(n)
         /\ \A d \in Dims(n) : Tally(n, DOMAIN n.workers)[d] = OfType(n, d)
  BY DEF Tally, Dims, OfType

-----------------------------------------------------------------------------
(* The walk.                                                               *)

LEMMA Documents ==
  ASSUME Walk
  PROVE  /\ Len(pies) \in Nat /\ DOMAIN pies = 1 .. Len(pies)
         /\ \A i \in DOMAIN pies : /\ Len(pies[i].codecs) \in Nat
                                   /\ DOMAIN pies[i].codecs = 1 .. Len(pies[i].codecs)
         /\ \A k \in DOMAIN nodes : IsTdarrNode(nodes[k])
<1>1. pies \in Seq(TdarrPieStats)
  BY SeriesAssumption DEF Walk
<1>2. Len(pies) \in Nat /\ DOMAIN pies = 1 .. Len(pies)
  BY <1>1, LenProperties
<1>3. ASSUME NEW i \in DOMAIN pies
      PROVE  /\ Len(pies[i].codecs) \in Nat
             /\ DOMAIN pies[i].codecs = 1 .. Len(pies[i].codecs)
  <2>1. pies[i] \in TdarrPieStats
    BY <1>1, <1>2, <1>3, ElementOfSeq
  <2>2. pies[i].codecs \in Seq(STRING)
    BY <2>1 DEF TdarrPieStats
  <2> QED  BY <2>2, LenProperties
<1> QED  BY <1>2, <1>3, SeriesAssumption DEF Walk

LEMMA InitWalk == Init => Walk
<1> SUFFICES ASSUME Init PROVE Walk
  OBVIOUS
<1>1. Len(pies) \in Nat
  BY SeriesAssumption, LenProperties DEF Init
<1>2. walked = 0 /\ sliced = 0 /\ phase = "pies" /\ todo = DOMAIN nodes /\ emitting = {}
  BY DEF Init
<1>3. pies \in PieDocs /\ nodes \in NodeDocs
  BY DEF Init
<1>4. walked \in 0 .. Len(pies) /\ sliced \in Nat /\ ~(walked > 0)
  BY <1>1, <1>2
<1> QED  BY <1>2, <1>3, <1>4 DEF Walk

LEMMA NextWalk == Walk /\ [Next]_vars => Walk'
<1> SUFFICES ASSUME Walk, [Next]_vars PROVE Walk'
  OBVIOUS
<1>d. /\ Len(pies) \in Nat /\ DOMAIN pies = 1 .. Len(pies)
      /\ \A i \in DOMAIN pies : /\ Len(pies[i].codecs) \in Nat
                                /\ DOMAIN pies[i].codecs = 1 .. Len(pies[i].codecs)
  BY Documents
<1>1. CASE EmitPie
  BY <1>1, <1>d DEF EmitPie, Walk, AllSliced, Started, documents, walk
<1>2. CASE EmitSlice
  BY <1>2, <1>d DEF EmitSlice, Walk, AllSliced, Started, documents, walk
<1>3. CASE EndPies
  BY <1>3, <1>d DEF EndPies, Walk, AllSliced, Started, documents, libraries, walk
<1>4. ASSUME NEW k \in DOMAIN nodes, StartNode(k) PROVE Walk'
  BY <1>4, <1>d DEF StartNode, Walk, AllSliced, Started, documents, libraries
<1>5. ASSUME NEW w \in counting, CountWorker(w) PROVE Walk'
  BY <1>5, <1>d DEF CountWorker, Walk, AllSliced, Started, documents, libraries
<1>6. CASE EmitCounts
  BY <1>6, <1>d DEF EmitCounts, Walk, AllSliced, Started, documents, libraries, walk
<1>7. ASSUME NEW w \in emitting, EmitWorker(w) PROVE Walk'
  BY <1>7, <1>d DEF EmitWorker, Walk, AllSliced, Started, documents, libraries
<1>8. CASE EndNode
  BY <1>8, <1>d DEF EndNode, Walk, AllSliced, Started, documents, libraries, walk
<1>9. CASE EndNodes
  BY <1>9, <1>d DEF EndNodes, Walk, AllSliced, Started, documents, libraries, walk
<1>10. CASE UNCHANGED vars
  BY <1>10 DEF vars, Walk, AllSliced, Started, documents, libraries, walk
<1> QED  BY <1>1, <1>2, <1>3, <1>4, <1>5, <1>6, <1>7, <1>8, <1>9, <1>10 DEF Next

(* What has been walked stays walked.                                      *)
LEMMA Grows ==
  ASSUME Walk, Next
  PROVE  /\ pies' = pies /\ nodes' = nodes /\ 1 .. walked \subseteq (1 .. walked)'
         /\ \A i, j \in Nat : Slice(i, j) => Slice(i, j)'
         /\ Started \subseteq Started'
         /\ \A k \in DOMAIN nodes : Counted(k) => Counted(k)'
         /\ \A k \in DOMAIN nodes : \A w \in DOMAIN nodes[k].workers :
              Walked(k, w) => Walked(k, w)'
<1> USE DEF Walk, Slice, Started, Counted, Walked, documents, libraries, walk
<1>1. CASE EmitPie
  BY <1>1 DEF EmitPie
<1>2. CASE EmitSlice
  BY <1>2 DEF EmitSlice
<1>3. CASE EndPies
  BY <1>3 DEF EndPies
<1>4. CASE \E k \in DOMAIN nodes : StartNode(k)
  BY <1>4 DEF StartNode
<1>5. CASE \E w \in counting : CountWorker(w)
  BY <1>5 DEF CountWorker
<1>6. CASE EmitCounts
  BY <1>6 DEF EmitCounts
<1>7. CASE \E w \in emitting : EmitWorker(w)
  BY <1>7 DEF EmitWorker
<1>8. CASE EndNode
  BY <1>8 DEF EndNode
<1>9. CASE EndNodes
  BY <1>9 DEF EndNodes
<1> QED  BY <1>1, <1>2, <1>3, <1>4, <1>5, <1>6, <1>7, <1>8, <1>9 DEF Next

(* What is newly walked, and by which step.                                *)
LEMMA OnlyNew ==
  ASSUME Walk, Next
  PROVE  /\ walked' = walked \/ (EmitPie /\ walked' = walked + 1)
         /\ \A i, j \in Nat :
              Slice(i, j)' => Slice(i, j) \/ (EmitSlice /\ i = walked /\ j = sliced + 1)
         /\ \A k \in Started' : k \in Started \/ StartNode(k)
         /\ \A k \in DOMAIN nodes :
              Counted(k)' => Counted(k) \/ (EmitCounts /\ k = key)
         /\ \A k \in DOMAIN nodes : \A w \in DOMAIN nodes[k].workers :
              Walked(k, w)' => Walked(k, w) \/ (EmitWorker(w) /\ k = key)
<1> USE DEF Walk, Slice, Started, Counted, Walked, documents, libraries, walk
<1>1. CASE EmitPie
  <2>1. /\ Len(pies) \in Nat /\ DOMAIN pies = 1 .. Len(pies)
        /\ \A i \in DOMAIN pies : /\ Len(pies[i].codecs) \in Nat
                                  /\ DOMAIN pies[i].codecs = 1 .. Len(pies[i].codecs)
    BY Documents
  <2> QED  BY <1>1, <2>1 DEF EmitPie, AllSliced
<1>2. CASE EmitSlice
  BY <1>2 DEF EmitSlice
<1>3. CASE EndPies
  BY <1>3 DEF EndPies
<1>4. CASE \E k \in DOMAIN nodes : StartNode(k)
  BY <1>4 DEF StartNode
<1>5. CASE \E w \in counting : CountWorker(w)
  BY <1>5 DEF CountWorker
<1>6. CASE EmitCounts
  BY <1>6 DEF EmitCounts
<1>7. CASE \E w \in emitting : EmitWorker(w)
  BY <1>7 DEF EmitWorker
<1>8. CASE EndNode
  BY <1>8 DEF EndNode
<1>9. CASE EndNodes
  BY <1>9 DEF EndNodes
<1> QED  BY <1>1, <1>2, <1>3, <1>4, <1>5, <1>6, <1>7, <1>8, <1>9 DEF Next

-----------------------------------------------------------------------------
(* The parts of IInv that speak of the registry.                           *)

(* The name of a series tells the kind of its document.                    *)
LEMMA Kinds ==
  ASSUME Walk, NEW s, Origin(s)
  PROVE  /\ s.name \in {"library_info", "library", "library_transcodes"} => FromPie(s)
         /\ s.name = "library_video_codecs" => FromSlice(s)
         /\ s.name \in {"node", "node_worker_limit"} \cup ResourceMetrics => FromNode(s)
         /\ s.name = "node_worker_count" => FromCount(s)
         /\ s.name \in {"node_worker_info", "node_worker", "node_worker_status",
                        "node_worker_plugin", "node_worker_eta_seconds"} => FromWorker(s)
<1> USE DEF ResourceMetrics
<1>1. FromPie(s) => s.name \in {"library_info", "library", "library_transcodes"}
  BY PieLabels DEF FromPie
<1>2. FromSlice(s) => s.name = "library_video_codecs"
  BY SliceLabels DEF FromSlice
<1>3. FromNode(s) => s.name \in {"node", "node_worker_limit"} \cup ResourceMetrics
  BY NodeLabels, Documents DEF FromNode, Started
<1>4. FromCount(s) => s.name = "node_worker_count"
  BY CountLabels DEF FromCount
<1>5. FromWorker(s) => s.name \in {"node_worker_info", "node_worker", "node_worker_status",
                                   "node_worker_plugin", "node_worker_eta_seconds"}
  BY WorkerLabels DEF FromWorker
<1> QED  BY <1>1, <1>2, <1>3, <1>4, <1>5 DEF Origin

LEMMA OriginLater ==
  ASSUME Walk, Next, NEW s, Origin(s)
  PROVE  Origin(s)'
<1>g. /\ pies' = pies /\ nodes' = nodes /\ 1 .. walked \subseteq (1 .. walked)'
      /\ \A i, j \in Nat : Slice(i, j) => Slice(i, j)'
      /\ Started \subseteq Started'
      /\ \A k \in DOMAIN nodes : Counted(k) => Counted(k)'
      /\ \A k \in DOMAIN nodes : \A w \in DOMAIN nodes[k].workers :
           Walked(k, w) => Walked(k, w)'
  BY Grows
<1>1. FromPie(s) => FromPie(s)'
  BY <1>g DEF FromPie
<1>2. FromSlice(s) => FromSlice(s)'
  BY <1>g DEF FromSlice
<1>3. FromNode(s) => FromNode(s)'
  BY <1>g DEF FromNode
<1>4. FromCount(s) => FromCount(s)'
  BY <1>g DEF FromCount
<1>5. FromWorker(s) => FromWorker(s)'
  BY <1>g DEF FromWorker
<1> QED  BY <1>1, <1>2, <1>3, <1>4, <1>5 DEF Origin

(* When all workers are counted, the counts are those of the node.         *)
LEMMA CountsDone ==
  ASSUME Walk, Counting, EmitCounts
  PROVE  {CountMetric(nodes[key], d, counts[d]) : d \in DOMAIN counts}
           = {CountMetric(nodes[key], d, OfType(nodes[key], d)) : d \in Dims(nodes[key])}
<1>1. counts = Tally(nodes[key], DOMAIN nodes[key].workers)
  BY DEF Counting, EmitCounts
<1> QED  BY <1>1, TallyAll

LEMMA NextCounting == Walk /\ Counting /\ [Next]_vars => Counting'
<1> SUFFICES ASSUME Walk, Counting, [Next]_vars PROVE Counting'
  OBVIOUS
<1>1. CASE phase' # "count"
  BY <1>1 DEF Counting
<1>2. ASSUME NEW k \in DOMAIN nodes, StartNode(k) PROVE Counting'
  <2>1. DOMAIN nodes[k].workers \ DOMAIN nodes[k].workers = {}
    OBVIOUS
  <2>2. counts' = Tally(nodes[k], DOMAIN nodes[k].workers \ DOMAIN nodes[k].workers)
    BY <1>2, <2>1, TallyNone DEF StartNode
  <2> QED  BY <1>2, <2>2 DEF StartNode, Counting, documents
<1>3. ASSUME NEW w \in counting, CountWorker(w) PROVE Counting'
  <2> DEFINE n == nodes[key]
             all == DOMAIN n.workers
             api == n.workers[w].type
  <2>1. /\ key \in DOMAIN nodes /\ counting \subseteq all /\ IsFiniteSet(all)
        /\ counts = Tally(n, all \ counting)
    BY <1>3, Documents DEF CountWorker, Walk, Started, Counting, IsTdarrNode
  <2>2. IsFiniteSet(all \ counting) /\ w \notin all \ counting
    BY <2>1, FS_Subset
  <2>3. all \ counting' = (all \ counting) \cup {w}
    BY <1>3, <2>1 DEF CountWorker
  <2>4. (IF parseWorkerType(api)[2] = "unknown" THEN << api, "unknown" >>
         ELSE parseWorkerType(api)) = parseWorkerType(api)
    BY ParseDim
  <2>5. counts' = [e \in DOMAIN counts \cup {parseWorkerType(api)} |->
                     (IF e \in DOMAIN counts THEN counts[e] ELSE 0)
                       + (IF e = parseWorkerType(api) THEN 1 ELSE 0)]
    BY <1>3, <2>4 DEF CountWorker
  <2>6. OneMore(Tally(n, all \ counting), parseWorkerType(api),
                Tally(n, (all \ counting) \cup {w}))
    BY <2>2, TallyMore
  <2>7. counts' = Tally(n, all \ counting')
    <3>1. \A S : Tally(n, S) = [e \in DOMAIN Tally(n, S) |-> Tally(n, S)[e]]
      BY DEF Tally
    <3> HIDE DEF n, all, api
    <3> QED  BY <2>1, <2>3, <2>5, <2>6, <3>1 DEF OneMore
  <2> QED  BY <1>3, <2>7 DEF CountWorker, Counting, documents
<1>4. CASE UNCHANGED vars
  BY <1>4 DEF vars, walk, documents, Counting
<1>5. CASE EmitPie \/ EmitSlice \/ EndPies \/ EmitCounts \/ EndNode \/ EndNodes
          \/ \E w \in emitting : EmitWorker(w)
  BY <1>1, <1>5 DEF EmitPie, EmitSlice, EndPies, EmitCounts, EndNode, EndNodes, EmitWorker
<1> QED  BY <1>2, <1>3, <1>4, <1>5 DEF Next

LEMMA NextOrigins == Walk /\ Counting /\ Origins /\ [Next]_vars => Origins'
<1> SUFFICES ASSUME Walk, Counting, Origins, Next PROVE Origins'
  BY DEF vars, documents, libraries, walk, registry, Origins, Origin, FromPie, FromSlice,
         FromNode, FromCount, FromWorker, Slice, Started, Counted, Walked
<1>g. pies' = pies /\ nodes' = nodes /\ \A s \in exposed : Origin(s)'
  BY Grows, OriginLater DEF Origins
<1>w. Walk'
  BY NextWalk
<1>1. CASE EmitPie
  <2>1. \A s \in PieMetrics(pies[walked + 1]) : FromPie(s)'
    BY <1>1, <1>g DEF EmitPie, FromPie, Walk
  <2> QED  BY <1>1, <1>g, <2>1, SendShows DEF EmitPie, Origins, Origin
<1>2. CASE EmitSlice
  <2>1. /\ walked \in 1 .. Len(pies) /\ walked' = walked /\ sliced' = sliced + 1
        /\ sliced + 1 \in DOMAIN pies[walked].codecs
    BY <1>2, Documents DEF EmitSlice, Walk, AllSliced
  <2>2. PICK i, j \in Nat : i = walked /\ j = sliced + 1
    BY DEF Walk
  <2>3. Slice(i, j)'
    BY <1>g, <2>1, <2>2 DEF Slice
  <2>4. \A s \in {SliceMetric(pies[i], j)} : FromSlice(s)'
    BY <1>g, <2>3 DEF FromSlice
  <2>5. \A s \in exposed' : s \in exposed \/ s \in {SliceMetric(pies[i], j)}
    BY <1>2, <2>2, SendShows DEF EmitSlice
  <2> QED  BY <1>g, <2>4, <2>5 DEF Origins, Origin
<1>3. CASE EndPies \/ EndNode \/ EndNodes \/ \E w \in counting : CountWorker(w)
  BY <1>3, <1>g DEF EndPies, EndNode, EndNodes, CountWorker, registry, Origins
<1>4. ASSUME NEW k \in DOMAIN nodes, StartNode(k) PROVE Origins'
  <2>1. \A s \in NodeMetrics(nodes[k]) : FromNode(s)'
    BY <1>4, <1>g DEF StartNode, FromNode, Started
  <2> QED  BY <1>4, <1>g, <2>1, SendShows DEF StartNode, Origins, Origin
<1>5. CASE EmitCounts
  <2>1. Counted(key)' /\ key \in DOMAIN nodes /\ key' = key
    BY <1>5, <1>g DEF EmitCounts, Counted, Started, Walk, walk
  <2>2. \A s \in {CountMetric(nodes[key], d, OfType(nodes[key], d)) : d \in Dims(nodes[key])} :
          FromCount(s)'
    BY <1>g, <2>1 DEF FromCount
  <2>3. Send({CountMetric(nodes[key], d, OfType(nodes[key], d)) : d \in Dims(nodes[key])})
    BY <1>5, CountsDone DEF EmitCounts
  <2>4. \A s \in exposed' : s \in exposed \/
            s \in {CountMetric(nodes[key], d, OfType(nodes[key], d)) : d \in Dims(nodes[key])}
    BY <2>3, SendShows
  <2> QED  BY <1>g, <2>2, <2>4 DEF Origins, Origin
<1>6. ASSUME NEW w \in emitting, EmitWorker(w) PROVE Origins'
  <2>1. /\ key \in DOMAIN nodes /\ key' = key /\ w \in DOMAIN nodes[key].workers
        /\ Walked(key, w)'
    BY <1>6, <1>g, <1>w DEF EmitWorker, Walked, Walk, Started
  <2>2. \A s \in WorkerMetrics(nodes[key], nodes[key].workers[w]) : FromWorker(s)'
    BY <1>g, <2>1 DEF FromWorker
  <2> QED  BY <1>6, <1>g, <2>2, SendShows DEF EmitWorker, Origins, Origin
<1> QED  BY <1>1, <1>2, <1>3, <1>4, <1>5, <1>6 DEF Next

LEMMA NextAnswered ==
  Walk /\ Counting /\ Answered /\ [Next]_vars => Answered'
<1>0. ASSUME Answered, UNCHANGED vars PROVE Answered'
  <2>1. /\ pies' = pies /\ nodes' = nodes /\ walked' = walked /\ sliced' = sliced
        /\ todo' = todo /\ key' = key /\ phase' = phase /\ emitting' = emitting
        /\ exposed' = exposed /\ dropped' = dropped
    BY <1>0 DEF vars, documents, libraries, walk, registry
  <2>2. \A name, labels : Shown(name, labels) => Shown(name, labels)'
    BY <2>1, ShownLater
  <2>3. /\ Started' = Started /\ \A k : Counted(k)' = Counted(k)
        /\ \A k, w : Walked(k, w)' = Walked(k, w) /\ \A i, j : Slice(i, j)' = Slice(i, j)
    BY <2>1 DEF Started, Counted, Walked, Slice
  <2>4. \A i, j \in Nat :
          Slice(i, j)' => Shown("library_video_codecs", SliceMetric(pies[i], j).labels)'
    BY <1>0, <2>1, <2>2, <2>3 DEF Answered, SliceMetric, Metric
  <2> QED  BY <1>0, <2>1, <2>2, <2>3, <2>4 DEF Answered
<1> SUFFICES ASSUME Walk, Counting, Answered, Next PROVE Answered'
  BY <1>0
<1>g. pies' = pies /\ nodes' = nodes
  BY Grows
<1>l. \A name, labels : Shown(name, labels) => Shown(name, labels)'
  BY RegistryGrows, ShownLater
<1>2. ASSUME NEW i \in (1 .. walked)', NEW s \in PieMetrics(pies[i])
      PROVE  Shown(s.name, s.labels)'
  <2>1. CASE i \in 1 .. walked
    BY <1>l, <2>1 DEF Answered
  <2>2. CASE i \notin 1 .. walked
    <3>1. EmitPie /\ i = walked + 1
      BY <2>2, OnlyNew DEF Walk
    <3> QED  BY <3>1, SendShows DEF EmitPie
  <2> QED  BY <2>1, <2>2
<1>3. ASSUME NEW i \in Nat, NEW j \in Nat, Slice(i, j)'
      PROVE  Shown("library_video_codecs", SliceMetric(pies[i], j).labels)'
  <2> DEFINE new == SliceMetric(pies[i], j)
  <2>1. CASE Slice(i, j)
    <3>1. Shown("library_video_codecs", new.labels)
      BY <2>1 DEF Answered
    <3> HIDE DEF new
    <3>2. PICK labels : labels = new.labels
      OBVIOUS
    <3>3. Shown("library_video_codecs", labels)'
      BY <1>l, <3>1, <3>2
    <3> QED  BY <1>g, <3>2, <3>3 DEF new
  <2>2. CASE ~Slice(i, j)
    <3>1. EmitSlice /\ i = walked /\ j = sliced + 1
      BY <1>3, <2>2, OnlyNew
    <3>2. Send({new}) /\ new.name = "library_video_codecs"
      BY <3>1, SliceLabels DEF EmitSlice
    <3>3. \A s \in {new} : Shown(s.name, s.labels)'
      BY <3>2, SendShows
    <3> QED  BY <1>g, <3>2, <3>3
  <2> QED  BY <2>1, <2>2
<1>4. ASSUME NEW k \in Started', NEW s \in NodeMetrics(nodes[k])
      PROVE  Shown(s.name, s.labels)'
  <2>1. CASE k \in Started
    BY <1>l, <2>1 DEF Answered
  <2>2. CASE StartNode(k)
    BY <2>2, SendShows DEF StartNode
  <2> QED  BY <2>1, <2>2, OnlyNew
<1>5. ASSUME NEW k \in DOMAIN nodes, Counted(k)', NEW d \in Dims(nodes[k])
      PROVE  Shown("node_worker_count", << nodes[k].id, nodes[k].name, d[1], d[2] >>)'
  <2> DEFINE new == CountMetric(nodes[k], d, OfType(nodes[k], d))
  <2>n. new.name = "node_worker_count"
        /\ new.labels = << nodes[k].id, nodes[k].name, d[1], d[2] >>
    BY CountLabels
  <2>1. CASE Counted(k)
    <3>1. PICK labels : labels = << nodes[k].id, nodes[k].name, d[1], d[2] >>
      OBVIOUS
    <3>2. Shown("node_worker_count", labels)'
      BY <1>l, <2>1, <3>1 DEF Answered
    <3> QED  BY <1>g, <3>1, <3>2
  <2>2. CASE ~Counted(k)
    <3>1. EmitCounts /\ k = key
      BY <1>5, <2>2, OnlyNew
    <3>2. Send({CountMetric(nodes[k], e, OfType(nodes[k], e)) : e \in Dims(nodes[k])})
      BY <3>1, CountsDone DEF EmitCounts
    <3>3. \A s \in {CountMetric(nodes[k], e, OfType(nodes[k], e)) : e \in Dims(nodes[k])} :
            Shown(s.name, s.labels)'
      BY <3>2, SendShows
    <3>4. \A s \in {new} : Shown(s.name, s.labels)'
      BY <3>3
    <3> QED  BY <1>g, <2>n, <3>4
  <2> QED  BY <2>1, <2>2
<1>6. ASSUME NEW k \in DOMAIN nodes, NEW w \in DOMAIN nodes[k].workers, Walked(k, w)',
             NEW s \in WorkerMetrics(nodes[k], nodes[k].workers[w])
      PROVE  Shown(s.name, s.labels)'
  <2>1. CASE Walked(k, w)
    BY <1>l, <2>1 DEF Answered
  <2>2. CASE EmitWorker(w) /\ k = key
    BY <2>2, SendShows DEF EmitWorker
  <2> QED  BY <1>6, <2>1, <2>2, OnlyNew
<1> QED  BY <1>g, <1>2, <1>3, <1>4, <1>5, <1>6 DEF Answered

LEMMA NextInfoShown ==
  Walk /\ Origins /\ InfoShown /\ [Next]_vars => InfoShown'
<1> SUFFICES ASSUME Walk, Origins, InfoShown, Next,
                    NEW k \in DOMAIN nodes, NEW w \in DOMAIN nodes[k].workers,
                    Walked(k, w)', nodes' = nodes
             PROVE  InfoMetric(nodes[k], nodes[k].workers[w]) \in exposed'
  BY Grows DEF vars, documents, libraries, walk, registry, InfoShown, Started, Walked
<1> DEFINE info == InfoMetric(nodes[k], nodes[k].workers[w])
<1>1. CASE Walked(k, w)
  BY <1>1, RegistryGrows DEF InfoShown
<1>2. CASE EmitWorker(w) /\ k = key
  <2>1. Send(WorkerMetrics(nodes[k], nodes[k].workers[w]))
        /\ info \in WorkerMetrics(nodes[k], nodes[k].workers[w])
    BY <1>2 DEF EmitWorker, WorkerMetrics
  <2>2. CASE ~Seen(info)
    BY <2>1, <2>2 DEF Send
  <2>3. ASSUME NEW t \in exposed, Same(info, t) PROVE info \in exposed'
    <3>1. t.name = "node_worker_info" /\ info.name = "node_worker_info"
      BY <2>3 DEF Same, InfoMetric, Metric
    <3>2. FromWorker(t)
      BY <3>1, Kinds DEF Origins
    <3>x. PICK x \in DOMAIN nodes : \E v \in DOMAIN nodes[x].workers :
                 Walked(x, v) /\ t \in WorkerMetrics(nodes[x], nodes[x].workers[v])
      BY <3>2 DEF FromWorker
    <3>3. PICK v \in DOMAIN nodes[x].workers :
                 Walked(x, v) /\ t \in WorkerMetrics(nodes[x], nodes[x].workers[v])
      BY <3>x
    <3>4. t = InfoMetric(nodes[x], nodes[x].workers[v])
      BY <3>1, <3>3, WorkerLabels
    <3>5. t = info
      BY <2>3, <3>4 DEF Same, InfoMetric, Metric
    <3> QED  BY <2>1, <3>5, SendShows
  <2> QED  BY <2>2, <2>3 DEF Seen
<1> QED  BY <1>1, <1>2, OnlyNew

(* The nodes of the document are told apart: no other node has the labels  *)
(* of this one.                                                            *)
LEMMA OneNode ==
  ASSUME DistinctNodes, NEW k \in DOMAIN nodes, NEW l \in DOMAIN nodes,
         nodes[k].id = nodes[l].id, nodes[k].name = nodes[l].name
  PROVE  k = l
  BY DEF DistinctNodes, Injective

LEMMA CountsFresh ==
  ASSUME Walk, Counting, Origins, DistinctNodes, EmitCounts,
         NEW s \in {CountMetric(nodes[key], d, OfType(nodes[key], d)) : d \in Dims(nodes[key])}
  PROVE  ~Seen(s)
<1> SUFFICES ASSUME NEW t \in exposed, Same(s, t) PROVE FALSE
  BY DEF Seen
<1>1. /\ s.name = "node_worker_count"
      /\ s.labels[1] = nodes[key].id /\ s.labels[2] = nodes[key].name
  BY CountLabels
<1>2. FromCount(t)
  BY <1>1, Kinds DEF Origins, Same
<1>3. PICK k \in DOMAIN nodes : Counted(k) /\ t.labels[1] = nodes[k].id
                                          /\ t.labels[2] = nodes[k].name
  BY <1>2, CountLabels DEF FromCount
<1>4. k = key
  BY <1>1, <1>3, OneNode DEF Same, EmitCounts, Walk, Started
<1> QED  BY <1>3, <1>4 DEF Counted, EmitCounts

LEMMA NextCountsShown ==
  Walk /\ Counting /\ Origins /\ CountsShown /\ [Next]_vars => CountsShown'
<1> SUFFICES ASSUME Walk, Counting, Origins, CountsShown, Next, DistinctNodes,
                    NEW k \in DOMAIN nodes, Counted(k)', NEW d \in Dims(nodes[k])
             PROVE  CountMetric(nodes[k], d, OfType(nodes[k], d)) \in exposed'
  BY Grows DEF vars, documents, libraries, walk, registry, CountsShown, Started, Counted,
         DistinctNodes
<1>1. CASE Counted(k)
  BY <1>1, RegistryGrows DEF CountsShown
<1>2. CASE EmitCounts /\ k = key
  <2> DEFINE M == {CountMetric(nodes[key], e, OfType(nodes[key], e)) : e \in Dims(nodes[key])}
  <2>1. Send(M)
    BY <1>2, CountsDone DEF EmitCounts
  <2>2. \A s \in M : ~Seen(s)
    BY <1>2, CountsFresh
  <2>3. exposed' = exposed \cup M
    <3> HIDE DEF M
    <3> QED  BY <2>1, <2>2, SendFresh
  <2> QED  BY <1>2, <2>3
<1> QED  BY <1>1, <1>2, OnlyNew

LEMMA OnePie ==
  ASSUME DistinctPies, NEW i \in DOMAIN pies, NEW j \in DOMAIN pies, pies[i].id = pies[j].id
  PROVE  i = j
  BY DEF DistinctPies, Injective

LEMMA OneSlice ==
  ASSUME DistinctPies, NEW i \in DOMAIN pies,
         NEW j \in DOMAIN pies[i].codecs, NEW k \in DOMAIN pies[i].codecs,
         Lower[pies[i].codecs[j]] = Lower[pies[i].codecs[k]]
  PROVE  j = k
  BY DEF DistinctPies, Injective

(* Documents that keep their ids apart bring no series twice.              *)
Distinct == DistinctPies /\ DistinctNodes /\ \A k \in DOMAIN nodes : DistinctWorkers(nodes[k])

LEMMA NextNoDuplicates ==
  Walk /\ Counting /\ Origins /\ NoDuplicates /\ [Next]_vars => NoDuplicates'
<1> SUFFICES ASSUME Walk, Counting, Origins, NoDuplicates, Next, Distinct PROVE dropped' = dropped
  BY Grows DEF vars, documents, registry, NoDuplicates, Distinct, DistinctPies, DistinctNodes,
         DistinctWorkers
<1>k. \A t \in exposed :
        /\ t.name \in {"library_info", "library", "library_transcodes"} => FromPie(t)
        /\ t.name = "library_video_codecs" => FromSlice(t)
        /\ t.name \in {"node", "node_worker_limit"} \cup ResourceMetrics => FromNode(t)
        /\ t.name \in {"node_worker_info", "node_worker", "node_worker_status",
                       "node_worker_plugin", "node_worker_eta_seconds"} => FromWorker(t)
  BY Kinds DEF Origins
<1>1. CASE EmitPie
  <2> SUFFICES ASSUME NEW s \in PieMetrics(pies[walked + 1]), NEW t \in exposed, Same(s, t)
               PROVE  FALSE
    BY <1>1, SendFresh DEF EmitPie, Seen
  <2>1. FromPie(t) /\ t.labels[1] = pies[walked + 1].id
    BY <1>k, PieLabels DEF Same
  <2>2. PICK i \in 1 .. walked : t.labels[1] = pies[i].id
    BY <2>1, PieLabels DEF FromPie
  <2>3. i \in DOMAIN pies /\ walked + 1 \in DOMAIN pies /\ i # walked + 1
    BY <1>1, <2>2, Documents DEF EmitPie, Walk
  <2> QED  BY <2>1, <2>2, <2>3, OnePie DEF Distinct
<1>2. CASE EmitSlice
  <2> DEFINE pie == pies[walked]
  <2>1. walked \in DOMAIN pies /\ sliced + 1 \in DOMAIN pie.codecs
    BY <1>2, Documents DEF EmitSlice, Walk, AllSliced
  <2> SUFFICES ASSUME NEW t \in exposed, Same(SliceMetric(pie, sliced + 1), t) PROVE FALSE
    BY <1>2, SendFresh DEF EmitSlice, Seen
  <2>2. /\ FromSlice(t) /\ t.labels[1] = pie.id
        /\ t.labels[2] = Lower[pie.codecs[sliced + 1]]
    BY <1>k, SliceLabels DEF Same
  <2>3. PICK i, j \in Nat : Slice(i, j) /\ t.labels[1] = pies[i].id
                                      /\ t.labels[2] = Lower[pies[i].codecs[j]]
    BY <2>2, SliceLabels DEF FromSlice
  <2>4. i = walked
    <3>1. i \in DOMAIN pies
      BY <2>3, Documents DEF Slice, Walk
    <3> QED  BY <2>1, <2>2, <2>3, <3>1, OnePie DEF Distinct
  <2>5. j = sliced + 1
    <3>1. j \in DOMAIN pie.codecs /\ Lower[pie.codecs[j]] = Lower[pie.codecs[sliced + 1]]
      BY <2>2, <2>3, <2>4 DEF Slice
    <3> QED  BY <2>1, <3>1, OneSlice DEF Distinct
  <2> QED  BY <2>3, <2>4, <2>5 DEF Slice, Walk
<1>3. ASSUME NEW k \in DOMAIN nodes, StartNode(k) PROVE dropped' = dropped
  <2> SUFFICES ASSUME NEW s \in NodeMetrics(nodes[k]), NEW t \in exposed, Same(s, t)
               PROVE  FALSE
    BY <1>3, SendFresh DEF StartNode, Seen
  <2>1. FromNode(t) /\ t.labels[1] = nodes[k].id /\ t.labels[2] = nodes[k].name
    BY <1>k, NodeLabels, Documents DEF Same
  <2>2. PICK l \in Started : t.labels[1] = nodes[l].id /\ t.labels[2] = nodes[l].name
    BY <2>1, NodeLabels, Documents DEF FromNode, Started
  <2> QED  BY <1>3, <2>1, <2>2, OneNode DEF StartNode, Started, Distinct
<1>4. CASE EmitCounts
  <2> DEFINE M == {CountMetric(nodes[key], d, OfType(nodes[key], d)) : d \in Dims(nodes[key])}
  <2>1. Send(M)
    BY <1>4, CountsDone DEF EmitCounts
  <2>2. \A s \in M : ~Seen(s)
    BY <1>4, CountsFresh DEF Distinct
  <2> HIDE DEF M
  <2> QED  BY <2>1, <2>2, SendFresh
<1>5. ASSUME NEW w \in emitting, EmitWorker(w) PROVE dropped' = dropped
  <2> DEFINE n == nodes[key]
  <2>0. key \in DOMAIN nodes /\ w \in DOMAIN n.workers
    BY <1>5 DEF EmitWorker, Walk, Started
  <2> SUFFICES ASSUME NEW s \in WorkerMetrics(n, n.workers[w]), NEW t \in exposed, Same(s, t)
               PROVE  FALSE
    BY <1>5, SendFresh DEF EmitWorker, Seen
  <2>1. /\ FromWorker(t) /\ t.labels[1] = n.id /\ t.labels[2] = n.name
        /\ t.labels[3] = n.workers[w].id
    BY <1>k, WorkerLabels DEF Same
  <2>k. PICK k \in DOMAIN nodes : \E v \in DOMAIN nodes[k].workers :
               Walked(k, v) /\ t \in WorkerMetrics(nodes[k], nodes[k].workers[v])
    BY <2>1 DEF FromWorker
  <2>2. PICK v \in DOMAIN nodes[k].workers :
               Walked(k, v) /\ t \in WorkerMetrics(nodes[k], nodes[k].workers[v])
    BY <2>k
  <2>3. /\ t.labels[1] = nodes[k].id /\ t.labels[2] = nodes[k].name
        /\ t.labels[3] = nodes[k].workers[v].id
    BY <2>2, WorkerLabels
  <2>4. k = key
    BY <2>0, <2>1, <2>3, OneNode DEF Distinct
  <2>5. v = w
    BY <2>0, <2>1, <2>3, <2>4 DEF Distinct, DistinctWorkers, Injective
  <2> QED  BY <2>2, <2>4, <2>5 DEF Walked
<1>6. CASE UNCHANGED registry
  BY <1>6 DEF registry
<1> QED  BY <1>1, <1>2, <1>3, <1>4, <1>5, <1>6 DEF Next, EndPies, CountWorker, EndNode, EndNodes

-----------------------------------------------------------------------------
(* The theorems.                                                           *)

LEMMA InitInv == Init => IInv
<1> SUFFICES ASSUME Init PROVE IInv
  OBVIOUS
<1>1. Walk
  BY InitWalk
<1>2. /\ exposed = {} /\ dropped = {} /\ phase = "pies" /\ walked = 0 /\ sliced = 0
      /\ Started = {}
  BY DEF Init, Started
<1>3. \A i, j \in Nat : ~Slice(i, j)
  BY <1>2 DEF Slice
<1>4. \A k : ~Counted(k)
  BY <1>2 DEF Counted
<1>5. \A k, w : ~Walked(k, w)
  BY <1>2 DEF Walked
<1>6. Answered
  BY <1>2, <1>3, <1>4, <1>5 DEF Answered
<1> QED  BY <1>1, <1>2, <1>4, <1>5, <1>6 DEF IInv, Counting, Origins, InfoShown, CountsShown,
           NoDuplicates

LEMMA NextInv == IInv /\ [Next]_vars => IInv'
  BY NextWalk, NextCounting, NextOrigins, NextAnswered, NextInfoShown, NextCountsShown,
     NextNoDuplicates DEF IInv

LEMMA InductiveInv == Spec => []IInv
  BY InitInv, NextInv, PTL DEF Spec

(* When the ids of libraries, nodes and workers, and the lower-case names  *)
(* of slices, tell them apart, the registry drops nothing, whatever order  *)
(* the documents are walked in (tdarr.go:784-952).                         *)
THEOREM NoDuplicatesAlways == Spec => []NoDuplicates
<1>1. IInv => NoDuplicates
  BY DEF IInv
<1> QED  BY <1>1, InductiveInv, PTL

(* A walk that has ended has every label set its documents call for.       *)
LEMMA AllWalked ==
  ASSUME Walk, phase = "done"
  PROVE  /\ 1 .. walked = DOMAIN pies /\ Started = DOMAIN nodes
         /\ \A i \in DOMAIN pies : \A j \in DOMAIN pies[i].codecs : Slice(i, j)
         /\ \A k \in DOMAIN nodes : Counted(k)
         /\ \A k \in DOMAIN nodes : \A w \in DOMAIN nodes[k].workers : Walked(k, w)
<1>1. walked = Len(pies) /\ AllSliced /\ todo = {} /\ emitting = {}
  BY DEF Walk
<1>2. 1 .. walked = DOMAIN pies
  BY <1>1, Documents
<1>3. ASSUME NEW i \in DOMAIN pies, NEW j \in DOMAIN pies[i].codecs PROVE Slice(i, j)
  <2>1. i = walked => j <= sliced
    BY <1>1, <1>2, <1>3, Documents DEF AllSliced
  <2> QED  BY <1>2, <1>3, <2>1 DEF Slice
<1>4. Started = DOMAIN nodes
  BY <1>1 DEF Started
<1> QED  BY <1>1, <1>2, <1>3, <1>4 DEF Counted, Walked

(* Whatever ids the documents repeat and whatever does not parse, every    *)
(* label set they call for is in the answer in the end                     *)
(* (tdarr.go:784-954).                                                     *)
THEOREM NothingMissingAlways == Spec => []NothingMissing
<1>1. ASSUME IInv PROVE NothingMissing
  <2>1. \A i \in DOMAIN pies : i \in Nat /\ DOMAIN pies[i].codecs \subseteq Nat
    BY <1>1, Documents DEF IInv
  <2> QED  BY <1>1, <2>1, AllWalked DEF IInv, Answered, NothingMissing
<1> QED  BY <1>1, InductiveInv, PTL

(* The workers shown with a pair of type labels are the workers of the     *)
(* node that have it, one for one.                                         *)
LEMMA ShownWorkers ==
  ASSUME Walk, Origins, InfoShown, phase = "done", DistinctNodes,
         NEW k \in DOMAIN nodes, DistinctWorkers(nodes[k]), NEW d \in Dims(nodes[k])
  PROVE  ShownOfType(nodes[k], d) = OfType(nodes[k], d)
<1> DEFINE n == nodes[k]
           W == {w \in DOMAIN n.workers : parseWorkerType(n.workers[w].type) = d}
           S == {s \in exposed : /\ s.name = "node_worker_info"
                                  /\ s.labels[1] = n.id /\ s.labels[2] = n.name
                                  /\ s.labels[4] = d[1] /\ s.labels[5] = d[2]}
           f == [w \in W |-> InfoMetric(n, n.workers[w])]
<1>1. d = << d[1], d[2] >>
      /\ \A t : parseWorkerType(t) = << parseWorkerType(t)[1], parseWorkerType(t)[2] >>
  BY DimPairs, ParseDim
<1>2. \A m, w : LET t == parseWorkerType(w.type) IN
        /\ InfoMetric(m, w).name = "node_worker_info"
        /\ InfoMetric(m, w).labels = << m.id, m.name, w.id, t[1], t[2] >>
  BY DEF InfoMetric, Metric
<1>3. \A w \in W : f[w] \in S
  BY <1>2, AllWalked DEF InfoShown
<1>4. \A v, w \in W : f[v] = f[w] => v = w
  <2> SUFFICES ASSUME NEW v \in W, NEW w \in W, f[v] = f[w] PROVE v = w
    OBVIOUS
  <2>1. InfoMetric(n, n.workers[v]).labels[3] = InfoMetric(n, n.workers[w]).labels[3]
    OBVIOUS
  <2>2. n.workers[v].id = n.workers[w].id
    BY <2>1, <1>2
  <2> QED  BY <2>2 DEF DistinctWorkers, Injective
<1>5. ASSUME NEW s \in S PROVE \E w \in W : f[w] = s
  <2>1. FromWorker(s)
    BY Kinds DEF Origins
  <2>l. PICK l \in DOMAIN nodes : \E w \in DOMAIN nodes[l].workers :
               Walked(l, w) /\ s \in WorkerMetrics(nodes[l], nodes[l].workers[w])
    BY <2>1 DEF FromWorker
  <2>2. PICK w \in DOMAIN nodes[l].workers :
               Walked(l, w) /\ s \in WorkerMetrics(nodes[l], nodes[l].workers[w])
    BY <2>l
  <2>3. s = InfoMetric(nodes[l], nodes[l].workers[w])
    BY <2>2, WorkerLabels
  <2>4. l = k
    BY <1>2, <2>3, OneNode
  <2>5. parseWorkerType(n.workers[w].type) = d
    BY <1>1, <1>2, <2>3, <2>4
  <2> QED  BY <2>2, <2>3, <2>4, <2>5
<1>6. f \in Bijection(W, S)
  <2> HIDE DEF S
  <2> QED  BY <1>3, <1>4, <1>5, Fun_IsBij
<1>7. IsFiniteSet(W)
  <2>1. IsFiniteSet(DOMAIN n.workers) /\ W \in SUBSET DOMAIN n.workers
    BY Documents DEF IsTdarrNode
  <2> QED  BY <2>1, FS_Subset
<1>8. Cardinality(S) = Cardinality(W)
  <2> HIDE DEF S, W, f
  <2> QED  BY <1>6, <1>7, FS_Bijection DEF ExistsBijection
<1> QED  BY <1>8 DEF ShownOfType, OfType

(* At the end the count of every pair of type labels is the number of      *)
(* workers shown with it and the number of workers of the document that    *)
(* have it, whatever types Tdarr reports and in whatever orders the two    *)
(* loops walk them (tdarr.go:880-903, tdarr_nodes.go:328-349).             *)
THEOREM CountsAgreeAlways == Spec => []CountsAgree
<1>1. ASSUME IInv PROVE CountsAgree
  <2> SUFFICES ASSUME phase = "done", DistinctNodes, NEW k \in DOMAIN nodes,
                      DistinctWorkers(nodes[k]), NEW d \in Dims(nodes[k])
               PROVE  /\ Value("node_worker_count",
                                << nodes[k].id, nodes[k].name, d[1], d[2] >>)
                            = OfType(nodes[k], d)
                      /\ ShownOfType(nodes[k], d) = OfType(nodes[k], d)
    BY DEF CountsAgree
  <2> DEFINE labels == << nodes[k].id, nodes[k].name, d[1], d[2] >>
             s == CountMetric(nodes[k], d, OfType(nodes[k], d))
  <2>1. s \in exposed /\ s.name = "node_worker_count" /\ s.labels = labels
    BY <1>1, AllWalked, CountLabels DEF IInv, CountsShown
  <2>2. ASSUME NEW t \in exposed, t.name = "node_worker_count", t.labels = labels
        PROVE  t.value = OfType(nodes[k], d)
    <3>1. FromCount(t)
      BY <1>1, <2>2, Kinds DEF IInv, Origins
    <3>l. PICK l \in DOMAIN nodes : \E e \in Dims(nodes[l]) :
                 t = CountMetric(nodes[l], e, OfType(nodes[l], e))
      BY <3>1 DEF FromCount
    <3>2. PICK e \in Dims(nodes[l]) : t = CountMetric(nodes[l], e, OfType(nodes[l], e))
      BY <3>l
    <3>3. << nodes[l].id, nodes[l].name, e[1], e[2] >> = labels
      BY <2>2, <3>2, CountLabels
    <3>4. l = k
      BY <3>3, OneNode
    <3>5. e = d
      BY <3>3, <3>4, DimPairs
    <3> QED  BY <3>2, <3>4, <3>5, CountLabels
  <2>3. Value("node_worker_count", labels) = OfType(nodes[k], d)
    BY <2>1, <2>2 DEF Value
  <2> QED  BY <1>1, <2>3, ShownWorkers DEF IInv
<1> QED  BY <1>1, InductiveInv, PTL
=============================================================================
