------------------------------ MODULE MCSeries -------------------------------
(* Instance of Series for TLC: up to two libraries and two nodes, workers of *)
(* known and unknown types, and documents whose ids or names collide.       *)
EXTENDS Series, TLC

MCLower == ("h264" :> "h264") @@ ("H264" :> "h264") @@ ("hevc" :> "hevc")
MCEtaParts == "0:01:30" :> << 0, 1, 30 >>

Pie(id, codecs) ==
  [id |-> id, name |-> "movies", statuses |-> {"success", "error"}, codecs |-> codecs]

MCPieDocs ==
  {<< >>,
   << Pie("l1", << "h264", "hevc" >>), Pie("l2", << "h264" >>) >>,
   << Pie("l1", << "h264", "H264", "hevc" >>) >>}

Worker(id, type, plugin, eta) ==
  [id |-> id, type |-> type, status |-> "Scanning", plugin |-> plugin, eta |-> eta]

Types == {"transcodecpu", "healthcheckgpu", "copy", "move", ""}

\* Worker maps: none, two workers with the key as id, two that share an id.
WorkerMaps ==
  {<< >>}
  \cup {("w1" :> Worker("w1", s, "", "0:01:30")) @@ ("w2" :> Worker("w2", t, "plug", "soon")) :
          s, t \in Types}
  \cup {("w1" :> Worker("w1", "copy", "", "")) @@ ("w2" :> Worker("w1", "copy", "", ""))}
  \cup {("w1" :> Worker("w1", "copy", "", "")) @@ ("w2" :> Worker("w2", "move", "", ""))
          @@ ("w3" :> Worker("w3", "copy", "", ""))}

Node(id, parsed, workers) ==
  [id |-> id, name |-> "box", parsed |-> parsed, workers |-> workers]

\* The second node may carry the id of the first.
MCNodeDocs ==
  {"n1" :> Node("n1", {}, ws) : ws \in WorkerMaps}
  \cup {("n1" :> Node("n1", {"node_heap_used_bytes"}, ws))
          @@ ("n2" :> Node(id, {}, "w1" :> Worker("w1", "transcodecpu", "", ""))) :
            ws \in WorkerMaps, id \in {"n1", "n2"}}
=============================================================================
