----------------------------- MODULE Middleware ------------------------------
(***************************************************************************)
(* HTTP requests to the exporter: Recovery(RequestLogger(mux)) around the  *)
(* handlers of the four routes (internal/handlers, internal/server).  Both *)
(* middlewares wrap the response writer in a recorder, so every write of a *)
(* handler goes through the recorder of RequestLogger, then the one of     *)
(* Recovery, then net/http's writer, and is recorded on the way back.      *)
(*                                                                         *)
(* net/http is external: the first status wins, a body without one and a   *)
(* return without either send 200, and a panic that reaches it closes the  *)
(* connection.  Its writer may panic on a write instead of taking it.      *)
(***************************************************************************)
EXTENDS Naturals

CONSTANTS
  Requests,   \* requests, each on a goroutine of its own
  RoutesOf    \* BOUND: RoutesOf[r] are the routes request r may ask for

VARIABLE http \* http[r]: one request

Routes == {"metrics", "index", "healthz", "other"}

ASSUME MiddlewareAssumption == RoutesOf \in [Requests -> SUBSET Routes]

Statuses == {0, 200, 404, 500}        \* 0: no status has been sent

\* The handler of a route sets a status of its own, or lets Write imply 200.
HasStatus(route) == route \in {"healthz", "other"}
StatusOf(route) == IF route = "other" THEN 404 ELSE 200

Recorder == [status : Statuses, wrote : BOOLEAN]
newResponseRecorder == [status |-> 200, wrote |-> FALSE]

Request ==
  [pc : {"idle", "header", "body", "return", "unwind", "over", "aborted"},
   route : Routes \cup {"none"},
   inner : Recorder, outer : Recorder,   \* of RequestLogger, of Recovery
   sent : Statuses,                      \* the status net/http sent
   by : {"nobody", "handler", "recovery", "net/http"},
   body : SUBSET {"handler", "recovery"},
   panic : {"none", "fault", "abort"},
   logged : Statuses,
   peer : {"there", "gone"}]

HttpTypeOK == http \in [Requests -> Request]

HttpInit ==
  http = [r \in Requests |->
            [pc |-> "idle", route |-> "none", inner |-> newResponseRecorder,
             outer |-> newResponseRecorder, sent |-> 0, by |-> "nobody",
             body |-> {}, panic |-> "none", logged |-> 0, peer |-> "there"]]

\* net/http takes a status: later ones are superfluous.
Sends(h, status, who) ==
  IF h.sent = 0 THEN [h EXCEPT !.sent = status, !.by = who] ELSE h

(* Mutant: the status of a later call replaces the one that was sent. *)
Record_LastWins(rec, status) == [status |-> status, wrote |-> TRUE]

\* The end of WriteHeader and Write of a recorder: the first call counts.
Record(rec, status) ==
  IF rec.wrote THEN rec ELSE [status |-> status, wrote |-> TRUE]

-----------------------------------------------------------------------------
Serve(r, route) ==
  /\ http[r].pc = "idle" /\ route \in RoutesOf[r]
  /\ http' = [http EXCEPT ![r].route = route,
                          ![r].pc = IF HasStatus(route) THEN "header" ELSE "body"]

\* A call of the handler, through both recorders.
Forwarded(h, status) ==
  LET g == Sends(h, status, "handler") IN
  [g EXCEPT !.inner = Record(g.inner, status), !.outer = Record(g.outer, status)]

WriteHeader(r) ==
  /\ http[r].pc = "header"
  /\ http' = [http EXCEPT ![r] =
       [Forwarded(http[r], StatusOf(http[r].route)) EXCEPT !.pc = "body"]]

\* Write of the handler: a failed write is recorded like any other.  A peer
\* that is there may take it late or never.
Write(r, arrives) ==
  /\ http[r].pc = "body"
  /\ arrives \/ http[r].peer = "gone"
  /\ http' = [http EXCEPT ![r] =
       [Forwarded(http[r], 200) EXCEPT !.pc = "return",
          !.body = http[r].body \cup (IF arrives THEN {"handler"} ELSE {})]]

\* The handler returns: RequestLogger logs, net/http finishes the response.
Return(r) ==
  /\ http[r].pc = "return"
  /\ http' = [http EXCEPT ![r] =
       [Sends(http[r], 200, "net/http") EXCEPT !.pc = "over",
          !.logged = http[r].inner.status]]

Panics(r, kind) ==
  /\ http[r].pc \in {"header", "body", "return"}
  /\ http' = [http EXCEPT ![r].pc = "unwind", ![r].panic = kind]

(* Mutant: the recorders mark the response before they forward the write. *)
WriterPanics_MarkFirst(r) ==
  /\ http[r].pc \in {"header", "body"}
  /\ http' = [http EXCEPT ![r].pc = "unwind", ![r].panic = "fault",
                          ![r].inner.wrote = TRUE, ![r].outer.wrote = TRUE]

\* net/http's writer panics in the middle of a write: nothing was sent, and
\* the recorders, which mark on the way back, have marked nothing.
WriterPanics(r) ==
  /\ http[r].pc \in {"header", "body"}
  /\ http' = [http EXCEPT ![r].pc = "unwind", ![r].panic = "fault"]

\* The deferred function of Recovery; the log line of RequestLogger is not
\* deferred and is lost.
Abort(r) ==
  /\ http[r].pc = "unwind" /\ http[r].panic = "abort"
  /\ http' = [http EXCEPT ![r].pc = "aborted"]

Recovered(h) ==
  IF h.outer.wrote THEN Sends(h, 200, "net/http")
  ELSE [Sends(h, 500, "recovery") EXCEPT !.outer = Record(h.outer, 500),
                                         !.body = h.body \cup {"recovery"}]

Recover(r) ==
  /\ http[r].pc = "unwind" /\ http[r].panic = "fault"
  /\ http' = [http EXCEPT ![r] = [Recovered(http[r]) EXCEPT !.pc = "over"]]

\* The client closes its connection before the end of the request, as
\* Prometheus does at its scrape timeout.
PeerLeaves(r) ==
  /\ http[r].peer = "there" /\ http[r].pc \notin {"idle", "over", "aborted"}
  /\ http' = [http EXCEPT ![r].peer = "gone"]

-----------------------------------------------------------------------------
(* A request gets one answer.  After a panic it is the 500 of Recovery if   *)
(* nothing was sent before, and what the handler had sent otherwise; it is  *)
(* never an empty 200 made up by net/http, and never the error text after   *)
(* the handler's bytes (middleware.go:29-39, 73-92).                        *)
OneAnswer ==
  \A r \in Requests :
    LET h == http[r] IN
    /\ h.pc = "over" => h.by \in {"handler", "recovery"}
    /\ h.by = "recovery" <=> h.sent = 500
    /\ h.by = "recovery" => h.panic = "fault" /\ h.body = {"recovery"}
    /\ h.by = "handler" => h.sent = StatusOf(h.route) /\ "recovery" \notin h.body

(* The access log tells the status the client was sent: not the one the     *)
(* recorder starts with, nor one of a later call (middleware.go:22-48).     *)
LogTrue == \A r \in Requests : http[r].logged # 0 => http[r].logged = http[r].sent
=============================================================================
