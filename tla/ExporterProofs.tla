--------------------------- MODULE ExporterProofs ----------------------------
(***************************************************************************)
(* Proofs about Exporter, for every set of requests and any number of      *)
(* libraries.  The inductive invariant follows one request through the     *)
(* middlewares (what was sent at each point and what the recorders know of *)
(* it) and one scrape through Collect, and ties the two: a metrics request *)
(* is past its first write only when its scrape has ended.                 *)
(***************************************************************************)
EXTENDS Exporter, TLAPS

-----------------------------------------------------------------------------
(* The invariant *)

\* Nothing has been sent, and the recorders say so.
Silent(h) ==
  /\ h.sent = 0 /\ h.by = "nobody" /\ h.body = {}
  /\ ~h.inner.wrote /\ ~h.outer.wrote

\* The handler's status has been sent, and the recorders know it.
Spoken(h) ==
  /\ h.sent = StatusOf(h.route) /\ h.by = "handler" /\ "recovery" \notin h.body
  /\ h.inner = [status |-> h.sent, wrote |-> TRUE]
  /\ h.outer = [status |-> h.sent, wrote |-> TRUE]

Answered(h) ==
  \/ h.sent = StatusOf(h.route) /\ h.by = "handler" /\ "recovery" \notin h.body
  \/ h.sent = 500 /\ h.by = "recovery" /\ h.panic = "fault" /\ h.body = {"recovery"}

HInv(h) ==
  /\ h.pc = "idle" => Silent(h)
  /\ h.pc = "header" => Silent(h) /\ HasStatus(h.route)
  /\ h.pc = "body" => IF HasStatus(h.route) THEN Spoken(h) ELSE Silent(h)
  /\ h.pc = "return" => Spoken(h)
  /\ h.pc = "unwind" => (Silent(h) \/ Spoken(h)) /\ h.panic # "none"
  /\ h.pc = "over" => Answered(h)
  /\ h.pc = "aborted" => Silent(h) \/ Spoken(h)
  /\ h.logged # 0 => h.pc = "over" /\ h.logged = h.sent

HttpInv == HttpTypeOK /\ \A r \in Requests : HInv(http[r])

\* One scrape: what it has sent, and where it may have a call under way.
SInv(s) ==
  /\ s.up = IF s.at = "ended" THEN << IF s.failed THEN 0 ELSE 1 >> ELSE << >>
  /\ s.at # "ended" => s.failed = s.partial
  /\ s.at = "pies" => s.left > 0

ScrapeInv ==
  /\ scrape \in [Requests -> Scrape]
  /\ call \in [Requests -> {"idle", "asking", "answered", "data", "error"}]
  /\ baseCtx \in {"live", "done"}
  /\ mu \in Requests \cup {"nobody"}
  /\ \A r \in Requests :
       /\ SInv(scrape[r])
       /\ call[r] \in {"asking", "answered"} => scrape[r].at \in Fetches

Link ==
  \A r \in Requests :
    /\ http[r].pc = "idle" => scrape[r].at = "none"
    /\ /\ http[r].route = "metrics"
       /\ http[r].pc \in {"return", "unwind", "over", "aborted"}
       => scrape[r].at = "ended"

IInv == HttpInv /\ ScrapeInv /\ Link

-----------------------------------------------------------------------------
(* The request *)

LEMMA HttpInitInv == HttpInit => HttpInv
  BY DEF HttpInit, HttpInv, HttpTypeOK, HInv, Silent, Request, Recorder,
         newResponseRecorder, Routes, Statuses

(* A step of one request that keeps its record in order keeps HttpInv.      *)
LEMMA OneRequest ==
  ASSUME NEW r \in Requests, HttpInv, NEW h \in Request, HInv(h),
         http' = [http EXCEPT ![r] = h]
  PROVE  HttpInv'
  BY DEF HttpInv, HttpTypeOK

LEMMA ServeInv ==
  ASSUME HttpInv, NEW r \in Requests, NEW route \in Routes, Serve(r, route)
  PROVE  HttpInv'
<1> DEFINE h == [http[r] EXCEPT !.route = route,
                   !.pc = IF HasStatus(route) THEN "header" ELSE "body"]
<1>1. http[r] \in Request /\ HInv(http[r])
  BY DEF HttpInv, HttpTypeOK
<1>2. h \in Request
  BY <1>1 DEF Request
<1>3. HInv(h)
  BY <1>1 DEF HInv, Serve, Silent, Request, Recorder
<1>4. http' = [http EXCEPT ![r] = h]
  BY DEF Serve, HttpInv, HttpTypeOK
<1> QED  BY <1>2, <1>3, <1>4, OneRequest

(* What net/http and the recorders make of a call of the handler.           *)
LEMMA SendsFields ==
  ASSUME NEW h \in Request, NEW status \in Statuses,
         NEW who \in {"handler", "recovery", "net/http"}
  PROVE  LET g == Sends(h, status, who) IN
         /\ g \in Request
         /\ g = [h EXCEPT !.sent = g.sent, !.by = g.by]
         /\ g.sent = IF h.sent = 0 THEN status ELSE h.sent
         /\ g.by = IF h.sent = 0 THEN who ELSE h.by
  BY DEF Sends, Request

LEMMA ForwardedFields ==
  ASSUME NEW h \in Request, NEW status \in Statuses \ {0}, HInv(h),
         (Silent(h) /\ status = StatusOf(h.route)) \/ Spoken(h)
  PROVE  LET g == Forwarded(h, status) IN
         /\ g \in Request
         /\ g.pc = h.pc /\ g.route = h.route /\ g.logged = h.logged
         /\ g.panic = h.panic /\ g.body = h.body /\ g.peer = h.peer
         /\ Spoken(g)
<1> DEFINE g == Sends(h, status, "handler")
           f == Forwarded(h, status)
<1>1. /\ g \in Request
      /\ g = [h EXCEPT !.sent = g.sent, !.by = g.by]
      /\ g.sent = IF h.sent = 0 THEN status ELSE h.sent
      /\ g.by = IF h.sent = 0 THEN "handler" ELSE h.by
  BY SendsFields
<1>2. f = [g EXCEPT !.inner = Record(g.inner, status), !.outer = Record(g.outer, status)]
  BY DEF Forwarded
<1> HIDE DEF g, f
<1>3. /\ g.inner = h.inner /\ g.outer = h.outer /\ g.pc = h.pc /\ g.route = h.route
      /\ g.logged = h.logged /\ g.panic = h.panic /\ g.body = h.body /\ g.peer = h.peer
  BY <1>1 DEF Request
<1>4. Record(g.inner, status) \in Recorder /\ Record(g.outer, status) \in Recorder
  BY <1>1 DEF Record, Request, Recorder
<1>5. f \in Request
  BY <1>1, <1>2, <1>4 DEF Request
<1>6. /\ f.inner = Record(g.inner, status) /\ f.outer = Record(g.outer, status)
      /\ f.pc = g.pc /\ f.route = g.route /\ f.logged = g.logged /\ f.sent = g.sent
      /\ f.by = g.by /\ f.panic = g.panic /\ f.body = g.body /\ f.peer = g.peer
  BY <1>1, <1>2 DEF Request
<1>7. Spoken(f)
  <2>1. CASE Silent(h) /\ status = StatusOf(h.route)
    BY <2>1, <1>1, <1>3, <1>6 DEF Silent, Spoken, Record
  <2>2. CASE Spoken(h)
    <3>1. StatusOf(h.route) # 0
      BY DEF StatusOf
    <3> QED  BY <3>1, <2>2, <1>1, <1>3, <1>6 DEF Spoken, Record
  <2> QED  BY <2>1, <2>2
<1> QED  BY <1>3, <1>5, <1>6, <1>7 DEF f

LEMMA WriteHeaderInv ==
  ASSUME HttpInv, NEW r \in Requests, WriteHeader(r)
  PROVE  HttpInv'
<1> DEFINE g == Forwarded(http[r], StatusOf(http[r].route))
           h == [g EXCEPT !.pc = "body"]
<1>1. /\ http[r] \in Request /\ HInv(http[r]) /\ http[r].pc = "header"
      /\ Silent(http[r]) /\ HasStatus(http[r].route) /\ http[r].logged = 0
  BY DEF HttpInv, HttpTypeOK, WriteHeader, HInv
<1>2. StatusOf(http[r].route) \in Statuses \ {0}
  BY DEF StatusOf, Statuses
<1>3. /\ g \in Request /\ g.route = http[r].route /\ g.logged = http[r].logged
      /\ Spoken(g)
  BY <1>1, <1>2, ForwardedFields
<1>4. http' = [http EXCEPT ![r] = h]
  BY DEF WriteHeader
<1> HIDE DEF g
<1>5. h \in Request /\ HInv(h)
  BY <1>1, <1>3 DEF HInv, Spoken, Request
<1> QED  BY <1>4, <1>5, OneRequest

LEMMA WriteInv ==
  ASSUME HttpInv, NEW r \in Requests, NEW arrives \in BOOLEAN, Write(r, arrives)
  PROVE  HttpInv'
<1> DEFINE g == Forwarded(http[r], 200)
           more == IF arrives THEN {"handler"} ELSE {}
           h == [g EXCEPT !.pc = "return", !.body = http[r].body \cup more]
<1>1. /\ http[r] \in Request /\ HInv(http[r]) /\ http[r].pc = "body"
      /\ http[r].logged = 0
      /\ IF HasStatus(http[r].route) THEN Spoken(http[r]) ELSE Silent(http[r])
  BY DEF HttpInv, HttpTypeOK, Write, HInv
<1>2. 200 \in Statuses \ {0}
  BY DEF Statuses
<1>3. ~HasStatus(http[r].route) => StatusOf(http[r].route) = 200
  BY DEF HasStatus, StatusOf
<1>4. /\ g \in Request /\ g.logged = http[r].logged /\ g.body = http[r].body
      /\ Spoken(g)
  BY <1>1, <1>2, <1>3, ForwardedFields
<1>5. http' = [http EXCEPT ![r] = h]
  BY DEF Write
<1>6. more \subseteq {"handler"}
  OBVIOUS
<1> HIDE DEF g, more
<1>7. h \in Request
  BY <1>1, <1>4, <1>6 DEF Request
<1>8. HInv(h)
  BY <1>1, <1>4, <1>6 DEF HInv, Spoken, Request
<1> QED  BY <1>5, <1>7, <1>8, OneRequest

LEMMA ReturnInv ==
  ASSUME HttpInv, NEW r \in Requests, Return(r)
  PROVE  HttpInv'
<1> DEFINE g == Sends(http[r], 200, "net/http")
           h == [g EXCEPT !.pc = "over", !.logged = http[r].inner.status]
<1>1. http[r] \in Request /\ HInv(http[r]) /\ Spoken(http[r])
  BY DEF HttpInv, HttpTypeOK, Return, HInv
<1>2. http[r].sent # 0
  BY <1>1 DEF Spoken, StatusOf
<1>3. g = http[r]
  BY <1>2 DEF Sends
<1>4. http' = [http EXCEPT ![r] = h]
  BY DEF Return
<1>5. http[r].inner.status = http[r].sent
  BY <1>1 DEF Spoken
<1> HIDE DEF g
<1>6. h \in Request
  BY <1>1, <1>3, <1>5 DEF Request
<1>7. h.pc = "over" /\ h.logged = h.sent /\ Answered(h)
  BY <1>1, <1>3, <1>5 DEF Spoken, Answered, Request
<1> QED  BY <1>4, <1>6, <1>7, OneRequest DEF HInv

LEMMA PanicsInv ==
  ASSUME HttpInv, NEW r \in Requests, NEW kind \in {"fault", "abort"},
         Panics(r, kind) \/ (WriterPanics(r) /\ kind = "fault")
  PROVE  HttpInv'
<1> DEFINE h == [http[r] EXCEPT !.pc = "unwind", !.panic = kind]
<1>1. http[r] \in Request /\ HInv(http[r]) /\ http[r].pc \in {"header", "body", "return"}
  BY DEF HttpInv, HttpTypeOK, Panics, WriterPanics
<1>2. h \in Request
  BY <1>1 DEF Request
<1>3. HInv(h)
  BY <1>1 DEF HInv, Silent, Spoken, Request, Recorder
<1>4. http' = [http EXCEPT ![r] = h]
  BY DEF Panics, WriterPanics, HttpInv, HttpTypeOK
<1> QED  BY <1>2, <1>3, <1>4, OneRequest

LEMMA AbortInv ==
  ASSUME HttpInv, NEW r \in Requests, Abort(r)
  PROVE  HttpInv'
<1> DEFINE h == [http[r] EXCEPT !.pc = "aborted"]
<1>1. http[r] \in Request /\ HInv(http[r]) /\ http[r].pc = "unwind"
  BY DEF HttpInv, HttpTypeOK, Abort
<1>2. h \in Request /\ HInv(h)
  BY <1>1 DEF HInv, Silent, Spoken, Request, Recorder
<1>3. http' = [http EXCEPT ![r] = h]
  BY DEF Abort, HttpInv, HttpTypeOK
<1> QED  BY <1>2, <1>3, OneRequest

LEMMA RecoveredInv ==
  ASSUME NEW old \in Request, HInv(old), old.pc = "unwind", old.panic = "fault",
         NEW h, h = [Recovered(old) EXCEPT !.pc = "over"]
  PROVE  h \in Request /\ HInv(h)
<1>1. old.logged = 0 /\ (Silent(old) \/ Spoken(old))
  BY DEF HInv
<1>2. CASE Spoken(old)
  <2>1. Recovered(old) = old
    BY <1>2 DEF Spoken, StatusOf, Recovered, Sends
  <2> QED  BY <2>1, <1>1, <1>2 DEF HInv, Spoken, Answered, Request
<1>3. CASE Silent(old)
  <2>0. PICK body \in SUBSET {"handler", "recovery"} : body = {"recovery"}
    OBVIOUS
  <2>1. PICK g : g = [old EXCEPT !.sent = 500, !.by = "recovery",
                        !.outer = Record(old.outer, 500), !.body = body]
    OBVIOUS
  <2>2. Recovered(old) = g
    <3>1. old.body \cup {"recovery"} = body /\ ~old.outer.wrote /\ old.sent = 0
      BY <1>3, <2>0 DEF Silent
    <3>2. Recovered(old) =
            [[old EXCEPT !.sent = 500, !.by = "recovery"]
               EXCEPT !.outer = Record(old.outer, 500), !.body = body]
      BY <3>1 DEF Recovered, Sends
    <3> QED  BY <3>2, <2>1 DEF Request
  <2>3. PICK status \in Statuses : status = 500
    BY DEF Statuses
  <2>4. Record(old.outer, 500) \in Recorder
    BY <2>3 DEF Record, Recorder, Request
  <2>5. g \in Request
    <3>1. PICK rec \in Recorder : rec = Record(old.outer, 500)
      BY <2>4
    <3>2. [old EXCEPT !.sent = status, !.by = "recovery", !.outer = rec,
                      !.body = body] \in Request
      BY DEF Request
    <3> QED  BY <3>1, <3>2, <2>1, <2>3
  <2>6. g.panic = "fault" /\ g.logged = 0 /\ g.sent = 500
        /\ g.by = "recovery" /\ g.body = {"recovery"}
    BY <2>0, <2>1, <1>1 DEF Request
  <2>7. h \in Request /\ h.pc = "over" /\ h.sent = 500 /\ h.by = "recovery"
        /\ h.panic = "fault" /\ h.body = {"recovery"} /\ h.logged = 0
    BY <2>2, <2>5, <2>6 DEF Request
  <2> QED  BY <2>7 DEF HInv, Answered
<1> QED  BY <1>1, <1>2, <1>3

LEMMA RecoverInv ==
  ASSUME HttpInv, NEW r \in Requests, Recover(r)
  PROVE  HttpInv'
<1>1. /\ http[r] \in Request /\ HInv(http[r])
      /\ http[r].pc = "unwind" /\ http[r].panic = "fault"
  BY DEF HttpInv, HttpTypeOK, Recover
<1>2. PICK h : h = [Recovered(http[r]) EXCEPT !.pc = "over"]
  OBVIOUS
<1>3. h \in Request /\ HInv(h)
  BY <1>1, <1>2, RecoveredInv
<1>4. http' = [http EXCEPT ![r] = h]
  BY <1>2 DEF Recover
<1> QED  BY <1>3, <1>4, OneRequest

LEMMA PeerLeavesInv ==
  ASSUME HttpInv, NEW r \in Requests, PeerLeaves(r)
  PROVE  HttpInv'
<1> DEFINE h == [http[r] EXCEPT !.peer = "gone"]
<1>1. http[r] \in Request /\ HInv(http[r])
  BY DEF HttpInv, HttpTypeOK
<1>2. h \in Request
  BY <1>1 DEF Request
<1>3. HInv(h)
  BY <1>1 DEF HInv, Silent, Spoken, Answered, Request, Recorder
<1>4. http' = [http EXCEPT ![r] = h]
  BY DEF PeerLeaves, HttpInv, HttpTypeOK
<1> QED  BY <1>2, <1>3, <1>4, OneRequest
-----------------------------------------------------------------------------
(* The scrape *)

CallStates == {"idle", "asking", "answered", "data", "error"}

(* A step of one scrape that keeps its record and its call in order keeps   *)
(* the invariant of all of them.                                            *)
LEMMA OneScrape ==
  ASSUME ScrapeInv, NEW r \in Requests, NEW s \in Scrape, SInv(s),
         NEW c \in CallStates, c \in {"asking", "answered"} => s.at \in Fetches,
         scrape' = [scrape EXCEPT ![r] = s], call' = [call EXCEPT ![r] = c],
         baseCtx' = baseCtx, mu' \in Requests \cup {"nobody"}
  PROVE  ScrapeInv'
  BY DEF ScrapeInv, CallStates

(* The end of Collect, with the sample it sends.                            *)
LEMMA EndInv ==
  ASSUME NEW s \in Scrape, SInv(s), s.at # "ended", NEW up \in {0, 1},
         NEW failed \in BOOLEAN, up = IF failed THEN 0 ELSE 1,
         NEW t, t = [End(s, up) EXCEPT !.failed = failed]
  PROVE  t \in Scrape /\ SInv(t) /\ t.at = "ended"
<1>1. s.up = << >>
  BY DEF SInv
<1>2. Append(s.up, up) = << up >> /\ << up >> \in Seq({0, 1})
  BY <1>1
<1>3. PICK one \in Seq({0, 1}) : one = << up >>
  BY <1>2
<1>4. t = [s EXCEPT !.at = "ended", !.up = one, !.failed = failed]
  BY <1>2, <1>3 DEF End, Scrape
<1>5. t \in Scrape
  BY <1>4 DEF Scrape
<1>6. t.up = << up >> /\ t.at = "ended" /\ t.failed = failed
  BY <1>3, <1>4 DEF Scrape
<1> QED  BY <1>5, <1>6 DEF SInv

LEMMA OneLessInv ==
  ASSUME NEW s \in Scrape, SInv(s), s.at = "pies", NEW failed \in BOOLEAN,
         NEW t, \/ t = OneLess(s)
                \/ t = [OneLess(s) EXCEPT !.partial = TRUE, !.failed = TRUE]
  PROVE  t \in Scrape /\ SInv(t) /\ t.at \in {"pies", "lock"}
<1>1. s.left \in 1..MaxLibs /\ s.left - 1 \in 0..MaxLibs
  BY ExporterAssumption DEF SInv, Scrape
<1>2. PICK left \in 0..MaxLibs : left = s.left - 1
  BY <1>1
<1>3. PICK at \in {"pies", "lock"} : at = IF s.left = 1 THEN "lock" ELSE "pies"
  OBVIOUS
<1>4. OneLess(s) = [s EXCEPT !.left = left, !.at = at]
  BY <1>2, <1>3 DEF OneLess
<1>5. at = "pies" => left > 0
  BY <1>1, <1>2, <1>3
<1>6. t \in Scrape
  <2>1. CASE t = OneLess(s)
    BY <2>1, <1>4 DEF Scrape, Fetches
  <2>2. CASE t = [OneLess(s) EXCEPT !.partial = TRUE, !.failed = TRUE]
    <3>1. OneLess(s) \in Scrape
      BY <1>4 DEF Scrape, Fetches
    <3> QED  BY <3>1, <2>2 DEF Scrape
  <2> QED  BY <2>1, <2>2
<1>7. t.left = left /\ t.at = at /\ t.up = s.up /\ (t.failed = t.partial)
  BY <1>4 DEF Scrape, SInv
<1> QED  BY <1>5, <1>6, <1>7 DEF SInv

LEMMA ScrapeStepInv ==
  ASSUME ScrapeInv, NEW r \in Requests, ScrapeStep(r)
  PROVE  ScrapeInv' /\ http' = http
                    /\ scrape[r].at \notin {"none", "ended"}
                    /\ \A q \in Requests \ {r} : scrape'[q] = scrape[q]
<1>0. /\ scrape[r] \in Scrape /\ SInv(scrape[r]) /\ call[r] \in CallStates
      /\ call[r] \in {"asking", "answered"} => scrape[r].at \in Fetches
      /\ scrape = [scrape EXCEPT ![r] = scrape[r]]
      /\ call = [call EXCEPT ![r] = call[r]]
      /\ mu \in Requests \cup {"nobody"}
  BY DEF ScrapeInv, CallStates
<1>1. CASE Ask(r)
  <2>1. scrape[r].at \in Fetches /\ scrape' = scrape /\ mu' = mu
    BY <1>1 DEF Ask
  <2>2. ScrapeInv'
    BY <1>0, <1>1, <2>1, OneScrape DEF Ask, CallStates
  <2> QED  BY <1>1, <2>1, <2>2 DEF Ask, Fetches
<1>2. CASE Answer(r)
  <2>1. scrape[r].at \in Fetches /\ scrape' = scrape /\ mu' = mu
    BY <1>0, <1>2 DEF Answer
  <2>2. ScrapeInv'
    BY <1>0, <1>2, <2>1, OneScrape DEF Answer, CallStates
  <2> QED  BY <1>2, <2>1, <2>2 DEF Answer, Fetches
<1>3. CASE CallFails(r)
  <2>1. scrape[r].at \in Fetches
    BY <1>0, <1>3 DEF CallFails
  <2>2. PICK t : t = IF scrape[r].at = "pies"
                     THEN [OneLess(scrape[r]) EXCEPT !.partial = TRUE, !.failed = TRUE]
                     ELSE [End(scrape[r], 0) EXCEPT !.failed = TRUE]
    OBVIOUS
  <2>3. t \in Scrape /\ SInv(t)
    <3>1. CASE scrape[r].at = "pies"
      BY <3>1, <1>0, <2>2, OneLessInv
    <3>2. CASE scrape[r].at # "pies"
      BY <3>2, <1>0, <2>1, <2>2, EndInv DEF Fetches
    <3> QED  BY <3>1, <3>2
  <2>4. scrape' = [scrape EXCEPT ![r] = t] /\ call' = [call EXCEPT ![r] = "error"]
    BY <1>3, <2>2 DEF CallFails
  <2>5. ScrapeInv'
    BY <1>0, <1>3, <2>3, <2>4, OneScrape DEF CallFails, CallStates
  <2> QED  BY <1>3, <2>1, <2>4, <2>5 DEF CallFails, Fetches, ScrapeInv
<1>4. CASE TakeDocument(r)
  <2>1. PICK at \in {"stats", "libs"} :
           at = IF scrape[r].at = "status" THEN "stats" ELSE "libs"
    OBVIOUS
  <2>2. PICK t : t = [scrape[r] EXCEPT !.at = at]
    OBVIOUS
  <2>3. t \in Scrape /\ SInv(t)
    BY <1>0, <1>4, <2>2 DEF TakeDocument, Scrape, SInv, Fetches
  <2>4. scrape' = [scrape EXCEPT ![r] = t] /\ call' = [call EXCEPT ![r] = "data"]
    BY <1>4, <2>1, <2>2 DEF TakeDocument, ScrapeInv
  <2>5. ScrapeInv'
    BY <1>0, <1>4, <2>3, <2>4, OneScrape DEF TakeDocument, CallStates
  <2> QED  BY <1>4, <2>4, <2>5 DEF TakeDocument, ScrapeInv
<1>5. ASSUME NEW n \in 0..MaxLibs, TakeLibraries(r, n)
      PROVE  ScrapeInv' /\ http' = http /\ scrape[r].at = "libs"
             /\ \A q \in Requests \ {r} : scrape'[q] = scrape[q]
  <2>1. PICK at \in {"lock", "pies"} : at = IF n = 0 THEN "lock" ELSE "pies"
    OBVIOUS
  <2>2. PICK t : t = [scrape[r] EXCEPT !.left = n, !.at = at]
    OBVIOUS
  <2>3. at = "pies" => n > 0
    BY <2>1, ExporterAssumption
  <2>4. t \in Scrape /\ SInv(t)
    BY <1>0, <1>5, <2>2, <2>3 DEF TakeLibraries, Scrape, SInv, Fetches
  <2>5. scrape' = [scrape EXCEPT ![r] = t] /\ call' = [call EXCEPT ![r] = "data"]
    BY <1>5, <2>1, <2>2 DEF TakeLibraries, ScrapeInv
  <2>6. ScrapeInv'
    BY <1>0, <1>5, <2>4, <2>5, OneScrape DEF TakeLibraries, CallStates
  <2> QED  BY <1>5, <2>5, <2>6 DEF TakeLibraries, ScrapeInv
<1>6. CASE TakePie(r)
  <2>1. PICK t : t = OneLess(scrape[r])
    OBVIOUS
  <2>2. t \in Scrape /\ SInv(t)
    BY <1>0, <1>6, <2>1, OneLessInv DEF TakePie
  <2>3. scrape' = [scrape EXCEPT ![r] = t] /\ call' = [call EXCEPT ![r] = "data"]
    BY <1>6, <2>1 DEF TakePie
  <2>4. ScrapeInv'
    BY <1>0, <1>6, <2>2, <2>3, OneScrape DEF TakePie, CallStates
  <2> QED  BY <1>6, <2>3, <2>4 DEF TakePie, ScrapeInv
<1>7. CASE TakeNodes(r)
  <2>1. PICK up \in {0, 1} : up = IF scrape[r].partial THEN 0 ELSE 1
    OBVIOUS
  <2>2. scrape[r].failed = scrape[r].partial /\ scrape[r].failed \in BOOLEAN
        /\ scrape[r].at # "ended"
    BY <1>0, <1>7 DEF TakeNodes, SInv, Scrape
  <2>3. PICK t : t = [End(scrape[r], up) EXCEPT !.failed = scrape[r].failed]
    OBVIOUS
  <2>4. t = End(scrape[r], up)
    BY <1>0, <2>3 DEF End, Scrape
  <2>5. t \in Scrape /\ SInv(t)
    BY <1>0, <2>1, <2>2, <2>3, EndInv
  <2>6. scrape' = [scrape EXCEPT ![r] = t] /\ call' = [call EXCEPT ![r] = "data"]
    BY <1>7, <2>1, <2>4 DEF TakeNodes
  <2>7. ScrapeInv'
    BY <1>0, <1>7, <2>5, <2>6, OneScrape DEF TakeNodes, CallStates
  <2> QED  BY <1>7, <2>6, <2>7 DEF TakeNodes, ScrapeInv
<1>8. CASE LockCounters(r) \/ UnlockCounters(r)
  <2>1. PICK at \in {"locked", "nodes"} :
           at = IF scrape[r].at = "lock" THEN "locked" ELSE "nodes"
    OBVIOUS
  <2>2. PICK t : t = [scrape[r] EXCEPT !.at = at]
    OBVIOUS
  <2>3. scrape[r].at \in {"lock", "locked"} /\ call[r] \notin {"asking", "answered"}
    BY <1>0, <1>8 DEF LockCounters, UnlockCounters, Fetches
  <2>4. t \in Scrape /\ SInv(t)
    BY <1>0, <2>2, <2>3 DEF Scrape, SInv, Fetches
  <2>5. scrape' = [scrape EXCEPT ![r] = t] /\ call' = call
    BY <1>8, <2>1, <2>2 DEF LockCounters, UnlockCounters, ScrapeInv
  <2>6. mu' \in Requests \cup {"nobody"} /\ baseCtx' = baseCtx
    BY <1>8 DEF LockCounters, UnlockCounters
  <2>7. ScrapeInv'
    <3>1. call' = [call EXCEPT ![r] = call[r]]
      BY <1>0, <2>5
    <3>2. call[r] \in CallStates /\ (call[r] \in {"asking", "answered"} => t.at \in Fetches)
      BY <1>0, <2>3
    <3> QED  BY <3>1, <3>2, <2>4, <2>5, <2>6, OneScrape
  <2> QED  BY <1>8, <2>3, <2>5, <2>7 DEF LockCounters, UnlockCounters, ScrapeInv
<1>9. CASE CollectPanics(r)
  <2>1. PICK t : t = [End(scrape[r], 0) EXCEPT !.failed = TRUE]
    OBVIOUS
  <2>2. t \in Scrape /\ SInv(t)
    BY <1>0, <1>9, <2>1, EndInv DEF CollectPanics
  <2>3. scrape' = [scrape EXCEPT ![r] = t] /\ call' = call
        /\ call[r] \notin {"asking", "answered"}
    BY <1>9, <2>1 DEF CollectPanics
  <2>4. ScrapeInv'
    <3>1. call' = [call EXCEPT ![r] = call[r]]
      BY <1>0, <2>3
    <3>2. call[r] \in CallStates /\ (call[r] \in {"asking", "answered"} => t.at \in Fetches)
      BY <1>0, <2>3
    <3>3. baseCtx' = baseCtx /\ mu' \in Requests \cup {"nobody"}
      BY <1>0, <1>9 DEF CollectPanics, ScrapeInv
    <3> QED  BY <1>0, <3>1, <3>2, <3>3, <2>2, <2>3, OneScrape
  <2> QED  BY <1>9, <2>3, <2>4 DEF CollectPanics, ScrapeInv
<1> QED  BY <1>1, <1>2, <1>3, <1>4, <1>5, <1>6, <1>7, <1>8, <1>9 DEF ScrapeStep

-----------------------------------------------------------------------------
(* The exporter *)

LEMMA InitInv == Init => IInv
<1>1. Init => HttpInv
  BY HttpInitInv DEF Init
<1>2. Init => ScrapeInv
  <2> SUFFICES ASSUME Init  PROVE ScrapeInv
    OBVIOUS
  <2>1. PICK s : s = [at |-> "none", left |-> 0, partial |-> FALSE, failed |-> FALSE,
                      up |-> << >>]
    OBVIOUS
  <2>2. 0 \in 0..MaxLibs /\ << >> \in Seq({0, 1})
    BY ExporterAssumption
  <2>3. s \in Scrape /\ SInv(s)
    BY <2>1, <2>2 DEF Scrape, SInv
  <2>4. scrape = [r \in Requests |-> s] /\ call = [r \in Requests |-> "idle"]
        /\ baseCtx = "live" /\ mu = "nobody"
    BY <2>1 DEF Init
  <2> QED  BY <2>3, <2>4 DEF ScrapeInv
<1>3. Init => Link
  <2> SUFFICES ASSUME Init, NEW r \in Requests
               PROVE  http[r].pc = "idle" /\ scrape[r].at = "none"
    BY DEF Link
  <2>1. http[r].pc = "idle"
    BY DEF Init, HttpInit
  <2>2. scrape[r].at = "none"
    BY DEF Init
  <2> QED  BY <2>1, <2>2
<1> QED  BY <1>1, <1>2, <1>3 DEF IInv

LEMMA BeginInv ==
  ASSUME IInv, NEW r \in Requests, NEW route \in Routes, Begin(r, route)
  PROVE  IInv'
<1>1. HttpInv'
  BY ServeInv DEF IInv, Begin
<1>2. scrape[r] \in Scrape /\ SInv(scrape[r]) /\ scrape[r].at = "none"
      /\ call[r] \in CallStates /\ call[r] \notin {"asking", "answered"}
  BY DEF IInv, ScrapeInv, Link, Begin, Serve, Fetches, CallStates
<1>3. PICK t : t = IF route = "metrics" THEN [scrape[r] EXCEPT !.at = "status"] ELSE scrape[r]
  OBVIOUS
<1>4. t \in Scrape /\ SInv(t)
  BY <1>2, <1>3 DEF Scrape, SInv, Fetches
<1>5. scrape' = [scrape EXCEPT ![r] = t] /\ call' = [call EXCEPT ![r] = call[r]]
  BY <1>3 DEF Begin, IInv, ScrapeInv
<1>6. ScrapeInv'
  <2>1. baseCtx' = baseCtx /\ mu' \in Requests \cup {"nobody"} /\ ScrapeInv
    BY DEF Begin, IInv, ScrapeInv
  <2> QED  BY <2>1, <1>2, <1>4, <1>5, OneScrape
<1>7. Link'
  <2>1. \A q \in Requests \ {r} : http'[q] = http[q] /\ scrape'[q] = scrape[q]
    BY <1>5 DEF Begin, Serve, IInv, HttpInv, HttpTypeOK, ScrapeInv
  <2>2. http'[r].pc \in {"header", "body"}
    BY DEF Begin, Serve, IInv, HttpInv, HttpTypeOK, Request
  <2> QED  BY <2>1, <2>2 DEF Link, IInv
<1> QED  BY <1>1, <1>6, <1>7 DEF IInv

LEMMA ScrapesInv ==
  ASSUME IInv, NEW r \in Requests, ScrapeStep(r)
  PROVE  IInv'
<1>1. /\ ScrapeInv' /\ http' = http /\ scrape[r].at \notin {"none", "ended"}
      /\ \A q \in Requests \ {r} : scrape'[q] = scrape[q]
  BY ScrapeStepInv DEF IInv
<1>2. HttpInv'
  BY <1>1 DEF IInv, HttpInv, HttpTypeOK, HInv
<1>3. Link'
  BY <1>1 DEF IInv, Link
<1> QED  BY <1>1, <1>2, <1>3 DEF IInv

LEMMA HttpStepInv ==
  ASSUME IInv, NEW r \in Requests, HttpStep(r)
  PROVE  IInv'
<1>0. /\ HttpInv /\ http[r] \in Request /\ HInv(http[r])
      /\ http \in [Requests -> Request]
      /\ scrape' = scrape /\ call' = call /\ baseCtx' = baseCtx /\ mu' = mu
  BY DEF IInv, HttpInv, HttpTypeOK, HttpStep
<1>1. HttpInv'
  <2>1. CASE WriteHeader(r)
    BY <2>1, <1>0, WriteHeaderInv
  <2>2. ASSUME NEW arrives \in BOOLEAN, Write(r, arrives)  PROVE HttpInv'
    BY <2>2, <1>0, WriteInv
  <2>3. CASE Return(r)
    BY <2>3, <1>0, ReturnInv
  <2>4. ASSUME NEW kind \in {"fault", "abort"}, Panics(r, kind)  PROVE HttpInv'
    BY <2>4, <1>0, PanicsInv
  <2>5. CASE WriterPanics(r)
    <3>1. PICK kind \in {"fault", "abort"} : kind = "fault"
      OBVIOUS
    <3> QED  BY <3>1, <2>5, <1>0, PanicsInv
  <2>6. CASE Abort(r)
    BY <2>6, <1>0, AbortInv
  <2>7. CASE Recover(r)
    BY <2>7, <1>0, RecoverInv
  <2>8. CASE PeerLeaves(r)
    BY <2>8, <1>0, PeerLeavesInv
  <2> QED  BY <2>1, <2>2, <2>3, <2>4, <2>5, <2>6, <2>7, <2>8 DEF HttpStep, HandlerStep
<1>2. ScrapeInv'
  BY <1>0 DEF IInv, ScrapeInv
<1>3. /\ \A q \in Requests \ {r} : http'[q] = http[q]
      /\ http'[r].route = http[r].route
      /\ http'[r].pc # "idle"
      /\ \/ Gathered(r)
         \/ http[r].pc \in {"return", "unwind", "over", "aborted"}
         \/ http'[r].pc \notin {"return", "unwind", "over", "aborted"}
  <2>1. CASE HandlerStep(r)
    <3>1. CASE WriteHeader(r)
      <4>1. PICK g : g = Forwarded(http[r], StatusOf(http[r].route))
        OBVIOUS
      <4>2. g \in Request /\ g.route = http[r].route
        <5>1. Silent(http[r]) /\ StatusOf(http[r].route) \in Statuses \ {0}
          BY <1>0, <3>1 DEF WriteHeader, HInv, StatusOf, Statuses
        <5> QED  BY <5>1, <4>1, <1>0, ForwardedFields
      <4> QED  BY <4>1, <4>2, <3>1, <2>1, <1>0 DEF WriteHeader, HandlerStep, Request
    <3>2. ASSUME NEW arrives \in BOOLEAN, Write(r, arrives)
          PROVE  /\ \A q \in Requests \ {r} : http'[q] = http[q]
                 /\ http'[r].route = http[r].route /\ http'[r].pc # "idle"
      <4>1. PICK g : g = Forwarded(http[r], 200)
        OBVIOUS
      <4>2. g \in Request /\ g.route = http[r].route
        <5>1. /\ 200 \in Statuses \ {0}
              /\ (Silent(http[r]) /\ 200 = StatusOf(http[r].route)) \/ Spoken(http[r])
          BY <1>0, <3>2 DEF Write, HInv, StatusOf, HasStatus, Statuses
        <5> QED  BY <5>1, <4>1, <1>0, ForwardedFields
      <4> QED  BY <4>1, <4>2, <3>2, <1>0 DEF Write, Request
    <3>3. CASE Return(r)
      BY <3>3, <2>1, <1>0 DEF Return, Sends, HandlerStep, Request
    <3>4. ASSUME NEW kind \in {"fault", "abort"}, Panics(r, kind)
          PROVE  /\ \A q \in Requests \ {r} : http'[q] = http[q]
                 /\ http'[r].route = http[r].route /\ http'[r].pc # "idle"
      BY <3>4, <1>0 DEF Panics, Request
    <3>5. CASE WriterPanics(r)
      BY <3>5, <2>1, <1>0 DEF WriterPanics, HandlerStep, Request
    <3> QED  BY <3>1, <3>2, <3>3, <3>4, <3>5, <2>1 DEF HandlerStep
  <2>2. CASE Abort(r)
    BY <2>2, <1>0 DEF Abort, Request
  <2>3. CASE Recover(r)
    <3>1. PICK g : g = Recovered(http[r])
      OBVIOUS
    <3>2. g.route = http[r].route /\ DOMAIN g = DOMAIN http[r]
      BY <3>1, <1>0 DEF Recovered, Sends, Request
    <3> QED  BY <3>1, <3>2, <2>3, <1>0 DEF Recover, Request
  <2>4. CASE PeerLeaves(r)
    BY <2>4, <1>0 DEF PeerLeaves, Request
  <2> QED  BY <2>1, <2>2, <2>3, <2>4 DEF HttpStep
<1>4. Link'
  BY <1>0, <1>3 DEF IInv, Link, Gathered
<1> QED  BY <1>1, <1>2, <1>4 DEF IInv

LEMMA NextInv == IInv /\ [Next]_vars => IInv'
<1> SUFFICES ASSUME IInv, [Next]_vars  PROVE IInv'
  OBVIOUS
<1>1. ASSUME NEW r \in Requests, NEW route \in Routes, Begin(r, route)  PROVE IInv'
  BY <1>1, BeginInv
<1>2. ASSUME NEW r \in Requests, ScrapeStep(r)  PROVE IInv'
  BY <1>2, ScrapesInv
<1>3. ASSUME NEW r \in Requests, HttpStep(r)  PROVE IInv'
  BY <1>3, HttpStepInv
<1>4. CASE CancelScrapes
  <2>1. http' = http /\ scrape' = scrape /\ call' = call /\ mu' = mu /\ baseCtx' = "done"
    BY <1>4 DEF CancelScrapes
  <2> QED  BY <2>1 DEF IInv, HttpInv, HttpTypeOK, HInv, ScrapeInv, Link
<1>5. CASE UNCHANGED vars
  BY <1>5 DEF vars, IInv, HttpInv, HttpTypeOK, HInv, ScrapeInv, Link
<1> QED  BY <1>1, <1>2, <1>3, <1>4, <1>5 DEF Next

THEOREM Inductive == Spec => []IInv
  BY InitInv, NextInv, PTL DEF Spec

(* Every request and every scrape stays within its states.                  *)
THEOREM TypeCorrect == Spec => []TypeOK
<1>1. IInv => TypeOK
  BY DEF IInv, TypeOK, HttpInv, ScrapeInv
<1> QED  BY <1>1, Inductive, PTL

(* One answer for each request, whatever panics (middleware.go).            *)
THEOREM AnswerOnce == Spec => []OneAnswer
<1>1. ASSUME IInv, NEW r \in Requests
      PROVE  LET h == http[r] IN
             /\ h.pc = "over" => h.by \in {"handler", "recovery"}
             /\ h.by = "recovery" <=> h.sent = 500
             /\ h.by = "recovery" => h.panic = "fault" /\ h.body = {"recovery"}
             /\ h.by = "handler" => h.sent = StatusOf(h.route) /\ "recovery" \notin h.body
  <2>1. http[r] \in Request /\ HInv(http[r])
    BY <1>1 DEF IInv, HttpInv, HttpTypeOK
  <2>2. http[r].pc \in {"idle", "header", "body", "return", "unwind", "over", "aborted"}
    BY <2>1 DEF Request
  <2>3. Silent(http[r]) \/ Spoken(http[r]) \/ Answered(http[r])
    BY <2>1, <2>2 DEF HInv
  <2>4. http[r].pc = "over" => Answered(http[r])
    BY <2>1 DEF HInv
  <2> QED  BY <2>3, <2>4 DEF Silent, Spoken, Answered, StatusOf
<1>2. IInv => OneAnswer
  BY <1>1 DEF OneAnswer
<1> QED  BY <1>2, Inductive, PTL

(* The access log tells the status that was sent.                           *)
THEOREM LogIsTrue == Spec => []LogTrue
<1>1. IInv => LogTrue
  BY DEF IInv, HttpInv, HInv, LogTrue
<1> QED  BY <1>1, Inductive, PTL

(* Every scrape sends tdarr_up once, and 1 only if nothing failed.          *)
THEOREM UpSentOnce == Spec => []UpOnce
<1>1. ASSUME IInv, NEW r \in Requests
      PROVE  LET s == scrape[r] IN
             /\ Len(s.up) = (IF s.at = "ended" THEN 1 ELSE 0)
             /\ s.at = "ended" => s.up = << IF s.failed THEN 0 ELSE 1 >>
             /\ http[r].route = "metrics" /\ http[r].sent # 0 => s.at = "ended"
  <2>1. SInv(scrape[r]) /\ HInv(http[r]) /\ http[r] \in Request
    BY <1>1 DEF IInv, HttpInv, HttpTypeOK, ScrapeInv
  <2>2. /\ Len(scrape[r].up) = (IF scrape[r].at = "ended" THEN 1 ELSE 0)
        /\ scrape[r].at = "ended" => scrape[r].up = << IF scrape[r].failed THEN 0 ELSE 1 >>
    BY <2>1 DEF SInv
  <2>3. ASSUME http[r].route = "metrics", http[r].sent # 0
        PROVE  http[r].pc \in {"return", "unwind", "over", "aborted"}
    BY <2>1, <2>3 DEF HInv, Silent, HasStatus, Request
  <2> QED  BY <2>2, <2>3, <1>1 DEF IInv, Link
<1>2. IInv => UpOnce
  BY <1>1 DEF UpOnce
<1> QED  BY <1>2, Inductive, PTL
==============================================================================
