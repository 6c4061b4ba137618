----------------------------- MODULE Transport -----------------------------
(***************************************************************************)
(* One request to Tdarr: ClientTransport.RoundTrip with its retries        *)
(* (internal/client/transport.go), called through http.Client by           *)
(* DoRequest and DoPostRequest (internal/client/client.go).                *)
(*                                                                         *)
(* Tdarr and the network are external: an attempt ends with an error or    *)
(* with a response of any status class.  The body of a response may be     *)
(* endless, as seen from the exporter; reading it then stops only when the *)
(* context is done.  The context is done when the exporter shuts down or   *)
(* when http.Client's Timeout, which spans all attempts and the waits      *)
(* between them, runs out (client.go:50).                                  *)
(***************************************************************************)
EXTENDS Naturals, Sequences

CONSTANT Retries  \* len(backoff): 2 by default

ASSUME TransportAssumption == Retries \in Nat

Attempts == 1 .. Retries + 1

Statuses == {"2xx", "3xx", "4xx", "5xx"}
Outcomes == {"error"} \cup Statuses

VARIABLES
    pc,        \* where the request is
    hasBody,   \* POST: the request has a body to send
    reqBody,   \* req.Body: "none", "whole", or "streamed" by an attempt
    sent,      \* sent[k]: what attempt k had to send
    outcome,   \* resp and err of the last attempt
    endless,   \* the body of the last response has no end
    open,      \* attempts whose response body is not closed
    retry,     \* retries made, the index of the backoff loop
    then,      \* where the request goes once the response is discarded
    ctx,       \* the context of the request: "live" or "done"
    result     \* what the caller of DoRequest or DoPostRequest gets

vars == <<pc, hasBody, reqBody, sent, outcome, endless, open, retry, then,
          ctx, result>>

TypeOK ==
    /\ pc \in {"attempt", "judge", "drain", "backoff", "decode", "finished"}
    /\ hasBody \in BOOLEAN
    /\ reqBody \in {"none", "whole", "streamed"}
    /\ sent \in Seq({"none", "whole", "streamed"}) /\ Len(sent) <= Retries + 1
    /\ outcome \in Outcomes \cup {"none"}
    /\ endless \in BOOLEAN
    /\ open \subseteq Attempts
    /\ retry \in 0 .. Retries
    /\ then \in {"backoff", "fail"}
    /\ ctx \in {"live", "done"}
    /\ result \in {"none", "data", "error"}

Fresh == IF hasBody THEN "whole" ELSE "none"

(* The request has been built and its body read into bodyBytes.            *)
Init ==
    /\ hasBody \in BOOLEAN
    /\ pc = "attempt"
    /\ reqBody = Fresh
    /\ sent = <<>>
    /\ outcome = "none"
    /\ endless = FALSE
    /\ open = {}
    /\ retry = 0
    /\ then = "fail"
    /\ ctx = "live"
    /\ result = "none"

-----------------------------------------------------------------------------
(* The context ends: shutdown, or the timeout of the client.               *)
ContextEnds ==
    /\ pc # "finished"
    /\ ctx = "live"
    /\ ctx' = "done"
    /\ UNCHANGED <<pc, hasBody, reqBody, sent, outcome, endless, open, retry,
                   then, result>>

(* Mutant: the request is made without the context of the scrape.          *)
Attempt_NoContext(o, e) ==
    /\ pc = "attempt"
    /\ o = "error" => ~e
    /\ sent' = Append(sent, reqBody)
    /\ reqBody' = IF hasBody THEN "streamed" ELSE "none"
    /\ outcome' = o
    /\ endless' = e
    /\ open' = IF o = "error" THEN open ELSE open \cup {Len(sent) + 1}
    /\ pc' = "judge"
    /\ UNCHANGED <<hasBody, retry, then, ctx, result>>

(* inner.RoundTrip.  It streams the body away; it gives either an error    *)
(* and no response, or a response whose body the transport must close.     *)
Attempt(o, e) ==
    /\ pc = "attempt"
    /\ ctx = "done" => o = "error"
    /\ o = "error" => ~e
    /\ sent' = Append(sent, reqBody)
    /\ reqBody' = IF hasBody THEN "streamed" ELSE "none"
    /\ outcome' = o
    /\ endless' = e
    /\ open' = IF o = "error" THEN open ELSE open \cup {Len(sent) + 1}
    /\ pc' = "judge"
    /\ UNCHANGED <<hasBody, retry, then, ctx, result>>

(* Whether there is to be a retry is decided at two places: after the      *)
(* first attempt ...                                                       *)
FirstFails == outcome \in {"error", "5xx"}

(* Mutant: the loop is left with a success only.                           *)
Recovered_BySuccess == outcome = "2xx"

(* ... and after each attempt of the loop.                                 *)
Recovered == outcome \notin {"error", "5xx"}

Failed == IF retry = 0 THEN FirstFails ELSE ~Recovered

(* Mutants: the loop runs once too often; the failed response is not freed *)
(* before the wait.                                                        *)
Retry_OnceMore ==
    /\ pc = "judge"
    /\ Failed
    /\ retry <= Retries
    /\ pc' = "drain"
    /\ then' = "backoff"
    /\ UNCHANGED <<hasBody, reqBody, sent, outcome, endless, open, retry, ctx,
                   result>>

Retry_NoDrain ==
    /\ pc = "judge"
    /\ Failed
    /\ retry < Retries
    /\ pc' = "backoff"
    /\ then' = "backoff"
    /\ UNCHANGED <<hasBody, reqBody, sent, outcome, endless, open, retry, ctx,
                   result>>

(* Some attempt is left: discard the response, then wait.                  *)
Retry ==
    /\ pc = "judge"
    /\ Failed
    /\ retry < Retries
    /\ pc' = "drain"
    /\ then' = "backoff"
    /\ UNCHANGED <<hasBody, reqBody, sent, outcome, endless, open, retry, ctx,
                   result>>

(* The last attempt failed, or the response is a 3xx or a 4xx, of the      *)
(* first attempt or of a later one: discard it and return an error.        *)
Refuse ==
    /\ pc = "judge"
    /\ \/ Failed /\ retry = Retries
       \/ ~Failed /\ outcome \in {"3xx", "4xx"}
    /\ pc' = "drain"
    /\ then' = "fail"
    /\ UNCHANGED <<hasBody, reqBody, sent, outcome, endless, open, retry, ctx,
                   result>>

(* Mutant: a retry that gets any response below 500 is a success.          *)
Accept_Recovered ==
    /\ pc = "judge"
    /\ outcome = "2xx" \/ (retry > 0 /\ ~Failed)
    /\ pc' = "decode"
    /\ UNCHANGED <<hasBody, reqBody, sent, outcome, endless, open, retry, then,
                   ctx, result>>

(* Any other response goes to the caller, body open.                       *)
Accept ==
    /\ pc = "judge"
    /\ ~Failed /\ outcome \notin {"3xx", "4xx"}
    /\ pc' = "decode"
    /\ UNCHANGED <<hasBody, reqBody, sent, outcome, endless, open, retry, then,
                   ctx, result>>

(* Reading the body to its end comes to an end.                            *)
BodyEnds == endless => ctx = "done"

(* drainClose: read the body to its end and close it.                      *)
DrainClose ==
    /\ pc = "drain"
    /\ BodyEnds
    /\ open' = open \ {Len(sent)}
    /\ IF then = "backoff"
       THEN pc' = "backoff" /\ UNCHANGED result
       ELSE pc' = "finished" /\ result' = "error"
    /\ UNCHANGED <<hasBody, reqBody, sent, outcome, endless, retry, then, ctx>>

(* Mutant: a plain sleep instead of the select.                            *)
AbortWait_Sleep == FALSE /\ UNCHANGED vars

(* The two cases of the select: either may be taken when both are ready.   *)
AbortWait ==
    /\ pc = "backoff"
    /\ ctx = "done"
    /\ pc' = "finished"
    /\ result' = "error"
    /\ UNCHANGED <<hasBody, reqBody, sent, outcome, endless, open, retry, then,
                   ctx>>

(* Mutant: the body is not put back before the retry.                      *)
TimerFires_NoRewind ==
    /\ pc = "backoff"
    /\ retry' = retry + 1
    /\ pc' = "attempt"
    /\ UNCHANGED <<hasBody, reqBody, sent, outcome, endless, open, then, ctx,
                   result>>

TimerFires ==
    /\ pc = "backoff"
    /\ reqBody' = Fresh
    /\ retry' = retry + 1
    /\ pc' = "attempt"
    /\ UNCHANGED <<hasBody, sent, outcome, endless, open, then, ctx, result>>

(* unmarshalBody and the deferred Close.  `decoded' is FALSE when the body *)
(* is not the expected JSON, or is cut off when the context ends.  The     *)
(* decoder stops at the end of the JSON value, of an endless body too.     *)
Decode(decoded) ==
    /\ pc = "decode"
    /\ open' = open \ {Len(sent)}
    /\ result' = IF decoded THEN "data" ELSE "error"
    /\ pc' = "finished"
    /\ UNCHANGED <<hasBody, reqBody, sent, outcome, endless, retry, then, ctx>>

(* What the exporter does of its own accord, the passing of time aside.    *)
Step ==
    \/ \E o \in Outcomes, e \in BOOLEAN : Attempt(o, e)
    \/ Retry
    \/ Refuse
    \/ Accept
    \/ DrainClose
    \/ AbortWait
    \/ BodyEnds /\ \E decoded \in BOOLEAN : Decode(decoded)

Next ==
    \/ ContextEnds
    \/ Step
    \/ TimerFires
    \/ ~BodyEnds /\ \E decoded \in BOOLEAN : Decode(decoded)

Spec == Init /\ [][Next]_vars

(* A goroutine that can run runs, and the client's timeout runs out.       *)
(* Nothing is assumed about the backoff timer: the waits may be as long as *)
(* they like.                                                              *)
FairSpec == Spec /\ WF_vars(Step) /\ WF_vars(ContextEnds)

-----------------------------------------------------------------------------
(* Properties.                                                             *)

(* No connection leaks: while it waits for the next attempt, and once the  *)
(* caller has its result, the request holds no open body - on the retry    *)
(* path, on the error paths and after a cancelled wait alike               *)
(* (transport.go:69-75, 100-103; client.go:138-142, 166-170).              *)
NoBodyLeaks == pc \in {"attempt", "backoff", "finished"} => open = {}

(* Every attempt of a POST sends its whole body, although an attempt       *)
(* streams the body away (transport.go:82-90, 113-116).                    *)
WholeBodySent == \A k \in DOMAIN sent : sent[k] = Fresh

(* Only a response below 300 is ever decoded, also when it took retries to *)
(* get a response at all (transport.go:118-124, 136-150).                  *)
OnlySuccessDecoded == pc = "decode" \/ result = "data" => outcome = "2xx"

(* What Tdarr refused is not asked again, neither before the loop nor in   *)
(* it: a further attempt follows only an attempt that failed on the way or *)
(* in the server (transport.go:92, 118).                                   *)
RetriesOnlyFailures ==
    [][Len(sent') > Len(sent) => sent = <<>> \/ outcome \in {"error", "5xx"}]_vars

(* The client's timeout and a shutdown end every request, however long the *)
(* backoff waits and whatever never-ending body Tdarr sends                *)
(* (transport.go:104-112; client.go:50).                                   *)
RequestEnds == <>(pc = "finished")

(* The request is the call that a scrape expects, however many attempts it *)
(* takes: the caller sees one answer at most, of a Tdarr that gave it      *)
(* before the context ended, and nothing of the attempts that failed.      *)
CallState ==
    IF result # "none" THEN result
    ELSE IF pc = "decode" \/ (pc = "judge" /\ outcome = "2xx") THEN "answered"
    ELSE "asking"

CallOf == INSTANCE Call WITH state <- CallState

ImplementsCall == CallOf!Spec
=============================================================================
