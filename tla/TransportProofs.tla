-------------------------- MODULE TransportProofs --------------------------
(***************************************************************************)
(* Proofs about module Transport, for any number of retries: its types,    *)
(* that no body leaks, that every attempt sends its whole body, that only  *)
(* a success is decoded and only a failure retried, and that it implements *)
(* Call.                                                                   *)
(***************************************************************************)
EXTENDS Transport, TLAPS

USE TransportAssumption

(* Each attempt is one retry further, and the loop goes on only below its  *)
(* bound.                                                                  *)
CountInv ==
    /\ pc = "attempt" => Len(sent) = retry
    /\ pc # "attempt" => Len(sent) = retry + 1
    /\ (pc = "drain" /\ then = "backoff") \/ pc = "backoff" => retry < Retries

(* The only body that can be open is that of the last response.            *)
BodyInv ==
    /\ pc \in {"judge", "drain", "decode"} => open \subseteq {Len(sent)}
    /\ NoBodyLeaks
    /\ pc = "attempt" => reqBody = Fresh
    /\ WholeBodySent

(* What the last outcome allows the request to do.                         *)
OutcomeInv ==
    /\ (pc = "drain" /\ then = "backoff") \/ pc = "backoff" =>
          outcome \in {"error", "5xx"}
    /\ pc = "attempt" => sent = <<>> \/ outcome \in {"error", "5xx"}
    /\ pc = "judge" => outcome # "none"
    /\ pc # "finished" => result = "none"
    /\ OnlySuccessDecoded

IInv == TypeOK /\ CountInv /\ BodyInv /\ OutcomeInv

LEMMA InitInv == Init => IInv
<1> SUFFICES ASSUME Init PROVE IInv
  OBVIOUS
<1>1. /\ sent = <<>> /\ Len(sent) = 0 /\ DOMAIN sent = {}
      /\ sent \in Seq({"none", "whole", "streamed"})
  BY DEF Init
<1>2. TypeOK
  <2>1. reqBody \in {"none", "whole", "streamed"}
    BY DEF Init, Fresh
  <2>2. Len(sent) <= Retries + 1 /\ retry \in 0 .. Retries
    BY <1>1 DEF Init
  <2>3. outcome \in Outcomes \cup {"none"} /\ open \subseteq Attempts
    BY DEF Init
  <2> QED  BY <1>1, <2>1, <2>2, <2>3 DEF Init, TypeOK
<1> QED
  BY <1>1, <1>2 DEF Init, IInv, CountInv, BodyInv, OutcomeInv, NoBodyLeaks,
                    WholeBodySent, OnlySuccessDecoded

(* An attempt adds what it sent to the record, and nothing else does.      *)
LEMMA AttemptInv ==
  ASSUME IInv, NEW o \in Outcomes, NEW e \in BOOLEAN, Attempt(o, e)
  PROVE  IInv'
<1>a. /\ pc = "attempt" /\ pc' = "judge"
      /\ sent' = Append(sent, reqBody)
      /\ reqBody' = IF hasBody THEN "streamed" ELSE "none"
      /\ outcome' = o /\ endless' = e
      /\ open' = IF o = "error" THEN open ELSE open \cup {Len(sent) + 1}
      /\ UNCHANGED <<hasBody, retry, then, ctx, result>>
  BY DEF Attempt
<1>t. TypeOK /\ Len(sent) = retry /\ open = {} /\ reqBody = Fresh
  BY <1>a DEF IInv, CountInv, BodyInv, NoBodyLeaks
<1>1. /\ sent' \in Seq({"none", "whole", "streamed"})
      /\ Len(sent') = retry + 1
      /\ DOMAIN sent' = 1 .. retry + 1
      /\ \A k \in DOMAIN sent' : sent'[k] = IF k = retry + 1 THEN reqBody ELSE sent[k]
  BY <1>a, <1>t DEF TypeOK
<1>2. TypeOK'
  BY <1>a, <1>t, <1>1 DEF TypeOK, Attempts, Outcomes
<1>3. CountInv'
  BY <1>a, <1>1, <1>t DEF CountInv
<1>4. WholeBodySent'
  <2>1. \A k \in DOMAIN sent : sent[k] = Fresh
    BY DEF IInv, BodyInv, WholeBodySent
  <2>2. DOMAIN sent = 1 .. retry
    BY <1>t DEF TypeOK
  <2>3. Fresh' = Fresh
    BY <1>a DEF Fresh
  <2>4. \A k \in DOMAIN sent' : k = retry + 1 \/ k \in DOMAIN sent
    BY <1>1, <1>t, <2>2 DEF TypeOK
  <2> QED  BY <1>1, <1>t, <2>1, <2>3, <2>4 DEF WholeBodySent
<1>5. BodyInv'
  BY <1>a, <1>t, <1>1, <1>4 DEF BodyInv, NoBodyLeaks
<1>6. OutcomeInv'
  BY <1>a DEF IInv, OutcomeInv, OnlySuccessDecoded, Outcomes, Statuses
<1> QED  BY <1>2, <1>3, <1>5, <1>6 DEF IInv

(* The steps that leave the attempts and their record alone.               *)
LEMMA OtherInv ==
  ASSUME IInv, sent' = sent,
         \/ ContextEnds \/ Retry \/ Refuse \/ Accept \/ DrainClose \/ AbortWait
         \/ TimerFires
         \/ \E decoded \in BOOLEAN : Decode(decoded)
         \/ UNCHANGED vars
  PROVE  IInv'
<1>h. hasBody' = hasBody /\ Fresh' = Fresh
  BY DEF ContextEnds, Retry, Refuse, Accept, DrainClose, AbortWait, TimerFires,
         Decode, Fresh, vars
<1>w. WholeBodySent'
  BY <1>h DEF IInv, BodyInv, WholeBodySent
<1>n. Len(sent) \in Nat /\ retry \in Nat
  BY DEF IInv, TypeOK
<1> USE <1>h, <1>w, <1>n DEF IInv, TypeOK, CountInv, BodyInv, OutcomeInv,
        NoBodyLeaks, OnlySuccessDecoded, Failed, FirstFails, Recovered, Outcomes, Statuses
<1>1. CASE ContextEnds
  BY <1>1 DEF ContextEnds
<1>2. CASE Retry
  BY <1>2 DEF Retry
<1>3. CASE Refuse
  BY <1>3 DEF Refuse
<1>4. CASE Accept
  BY <1>4 DEF Accept
<1>5. CASE DrainClose
  BY <1>5 DEF DrainClose
<1>6. CASE AbortWait
  BY <1>6 DEF AbortWait
<1>7. CASE TimerFires
  BY <1>7 DEF TimerFires, Fresh
<1>8. ASSUME NEW decoded \in BOOLEAN, Decode(decoded) PROVE IInv'
  BY <1>8 DEF Decode
<1>9. CASE UNCHANGED vars
  BY <1>9 DEF vars
<1> QED  BY <1>1, <1>2, <1>3, <1>4, <1>5, <1>6, <1>7, <1>8, <1>9

LEMMA NextInv == IInv /\ [Next]_vars => IInv'
<1> SUFFICES ASSUME IInv, [Next]_vars PROVE IInv'
  OBVIOUS
<1>1. ASSUME NEW o \in Outcomes, NEW e \in BOOLEAN, Attempt(o, e) PROVE IInv'
  BY <1>1, AttemptInv
<1>2. \/ \E o \in Outcomes, e \in BOOLEAN : Attempt(o, e)
      \/ ContextEnds \/ Retry \/ Refuse \/ Accept \/ DrainClose \/ AbortWait
      \/ TimerFires
      \/ \E decoded \in BOOLEAN : Decode(decoded)
      \/ UNCHANGED vars
  BY DEF Next, Step
<1>3. CASE \/ ContextEnds \/ Retry \/ Refuse \/ Accept \/ DrainClose \/ AbortWait
           \/ TimerFires
           \/ \E decoded \in BOOLEAN : Decode(decoded)
           \/ UNCHANGED vars
  <2>1. sent' = sent
    BY <1>3 DEF ContextEnds, Retry, Refuse, Accept, DrainClose, AbortWait,
                TimerFires, Decode, vars
  <2> QED  BY <1>3, <2>1, OtherInv
<1> QED  BY <1>1, <1>2, <1>3

LEMMA InductiveInv == Spec => []IInv
  BY InitInv, NextInv, PTL DEF Spec

-----------------------------------------------------------------------------
(* Every variable keeps its type; in particular there are never more       *)
(* attempts than one and the retries (transport.go:93-95).                 *)
THEOREM TypeCorrect == Spec => []TypeOK
<1>1. IInv => TypeOK
  BY DEF IInv
<1> QED  BY <1>1, InductiveInv, PTL

(* No response body is open while the request waits or once it has ended   *)
(* (transport.go:69-75, 100-103; client.go:138-142, 166-170).              *)
THEOREM NoBodyLeaksAlways == Spec => []NoBodyLeaks
<1>1. IInv => NoBodyLeaks
  BY DEF IInv, BodyInv
<1> QED  BY <1>1, InductiveInv, PTL

(* Every attempt sends the whole body (transport.go:82-90, 113-116).       *)
THEOREM WholeBodySentAlways == Spec => []WholeBodySent
<1>1. IInv => WholeBodySent
  BY DEF IInv, BodyInv
<1> QED  BY <1>1, InductiveInv, PTL

(* Nothing but a 2xx answer is decoded (transport.go:118-124, 136-150).    *)
THEOREM OnlySuccessDecodedAlways == Spec => []OnlySuccessDecoded
<1>1. IInv => OnlySuccessDecoded
  BY DEF IInv, OutcomeInv
<1> QED  BY <1>1, InductiveInv, PTL

(* A further attempt follows only a failed one (transport.go:92, 118).     *)
THEOREM RetriesOnlyFailuresAlways == Spec => RetriesOnlyFailures
<1>1. IInv /\ [Next]_vars =>
        [Len(sent') > Len(sent) => sent = <<>> \/ outcome \in {"error", "5xx"}]_vars
  <2> SUFFICES ASSUME IInv, Next, Len(sent') > Len(sent)
               PROVE  sent = <<>> \/ outcome \in {"error", "5xx"}
    OBVIOUS
  <2>1. sent' = sent \/ pc = "attempt"
    BY DEF Next, Step, ContextEnds, Attempt, Retry, Refuse, Accept, DrainClose,
           AbortWait, TimerFires, Decode
  <2>2. Len(sent) \in Nat
    BY DEF IInv, TypeOK
  <2> QED  BY <2>1, <2>2 DEF IInv, OutcomeInv
<1> QED  BY <1>1, InductiveInv, PTL DEF Spec, RetriesOnlyFailures

(* The request is the abstract call: its attempts, waits and discarded     *)
(* responses are invisible to the scrape, an acceptable response is the    *)
(* answer (Call; transport.go:90-151, client.go:131-171).                  *)
LEMMA CallStep == IInv /\ [Next]_vars => [CallOf!Next]_(CallOf!vars)
<1> SUFFICES ASSUME IInv, Next PROVE CallOf!Next \/ UNCHANGED CallOf!vars
  BY DEF vars, CallOf!vars, CallState
<1> USE DEF CallOf!Next, CallOf!vars, CallState
<1>t. /\ pc \in {"attempt", "judge", "drain", "backoff", "decode", "finished"}
      /\ pc # "finished" => result = "none"
      /\ ctx \in {"live", "done"}
      /\ pc = "judge" => outcome \in Outcomes
  BY DEF IInv, TypeOK, OutcomeInv
<1>1. CASE ContextEnds
  BY <1>1, <1>t DEF ContextEnds, CallOf!CtxEnds
<1>2. ASSUME NEW o \in Outcomes, NEW e \in BOOLEAN, Attempt(o, e)
      PROVE  CallOf!Next \/ UNCHANGED CallOf!vars
  <2>1. CallState = "asking" /\ ctx' = ctx /\ result' = "none" /\ pc' = "judge" /\ outcome' = o
    BY <1>2, <1>t DEF Attempt
  <2>2. CASE o = "2xx"
    BY <1>2, <1>t, <2>1, <2>2 DEF Attempt, CallOf!Answer
  <2>3. CASE o # "2xx"
    BY <2>1, <2>3
  <2> QED  BY <2>2, <2>3
<1>3. CASE Retry \/ Refuse
  BY <1>3, <1>t DEF Retry, Refuse, Failed, FirstFails, Recovered
<1>4. CASE Accept
  BY <1>4, <1>t DEF Accept, Failed, FirstFails, Recovered, Outcomes, Statuses
<1>5. CASE DrainClose
  BY <1>5, <1>t DEF DrainClose, CallOf!Fail
<1>6. CASE AbortWait
  BY <1>6, <1>t DEF AbortWait, CallOf!Fail
<1>7. CASE TimerFires
  BY <1>7, <1>t DEF TimerFires
<1>8. ASSUME NEW decoded \in BOOLEAN, Decode(decoded)
      PROVE  CallOf!Next \/ UNCHANGED CallOf!vars
  BY <1>8, <1>t DEF Decode, CallOf!Deliver, CallOf!Fail
<1> QED  BY <1>1, <1>2, <1>3, <1>4, <1>5, <1>6, <1>7, <1>8 DEF Next, Step

THEOREM CallImplemented == Spec => ImplementsCall
<1>1. Init => CallOf!Init
  BY DEF Init, CallOf!Init, CallState
<1> QED  BY <1>1, InductiveInv, CallStep, PTL DEF Spec, ImplementsCall, CallOf!Spec
=============================================================================
