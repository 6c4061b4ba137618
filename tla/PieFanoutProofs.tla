-------------------------- MODULE PieFanoutProofs --------------------------
(***************************************************************************)
(* Proofs about module PieFanout, for any pool, any number of libraries    *)
(* and any capacity of outChan: its types, that no worker sends on a       *)
(* closed channel, that nothing runs after the return, that the result is  *)
(* complete, and that the pool implements the sweep.                       *)
(***************************************************************************)
EXTENDS PieFanout, TLAPS

USE PieFanoutAssumption

-----------------------------------------------------------------------------
(* Sequences as sets of elements without repetition.                       *)

(* Appending to a sequence adds one element to its range.                  *)
LEMMA AppendRange ==
  ASSUME NEW S, NEW q \in Seq(S), NEW x \in S
  PROVE  /\ Append(q, x) \in Seq(S)
         /\ Len(Append(q, x)) = Len(q) + 1
         /\ Range(Append(q, x)) = Range(q) \cup {x}
         /\ IsInjective(q) /\ x \notin Range(q) => IsInjective(Append(q, x))
<1>1. /\ Append(q, x) \in Seq(S)
      /\ Len(Append(q, x)) = Len(q) + 1
      /\ DOMAIN Append(q, x) = 1 .. Len(q) + 1
      /\ \A k \in 1 .. Len(q) + 1 :
            Append(q, x)[k] = IF k = Len(q) + 1 THEN x ELSE q[k]
      /\ DOMAIN q = 1 .. Len(q)
      /\ Len(q) \in Nat
  OBVIOUS
<1>2. \A k \in 1 .. Len(q) + 1 : k = Len(q) + 1 \/ k \in DOMAIN q
  BY <1>1
<1>3. Range(Append(q, x)) = Range(q) \cup {x}
  <2>1. ASSUME NEW y \in Range(Append(q, x)) PROVE y \in Range(q) \cup {x}
    BY <1>1, <1>2 DEF Range
  <2>2. ASSUME NEW y \in Range(q) PROVE y \in Range(Append(q, x))
    <3>1. PICK k \in DOMAIN q : q[k] = y
      BY DEF Range
    <3>2. k \in DOMAIN Append(q, x) /\ Append(q, x)[k] = y
      BY <1>1, <3>1
    <3> QED  BY <3>2 DEF Range
  <2>3. x \in Range(Append(q, x))
    <3>1. Len(q) + 1 \in DOMAIN Append(q, x) /\ Append(q, x)[Len(q) + 1] = x
      BY <1>1
    <3> QED  BY <3>1 DEF Range
  <2> QED  BY <2>1, <2>2, <2>3
<1>4. ASSUME IsInjective(q), x \notin Range(q) PROVE IsInjective(Append(q, x))
  <2>1. \A k \in DOMAIN q : q[k] # x
    BY <1>4 DEF Range
  <2>2. \A j, k \in DOMAIN q : q[j] = q[k] => j = k
    BY <1>4 DEF IsInjective
  <2>3. ASSUME NEW j \in 1 .. Len(q) + 1, NEW k \in 1 .. Len(q) + 1,
               Append(q, x)[j] = Append(q, x)[k]
        PROVE  j = k
    BY <1>1, <1>2, <2>1, <2>2, <2>3
  <2> QED  BY <1>1, <2>3 DEF IsInjective
<1> QED  BY <1>1, <1>3, <1>4

(* Taking the head off a sequence without repetition takes one element off *)
(* its range.                                                              *)
LEMMA TailRange ==
  ASSUME NEW S, NEW q \in Seq(S), q # <<>>, IsInjective(q)
  PROVE  /\ Tail(q) \in Seq(S)
         /\ Len(Tail(q)) = Len(q) - 1
         /\ Head(q) \in Range(q)
         /\ Range(Tail(q)) = Range(q) \ {Head(q)}
         /\ IsInjective(Tail(q))
<1>1. /\ Tail(q) \in Seq(S)
      /\ Len(Tail(q)) = Len(q) - 1
      /\ DOMAIN Tail(q) = 1 .. Len(q) - 1
      /\ \A k \in 1 .. Len(q) - 1 : Tail(q)[k] = q[k + 1]
      /\ DOMAIN q = 1 .. Len(q)
      /\ Len(q) \in Nat /\ Len(q) >= 1
      /\ Head(q) = q[1]
  OBVIOUS
<1>2. \A j, k \in DOMAIN q : q[j] = q[k] => j = k
  BY DEF IsInjective
<1>3. Head(q) \in Range(q)
  BY <1>1 DEF Range
<1>4. Range(Tail(q)) = Range(q) \ {Head(q)}
  <2>1. ASSUME NEW y \in Range(Tail(q)) PROVE y \in Range(q) \ {Head(q)}
    <3>1. PICK k \in 1 .. Len(q) - 1 : Tail(q)[k] = y
      BY <1>1 DEF Range
    <3>2. k + 1 \in DOMAIN q /\ q[k + 1] = y /\ k + 1 # 1 /\ 1 \in DOMAIN q
      BY <1>1, <3>1
    <3>3. y # q[1]
      BY <3>2, <1>2
    <3> QED  BY <1>1, <3>2, <3>3 DEF Range
  <2>2. ASSUME NEW y \in Range(q), y # Head(q) PROVE y \in Range(Tail(q))
    <3>1. PICK k \in DOMAIN q : q[k] = y
      BY DEF Range
    <3>2. k - 1 \in 1 .. Len(q) - 1 /\ Tail(q)[k - 1] = y
      BY <1>1, <2>2, <3>1
    <3> QED  BY <1>1, <3>2 DEF Range
  <2> QED  BY <2>1, <2>2
<1>5. ASSUME NEW j \in 1 .. Len(q) - 1, NEW k \in 1 .. Len(q) - 1,
             Tail(q)[j] = Tail(q)[k]
      PROVE  j = k
  <2>1. j + 1 \in DOMAIN q /\ k + 1 \in DOMAIN q /\ q[j + 1] = q[k + 1]
    BY <1>1, <1>5
  <2> QED  BY <2>1, <1>2
<1>6. IsInjective(Tail(q))
  BY <1>1, <1>5 DEF IsInjective
<1> QED  BY <1>1, <1>3, <1>4, <1>6
-----------------------------------------------------------------------------
(* The inductive invariant.                                                *)

Holding(w) == worker[w].pc \in {"request", "out"}

Holds(w, lib) == Holding(w) /\ worker[w].lib = lib

(* The library is on its way: in a worker, in the channel or in the result. *)
Here(lib) == \/ \E w \in Workers : Holds(w, lib)
             \/ lib \in Range(outChan)
             \/ lib \in Range(pieData)

(* Who may be where: closing and draining come in order.                   *)
ControlInv ==
    /\ caller = "send" <=> ~inClosed
    /\ inClosed => sent = NumLibs
    /\ \A w \in Workers : worker[w].pc = "done" => inClosed /\ taken = sent
    /\ outClosed <=> caller \in {"collect", "returned"}
    /\ outClosed => \A w \in Workers : worker[w].pc = "done"
    /\ drain = "off" <=> caller \in {"send", "drain"}
    /\ drain = "done" => outClosed /\ outChan = <<>>
    /\ caller = "returned" => drain = "done" /\ (result <=> partial)
    /\ crash # "closed channel"

(* Every library taken is in one place only, and the partial flag tells of *)
(* those that are in none.                                                 *)
PlaceInv ==
    /\ \A w \in Workers : Holding(w) => worker[w].lib \in 1 .. taken
    /\ \A w, v \in Workers :
          Holding(w) /\ Holding(v) /\ worker[w].lib = worker[v].lib => w = v
    /\ \A w \in Workers : Holding(w) =>
          worker[w].lib \notin Range(outChan) /\ worker[w].lib \notin Range(pieData)
    /\ IsInjective(outChan) /\ IsInjective(pieData)
    /\ Range(outChan) \cap Range(pieData) = {}
    /\ Range(outChan) \subseteq 1 .. taken
    /\ Range(pieData) \subseteq 1 .. taken
    /\ partial <=> \E lib \in 1 .. taken : ~Here(lib)

IInv == TypeOK /\ ControlInv /\ PlaceInv

LEMMA InitInv == Init => IInv
<1> SUFFICES ASSUME Init PROVE IInv
  OBVIOUS
<1>1. /\ outChan = <<>> /\ pieData = <<>> /\ taken = 0 /\ sent = 0
      /\ \A w \in Workers : worker[w] = [pc |-> "recv", lib |-> 0]
      /\ Range(outChan) = {} /\ Range(pieData) = {}
      /\ IsInjective(outChan) /\ IsInjective(pieData)
  BY DEF Init, Range, IsInjective
<1>2. TypeOK
  <2>1. worker \in [Workers -> [pc : WorkerPCs, lib : 0 .. NumLibs]]
    BY DEF Init, WorkerPCs
  <2>2. outChan \in Seq(Libs) /\ Len(outChan) <= OutCap /\ pieData \in Seq(Libs)
    BY <1>1
  <2>3. sent \in 0 .. NumLibs /\ taken \in 0 .. sent
    BY <1>1
  <2>4. caller \in CallerPCs /\ crash \in {"no", "closed channel", "panic"}
        /\ inClosed \in BOOLEAN /\ outClosed \in BOOLEAN /\ partial \in BOOLEAN
        /\ result \in BOOLEAN
        /\ drain \in {"off", "recv", "done"}
    BY DEF Init, CallerPCs
  <2> QED  BY <2>1, <2>2, <2>3, <2>4 DEF TypeOK
<1>3. ControlInv
  BY <1>1 DEF Init, ControlInv
<1>4. PlaceInv
  BY <1>1 DEF Init, PlaceInv, Holding
<1> QED  BY <1>2, <1>3, <1>4 DEF IInv

-----------------------------------------------------------------------------
(* What the steps preserve.                                                *)

(* Nothing moves a library: the places are as they were.                   *)
LEMMA PlaceStutter ==
  ASSUME PlaceInv, UNCHANGED <<taken, worker, outChan, pieData, partial>>
  PROVE  PlaceInv'
  BY DEF PlaceInv, Holding, Here, Holds

LEMMA CallerInv ==
  ASSUME IInv, CallerStep
  PROVE  IInv'
<1>p. PlaceInv'
  BY PlaceStutter DEF IInv, CallerStep, SendLib, CloseIn, StartDrain, CloseOut, Return
<1>1. CASE SendLib
  <2>1. sent' = sent + 1 /\ sent < NumLibs /\ caller = "send"
        /\ UNCHANGED <<caller, taken, inClosed, worker, outChan, outClosed, drain,
                       pieData, partial, result, crash>>
    BY <1>1 DEF SendLib
  <2>2. sent \in 0 .. NumLibs /\ taken \in 0 .. sent
    BY DEF IInv, TypeOK
  <2>3. sent' \in 0 .. NumLibs /\ taken' \in 0 .. sent'
    BY <2>1, <2>2
  <2>4. TypeOK'
    BY <2>1, <2>3 DEF IInv, TypeOK
  <2>5. ~inClosed
    BY <2>1 DEF IInv, ControlInv
  <2>6. ControlInv'
    BY <2>1, <2>5 DEF IInv, ControlInv
  <2> QED  BY <1>p, <2>4, <2>6 DEF IInv
<1>2. CASE CloseIn
  BY <1>2, <1>p DEF CloseIn, IInv, TypeOK, ControlInv, CallerPCs
<1>3. CASE StartDrain
  BY <1>3, <1>p DEF StartDrain, IInv, TypeOK, ControlInv, CallerPCs
<1>4. CASE CloseOut
  BY <1>4, <1>p DEF CloseOut, IInv, TypeOK, ControlInv, CallerPCs
<1>5. CASE Return
  BY <1>5, <1>p DEF Return, IInv, TypeOK, ControlInv, CallerPCs
<1> QED  BY <1>1, <1>2, <1>3, <1>4, <1>5 DEF CallerStep

(* A worker is changed alone.                                              *)
LEMMA OneWorker ==
  ASSUME TypeOK, NEW w \in Workers, NEW r \in [pc : WorkerPCs, lib : 0 .. NumLibs],
         worker' = [worker EXCEPT ![w] = r]
  PROVE  /\ worker' \in [Workers -> [pc : WorkerPCs, lib : 0 .. NumLibs]]
         /\ worker'[w] = r
         /\ \A v \in Workers : v # w => worker'[v] = worker[v]
  BY DEF TypeOK

LEMMA ReceiveInv ==
  ASSUME IInv, NEW w \in Workers, Receive(w)
  PROVE  IInv'
<1> DEFINE r == [pc |-> "request", lib |-> taken + 1]
<1>1. /\ worker[w].pc = "recv" /\ taken < sent /\ taken' = taken + 1
      /\ worker' = [worker EXCEPT ![w] = r]
      /\ UNCHANGED <<caller, sent, inClosed, outChan, outClosed, drain, pieData,
                     partial, result, crash>>
  BY DEF Receive
<1>t. TypeOK /\ sent \in 0 .. NumLibs /\ taken \in 0 .. sent
  BY DEF IInv, TypeOK
<1>2. r \in [pc : WorkerPCs, lib : 0 .. NumLibs]
  BY <1>1, <1>t DEF WorkerPCs
<1>3. /\ worker' \in [Workers -> [pc : WorkerPCs, lib : 0 .. NumLibs]]
      /\ worker'[w].pc = "request" /\ worker'[w].lib = taken + 1
      /\ \A v \in Workers : v # w => worker'[v] = worker[v]
  BY <1>1, <1>2, <1>t, OneWorker
<1>4. TypeOK'
  <2>1. taken' \in 0 .. sent'
    BY <1>1, <1>t
  <2> QED  BY <1>1, <1>3, <1>t, <2>1 DEF TypeOK
<1>5. ControlInv'
  <2>1. \A v \in Workers : worker[v].pc # "done"
    <3>1. \A v \in Workers : worker[v].pc = "done" => taken = sent
      BY DEF IInv, ControlInv
    <3>2. taken # sent
      BY <1>1, <1>t
    <3> QED  BY <3>1, <3>2
  <2>2. \A v \in Workers : worker'[v].pc # "done"
    BY <1>3, <2>1
  <2>3. ~outClosed
    BY <2>1 DEF IInv, ControlInv
  <2> QED  BY <1>1, <2>2, <2>3 DEF IInv, ControlInv
<1>6. PlaceInv'
  <2>1. \A v \in Workers : Holding(v)' <=> (v = w \/ Holding(v))
    BY <1>1, <1>3 DEF Holding
  <2>2. \A lib \in 1 .. taken : Here(lib)' <=> Here(lib)
    BY <1>1, <1>3, <1>t, <2>1 DEF Here, Holds, Holding
  <2>3. \A lib \in {taken + 1} : Here(lib)'
    BY <1>3, <2>1 DEF Here, Holds
  <2>4. \A lib \in 1 .. taken' : lib \in 1 .. taken \/ lib = taken + 1
    BY <1>1, <1>t
  <2>5. 1 .. taken \subseteq 1 .. taken' /\ taken + 1 \notin 1 .. taken
        /\ taken + 1 \in 1 .. taken'
    BY <1>1, <1>t
  <2>6. partial' <=> \E lib \in 1 .. taken' : ~Here(lib)'
    BY <1>1, <2>2, <2>3, <2>4, <2>5 DEF IInv, PlaceInv
  <2> QED  BY <1>1, <1>3, <2>1, <2>5, <2>6 DEF IInv, PlaceInv
<1> QED  BY <1>4, <1>5, <1>6 DEF IInv

LEMMA ExitInv ==
  ASSUME IInv, NEW w \in Workers, Exit(w)
  PROVE  IInv'
<1> DEFINE r == [pc |-> "done", lib |-> 0]
<1>1. /\ worker[w].pc = "recv" /\ inClosed /\ taken = sent
      /\ worker' = [worker EXCEPT ![w] = r]
      /\ UNCHANGED <<caller, sent, taken, inClosed, outChan, outClosed, drain,
                     pieData, partial, result, crash>>
  BY DEF Exit
<1>2. r \in [pc : WorkerPCs, lib : 0 .. NumLibs]
  BY DEF WorkerPCs
<1>3. /\ worker' \in [Workers -> [pc : WorkerPCs, lib : 0 .. NumLibs]]
      /\ worker'[w].pc = "done"
      /\ \A v \in Workers : v # w => worker'[v] = worker[v]
  BY <1>1, <1>2, OneWorker DEF IInv
<1>4. TypeOK'
  BY <1>1, <1>3 DEF IInv, TypeOK
<1>5. ControlInv'
  BY <1>1, <1>3 DEF IInv, ControlInv
<1>6. \A v \in Workers : Holding(v)' <=> Holding(v)
  BY <1>1, <1>3 DEF Holding
<1>7. \A v \in Workers : Holding(v) => worker'[v].lib = worker[v].lib
  BY <1>1, <1>3 DEF Holding
<1>8. \A lib : Here(lib)' <=> Here(lib)
  BY <1>1, <1>6, <1>7 DEF Here, Holds
<1>9. PlaceInv'
  BY <1>1, <1>6, <1>7, <1>8 DEF IInv, PlaceInv
<1> QED  BY <1>4, <1>5, <1>9 DEF IInv

LEMMA DropInv ==
  ASSUME IInv, NEW w \in Workers, Drop(w)
  PROVE  IInv'
<1> DEFINE r == [pc |-> "recv", lib |-> 0]
<1>1. /\ worker[w].pc = "request" /\ partial' = TRUE
      /\ worker' = [worker EXCEPT ![w] = r]
      /\ UNCHANGED <<caller, sent, taken, inClosed, outChan, outClosed, drain,
                     pieData, result, crash>>
  BY DEF Drop
<1>2. r \in [pc : WorkerPCs, lib : 0 .. NumLibs]
  BY DEF WorkerPCs
<1>3. /\ worker' \in [Workers -> [pc : WorkerPCs, lib : 0 .. NumLibs]]
      /\ worker'[w].pc = "recv"
      /\ \A v \in Workers : v # w => worker'[v] = worker[v]
  BY <1>1, <1>2, OneWorker DEF IInv
<1>4. TypeOK'
  BY <1>1, <1>3 DEF IInv, TypeOK
<1>5. ControlInv'
  BY <1>1, <1>3 DEF IInv, ControlInv
<1>6. \A v \in Workers : Holding(v)' <=> v # w /\ Holding(v)
  BY <1>1, <1>3 DEF Holding
<1>h. Holding(w)
  BY <1>1 DEF Holding
<1>7. \A lib \in {worker[w].lib} : lib \in 1 .. taken' /\ ~Here(lib)'
  <2>1. worker[w].lib \in 1 .. taken' /\ worker[w].lib \notin Range(outChan)
        /\ worker[w].lib \notin Range(pieData)
    BY <1>1, <1>h DEF IInv, PlaceInv
  <2>2. \A v \in Workers : v # w /\ Holding(v) => worker[v].lib # worker[w].lib
    BY <1>h DEF IInv, PlaceInv
  <2> QED  BY <1>1, <1>3, <1>6, <2>1, <2>2 DEF Here, Holds
<1>p. partial' <=> \E lib \in 1 .. taken' : ~Here(lib)'
  BY <1>1, <1>7
<1>8. PlaceInv'
  BY <1>1, <1>3, <1>6, <1>p DEF IInv, PlaceInv
<1> QED  BY <1>4, <1>5, <1>8 DEF IInv

LEMMA AnsweredInv ==
  ASSUME IInv, NEW w \in Workers, Answered(w)
  PROVE  IInv'
<1> DEFINE r == [pc |-> "out", lib |-> worker[w].lib]
<1>1. /\ worker[w].pc = "request"
      /\ UNCHANGED <<caller, sent, taken, inClosed, outChan, outClosed, drain,
                     pieData, partial, result, crash>>
  BY DEF Answered
<1>2. r \in [pc : WorkerPCs, lib : 0 .. NumLibs]
  BY DEF IInv, TypeOK, WorkerPCs
<1>w. worker' = [worker EXCEPT ![w] = r]
  <2>1. worker[w] \in [pc : WorkerPCs, lib : 0 .. NumLibs]
    BY DEF IInv, TypeOK
  <2>2. [worker[w] EXCEPT !.pc = "out"] = r
    BY <2>1
  <2>3. worker' = [worker EXCEPT ![w] = [worker[w] EXCEPT !.pc = "out"]]
    BY DEF Answered
  <2> QED  BY <2>2, <2>3
<1>3. /\ worker' \in [Workers -> [pc : WorkerPCs, lib : 0 .. NumLibs]]
      /\ worker'[w].pc = "out" /\ worker'[w].lib = worker[w].lib
      /\ \A v \in Workers : v # w => worker'[v] = worker[v]
  BY <1>w, <1>2, OneWorker DEF IInv
<1>4. TypeOK'
  BY <1>1, <1>3 DEF IInv, TypeOK
<1>5. ControlInv'
  BY <1>1, <1>3 DEF IInv, ControlInv
<1>6. \A v \in Workers : Holding(v)' <=> Holding(v)
  BY <1>1, <1>3 DEF Holding
<1>7. \A v \in Workers : worker'[v].lib = worker[v].lib
  BY <1>3
<1>8. \A lib : Here(lib)' <=> Here(lib)
  BY <1>1, <1>6, <1>7 DEF Here, Holds
<1>9. PlaceInv'
  BY <1>1, <1>6, <1>7, <1>8 DEF IInv, PlaceInv
<1> QED  BY <1>4, <1>5, <1>9 DEF IInv

(* The worker that sends is not done, so outChan is open; the library goes *)
(* from the worker to the channel or to the result.                        *)
LEMMA SendInv ==
  ASSUME IInv, NEW w \in Workers, Send(w)
  PROVE  IInv'
<1> DEFINE r == [pc |-> "recv", lib |-> 0]
           x == worker[w].lib
<1>1. /\ worker[w].pc = "out"
      /\ UNCHANGED <<caller, sent, taken, inClosed, outClosed, drain, partial, result>>
  BY DEF Send
<1>2. ~outClosed
  BY <1>1 DEF IInv, ControlInv
<1>3. worker' = [worker EXCEPT ![w] = r] /\ crash' = crash
  BY <1>2 DEF Send
<1>4. r \in [pc : WorkerPCs, lib : 0 .. NumLibs]
  BY DEF WorkerPCs
<1>5. /\ worker' \in [Workers -> [pc : WorkerPCs, lib : 0 .. NumLibs]]
      /\ worker'[w].pc = "recv"
      /\ \A v \in Workers : v # w => worker'[v] = worker[v]
  BY <1>3, <1>4, OneWorker DEF IInv
<1>6. Holding(w) /\ x \in 1 .. taken /\ x \notin Range(outChan) /\ x \notin Range(pieData)
  BY <1>1 DEF IInv, PlaceInv, Holding
<1>7. x \in Libs
  <2>1. sent \in 0 .. NumLibs /\ taken \in 0 .. sent
    BY DEF IInv, TypeOK
  <2> QED  BY <1>6, <2>1 DEF Libs
<1>8. \A v \in Workers : Holding(v)' <=> v # w /\ Holding(v)
  BY <1>5 DEF Holding
<1>9. /\ outChan \in Seq(Libs) /\ pieData \in Seq(Libs) /\ Len(outChan) <= OutCap
      /\ IsInjective(outChan) /\ IsInjective(pieData)
  BY DEF IInv, TypeOK, PlaceInv
<1>10. /\ outChan' \in Seq(Libs) /\ pieData' \in Seq(Libs) /\ Len(outChan') <= OutCap
       /\ IsInjective(outChan') /\ IsInjective(pieData')
       /\ \/ /\ Range(outChan') = Range(outChan) \cup {x}
             /\ Range(pieData') = Range(pieData)
          \/ /\ Range(outChan') = Range(outChan)
             /\ Range(pieData') = Range(pieData) \cup {x}
  <2>1. CASE outChan' = Append(outChan, x) /\ pieData' = pieData /\ Len(outChan) < OutCap
    BY <2>1, <1>6, <1>7, <1>9, AppendRange
  <2>2. CASE pieData' = Append(pieData, x) /\ outChan' = outChan
    BY <2>2, <1>6, <1>7, <1>9, AppendRange
  <2> QED  BY <1>2, <2>1, <2>2 DEF Send
<1>11. drain' = "done" => FALSE
  BY <1>1, <1>2 DEF IInv, ControlInv
<1>12. TypeOK'
  BY <1>1, <1>3, <1>5, <1>10 DEF IInv, TypeOK
<1>13. ControlInv'
  BY <1>1, <1>2, <1>3, <1>5, <1>11 DEF IInv, ControlInv
<1>14. \A lib : Here(lib)' <=> Here(lib)
  <2>1. ASSUME NEW lib PROVE Here(lib)' <=> Here(lib)
    <3>1. (\E v \in Workers : Holds(v, lib)) <=>
            ((\E v \in Workers : Holds(v, lib)') \/ lib = x)
      BY <1>5, <1>6, <1>8 DEF Holds, IInv, PlaceInv
    <3> QED  BY <3>1, <1>10 DEF Here
  <2> QED  BY <2>1
<1>15. PlaceInv'
  BY <1>1, <1>5, <1>6, <1>8, <1>10, <1>14 DEF IInv, PlaceInv
<1> QED  BY <1>12, <1>13, <1>15 DEF IInv

LEMMA DrainInv ==
  ASSUME IInv, DrainStep
  PROVE  IInv'
<1>1. CASE Collect
  <2> DEFINE x == Head(outChan)
  <2>1. /\ drain = "recv" /\ outChan # <<>>
        /\ pieData' = Append(pieData, x) /\ outChan' = Tail(outChan)
        /\ UNCHANGED <<caller, sent, taken, inClosed, worker, outClosed, drain,
                       partial, result, crash>>
    BY <1>1 DEF Collect
  <2>2. /\ outChan \in Seq(Libs) /\ pieData \in Seq(Libs) /\ Len(outChan) <= OutCap
        /\ IsInjective(outChan) /\ IsInjective(pieData)
        /\ Range(outChan) \cap Range(pieData) = {}
    BY DEF IInv, TypeOK, PlaceInv
  <2>3. /\ outChan' \in Seq(Libs) /\ Len(outChan') = Len(outChan) - 1
        /\ x \in Range(outChan) /\ Range(outChan') = Range(outChan) \ {x}
        /\ IsInjective(outChan')
    BY <2>1, <2>2, TailRange
  <2>4. x \in Libs /\ x \notin Range(pieData)
    BY <2>1, <2>2, <2>3
  <2>5. /\ pieData' \in Seq(Libs)
        /\ Range(pieData') = Range(pieData) \cup {x}
        /\ IsInjective(pieData')
    BY <2>1, <2>2, <2>4, AppendRange
  <2>a. Len(outChan') <= OutCap
    BY <2>2, <2>3
  <2>6. TypeOK'
    BY <2>1, <2>3, <2>5, <2>a DEF IInv, TypeOK
  <2>7. ControlInv'
    BY <2>1 DEF IInv, ControlInv
  <2>8. \A lib : Here(lib)' <=> Here(lib)
    BY <2>1, <2>3, <2>5 DEF Here, Holds, Holding
  <2>9. PlaceInv'
    BY <2>1, <2>3, <2>5, <2>8 DEF IInv, PlaceInv, Holding
  <2> QED  BY <2>6, <2>7, <2>9 DEF IInv
<1>2. CASE EndDrain
  <2>1. PlaceInv'
    BY <1>2, PlaceStutter DEF IInv, EndDrain
  <2> QED  BY <1>2, <2>1 DEF EndDrain, IInv, TypeOK, ControlInv
<1> QED  BY <1>1, <1>2 DEF DrainStep

LEMMA NextInv == IInv /\ [Next]_vars => IInv'
<1> SUFFICES ASSUME IInv, [Next]_vars PROVE IInv'
  OBVIOUS
<1>1. ASSUME NEW w \in Workers, Panic(w) PROVE IInv'
  <2>1. PlaceInv'
    BY <1>1, PlaceStutter DEF IInv, Panic
  <2> QED  BY <1>1, <2>1 DEF Panic, IInv, TypeOK, ControlInv
<1>2. ASSUME NEW w \in Workers, WorkerStep(w) PROVE IInv'
  BY <1>1, <1>2, ReceiveInv, ExitInv, DropInv, AnsweredInv, SendInv DEF WorkerStep
<1>3. CASE UNCHANGED vars
  <2>1. PlaceInv'
    BY <1>3, PlaceStutter DEF IInv, vars
  <2> QED  BY <1>3, <2>1 DEF vars, IInv, TypeOK, ControlInv
<1> QED  BY <1>2, <1>3, CallerInv, DrainInv DEF Next

LEMMA InductiveInv == Spec => []IInv
  BY InitInv, NextInv, PTL DEF Spec

-----------------------------------------------------------------------------
(* The theorems.                                                           *)

(* Every variable keeps its type: never more libraries are taken than were *)
(* sent, nor queued than outChan has room for (fetchPies,                  *)
(* tdarr.go:496-516).                                                      *)
THEOREM TypeCorrect == Spec => []TypeOK
<1>1. IInv => TypeOK
  BY DEF IInv
<1> QED  BY <1>1, InductiveInv, PTL

(* No worker ever sends on a closed channel (tdarr.go:482, 534-535).       *)
THEOREM NoSendOnClosedAlways == Spec => []NoSendOnClosed
<1>1. IInv => NoSendOnClosed
  BY DEF IInv, ControlInv, NoSendOnClosed
<1> QED  BY <1>1, InductiveInv, PTL

LEMMA ReturnedQuiet ==
  ASSUME IInv, caller = "returned"
  PROVE  /\ inClosed /\ drain = "done" /\ outChan = <<>>
         /\ \A w \in Workers : worker[w].pc = "done"
         /\ taken = NumLibs
<1>1. /\ inClosed /\ drain = "done" /\ outClosed
      /\ sent = NumLibs
      /\ \A w \in Workers : worker[w].pc = "done" /\ taken = sent
  BY DEF IInv, ControlInv
<1>2. outChan = <<>>
  BY <1>1 DEF IInv, ControlInv
<1> QED  BY <1>1, <1>2

(* Once fetchPies has returned, nothing it started takes another step      *)
(* (tdarr.go:521-525, 537-539).                                            *)
THEOREM NoLateWorkAlways == Spec => NoLateWork
<1>1. IInv /\ [Next]_vars => [caller # "returned"]_vars
  <2> SUFFICES ASSUME IInv, Next, caller = "returned" PROVE FALSE
    BY DEF vars
  <2>1. drain = "done" /\ \A w \in Workers : worker[w].pc = "done"
    BY ReturnedQuiet
  <2>2. ~CallerStep
    BY DEF CallerStep, SendLib, CloseIn, StartDrain, CloseOut, Return
  <2>3. ~DrainStep
    BY <2>1 DEF DrainStep, Collect, EndDrain
  <2>4. \A w \in Workers : ~WorkerStep(w)
    BY <2>1 DEF WorkerStep, Receive, Exit, Drop, Answered, Send, Panic
  <2> QED  BY <2>2, <2>3, <2>4 DEF Next
<1> QED  BY <1>1, InductiveInv, PTL DEF Spec, NoLateWork

(* What the caller gets has no library twice, and the flag it gets tells   *)
(* exactly whether one is missing (tdarr.go:487-491, 539).                 *)
THEOREM ResultCompleteAlways == Spec => []ResultComplete
<1>1. IInv => ResultComplete
  <2> SUFFICES ASSUME IInv, caller = "returned"
               PROVE  IsInjective(pieData) /\ (result <=> Range(pieData) # Libs)
    BY DEF ResultComplete
  <2>1. /\ outChan = <<>> /\ taken = NumLibs
        /\ \A w \in Workers : worker[w].pc = "done"
    BY ReturnedQuiet
  <2>2. Range(outChan) = {}
    BY <2>1 DEF Range
  <2>3. \A lib : Here(lib) <=> lib \in Range(pieData)
    BY <2>1, <2>2 DEF Here, Holds, Holding
  <2>4. /\ Range(pieData) \subseteq Libs
        /\ IsInjective(pieData)
        /\ partial <=> \E lib \in Libs : ~Here(lib)
    BY <2>1 DEF IInv, PlaceInv, Libs
  <2>5. result <=> partial
    BY DEF IInv, ControlInv
  <2> QED  BY <2>3, <2>4, <2>5
<1> QED  BY <1>1, InductiveInv, PTL

-----------------------------------------------------------------------------
(* The refinement of Sweep.                                                *)

Requests(w, lib) == worker[w].pc = "request" /\ worker[w].lib = lib

Answers(w, lib) == worker[w].pc = "out" /\ worker[w].lib = lib

(* Membership in the two sets of the mapping.                              *)
LEMMA Mapping ==
  /\ \A lib : lib \in Pending <=>
        lib \in Libs /\ (lib > taken \/ \E w \in Workers : Requests(w, lib))
  /\ \A lib : lib \in Fetched <=>
        \/ \E w \in Workers : Answers(w, lib)
        \/ lib \in Range(outChan)
        \/ lib \in Range(pieData)
<1>1. \A lib : lib \in Pending <=>
        lib \in Libs /\ (lib > taken \/ \E w \in Workers : Requests(w, lib))
  BY DEF Pending, Requests
<1>2. \A lib : lib \in {worker[w].lib : w \in {v \in Workers : worker[v].pc = "out"}}
                 <=> \E w \in Workers : Answers(w, lib)
  BY DEF Answers
<1> QED  BY <1>1, <1>2 DEF Fetched

LEMMA MappingPrimed ==
  /\ \A lib : lib \in Pending' <=>
        lib \in Libs /\ (lib > taken' \/ \E w \in Workers : Requests(w, lib)')
  /\ \A lib : lib \in Fetched' <=>
        \/ \E w \in Workers : Answers(w, lib)'
        \/ lib \in Range(outChan')
        \/ lib \in Range(pieData')
<1>1. \A lib : lib \in Pending' <=>
        lib \in Libs /\ (lib > taken' \/ \E w \in Workers : Requests(w, lib)')
  BY DEF Pending, Requests
<1>2. \A lib : lib \in {worker'[w].lib : w \in {v \in Workers : worker'[v].pc = "out"}}
                 <=> \E w \in Workers : Answers(w, lib)'
  BY DEF Answers
<1> QED  BY <1>1, <1>2 DEF Fetched

LEMMA InitMaps == Init => SweepOf!Init
<1> SUFFICES ASSUME Init PROVE SweepOf!Init
  OBVIOUS
<1>1. /\ taken = 0 /\ Range(outChan) = {} /\ Range(pieData) = {}
      /\ \A w \in Workers : worker[w].pc = "recv"
  BY DEF Init, Range
<1>2. Pending = Libs
  <2>1. \A lib \in Libs : lib > taken
    BY <1>1 DEF Libs
  <2> QED  BY <2>1, Mapping
<1>3. Fetched = {}
  BY <1>1, Mapping DEF Answers
<1> QED  BY <1>2, <1>3 DEF Init, SweepOf!Init

(* What the goroutines do among themselves changes nothing for the caller. *)
LEMMA StutterMaps ==
  ASSUME UNCHANGED <<taken, worker, outChan, pieData, partial>>,
         caller = "returned" <=> caller' = "returned"
  PROVE  UNCHANGED SweepOf!sweepVars
<1>1. Pending' = Pending /\ Fetched' = Fetched
  BY DEF Pending, Fetched
<1> QED  BY <1>1 DEF SweepOf!sweepVars

LEMMA CallerMaps ==
  ASSUME IInv, CallerStep
  PROVE  SweepOf!Return \/ UNCHANGED SweepOf!sweepVars
<1>1. CASE Return
  <2>1. /\ caller = "collect" /\ caller' = "returned"
        /\ UNCHANGED <<taken, worker, outChan, pieData, partial>>
    BY <1>1 DEF Return
  <2>2. /\ \A w \in Workers : worker[w].pc = "done"
        /\ taken = NumLibs
    <3>1. outClosed /\ inClosed /\ sent = NumLibs
          /\ \A w \in Workers : worker[w].pc = "done" /\ taken = sent
      BY <2>1 DEF IInv, ControlInv
    <3> QED  BY <3>1
  <2>3. Pending = {}
    BY <2>2, Mapping DEF Requests, Libs
  <2>4. Pending' = Pending /\ Fetched' = Fetched
    BY <2>1 DEF Pending, Fetched
  <2> QED  BY <2>1, <2>3, <2>4 DEF SweepOf!Return
<1>2. CASE SendLib \/ CloseIn \/ StartDrain \/ CloseOut
  <2>1. /\ caller # "returned" /\ caller' # "returned"
        /\ UNCHANGED <<taken, worker, outChan, pieData, partial>>
    BY <1>2 DEF SendLib, CloseIn, StartDrain, CloseOut
  <2> QED  BY <2>1, StutterMaps
<1> QED  BY <1>1, <1>2 DEF CallerStep

(* A library taken is as pending as one still queued.                      *)
LEMMA ReceiveMaps ==
  ASSUME IInv, NEW w \in Workers, Receive(w)
  PROVE  UNCHANGED SweepOf!sweepVars
<1>1. /\ worker[w].pc = "recv" /\ taken < sent /\ taken' = taken + 1
      /\ worker' = [worker EXCEPT ![w] = [pc |-> "request", lib |-> taken + 1]]
      /\ UNCHANGED <<caller, outChan, pieData, partial>>
  BY DEF Receive
<1>2. /\ worker'[w].pc = "request" /\ worker'[w].lib = taken + 1
      /\ \A v \in Workers : v # w => worker'[v] = worker[v]
  BY <1>1 DEF IInv, TypeOK
<1>t. sent \in 0 .. NumLibs /\ taken \in 0 .. sent
  BY DEF IInv, TypeOK
<1>3. \A lib \in Libs : lib > taken <=> lib > taken' \/ lib = taken + 1
  BY <1>1, <1>t DEF Libs
<1>4. \A lib : (\E v \in Workers : Requests(v, lib)') <=>
                 lib = taken + 1 \/ \E v \in Workers : Requests(v, lib)
  BY <1>1, <1>2 DEF Requests
<1>5. \A lib : (\E v \in Workers : Answers(v, lib)') <=>
                 \E v \in Workers : Answers(v, lib)
  BY <1>1, <1>2 DEF Answers
<1>6. Pending' = Pending
  BY <1>3, <1>4, Mapping, MappingPrimed
<1>7. Fetched' = Fetched
  BY <1>1, <1>5, Mapping, MappingPrimed
<1> QED  BY <1>1, <1>6, <1>7 DEF SweepOf!sweepVars

LEMMA ExitMaps ==
  ASSUME IInv, NEW w \in Workers, Exit(w)
  PROVE  UNCHANGED SweepOf!sweepVars
<1>1. /\ worker[w].pc = "recv"
      /\ worker' = [worker EXCEPT ![w] = [pc |-> "done", lib |-> 0]]
      /\ UNCHANGED <<caller, taken, outChan, pieData, partial>>
  BY DEF Exit
<1>2. /\ worker'[w].pc = "done"
      /\ \A v \in Workers : v # w => worker'[v] = worker[v]
  BY <1>1 DEF IInv, TypeOK
<1>3. \A lib : (\E v \in Workers : Requests(v, lib)') <=>
                 \E v \in Workers : Requests(v, lib)
  BY <1>1, <1>2 DEF Requests
<1>4. \A lib : (\E v \in Workers : Answers(v, lib)') <=>
                 \E v \in Workers : Answers(v, lib)
  BY <1>1, <1>2 DEF Answers
<1>5. Pending' = Pending /\ Fetched' = Fetched
  BY <1>1, <1>3, <1>4, Mapping, MappingPrimed
<1> QED  BY <1>1, <1>5 DEF SweepOf!sweepVars

(* The library a worker has a request out for, and no other, is pending    *)
(* through that worker.                                                    *)
LEMMA RequestOnce ==
  ASSUME IInv, NEW w \in Workers, worker[w].pc = "request"
  PROVE  /\ worker[w].lib \in Pending
         /\ worker[w].lib \in Libs /\ ~(worker[w].lib > taken)
         /\ \A v \in Workers : v # w => ~Requests(v, worker[w].lib)
<1>1. worker[w].lib \in 1 .. taken
  BY DEF IInv, PlaceInv, Holding
<1>2. sent \in 0 .. NumLibs /\ taken \in 0 .. sent
  BY DEF IInv, TypeOK
<1>3. worker[w].lib \in Libs /\ ~(worker[w].lib > taken)
  BY <1>1, <1>2 DEF Libs
<1>4. worker[w].lib \in Pending
  BY <1>3, Mapping DEF Requests
<1>5. \A v \in Workers : v # w => ~Requests(v, worker[w].lib)
  BY DEF IInv, PlaceInv, Holding, Requests
<1> QED  BY <1>3, <1>4, <1>5

LEMMA DropMaps ==
  ASSUME IInv, NEW w \in Workers, Drop(w)
  PROVE  SweepOf!GiveUp(worker[w].lib) /\ worker[w].lib \in Pending
<1> DEFINE x == worker[w].lib
<1>1. /\ worker[w].pc = "request" /\ partial' = TRUE
      /\ worker' = [worker EXCEPT ![w] = [pc |-> "recv", lib |-> 0]]
      /\ UNCHANGED <<caller, taken, outChan, pieData>>
  BY DEF Drop
<1>2. /\ worker'[w].pc = "recv"
      /\ \A v \in Workers : v # w => worker'[v] = worker[v]
  BY <1>1 DEF IInv, TypeOK
<1>3. /\ x \in Pending /\ x \in Libs /\ ~(x > taken)
      /\ \A v \in Workers : v # w => ~Requests(v, x)
  BY <1>1, RequestOnce
<1>4. \A lib : (\E v \in Workers : Requests(v, lib)') <=>
                 lib # x /\ \E v \in Workers : Requests(v, lib)
  BY <1>1, <1>2, <1>3 DEF Requests
<1>5. \A lib : (\E v \in Workers : Answers(v, lib)') <=>
                 \E v \in Workers : Answers(v, lib)
  BY <1>1, <1>2 DEF Answers
<1>6. Pending' = Pending \ {x}
  BY <1>1, <1>3, <1>4, Mapping, MappingPrimed
<1>7. Fetched' = Fetched
  BY <1>1, <1>5, Mapping, MappingPrimed
<1> QED  BY <1>1, <1>3, <1>6, <1>7 DEF SweepOf!GiveUp

LEMMA AnsweredMaps ==
  ASSUME IInv, NEW w \in Workers, Answered(w)
  PROVE  SweepOf!Succeed(worker[w].lib) /\ worker[w].lib \in Pending
<1> DEFINE x == worker[w].lib
<1>1. /\ worker[w].pc = "request"
      /\ worker' = [worker EXCEPT ![w].pc = "out"]
      /\ UNCHANGED <<caller, taken, outChan, pieData, partial>>
  BY DEF Answered
<1>2. /\ worker'[w].pc = "out" /\ worker'[w].lib = x
      /\ \A v \in Workers : v # w => worker'[v] = worker[v]
  BY <1>1 DEF IInv, TypeOK
<1>3. /\ x \in Pending /\ x \in Libs /\ ~(x > taken)
      /\ \A v \in Workers : v # w => ~Requests(v, x)
  BY <1>1, RequestOnce
<1>4. \A lib : (\E v \in Workers : Requests(v, lib)') <=>
                 lib # x /\ \E v \in Workers : Requests(v, lib)
  BY <1>1, <1>2, <1>3 DEF Requests
<1>5. \A lib : (\E v \in Workers : Answers(v, lib)') <=>
                 lib = x \/ \E v \in Workers : Answers(v, lib)
  BY <1>1, <1>2 DEF Answers
<1>6. Pending' = Pending \ {x}
  BY <1>1, <1>3, <1>4, Mapping, MappingPrimed
<1>7. Fetched' = Fetched \cup {x}
  BY <1>1, <1>5, Mapping, MappingPrimed
<1> QED  BY <1>1, <1>3, <1>6, <1>7 DEF SweepOf!Succeed

(* From the answer on, a library counts as fetched wherever it is.         *)
LEMMA SendMaps ==
  ASSUME IInv, NEW w \in Workers, Send(w)
  PROVE  UNCHANGED SweepOf!sweepVars
<1> DEFINE x == worker[w].lib
<1>1. worker[w].pc = "out" /\ UNCHANGED <<caller, taken, partial>>
  BY DEF Send
<1>2. ~outClosed
  BY <1>1 DEF IInv, ControlInv
<1>3. worker' = [worker EXCEPT ![w] = [pc |-> "recv", lib |-> 0]]
  BY <1>2 DEF Send
<1>4. /\ worker'[w].pc = "recv"
      /\ \A v \in Workers : v # w => worker'[v] = worker[v]
  BY <1>3 DEF IInv, TypeOK
<1>5. x \in Libs
  <2>1. x \in 1 .. taken
    BY <1>1 DEF IInv, PlaceInv, Holding
  <2>2. sent \in 0 .. NumLibs /\ taken \in 0 .. sent
    BY DEF IInv, TypeOK
  <2> QED  BY <2>1, <2>2 DEF Libs
<1>6. outChan \in Seq(Libs) /\ pieData \in Seq(Libs)
  BY DEF IInv, TypeOK
<1>7. Range(outChan') \cup Range(pieData') = Range(outChan) \cup Range(pieData) \cup {x}
  <2>1. CASE outChan' = Append(outChan, x) /\ pieData' = pieData
    BY <2>1, <1>5, <1>6, AppendRange
  <2>2. CASE pieData' = Append(pieData, x) /\ outChan' = outChan
    BY <2>2, <1>5, <1>6, AppendRange
  <2> QED  BY <1>2, <2>1, <2>2 DEF Send
<1>8. \A lib : (\E v \in Workers : Requests(v, lib)') <=>
                 \E v \in Workers : Requests(v, lib)
  BY <1>1, <1>4 DEF Requests
<1>9. \A lib : lib = x \/ (\E v \in Workers : Answers(v, lib)') <=>
                 lib = x \/ \E v \in Workers : Answers(v, lib)
  BY <1>1, <1>4 DEF Answers
<1>10. \E v \in Workers : Answers(v, x)
  BY <1>1 DEF Answers
<1>11. \A lib : lib \in Range(outChan') \/ lib \in Range(pieData') <=>
                 lib \in Range(outChan) \/ lib \in Range(pieData) \/ lib = x
  BY <1>7
<1>12. Pending' = Pending
  BY <1>1, <1>8, Mapping, MappingPrimed
<1>13. Fetched' = Fetched
  BY <1>9, <1>10, <1>11, Mapping, MappingPrimed
<1> QED  BY <1>1, <1>12, <1>13 DEF SweepOf!sweepVars

LEMMA CollectMaps ==
  ASSUME IInv, Collect
  PROVE  UNCHANGED SweepOf!sweepVars
<1> DEFINE x == Head(outChan)
<1>1. /\ outChan # <<>>
      /\ pieData' = Append(pieData, x) /\ outChan' = Tail(outChan)
      /\ UNCHANGED <<caller, taken, worker, partial>>
  BY DEF Collect
<1>2. outChan \in Seq(Libs) /\ pieData \in Seq(Libs) /\ IsInjective(outChan)
  BY DEF IInv, TypeOK, PlaceInv
<1>3. x \in Range(outChan) /\ Range(outChan') = Range(outChan) \ {x}
  BY <1>1, <1>2, TailRange
<1>4. x \in Libs
  BY <1>1, <1>2
<1>5. Range(pieData') = Range(pieData) \cup {x}
  BY <1>1, <1>2, <1>4, AppendRange
<1>6. \A lib : (\E v \in Workers : Answers(v, lib)') <=>
                 \E v \in Workers : Answers(v, lib)
  BY <1>1 DEF Answers
<1>7. Fetched' = Fetched
  BY <1>3, <1>5, <1>6, Mapping, MappingPrimed
<1>8. Pending' = Pending
  BY <1>1 DEF Pending
<1> QED  BY <1>1, <1>7, <1>8 DEF SweepOf!sweepVars

LEMMA NextMaps == IInv /\ [Next]_vars => [SweepOf!Next]_(SweepOf!sweepVars)
<1> SUFFICES ASSUME IInv, [Next]_vars
             PROVE  SweepOf!Next \/ UNCHANGED SweepOf!sweepVars
  OBVIOUS
<1>1. CASE CallerStep
  BY <1>1, CallerMaps DEF SweepOf!Next
<1>2. ASSUME NEW w \in Workers, WorkerStep(w)
      PROVE  SweepOf!Next \/ UNCHANGED SweepOf!sweepVars
  <2>1. CASE Receive(w)
    BY <2>1, ReceiveMaps
  <2>2. CASE Exit(w)
    BY <2>2, ExitMaps
  <2>3. CASE Drop(w)
    BY <2>3, DropMaps DEF SweepOf!Next
  <2>4. CASE Answered(w)
    BY <2>4, AnsweredMaps DEF SweepOf!Next
  <2>5. CASE Send(w)
    BY <2>5, SendMaps
  <2>6. CASE Panic(w)
    BY <2>6, StutterMaps DEF Panic
  <2> QED  BY <1>2, <2>1, <2>2, <2>3, <2>4, <2>5, <2>6 DEF WorkerStep
<1>3. CASE DrainStep
  <2>1. CASE Collect
    BY <2>1, CollectMaps
  <2>2. CASE EndDrain
    BY <2>2, StutterMaps DEF EndDrain
  <2> QED  BY <1>3, <2>1, <2>2 DEF DrainStep
<1>4. CASE UNCHANGED vars
  BY <1>4, StutterMaps DEF vars
<1> QED  BY <1>1, <1>2, <1>3, <1>4 DEF Next

(* The pool implements the sweep that the scrape is written against: every *)
(* step of a goroutine is a step of Sweep or invisible to the caller       *)
(* (fetchPies, tdarr.go:487-540).                                          *)
THEOREM SweepImplemented == Spec => ImplementsSweep
  BY InitMaps, NextMaps, InductiveInv, PTL DEF Spec, ImplementsSweep, SweepOf!Spec
=============================================================================
