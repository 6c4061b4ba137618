----------------------------- MODULE PieFanout -----------------------------
(***************************************************************************)
(* The worker pool of one sweep: fetchPies and getLibStats                 *)
(* (internal/collector/tdarr.go:446-540).                                  *)
(*                                                                         *)
(* The caller starts maxConcurrency workers, sends them the libraries over *)
(* inChan, closes it, starts a goroutine that drains outChan, waits for    *)
(* the workers, closes outChan and waits for the drain.  A worker that     *)
(* fails to get the figures of a library, or has one without an id or a    *)
(* name, sets the partial flag and goes on.                                *)
(*                                                                         *)
(* Libraries are named by their place in the list.  A channel is the       *)
(* sequence of what it buffers; inChan, which is filled in list order and  *)
(* emptied in that order, is how many libraries went in and came out.  A   *)
(* WaitGroup is at zero when every goroutine it counts has ended: Add is   *)
(* called before each of them is started and Done is deferred.             *)
(***************************************************************************)
EXTENDS Naturals, Sequences, Functions

CONSTANTS
    NumLibs,   \* len(allLibs)
    Workers,   \* the goroutines running getLibStats, maxConcurrency of them
    OutCap     \* capacity of outChan: len(allLibs) in the code

ASSUME PieFanoutAssumption ==
    /\ NumLibs \in Nat
    /\ OutCap \in Nat
    /\ Workers # {}   \* config.go:208-210 refuses a pool without workers

Libs == 1 .. NumLibs

VARIABLES
    caller,     \* where fetchPies is
    sent,       \* libraries sent into inChan
    taken,      \* libraries received from inChan
    inClosed,
    worker,     \* worker[w]: where getLibStats is, and the library it holds
    outChan,
    outClosed,
    drain,      \* where the drain goroutine is
    pieData,    \* what the drain has appended
    partial,    \* partialFail, an atomic.Bool
    result,     \* the flag that fetchPies returned
    crash       \* "no", or the panic that ended the process

vars == <<caller, sent, taken, inClosed, worker, outChan, outClosed, drain,
          pieData, partial, result, crash>>

CallerPCs == {"send", "drain", "workers", "collect", "returned"}
WorkerPCs == {"recv", "request", "out", "done"}

TypeOK ==
    /\ caller \in CallerPCs
    /\ sent \in 0 .. NumLibs
    /\ taken \in 0 .. sent
    /\ inClosed \in BOOLEAN
    /\ worker \in [Workers -> [pc : WorkerPCs, lib : 0 .. NumLibs]]
    /\ outChan \in Seq(Libs) /\ Len(outChan) <= OutCap
    /\ outClosed \in BOOLEAN
    /\ drain \in {"off", "recv", "done"}
    /\ pieData \in Seq(Libs)
    /\ partial \in BOOLEAN
    /\ result \in BOOLEAN
    /\ crash \in {"no", "closed channel", "panic"}

Init ==
    /\ caller = "send"
    /\ sent = 0
    /\ taken = 0
    /\ inClosed = FALSE
    /\ worker = [w \in Workers |-> [pc |-> "recv", lib |-> 0]]
    /\ outChan = <<>>
    /\ outClosed = FALSE
    /\ drain = "off"
    /\ pieData = <<>>
    /\ partial = FALSE
    /\ result = FALSE
    /\ crash = "no"

-----------------------------------------------------------------------------
(* fetchPies.                                                              *)

(* inChan has a slot for every library: the send never blocks.             *)
SendLib ==
    /\ caller = "send"
    /\ sent < NumLibs
    /\ sent' = sent + 1
    /\ UNCHANGED <<caller, taken, inClosed, worker, outChan, outClosed, drain,
                   pieData, partial, result, crash>>

CloseIn ==
    /\ caller = "send"
    /\ sent = NumLibs
    /\ inClosed' = TRUE
    /\ caller' = "drain"
    /\ UNCHANGED <<sent, taken, worker, outChan, outClosed, drain, pieData,
                   partial, result, crash>>

(* Mutant: the results are drained only after dataWg.Wait().               *)
StartDrain_AfterWorkers ==
    /\ caller = "drain"
    /\ \A w \in Workers : worker[w].pc = "done"
    /\ drain' = "recv"
    /\ caller' = "workers"
    /\ UNCHANGED <<sent, taken, inClosed, worker, outChan, outClosed, pieData,
                   partial, result, crash>>

StartDrain ==
    /\ caller = "drain"
    /\ drain' = "recv"
    /\ caller' = "workers"
    /\ UNCHANGED <<sent, taken, inClosed, worker, outChan, outClosed, pieData,
                   partial, result, crash>>

(* Mutant: outChan is closed once every library has been received.         *)
CloseOut_Early ==
    /\ caller = "workers"
    /\ taken = NumLibs
    /\ outClosed' = TRUE
    /\ caller' = "collect"
    /\ UNCHANGED <<sent, taken, inClosed, worker, outChan, drain, pieData,
                   partial, result, crash>>

(* dataWg.Wait() has returned.                                             *)
CloseOut ==
    /\ caller = "workers"
    /\ \A w \in Workers : worker[w].pc = "done"
    /\ outClosed' = TRUE
    /\ caller' = "collect"
    /\ UNCHANGED <<sent, taken, inClosed, worker, outChan, drain, pieData,
                   partial, result, crash>>

(* Mutants: no resultWg.Wait(); the flag is loaded while the workers run   *)
(* and kept until the return.                                              *)
Return_NoWait ==
    /\ caller = "collect"
    /\ caller' = "returned"
    /\ result' = partial
    /\ UNCHANGED <<sent, taken, inClosed, worker, outChan, outClosed, drain,
                   pieData, partial, crash>>

Return_LoadsEarly ==
    /\ \/ caller = "workers" /\ result' = partial /\ UNCHANGED caller
       \/ /\ caller = "collect" /\ drain = "done"
          /\ caller' = "returned" /\ UNCHANGED result
    /\ UNCHANGED <<sent, taken, inClosed, worker, outChan, outClosed, drain,
                   pieData, partial, crash>>

(* resultWg.Wait() has returned; the flag is loaded last.                  *)
Return ==
    /\ caller = "collect"
    /\ drain = "done"
    /\ caller' = "returned"
    /\ result' = partial
    /\ UNCHANGED <<sent, taken, inClosed, worker, outChan, outClosed, drain,
                   pieData, partial, crash>>

-----------------------------------------------------------------------------
(* getLibStats.                                                            *)

(* Mutant: the loop does not end when inChan is closed and empty, and goes *)
(* on with the zero value.                                                 *)
Receive_FromClosed(w) ==
    /\ worker[w].pc = "recv"
    /\ taken < sent \/ inClosed
    /\ taken' = taken + 1
    /\ worker' = [worker EXCEPT ![w] = [pc |-> "request", lib |-> taken + 1]]
    /\ UNCHANGED <<caller, sent, inClosed, outChan, outClosed, drain, pieData,
                   partial, result, crash>>

Receive(w) ==
    /\ worker[w].pc = "recv"
    /\ taken < sent
    /\ taken' = taken + 1
    /\ worker' = [worker EXCEPT ![w] = [pc |-> "request", lib |-> taken + 1]]
    /\ UNCHANGED <<caller, sent, inClosed, outChan, outClosed, drain, pieData,
                   partial, result, crash>>

(* inChan is closed and empty: the range loop ends and Done is called.     *)
Exit(w) ==
    /\ worker[w].pc = "recv"
    /\ inClosed
    /\ taken = sent
    /\ worker' = [worker EXCEPT ![w] = [pc |-> "done", lib |-> 0]]
    /\ UNCHANGED <<caller, sent, taken, inClosed, outChan, outClosed, drain,
                   pieData, partial, result, crash>>

(* Mutant: the `continue' after the flag is missing.                       *)
Drop_FallsThrough(w) ==
    /\ worker[w].pc = "request"
    /\ partial' = TRUE
    /\ worker' = [worker EXCEPT ![w].pc = "out"]
    /\ UNCHANGED <<caller, sent, taken, inClosed, outChan, outClosed, drain,
                   pieData, result, crash>>

(* The request failed, or the library has no id or no name.                *)
Drop(w) ==
    /\ worker[w].pc = "request"
    /\ partial' = TRUE
    /\ worker' = [worker EXCEPT ![w] = [pc |-> "recv", lib |-> 0]]
    /\ UNCHANGED <<caller, sent, taken, inClosed, outChan, outClosed, drain,
                   pieData, result, crash>>

Answered(w) ==
    /\ worker[w].pc = "request"
    /\ worker' = [worker EXCEPT ![w].pc = "out"]
    /\ UNCHANGED <<caller, sent, taken, inClosed, outChan, outClosed, drain,
                   pieData, partial, result, crash>>

(* The send on outChan: into the buffer, or, when the channel has none,    *)
(* straight to the receiver.  A send on a closed channel panics.           *)
Send(w) ==
    /\ worker[w].pc = "out"
    /\ \/ /\ outClosed
          /\ crash' = "closed channel"
          /\ UNCHANGED <<worker, outChan, pieData>>
       \/ /\ ~outClosed
          /\ Len(outChan) < OutCap
          /\ outChan' = Append(outChan, worker[w].lib)
          /\ worker' = [worker EXCEPT ![w] = [pc |-> "recv", lib |-> 0]]
          /\ UNCHANGED <<pieData, crash>>
       \/ /\ ~outClosed
          /\ OutCap = 0
          /\ drain = "recv"
          /\ pieData' = Append(pieData, worker[w].lib)
          /\ worker' = [worker EXCEPT ![w] = [pc |-> "recv", lib |-> 0]]
          /\ UNCHANGED <<outChan, crash>>
    /\ UNCHANGED <<caller, sent, taken, inClosed, outClosed, drain, partial,
                   result>>

(* A panic while the request is made or its answer is decoded.  The worker *)
(* is a goroutine of its own: the recover in Collect does not see it and   *)
(* the Go runtime ends the process.                                        *)
Panic(w) ==
    /\ worker[w].pc = "request"
    /\ crash' = "panic"
    /\ UNCHANGED <<caller, sent, taken, inClosed, worker, outChan, outClosed,
                   drain, pieData, partial, result>>

-----------------------------------------------------------------------------
(* The drain goroutine.                                                    *)

Collect ==
    /\ drain = "recv"
    /\ outChan # <<>>
    /\ pieData' = Append(pieData, Head(outChan))
    /\ outChan' = Tail(outChan)
    /\ UNCHANGED <<caller, sent, taken, inClosed, worker, outClosed, drain,
                   partial, result, crash>>

EndDrain ==
    /\ drain = "recv"
    /\ outChan = <<>>
    /\ outClosed
    /\ drain' = "done"
    /\ UNCHANGED <<caller, sent, taken, inClosed, worker, outChan, outClosed,
                   pieData, partial, result, crash>>

-----------------------------------------------------------------------------
CallerStep == crash = "no" /\ (SendLib \/ CloseIn \/ StartDrain \/ CloseOut \/ Return)

WorkerStep(w) ==
    /\ crash = "no"
    /\ Receive(w) \/ Exit(w) \/ Drop(w) \/ Answered(w) \/ Send(w) \/ Panic(w)

DrainStep == crash = "no" /\ (Collect \/ EndDrain)

Next == CallerStep \/ (\E w \in Workers : WorkerStep(w)) \/ DrainStep

Spec == Init /\ [][Next]_vars

(* The Go scheduler runs every goroutine that can run, and no request      *)
(* lasts forever: the http.Client has a timeout (client.go:50).            *)
FairSpec ==
    /\ Spec
    /\ WF_vars(CallerStep)
    /\ \A w \in Workers : WF_vars(WorkerStep(w))
    /\ WF_vars(DrainStep)

-----------------------------------------------------------------------------
(* Properties.                                                             *)

(* What the caller gets is complete and honest: no library twice, and a    *)
(* true flag exactly when one is missing, whichever workers fail, however  *)
(* late, and however the sends, the closing and the draining overlap       *)
(* (fetchPies, tdarr.go:487-491, 539).                                     *)
ResultComplete ==
    caller = "returned" =>
        /\ IsInjective(pieData)
        /\ result <=> Range(pieData) # Libs

(* No worker is left that would send on outChan once it is closed: the     *)
(* Go runtime would end the process (tdarr.go:482, 534-535).               *)
NoSendOnClosed == crash # "closed channel"

(* Once fetchPies has returned nothing it started still runs: pieData is   *)
(* read, cached and shared by later scrapes without a lock                 *)
(* (tdarr.go:521-525, 537-539).                                            *)
NoLateWork == [][caller # "returned"]_vars

(* The pool implements the sweep that ScrapeCache takes for granted.  A    *)
(* library is pending until a worker has an answer for it or gives it up,  *)
(* and its figures count from the answer on, wherever they are queued.     *)
Pending == {lib \in Libs :
              \/ lib > taken
              \/ \E w \in Workers : worker[w].pc = "request" /\ worker[w].lib = lib}

Fetched == {worker[w].lib : w \in {v \in Workers : worker[v].pc = "out"}}
             \cup Range(outChan) \cup Range(pieData)

SweepOf == INSTANCE Sweep WITH pending <- Pending, pies <- Fetched,
                               returned <- caller = "returned"

ImplementsSweep == SweepOf!Spec

(* A sweep ends, unless a panic ends the process: nobody waits for a       *)
(* worker that waits for a reader, for any capacity of outChan             *)
(* (tdarr.go:521-525).                                                     *)
Terminates == <>(caller = "returned" \/ crash = "panic")

(* "A panic inside a scrape ... is already converted to tdarr_up=0 by the  *)
(* collector's Collect recover" (client.go:83-85): no panic below          *)
(* getLibStats ends the process.                                           *)
PanicContained == crash # "panic"
=============================================================================
