--------------------------- MODULE ShutdownProofs ---------------------------
(***************************************************************************)
(* Proofs about module Shutdown: its types, the honesty of the exit code   *)
(* and the order of cancelling and waiting, for any number of connections  *)
(* and signals.                                                            *)
(***************************************************************************)
EXTENDS Shutdown, TLAPS

USE ShutdownAssumption

Failed == listener \in {"error", "failed"}

(* An error in errHttpChan, before main has left awaitShutdown, is the     *)
(* listener's: ServeHttp sends its own only after main has stopped it.     *)
IInv ==
    /\ TypeOK
    /\ main # "join" => server = "wait"
    /\ main \in {"start", "await"} => (errs > 0 => listener = "failed")
    /\ main \in {"start", "await"} => code = 0
    /\ quit > 0 => signals > 0
    /\ code = 1 => Failed
    /\ main \notin {"start", "await"} /\ code = 0 => signals > 0
    /\ main \in {"stop", "join"} => baseCtx = "done"
    /\ ExitCodeHonest

LEMMA InitInv == Init => IInv
  BY DEF Init, IInv, TypeOK, QuitCap, ErrCap, ExitCodeHonest, Failed

(* One step for each process; those of main one by one.                    *)
LEMMA NextInv == IInv /\ [Next]_vars => IInv'
<1> SUFFICES ASSUME IInv, [Next]_vars PROVE IInv'
  OBVIOUS
<1> USE DEF IInv, TypeOK, QuitCap, ErrCap, ExitCodeHonest, Failed
<1>1. CASE Signal
  BY <1>1 DEF Signal
<1>2. ASSUME NEW c \in Conns, Accept(c) \/ ScrapeEnds(c) \/ WriteEnds(c)
      PROVE  IInv'
  BY <1>2 DEF Accept, ScrapeEnds, WriteEnds
<1>3. CASE ListenFails
  BY <1>3 DEF ListenFails
<1>4. CASE SendListenError
  BY <1>4 DEF SendListenError
<1>5. CASE MainStep /\ exit = "none"
  <2>1. CASE Notify
    BY <2>1 DEF Notify
  <2>2. CASE AwaitSignal
    BY <2>2 DEF AwaitSignal
  <2>3. CASE AwaitError
    BY <2>3 DEF AwaitError
  <2>4. CASE StartForcer
    BY <2>4 DEF StartForcer
  <2>5. CASE CancelScrapes
    BY <2>5 DEF CancelScrapes
  <2>6. CASE StopHttp
    BY <2>6 DEF StopHttp
  <2>7. CASE Join
    BY <2>7 DEF Join
  <2> QED  BY <1>5, <2>1, <2>2, <2>3, <2>4, <2>5, <2>6, <2>7 DEF MainStep
<1>6. CASE ForceExit
  BY <1>6 DEF ForceExit
<1>7. CASE ServerStep
  BY <1>7 DEF ServerStep, ShutdownDone, ShutdownTimesOut, SendShutdownError
<1>8. CASE UNCHANGED vars
  BY <1>8 DEF vars
<1> QED  BY <1>1, <1>2, <1>3, <1>4, <1>5, <1>6, <1>7, <1>8 DEF Next

LEMMA InductiveInv == Spec => []IInv
  BY InitInv, NextInv, PTL DEF Spec

(* Every variable keeps its type: no channel ever holds more than it has   *)
(* room for (main.go:55-58, 71).                                           *)
THEOREM TypeCorrect == Spec => []TypeOK
<1>1. IInv => TypeOK
  BY DEF IInv
<1> QED  BY <1>1, InductiveInv, PTL

(* The exit code is 1 only after a server error and 0 only after a signal, *)
(* in whichever order the two come (main.go:28-30, 132-144).               *)
THEOREM ExitCodeHonestAlways == Spec => []ExitCodeHonest
<1>1. IInv => ExitCodeHonest
  BY DEF IInv
<1> QED  BY <1>1, InductiveInv, PTL

(* The server is not shut down before the scrapes are cancelled            *)
(* (main.go:90-92).                                                        *)
THEOREM NeverWaitsForTdarrAlways == Spec => []NeverWaitsForTdarr
<1>1. IInv => NeverWaitsForTdarr
  BY DEF IInv, TypeOK, NeverWaitsForTdarr
<1> QED  BY <1>1, InductiveInv, PTL
=============================================================================
