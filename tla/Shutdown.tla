------------------------------ MODULE Shutdown ------------------------------
(***************************************************************************)
(* The end of the exporter: run and awaitShutdown (cmd/exporter/main.go)   *)
(* with ServeHttp (internal/server/server.go).                             *)
(*                                                                         *)
(* Four goroutines share three channels.  main waits for a signal on       *)
(* quitServer or an error on errHttpChan, then starts the goroutine that   *)
(* forces the exit at the next signal, cancels the scrapes and hands       *)
(* ServeHttp the stop; ServeHttp started the listener, and shuts the       *)
(* server down when told to stop.  Requests are served meanwhile: each     *)
(* scrapes Tdarr, which the cancelled context cuts short, and then writes  *)
(* to a client that may never read (server.go sets no WriteTimeout).       *)
(*                                                                         *)
(* signal.Notify and net/http are external: a signal before Notify kills   *)
(* the process, and one that finds quitServer full is dropped.             *)
(***************************************************************************)
EXTENDS Naturals

CONSTANTS
    Conns,       \* connections with a request on them
    MaxSignals   \* bound: signals sent to the process

ASSUME ShutdownAssumption == MaxSignals \in Nat

VARIABLES
    main,      \* where run is
    code,      \* exitCode
    forcer,    \* the goroutine that forces the exit: "off" or "recv"
    listener,  \* the goroutine of ListenAndServe
    server,    \* where ServeHttp is
    request,   \* request[c]: what connection c is doing
    baseCtx,   \* scrapeCtx: "live" or "done"
    quit,      \* signals buffered in quitServer
    errs,      \* errors buffered in errHttpChan
    signals,   \* signals sent to the process so far
    exit       \* "none" while the process runs, then its exit code

vars == <<main, code, forcer, listener, server, request, baseCtx, quit, errs,
          signals, exit>>

QuitCap == 1

(* Mutant: one slot for both senders.                                      *)
ErrCap_One == 1

ErrCap == 2

TypeOK ==
    /\ main \in {"start", "await", "force", "cancel", "stop", "join"}
    /\ code \in {0, 1}
    /\ forcer \in {"off", "recv"}
    /\ listener \in {"serving", "error", "failed", "closed"}
    /\ server \in {"wait", "shutdown", "fail", "done"}
    /\ request \in [Conns -> {"idle", "scraping", "writing"}]
    /\ baseCtx \in {"live", "done"}
    /\ quit \in 0 .. QuitCap
    /\ errs \in 0 .. ErrCap
    /\ signals \in 0 .. MaxSignals
    /\ exit \in {"none", "0", "1", "signal"}

(* The server goroutine runs, signal.Notify is not called yet.             *)
Init ==
    /\ main = "start"
    /\ code = 0
    /\ forcer = "off"
    /\ listener = "serving"
    /\ server = "wait"
    /\ request = [c \in Conns |-> "idle"]
    /\ baseCtx = "live"
    /\ quit = 0
    /\ errs = 0
    /\ signals = 0
    /\ exit = "none"

-----------------------------------------------------------------------------
(* The operating system and the clients.                                   *)

(* Mutant: every signal is queued, none is dropped.                        *)
Signal_Queued ==
    /\ signals < MaxSignals
    /\ signals' = signals + 1
    /\ IF main = "start"
       THEN exit' = "signal" /\ UNCHANGED quit
       ELSE quit' = quit + 1 /\ UNCHANGED exit
    /\ UNCHANGED <<main, code, forcer, listener, server, request, baseCtx, errs>>

Signal ==
    /\ signals < MaxSignals
    /\ signals' = signals + 1
    /\ IF main = "start"
       THEN exit' = "signal" /\ UNCHANGED quit
       ELSE /\ quit' = IF quit < QuitCap THEN quit + 1 ELSE quit
            /\ UNCHANGED exit
    /\ UNCHANGED <<main, code, forcer, listener, server, request, baseCtx, errs>>

(* A request on a new connection, or on one kept alive: those are served   *)
(* on even when the listener has failed.                                   *)
Accept(c) ==
    /\ server = "wait"
    /\ request[c] = "idle"
    /\ request' = [request EXCEPT ![c] = "scraping"]
    /\ UNCHANGED <<main, code, forcer, listener, server, baseCtx, quit, errs,
                   signals, exit>>

ScrapeEnds(c) ==
    /\ request[c] = "scraping"
    /\ request' = [request EXCEPT ![c] = "writing"]
    /\ UNCHANGED <<main, code, forcer, listener, server, baseCtx, quit, errs,
                   signals, exit>>

(* The client has read the response.                                       *)
WriteEnds(c) ==
    /\ request[c] = "writing"
    /\ request' = [request EXCEPT ![c] = "idle"]
    /\ UNCHANGED <<main, code, forcer, listener, server, baseCtx, quit, errs,
                   signals, exit>>

-----------------------------------------------------------------------------
(* The goroutine of ListenAndServe.                                        *)

(* The port is taken, or accepting connections fails later.                *)
ListenFails ==
    /\ listener = "serving"
    /\ listener' = "error"
    /\ UNCHANGED <<main, code, forcer, server, request, baseCtx, quit, errs,
                   signals, exit>>

SendListenError ==
    /\ listener = "error"
    /\ errs < ErrCap
    /\ errs' = errs + 1
    /\ listener' = "failed"
    /\ UNCHANGED <<main, code, forcer, server, request, baseCtx, quit, signals,
                   exit>>

-----------------------------------------------------------------------------
(* run.                                                                    *)

Notify ==
    /\ main = "start"
    /\ main' = "await"
    /\ UNCHANGED <<code, forcer, listener, server, request, baseCtx, quit, errs,
                   signals, exit>>

(* awaitShutdown: either case may be taken when both are ready.            *)
AwaitSignal ==
    /\ main = "await"
    /\ quit > 0
    /\ quit' = quit - 1
    /\ code' = 0
    /\ main' = "force"
    /\ UNCHANGED <<forcer, listener, server, request, baseCtx, errs, signals,
                   exit>>

(* Mutant: the exit code is 0 whatever ended the server.                   *)
AwaitError_ExitsZero ==
    /\ main = "await"
    /\ errs > 0
    /\ errs' = errs - 1
    /\ code' = 0
    /\ main' = "force"
    /\ UNCHANGED <<forcer, listener, server, request, baseCtx, quit, signals,
                   exit>>

AwaitError ==
    /\ main = "await"
    /\ errs > 0
    /\ errs' = errs - 1
    /\ code' = 1
    /\ main' = "force"
    /\ UNCHANGED <<forcer, listener, server, request, baseCtx, quit, signals,
                   exit>>

StartForcer ==
    /\ main = "force"
    /\ forcer' = "recv"
    /\ main' = "cancel"
    /\ UNCHANGED <<code, listener, server, request, baseCtx, quit, errs, signals,
                   exit>>

(* Mutant: the scrapes are left to run to their end.                       *)
CancelScrapes_Never ==
    /\ main = "cancel"
    /\ main' = "stop"
    /\ UNCHANGED <<code, forcer, listener, server, request, baseCtx, quit, errs,
                   signals, exit>>

CancelScrapes ==
    /\ main = "cancel"
    /\ baseCtx' = "done"
    /\ main' = "stop"
    /\ UNCHANGED <<code, forcer, listener, server, request, quit, errs, signals,
                   exit>>

(* The send on stopHttpChan meets ServeHttp's receive, and srv.Shutdown    *)
(* closes the listener: ListenAndServe returns ErrServerClosed.            *)
StopHttp ==
    /\ main = "stop"
    /\ server = "wait"
    /\ main' = "join"
    /\ server' = "shutdown"
    /\ listener' = IF listener = "serving" THEN "closed" ELSE listener
    /\ UNCHANGED <<code, forcer, request, baseCtx, quit, errs, signals, exit>>

(* httpWg.Wait() has returned; main returns and the process exits.         *)
Join ==
    /\ main = "join"
    /\ server = "done"
    /\ exit' = IF code = 0 THEN "0" ELSE "1"
    /\ UNCHANGED <<main, code, forcer, listener, server, request, baseCtx, quit,
                   errs, signals>>

(* The goroutine started by StartForcer.  forcedExitCode: 128 + signal.    *)
ForceExit ==
    /\ forcer = "recv"
    /\ quit > 0
    /\ quit' = quit - 1
    /\ exit' = "signal"
    /\ UNCHANGED <<main, code, forcer, listener, server, request, baseCtx, errs,
                   signals>>

-----------------------------------------------------------------------------
(* ServeHttp, after the stop.                                              *)

AllIdle == \A c \in Conns : request[c] = "idle"

ShutdownDone ==
    /\ server = "shutdown"
    /\ AllIdle
    /\ server' = "done"
    /\ UNCHANGED <<main, code, forcer, listener, request, baseCtx, quit, errs,
                   signals, exit>>

(* Mutant: Shutdown without a deadline.                                    *)
ShutdownTimesOut_Never == FALSE /\ UNCHANGED vars

(* GracefulTimeout runs out with a request still on a connection.          *)
ShutdownTimesOut ==
    /\ server = "shutdown"
    /\ ~AllIdle
    /\ server' = "fail"
    /\ UNCHANGED <<main, code, forcer, listener, request, baseCtx, quit, errs,
                   signals, exit>>

SendShutdownError ==
    /\ server = "fail"
    /\ errs < ErrCap
    /\ errs' = errs + 1
    /\ server' = "done"
    /\ UNCHANGED <<main, code, forcer, listener, request, baseCtx, quit, signals,
                   exit>>

-----------------------------------------------------------------------------
MainStep == Notify \/ AwaitSignal \/ AwaitError \/ StartForcer \/ CancelScrapes
              \/ StopHttp \/ Join

ServerStep == ShutdownDone \/ ShutdownTimesOut \/ SendShutdownError

Next ==
    /\ exit = "none"
    /\ \/ Signal
       \/ \E c \in Conns : Accept(c) \/ ScrapeEnds(c) \/ WriteEnds(c)
       \/ ListenFails
       \/ SendListenError
       \/ MainStep
       \/ ForceExit
       \/ ServerStep

Spec == Init /\ [][Next]_vars

(* Every goroutine that can run runs, and the deadline of Shutdown passes. *)
(* Neither Tdarr nor the clients are assumed to answer or to read.         *)
FairSpec ==
    /\ Spec
    /\ WF_vars(exit = "none" /\ MainStep)
    /\ WF_vars(exit = "none" /\ ServerStep)
    /\ WF_vars(exit = "none" /\ SendListenError)
    /\ WF_vars(exit = "none" /\ ForceExit)

-----------------------------------------------------------------------------
(* Properties.                                                             *)

StopRequested == signals > 0 \/ listener \in {"error", "failed"}

(* A signal or a server error always ends the process, however many        *)
(* requests hang, and though nobody reads errHttpChan any more when the    *)
(* later errors are sent (main.go:55-58, server.go:70-79, 89-96).          *)
ExitsWhenAsked == StopRequested ~> exit # "none"

(* The exit code tells what ended the exporter: 1 only when the server     *)
(* failed, and 0 only when somebody asked by a signal                      *)
(* (main.go:28-30, 132-144).                                               *)
ExitCodeHonest ==
    /\ exit = "1" => listener \in {"error", "failed"}
    /\ exit = "0" => signals > 0

(* The graceful shutdown never waits for Tdarr: a scrape it waits for has  *)
(* had its context cancelled (main.go:90-91).                              *)
NeverWaitsForTdarr == server = "shutdown" => baseCtx = "done"

(* "a second signal forces an immediate exit" (README.md:48): once two     *)
(* signals were sent, a running process has the second one waiting to      *)
(* force the exit.                                                         *)
SecondSignalForces == signals >= 2 /\ exit = "none" => quit > 0
=============================================================================
