---------------------------- MODULE MCPieFanout ----------------------------
(* Values for the constants of PieFanout: the default pool of three workers *)
(* (config.go:92) and one library more than there are workers.  The result *)
(* channel has a place for every library, as in the code, or none at all:  *)
(* the comment at tdarr.go:521-525 says that the pool does not need them.  *)
EXTENDS PieFanout

CONSTANTS w1, w2, w3

VARIABLE buffered  \* chosen once: outChan has the capacity of the code

poolVars == <<vars, buffered>>

Unbuffered == INSTANCE PieFanout WITH OutCap <- 0

OneOf(step, unbufferedStep) ==
    /\ IF buffered THEN step ELSE unbufferedStep
    /\ UNCHANGED buffered

PoolInit == Init /\ buffered \in BOOLEAN

PoolSpec ==
    /\ PoolInit
    /\ [][OneOf(Next, Unbuffered!Next)]_poolVars
    /\ WF_poolVars(OneOf(CallerStep, Unbuffered!CallerStep))
    /\ \A w \in Workers : WF_poolVars(OneOf(WorkerStep(w), Unbuffered!WorkerStep(w)))
    /\ WF_poolVars(OneOf(DrainStep, Unbuffered!DrainStep))
=============================================================================
