------------------------------- MODULE Sweep -------------------------------
(***************************************************************************)
(* What fetchPies promises its caller, without the goroutines: it asks for *)
(* every library of the list once, in any order, keeps what it gets,       *)
(* remembers whether anything is missing, and returns when every library   *)
(* has been answered or given up.  ScrapeCache is written against this.    *)
(***************************************************************************)
CONSTANT Libs  \* the libraries of the list

VARIABLES
    pending,   \* libraries neither answered nor given up yet
    pies,      \* libraries whose figures arrived
    partial,   \* some library was given up
    returned

sweepVars == <<pending, pies, partial, returned>>

Init ==
    /\ pending = Libs
    /\ pies = {}
    /\ partial = FALSE
    /\ returned = FALSE

Succeed(lib) ==
    /\ pending' = pending \ {lib}
    /\ pies' = pies \cup {lib}
    /\ UNCHANGED <<partial, returned>>

GiveUp(lib) ==
    /\ pending' = pending \ {lib}
    /\ partial' = TRUE
    /\ UNCHANGED <<pies, returned>>

Return ==
    /\ ~returned
    /\ pending = {}
    /\ returned' = TRUE
    /\ UNCHANGED <<pending, pies, partial>>

Next ==
    \/ \E lib \in pending : Succeed(lib) \/ GiveUp(lib)
    \/ Return

Spec == Init /\ [][Next]_sweepVars
=============================================================================
