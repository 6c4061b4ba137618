-------------------------------- MODULE Call --------------------------------
(***************************************************************************)
(* What a scrape may expect of its requests to Tdarr: it asks, Tdarr       *)
(* answers at most once and only while the context of the request lives,   *)
(* and the scrape gets the data of that answer or an error, which may come *)
(* at any time.  Transport has the request in detail, Exporter the scrapes *)
(* that make one after another.                                            *)
(***************************************************************************)
VARIABLES
    state,  \* the call under way, or the last one
    ctx     \* the context it is made under: "live" or "done"

vars == <<state, ctx>>

Init == state \in {"idle", "asking"} /\ ctx = "live"

Ask ==
    /\ state \in {"idle", "data", "error"}
    /\ state' = "asking"
    /\ UNCHANGED ctx

Answer ==
    /\ state = "asking"
    /\ ctx = "live"
    /\ state' = "answered"
    /\ UNCHANGED ctx

Deliver ==
    /\ state = "answered"
    /\ state' = "data"
    /\ UNCHANGED ctx

Fail ==
    /\ state \in {"asking", "answered"}
    /\ state' = "error"
    /\ UNCHANGED ctx

CtxEnds ==
    /\ ctx = "live"
    /\ ctx' = "done"
    /\ UNCHANGED state

Next == Ask \/ Answer \/ Deliver \/ Fail \/ CtxEnds

Spec == Init /\ [][Next]_vars
=============================================================================
