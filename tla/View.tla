-------------------------------- MODULE View --------------------------------
(***************************************************************************)
(* What Prometheus is promised of a scrape, without a cache, without a     *)
(* sweep and without other scrapes: it learns the totals and then the      *)
(* library list as Tdarr has them at that moment, publishes figures of     *)
(* those libraries as Tdarr has them at a moment of this very scrape, not  *)
(* before it read the totals, and says whether they are whole.             *)
(*                                                                         *)
(* A published figure is a library with the totals Tdarr had when it gave  *)
(* the figure: what moves without the totals is not told apart             *)
(* (docs/metrics-internals.md, "Residual staleness").                      *)
(* ScrapeCache implements this for every scrape.                           *)
(***************************************************************************)
EXTENDS Naturals, Figures

CONSTANTS
    TdarrStates,  \* what Tdarr may report
    ZeroTotals,   \* the totals of a scrape that has read none
    MaxChanges    \* bound: number of changes Tdarr goes through

VARIABLES
    history, now,  \* what Tdarr reports over time, and the time
    stage,         \* how far the scrape is
    totals, libs,  \* what it has learned
    seen,          \* the totals Tdarr has had since it learned them
    pies, up       \* what it has published: figures and tdarr_up

tdarr == <<history, now>>
viewVars == <<tdarr, stage, totals, libs, seen, pies, up>>

Blanked == totals = ZeroTotals /\ libs = {} /\ seen = {} /\ pies = {} /\ up = 0

Init ==
    /\ history \in [0 .. MaxChanges -> TdarrStates]
    /\ now = 0
    /\ stage = "off" /\ Blanked

TdarrChanges ==
    /\ now < MaxChanges
    /\ now' = now + 1
    /\ seen' = IF seen = {} THEN {} ELSE seen \cup {history[now'].totals}
    /\ UNCHANGED <<history, stage, totals, libs, pies, up>>

Start ==
    /\ stage \in {"off", "answered", "failed"}
    /\ stage' = "started" /\ Blanked'
    /\ UNCHANGED tdarr

Fail ==
    /\ stage \in {"started", "totals"}
    /\ stage' = "failed" /\ Blanked'
    /\ UNCHANGED tdarr

ReadTotals ==
    /\ stage = "started"
    /\ stage' = "totals" /\ totals' = history[now].totals /\ seen' = {totals'}
    /\ UNCHANGED <<tdarr, libs, pies, up>>

ReadLibs ==
    /\ stage = "totals"
    /\ stage' = "libs" /\ libs' = history[now].libs
    /\ UNCHANGED <<tdarr, totals, seen, pies, up>>

(* A library may be missing.                                               *)
Publish ==
    /\ stage = "libs"
    /\ stage' = "published"
    /\ \A p \in pies' : p.lib \in libs /\ p.figures \in seen
    /\ UNCHANGED <<tdarr, totals, libs, seen, up>>

(* tdarr_up is 1 only if the figures are whole.                            *)
Answer ==
    /\ stage = "published"
    /\ stage' = "answered" /\ up' \in {0, 1}
    /\ up' = 1 => OnePiePerLibrary(pies, libs)
    /\ UNCHANGED <<tdarr, totals, libs, seen, pies>>

Next ==
    \/ TdarrChanges
    \/ Start \/ Fail \/ ReadTotals \/ ReadLibs \/ Publish \/ Answer

Spec == Init /\ [][Next]_viewVars
=============================================================================
