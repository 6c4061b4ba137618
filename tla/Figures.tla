------------------------------ MODULE Figures -------------------------------
(***************************************************************************)
(* What can be said of a set of per-library figures, whatever a figure is: *)
(* figure p belongs to library p.lib.                                      *)
(***************************************************************************)

CONSTANT Blank  \* the empty string, as a library name

(* Exactly one set of figures for each library of `libs', all of them named. *)
OnePiePerLibrary(pies, libs) ==
    /\ {p.lib : p \in pies} = libs
    /\ \A p, q \in pies : p.lib = q.lib => p = q
    /\ \A lib \in libs : lib.name # Blank
=============================================================================
