--------------------------- MODULE MCScrapeCache ---------------------------
(* Values for the constants of ScrapeCache.  Two scrapes overlap while     *)
(* Tdarr renames a library and adds another, or one slot is used alone, by *)
(* one scrape after the other, and Tdarr also has no library or one        *)
(* without a name.                                                         *)
EXTENDS ScrapeCache, TLC

CONSTANTS s1, s2, movies, shows, filmsName, moviesName, showsName, t1, drift

Library(id, name) == [id |-> id, name |-> name]

MCLibLists ==
    { {Library(movies, moviesName)},
      {Library(movies, filmsName), Library(shows, showsName)} }

MCAllLibLists ==
    MCLibLists \cup
        { {},
          {Library(movies, filmsName)},
          {Library(movies, moviesName), Library(shows, Blank)} }

MCUnknownIn == [id \in LibIds |-> IF id = movies THEN {drift} ELSE {}]

Symmetry == Permutations(Scrapers)

(* Totals are only compared with each other: it does not matter with which *)
(* Tdarr begins.                                                           *)
RunInit == Init /\ history[0].totals = t1

(* Two slots are used only with the lists of MCLibLists.                   *)
RunNext ==
    Next /\ (Sequential' \/ \A t \in Time : history[t].libs \in MCLibLists)

RunSpec == RunInit /\ [][RunNext]_vars
=============================================================================
