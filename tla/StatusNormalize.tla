-------------------------- MODULE StatusNormalize --------------------------
(***************************************************************************)
(* normalizePieStatuses (tdarr_enums.go): the status slices Tdarr gives    *)
(* for a library become maps from clean labels to counts, with every known *)
(* label present, and every label nobody knows is counted, under its kind, *)
(* in the drift counters that all libraries and scrapes share.             *)
(*                                                                         *)
(* A raw name is a word and the form Tdarr wrote it in: as it is, with     *)
(* capitals, or after the prefix "Transcode".  A label is what a cleaner   *)
(* leaves of a name: the word, and whether the prefix is still there.      *)
(***************************************************************************)
EXTENDS Naturals, Sequences

CONSTANTS
    Words,       \* the words a status name can consist of
    KnownWords,  \* the words of the known statuses, for each kind
    Values,      \* the counts Tdarr may give
    MaxSlices,   \* bound: the entries of one slice
    MaxPies      \* bound: the libraries normalised

Kinds == {"transcode", "healthcheck"}

ASSUME StatusNormalizeAssumption ==
    /\ KnownWords \in [Kinds -> SUBSET Words]
    /\ Values \subseteq Nat
    /\ MaxSlices \in Nat
    /\ MaxPies \in Nat

Forms == {"plain", "capital", "prefixed"}

Slice == [word : Words, form : Forms, value : Values]

Label == [word : Words, prefix : BOOLEAN]

Known(k) == [word : KnownWords[k], prefix : {FALSE}]

(* Mutant: the name Tdarr gave is the label.                               *)
Cleaned_Forgotten(k, s) == [word |-> s.word, form |-> s.form]

(* cleanTranscodeLabel lowers the name and trims the prefix,               *)
(* cleanHealthCheckLabel only lowers it.                                   *)
Cleaned(k, s) ==
    [word |-> s.word, prefix |-> k = "healthcheck" /\ s.form = "prefixed"]

VARIABLES
    kind,    \* the slice under way, "done" when both maps are built
    raw,     \* for each kind, the entries read so far
    result,  \* for each kind, the map built so far
    counts,  \* unknownStatusCounts
    pies     \* libraries begun

vars == <<kind, raw, result, counts, pies>>

(* The map a slice starts from: every known label, with 0.                 *)
ZeroPadded(k) == [l \in Known(k) |-> 0]

(* Mutant: a label that is there already has the value added to its own.   *)
Assign_Adds(m, l, v) ==
    [x \in DOMAIN m \cup {l} |->
        IF x \notin DOMAIN m THEN v ELSE m[x] + IF x = l THEN v ELSE 0]

(* A Go map assignment m[l] = v: one entry, new or overwritten.            *)
Assign(m, l, v) ==
    [x \in DOMAIN m \cup {l} |-> IF x = l THEN v ELSE m[x]]

(* Mutant: every unknown status is counted as a transcode status.          *)
Bumped_OneKind(k, l) == [counts EXCEPT !["transcode"][l] = @ + 1]

(* bumpUnknownStatus, under its lock.                                      *)
Bumped(k, l) == [counts EXCEPT ![k][l] = @ + 1]

Init ==
    /\ kind = "done"
    /\ raw = [k \in Kinds |-> <<>>]
    /\ result = [k \in Kinds |-> ZeroPadded(k)]
    /\ counts = [k \in Kinds |-> [l \in Label |-> 0]]
    /\ pies = 0

(* The next library, or the next scrape: the counters stay.                *)
Begin ==
    /\ kind = "done"
    /\ pies < MaxPies
    /\ kind' = "transcode"
    /\ raw' = [k \in Kinds |-> <<>>]
    /\ result' = [k \in Kinds |-> ZeroPadded(k)]
    /\ pies' = pies + 1
    /\ UNCHANGED counts

(* One entry of the slice under way.                                       *)
Entry(s) ==
    LET l == Cleaned(kind, s) IN
    /\ kind \in Kinds
    /\ Len(raw[kind]) < MaxSlices
    /\ raw' = [raw EXCEPT ![kind] = Append(@, s)]
    /\ result' = [result EXCEPT ![kind] = Assign(@, l, s.value)]
    /\ counts' = IF l \in Known(kind) THEN counts
                 ELSE Bumped(kind, l)
    /\ UNCHANGED <<kind, pies>>

(* The transcode slice is through: the health checks are next.             *)
NextKind ==
    /\ kind = "transcode"
    /\ kind' = "healthcheck"
    /\ UNCHANGED <<raw, result, counts, pies>>

Return ==
    /\ kind = "healthcheck"
    /\ kind' = "done"
    /\ UNCHANGED <<raw, result, counts, pies>>

Next ==
    \/ Begin
    \/ \E s \in Slice : Entry(s)
    \/ NextKind
    \/ Return

Spec == Init /\ [][Next]_vars

-----------------------------------------------------------------------------
(* Properties.                                                             *)

(* The entries of a slice that end under a label.                          *)
EntriesOf(k, l) == {i \in DOMAIN raw[k] : Cleaned(k, raw[k][i]) = l}

(* The maps have clean labels and counts only, the counters known keys.    *)
TypeOK ==
    /\ kind \in Kinds \cup {"done"}
    /\ raw \in [Kinds -> Seq(Slice)]
    /\ \A k \in Kinds : Len(raw[k]) <= MaxSlices
    /\ DOMAIN result = Kinds
    /\ \A k \in Kinds : /\ DOMAIN result[k] \subseteq Label
                        /\ \A l \in DOMAIN result[k] : result[k][l] \in Nat
    /\ counts \in [Kinds -> [Label -> Nat]]
    /\ pies \in 0 .. MaxPies

(* What is published for a library is, for every known status and every    *)
(* status Tdarr named, the value of the last entry under that label, and 0 *)
(* for a known status Tdarr did not name; nothing else is published        *)
(* (tdarr_enums.go:53-59, 104-133).  Two unknown names that clean to one   *)
(* label lose the earlier value, although unknown statuses are to be "kept *)
(* with real value (no data loss)" (tdarr_enums.go:57).                    *)
Normalized ==
    \A k \in Kinds :
        /\ DOMAIN result[k] = Known(k) \cup {Cleaned(k, raw[k][i]) : i \in DOMAIN raw[k]}
        /\ \A l \in DOMAIN result[k] :
              \/ EntriesOf(k, l) = {} /\ result[k][l] = 0
              \/ \E i \in EntriesOf(k, l) :
                    /\ \A j \in EntriesOf(k, l) : j <= i
                    /\ result[k][l] = raw[k][i].value

(* No unknown status is published that the drift counter of its kind has   *)
(* not counted: this is what ScrapeCache relies on when it counts a        *)
(* library as seen (tdarr_enums.go:57-58, 125-128).                        *)
UnknownCounted ==
    \A k \in Kinds : \A l \in DOMAIN result[k] \ Known(k) : counts[k][l] > 0
=============================================================================
