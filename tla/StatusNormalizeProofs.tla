----------------------- MODULE StatusNormalizeProofs -----------------------
(***************************************************************************)
(* Proofs about module StatusNormalize, for any words, known statuses and  *)
(* values and slices of any length: the maps are the reference ones, no    *)
(* unknown status goes uncounted, and distinct labels lose nothing.        *)
(***************************************************************************)
EXTENDS StatusNormalize, TLAPS

USE StatusNormalizeAssumption

IInv == TypeOK /\ Normalized /\ UnknownCounted

(* A slice whose entries are all still to come has the reference map.      *)
LEMMA PaddedNormalized ==
  ASSUME NEW k \in Kinds
  PROVE  /\ DOMAIN ZeroPadded(k) = Known(k)
         /\ Known(k) \subseteq Label
         /\ \A l \in Known(k) : ZeroPadded(k)[l] = 0
  BY DEF ZeroPadded, Known, Label

LEMMA CleanedType ==
  ASSUME NEW k \in Kinds, NEW s \in Slice
  PROVE  Cleaned(k, s) \in Label
  BY DEF Cleaned, Label, Slice

(* Where nothing has been read, everything holds of the padded maps.       *)
LEMMA FreshInv ==
  ASSUME raw = [k \in Kinds |-> <<>>],
         result = [k \in Kinds |-> ZeroPadded(k)],
         kind \in Kinds \cup {"done"},
         counts \in [Kinds -> [Label -> Nat]],
         pies \in 0 .. MaxPies
  PROVE  IInv
<1>1. \A k \in Kinds : /\ raw[k] = <<>> /\ DOMAIN raw[k] = {} /\ Len(raw[k]) = 0
                       /\ result[k] = ZeroPadded(k)
  OBVIOUS
<1>2. TypeOK
  <2>1. raw \in [Kinds -> Seq(Slice)]
    OBVIOUS
  <2>2. \A k \in Kinds : /\ DOMAIN result[k] \subseteq Label
                         /\ \A l \in DOMAIN result[k] : result[k][l] \in Nat
    BY <1>1, PaddedNormalized
  <2> QED  BY <1>1, <2>1, <2>2 DEF TypeOK
<1>3. Normalized
  BY <1>1, PaddedNormalized DEF Normalized, EntriesOf
<1>4. UnknownCounted
  BY <1>1, PaddedNormalized DEF UnknownCounted
<1> QED  BY <1>2, <1>3, <1>4 DEF IInv

LEMMA InitInv == Init => IInv
<1> SUFFICES ASSUME Init PROVE IInv
  OBVIOUS
<1>1. counts \in [Kinds -> [Label -> Nat]] /\ pies \in 0 .. MaxPies
  BY DEF Init
<1> QED  BY <1>1, FreshInv DEF Init

LEMMA BeginInv == IInv /\ Begin => IInv'
<1> SUFFICES ASSUME IInv, Begin PROVE IInv'
  OBVIOUS
<1>1. /\ raw' = [k \in Kinds |-> <<>>]
      /\ result' = [k \in Kinds |-> ZeroPadded(k)]
      /\ kind' \in Kinds \cup {"done"}
      /\ counts' \in [Kinds -> [Label -> Nat]]
      /\ pies' \in 0 .. MaxPies
  BY DEF Begin, IInv, TypeOK, Kinds
<1>2. \A k \in Kinds : /\ raw'[k] = <<>> /\ DOMAIN raw'[k] = {} /\ Len(raw'[k]) = 0
                       /\ result'[k] = ZeroPadded(k)
  BY <1>1
<1>3. TypeOK'
  <2>1. raw' \in [Kinds -> Seq(Slice)]
    BY <1>1
  <2>2. \A k \in Kinds : /\ DOMAIN result'[k] \subseteq Label
                         /\ \A l \in DOMAIN result'[k] : result'[k][l] \in Nat
    BY <1>2, PaddedNormalized
  <2>3. DOMAIN result' = Kinds
    BY <1>1
  <2> QED  BY <1>1, <1>2, <2>1, <2>2, <2>3 DEF TypeOK
<1>4. Normalized'
  BY <1>2, PaddedNormalized DEF Normalized, EntriesOf
<1>5. UnknownCounted'
  BY <1>2, PaddedNormalized DEF UnknownCounted
<1> QED  BY <1>3, <1>4, <1>5 DEF IInv

(* An entry extends the slice by one and overwrites its label.             *)
LEMMA EntryInv ==
  ASSUME IInv, NEW s \in Slice, Entry(s)
  PROVE  IInv'
<1>1. /\ kind \in Kinds /\ kind' = kind /\ pies' = pies
      /\ raw \in [Kinds -> Seq(Slice)] /\ DOMAIN result = Kinds
      /\ counts \in [Kinds -> [Label -> Nat]]
  BY DEF IInv, TypeOK, Entry
<1>a. PICK l \in Label : l = Cleaned(kind, s)
  BY <1>1, CleanedType
<1>b. PICK n \in Nat : n = Len(raw[kind])
  BY <1>1
<1>2. /\ raw[kind] \in Seq(Slice) /\ n < MaxSlices
      /\ DOMAIN raw[kind] = 1 .. n
  BY <1>1, <1>b DEF Entry
<1>3. /\ raw'[kind] = Append(raw[kind], s)
      /\ \A k \in Kinds : k # kind => raw'[k] = raw[k]
      /\ raw' \in [Kinds -> Seq(Slice)]
  BY <1>1, <1>2 DEF Entry
<1>4. /\ DOMAIN raw'[kind] = 1 .. n + 1
      /\ Len(raw'[kind]) = n + 1
      /\ raw'[kind][n + 1] = s
      /\ \A i \in 1 .. n : raw'[kind][i] = raw[kind][i]
  BY <1>2, <1>3, <1>b
<1>5. /\ DOMAIN result' = Kinds
      /\ \A k \in Kinds : k # kind => result'[k] = result[k]
      /\ DOMAIN result'[kind] = DOMAIN result[kind] \cup {l}
      /\ result'[kind][l] = s.value
      /\ \A m \in DOMAIN result[kind] : m # l => result'[kind][m] = result[kind][m]
  <2>1. result' = [result EXCEPT ![kind] = Assign(@, l, s.value)]
    BY <1>a DEF Entry
  <2>2. result'[kind] = [m \in DOMAIN result[kind] \cup {l} |->
                           IF m = l THEN s.value ELSE result[kind][m]]
    BY <1>1, <2>1 DEF Assign
  <2>3. /\ DOMAIN result' = Kinds
        /\ \A k \in Kinds : k # kind => result'[k] = result[k]
    BY <1>1, <2>1
  <2> QED  BY <2>2, <2>3
<1>6. /\ counts' \in [Kinds -> [Label -> Nat]]
      /\ \A k \in Kinds : \A m \in Label : counts'[k][m] >= counts[k][m]
      /\ l \notin Known(kind) => counts'[kind][l] > 0
  <2>1. CASE l \in Known(kind)
    <3>1. counts' = counts
      BY <1>a, <2>1 DEF Entry
    <3> QED  BY <1>1, <2>1, <3>1
  <2>2. CASE l \notin Known(kind)
    <3>1. counts' = [counts EXCEPT ![kind][l] = @ + 1]
      BY <1>a, <2>2 DEF Entry, Bumped
    <3>2. counts[kind][l] \in Nat
      BY <1>1
    <3> QED  BY <1>1, <3>1, <3>2
  <2> QED  BY <2>1, <2>2
<1>7. TypeOK'
  <2>1. \A k \in Kinds : Len(raw'[k]) <= MaxSlices
    <3>1. \A k \in Kinds : Len(raw[k]) <= MaxSlices
      BY DEF IInv, TypeOK
    <3>2. n + 1 <= MaxSlices
      BY <1>2, StatusNormalizeAssumption
    <3>3. Len(raw'[kind]) <= MaxSlices
      BY <1>4, <3>2
    <3> QED  BY <1>3, <3>1, <3>3
  <2>2. s.value \in Nat
    BY DEF Slice
  <2>3. ASSUME NEW k \in Kinds
        PROVE  /\ DOMAIN result'[k] \subseteq Label
               /\ \A m \in DOMAIN result'[k] : result'[k][m] \in Nat
    <3>1. /\ DOMAIN result[k] \subseteq Label
          /\ \A m \in DOMAIN result[k] : result[k][m] \in Nat
      BY DEF IInv, TypeOK
    <3>2. CASE k = kind
      BY <1>1, <1>5, <2>2, <3>1, <3>2
    <3>3. CASE k # kind
      BY <1>5, <3>1, <3>3
    <3> QED  BY <3>2, <3>3
  <2> QED  BY <1>1, <1>3, <1>5, <1>6, <2>1, <2>3 DEF IInv, TypeOK
<1>8. Normalized'
  <2> SUFFICES ASSUME NEW k \in Kinds
               PROVE  /\ DOMAIN result'[k] = Known(k) \cup {Cleaned(k, raw'[k][i]) : i \in DOMAIN raw'[k]}
                      /\ \A m \in DOMAIN result'[k] :
                            \/ EntriesOf(k, m)' = {} /\ result'[k][m] = 0
                            \/ \E i \in EntriesOf(k, m)' :
                                  /\ \A j \in EntriesOf(k, m)' : j <= i
                                  /\ result'[k][m] = raw'[k][i].value
    BY DEF Normalized
  <2>1. /\ DOMAIN result[k] = Known(k) \cup {Cleaned(k, raw[k][i]) : i \in DOMAIN raw[k]}
        /\ \A m \in DOMAIN result[k] :
              \/ EntriesOf(k, m) = {} /\ result[k][m] = 0
              \/ \E i \in EntriesOf(k, m) :
                    /\ \A j \in EntriesOf(k, m) : j <= i
                    /\ result[k][m] = raw[k][i].value
    BY DEF IInv, Normalized
  <2>2. CASE k # kind
    <3>1. raw'[k] = raw[k] /\ result'[k] = result[k]
      BY <1>3, <1>5, <2>2
    <3>2. \A m : EntriesOf(k, m)' = EntriesOf(k, m)
      BY <3>1 DEF EntriesOf
    <3> QED  BY <2>1, <3>1, <3>2
  <2>3. CASE k = kind
    <3>0. \A i \in 1 .. n + 1 :
             Cleaned(k, raw'[k][i]) = IF i = n + 1 THEN l ELSE Cleaned(k, raw[k][i])
      BY <1>a, <1>4, <2>3
    <3>1. EntriesOf(k, l)' = EntriesOf(k, l) \cup {n + 1}
      BY <1>2, <1>4, <2>3, <3>0 DEF EntriesOf
    <3>2. \A m : m # l => EntriesOf(k, m)' = EntriesOf(k, m)
      BY <1>2, <1>4, <2>3, <3>0 DEF EntriesOf
    <3>3. {Cleaned(k, raw'[k][i]) : i \in DOMAIN raw'[k]}
            = {Cleaned(k, raw[k][i]) : i \in DOMAIN raw[k]} \cup {l}
      <4>1. DOMAIN raw'[k] = 1 .. n + 1 /\ DOMAIN raw[k] = 1 .. n
        BY <1>2, <1>4, <2>3
      <4> QED  BY <4>1, <3>0
    <3>4. \A j \in EntriesOf(k, l)' : j <= n + 1
      BY <1>2, <2>3, <3>1 DEF EntriesOf
    <3>5. ASSUME NEW m \in DOMAIN result'[k]
          PROVE  \/ EntriesOf(k, m)' = {} /\ result'[k][m] = 0
                 \/ \E i \in EntriesOf(k, m)' :
                       /\ \A j \in EntriesOf(k, m)' : j <= i
                       /\ result'[k][m] = raw'[k][i].value
      <4>1. CASE m = l
        <5>1. n + 1 \in EntriesOf(k, m)' /\ result'[k][m] = raw'[k][n + 1].value
          BY <1>4, <1>5, <2>3, <3>1, <4>1
        <5> QED  BY <5>1, <3>4, <4>1
      <4>2. CASE m # l
        <5>1. m \in DOMAIN result[k] /\ result'[k][m] = result[k][m]
          BY <1>5, <2>3, <4>2
        <5>2. \A i \in EntriesOf(k, m) : raw'[k][i] = raw[k][i]
          BY <1>1, <1>2, <1>4, <2>3 DEF EntriesOf
        <5> QED  BY <2>1, <3>2, <4>2, <5>1, <5>2
      <4> QED  BY <4>1, <4>2
    <3> QED  BY <1>5, <2>1, <2>3, <3>3, <3>5
  <2> QED  BY <2>2, <2>3
<1>9. UnknownCounted'
  <2> SUFFICES ASSUME NEW k \in Kinds, NEW m \in DOMAIN result'[k], m \notin Known(k)
               PROVE  counts'[k][m] > 0
    BY DEF UnknownCounted
  <2>1. CASE m \in DOMAIN result[k]
    <3>1. counts[k][m] > 0 /\ m \in Label /\ counts[k][m] \in Nat /\ counts'[k][m] \in Nat
      BY <1>1, <1>6, <2>1 DEF IInv, UnknownCounted, TypeOK
    <3> QED  BY <1>6, <3>1
  <2>2. CASE m \notin DOMAIN result[k]
    <3>1. k = kind /\ m = l
      BY <1>5, <2>2
    <3> QED  BY <1>6, <3>1
  <2> QED  BY <2>1, <2>2
<1> QED  BY <1>7, <1>8, <1>9 DEF IInv

LEMMA NextInv == IInv /\ [Next]_vars => IInv'
<1> SUFFICES ASSUME IInv, [Next]_vars PROVE IInv'
  OBVIOUS
<1>1. CASE Begin
  BY <1>1, BeginInv
<1>2. ASSUME NEW s \in Slice, Entry(s) PROVE IInv'
  BY <1>2, EntryInv
<1>3. CASE NextKind \/ Return \/ UNCHANGED vars
  <2>1. UNCHANGED <<raw, result, counts, pies>> /\ kind' \in Kinds \cup {"done"}
    BY <1>3 DEF NextKind, Return, vars, IInv, TypeOK, Kinds
  <2> QED  BY <2>1 DEF IInv, TypeOK, Normalized, EntriesOf, UnknownCounted
<1> QED  BY <1>1, <1>2, <1>3 DEF Next

LEMMA InductiveInv == Spec => []IInv
  BY InitInv, NextInv, PTL DEF Spec

-----------------------------------------------------------------------------
(* The maps hold clean labels and counts only (tdarr_enums.go:112-131).    *)
THEOREM TypeCorrect == Spec => []TypeOK
<1>1. IInv => TypeOK
  BY DEF IInv
<1> QED  BY <1>1, InductiveInv, PTL

(* The map built by the loop of normalizeStatusSlice is the reference one  *)
(* after every entry (tdarr_enums.go:104-133).                             *)
THEOREM NormalizedAlways == Spec => []Normalized
<1>1. IInv => Normalized
  BY DEF IInv
<1> QED  BY <1>1, InductiveInv, PTL

(* No unknown status is published uncounted (tdarr_enums.go:125-128).      *)
THEOREM UnknownCountedAlways == Spec => []UnknownCounted
<1>1. IInv => UnknownCounted
  BY DEF IInv
<1> QED  BY <1>1, InductiveInv, PTL
=============================================================================
