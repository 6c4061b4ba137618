------------------------- MODULE MCStatusNormalize -------------------------
(* A word known for transcodes only, and one known for neither kind.       *)
EXTENDS StatusNormalize

MCKnownWords == [k \in Kinds |-> IF k = "transcode" THEN {"hold"} ELSE {}]
=============================================================================
