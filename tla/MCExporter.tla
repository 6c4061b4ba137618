----------------------------- MODULE MCExporter ------------------------------
(* Instance of Exporter for TLC: a request for any route beside a scrape.   *)
EXTENDS Exporter

CONSTANTS r1, r2

MCRequests == {r1, r2}
MCRoutesOf == [r \in MCRequests |-> IF r = r1 THEN Routes ELSE {"metrics"}]
=============================================================================
