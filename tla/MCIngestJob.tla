------------------------------ MODULE MCIngestJob ------------------------------
(* Small instances of IngestJob for TLC.  Ticks are alike, but liveness is  *)
(* checked in the same run, where symmetry is not sound.                    *)
EXTENDS IngestJob

CONSTANTS t1, t2
===============================================================================
