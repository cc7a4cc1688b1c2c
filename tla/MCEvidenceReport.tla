--------------------------- MODULE MCEvidenceReport ---------------------------
(* The evidence store with its readers, when a failing append writes        *)
(* nothing.                                                                 *)
EXTENDS EvidenceReport

CleanFaults == {"nothing_written"}
=============================================================================
