--------------------------- MODULE MCEvidenceStore ---------------------------
(* The failures of an append that the run of the bare evidence store allows.*)
EXTENDS EvidenceStore

PartialFaults == {"nothing_written", "part_written"}
=============================================================================
