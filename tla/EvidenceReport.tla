---------------------------- MODULE EvidenceReport ----------------------------
(***************************************************************************)
(* The two readers that check an evidence stream: the report command with  *)
(* --verify (evidence-plane cli/report.ts), a process of its own that      *)
(* reads manifest.json and then events.jsonl while a campaign may be       *)
(* writing both, and the campaign's own closing check                      *)
(* (evidence-integrity.ts), which is answered from the store's memory.     *)
(* Rendering a summary is left out.                                        *)
(***************************************************************************)
EXTENDS EvidenceStore

CONSTANT NoVerdict      \* no check has ended yet

VARIABLES
    report,     \* where the report command stands
    checkpoint, \* what it has read of the manifest
    verdict     \* what the last check that ended said

reportVars == <<report, checkpoint, verdict>>

ErrorKinds == {"corrupted", "chain", "truncated", "checkpoint"}

Verdict == [errors : SUBSET ErrorKinds, settled : BOOLEAN, complete : BOOLEAN]

ASSUME ReportConstants == NoVerdict \notin Verdict

\* Every event acknowledged so far is among the events checked.
Covers(events) == \A i \in 1..Len(acked) : \E j \in 1..Len(events) : events[j] = acked[i]

\* Bug: the manifest is compared with the head of the stream, to which the
\* campaign has gone on appending since.
ErrorsAtHead(events, torn, position) ==
    {kind \in {"chain", "truncated", "checkpoint"} :
        \/ kind = "chain" /\ ~Valid(events)
        \/ kind = "truncated" /\ torn
        \/ /\ kind = "checkpoint"
           /\ position # NoManifest /\ position.headHash # HeadHash(events)}

\* buildVerification: the chain itself, the dropped tail when the reader must
\* not repair it, and the checkpoint if there is one.
Errors(events, torn, position) ==
    {kind \in {"chain", "truncated", "checkpoint"} :
        \/ kind = "chain" /\ ~Valid(events)
        \/ kind = "truncated" /\ torn
        \/ /\ kind = "checkpoint"
           /\ position # NoManifest /\ ~AgreesWith(events, position)}

ReportInit == Init /\ report = "idle" /\ checkpoint = NoManifest /\ verdict = NoVerdict

\* loadCheckpoint: the manifest, if there is one yet.
LoadCheckpoint ==
    /\ report = "idle"
    /\ report' = "checkpointed"
    /\ checkpoint' = manifest
    /\ UNCHANGED verdict

\* verifyRunDirectory: the stream is read in one go and left as it is; a stream
\* that is corrupted ends the command with the parse error.  settled says that
\* a store has it prepared and stands in no write.
ReadEvents ==
    /\ report = "checkpointed"
    /\ report' = "idle"
    /\ checkpoint' = NoManifest
    /\ verdict' =
          [errors |-> IF Corrupted THEN {"corrupted"}
                      ELSE Errors(RetainedEvents, NeedsRepair, checkpoint),
           settled |-> prepared /\ at # "writing",
           complete |-> Corrupted \/ Covers(RetainedEvents)]

\* verifyCampaignEvidence: the prepared store's memory, past its write queue
\* and without a checkpoint; repairs it has made are no errors.
VerifyCampaignEvidence ==
    /\ running /\ prepared
    /\ verdict' = [errors |-> Errors(hashChain, FALSE, NoManifest),
                   settled |-> TRUE,
                   complete |-> Covers(hashChain)]
    /\ UNCHANGED <<report, checkpoint>>

ReportNext ==
    \/ Next /\ UNCHANGED reportVars
    \/ (LoadCheckpoint \/ ReadEvents \/ VerifyCampaignEvidence) /\ UNCHANGED vars

ReportSpec == ReportInit /\ [][ReportNext]_<<vars, reportVars>>

-----------------------------------------------------------------------------

ReportTypeOK ==
    /\ report \in {"idle", "checkpointed"}
    /\ checkpoint \in Checkpoint \cup {NoManifest}
    /\ verdict \in Verdict \cup {NoVerdict}

\* No false alarm, however the check falls among appends, manifests, crashes and
\* repairs: it never reports a broken chain or a manifest that disagrees; a
\* truncation only while a line is half written or nobody has repaired one; and
\* it has seen all events acknowledged by then (verifyRunDirectory,
\* verifyCampaignEvidence).
ReportIsTrue ==
    verdict # NoVerdict =>
        /\ verdict.errors \subseteq {"truncated"}
        /\ verdict.settled => verdict.errors = {}
        /\ verdict.complete

=============================================================================
