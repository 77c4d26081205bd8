------------------------------ MODULE IpcScan ------------------------------
(***************************************************************************)
(* One Arrow IPC or Feather input through the linter: scan_ipc in          *)
(* crates/arrowlint-core/src/scanners.rs and the rules AL016 and AL017 in  *)
(* crates/arrowlint-core/src/ipc.rs.                                       *)
(*                                                                         *)
(* scan_ipc opens the input up to three times: for Arrow's FileReader, for *)
(* the frame inspector of IpcStream when that fails, and, if the inspector *)
(* found nothing, for Arrow's StreamReader.  Another process may replace   *)
(* the file between the opens.  The two readers belong to the arrow crate: *)
(* they are modelled by the results scan_ipc tells apart.                  *)
(***************************************************************************)
EXTENDS IpcStream

CONSTANTS
    Formats,      \* formats the input may have by its name: "ArrowIpc", "Feather"
    MaxBatches    \* bound on the record batches an Arrow reader yields

ASSUME FormatsAssumption == Formats \subseteq {"ArrowIpc", "Feather"}
ASSUME BatchAssumption == MaxBatches \in Nat

VARIABLES
    format,
    phase,        \* "open", "file", "inspect", "reopen", "decode", "scanned", "linted", "aborted"
    kind,         \* IpcKind of the result: "None", "File" or "Stream"
    schema,       \* whether a schema was decoded
    num_rows,     \* rows reported (one per batch here), or Unknown
    decoded,      \* batches decoded so far
    decode_error, \* what the StreamReader added to metadata.errors: "none", "schema" or "data"
    diagnostics,
    replaced      \* another process replaced the file since the first open

scan == <<format, phase, kind, schema, num_rows, decoded, decode_error, diagnostics, replaced>>
scanVars == <<vars, scan>>

Unknown == -1

\* What ends up in metadata.errors.
FileErrors == errors \cup (IF decode_error = "none" THEN {}
                           ELSE {[kind |-> decode_error, message |-> message_count]})

-----------------------------------------------------------------------------
ScanInit ==
    /\ Init
    /\ format \in Formats
    /\ phase = "open"
    /\ kind = "None"
    /\ schema = FALSE
    /\ num_rows = Unknown
    /\ decoded = 0
    /\ decode_error = "none"
    /\ diagnostics = {}
    /\ replaced = FALSE

Replace ==
    /\ phase \notin {"scanned", "linted", "aborted"}
    /\ ~replaced
    /\ replaced' = TRUE
    /\ UNCHANGED <<vars, format, phase, kind, schema, num_rows, decoded, decode_error, diagnostics>>

Abort ==
    /\ phase' = "aborted"
    /\ UNCHANGED <<vars, format, kind, schema, num_rows, decoded, decode_error,
                   diagnostics, replaced>>

\* FileReader::try_new accepts the IPC file format, and anything else is a stream.
OpenFile ==
    /\ phase = "open"
    /\ \/ phase' = "file" /\ kind' = "File" /\ schema' = TRUE
       \/ phase' = "inspect" /\ kind' = "Stream" /\ schema' = FALSE
    /\ UNCHANGED <<vars, format, num_rows, decoded, decode_error, diagnostics, replaced>>

\* One batch of the file format; a batch that does not decode aborts the lint run.
FileBatch ==
    /\ phase = "file"
    /\ \/ /\ decoded < MaxBatches
          /\ decoded' = decoded + 1
          /\ UNCHANGED <<phase, num_rows>>
       \/ /\ num_rows' = decoded
          /\ phase' = "scanned"
          /\ UNCHANGED decoded
    /\ UNCHANGED <<vars, format, kind, schema, decode_error, diagnostics, replaced>>

FileBatchFails == phase = "file" /\ Abort

InspectFrame ==
    /\ phase = "inspect"
    /\ Next
    /\ UNCHANGED scan

InspectFails == phase = "inspect" /\ pc = "failed" /\ Abort

\* Mutant: nothing leads on from a stream with framing errors.
InspectEndsWhenClean ==
    /\ phase = "inspect"
    /\ pc = "done" /\ errors = {}
    /\ phase' = "reopen"
    /\ UNCHANGED <<vars, format, kind, schema, num_rows, decoded, decode_error,
                   diagnostics, replaced>>

\* Only a stream without framing errors is decoded.
InspectEnds ==
    /\ phase = "inspect"
    /\ pc = "done"
    /\ phase' = IF errors = {} THEN "reopen" ELSE "scanned"
    /\ UNCHANGED <<vars, format, kind, schema, num_rows, decoded, decode_error,
                   diagnostics, replaced>>

\* Each of the three opens fails when the file is gone.
OpenFails ==
    /\ replaced
    /\ phase \in {"open", "reopen"} \/ (phase = "inspect" /\ pc = "walk" /\ frames = <<>>)
    /\ Abort

OpenStream ==
    /\ phase = "reopen"
    /\ \/ phase' = "decode" /\ schema' = TRUE /\ UNCHANGED decode_error
       \/ phase' = "scanned" /\ decode_error' = "schema" /\ UNCHANGED schema
    /\ UNCHANGED <<vars, format, kind, num_rows, decoded, diagnostics, replaced>>

DecodeBatch ==
    /\ phase = "decode"
    /\ decoded < MaxBatches
    /\ decoded' = decoded + 1
    /\ UNCHANGED <<vars, format, phase, kind, schema, num_rows, decode_error,
                   diagnostics, replaced>>

\* Mutant: the rows of the batches before the broken one are reported.
PartialRows ==
    /\ phase = "decode"
    /\ decode_error' = "data"
    /\ num_rows' = decoded
    /\ phase' = "scanned"
    /\ UNCHANGED <<vars, format, kind, schema, decoded, diagnostics, replaced>>

\* Mutant: a batch that does not decode ends the run, as it does in the file format.
DecodeAborts == phase = "decode" /\ Abort

DecodeFails ==
    /\ phase = "decode"
    /\ decode_error' = "data"
    /\ phase' = "scanned"
    /\ UNCHANGED <<vars, format, kind, schema, num_rows, decoded, diagnostics, replaced>>

DecodeEnds ==
    /\ phase = "decode"
    /\ num_rows' = decoded
    /\ phase' = "scanned"
    /\ UNCHANGED <<vars, format, kind, schema, decoded, decode_error, diagnostics, replaced>>

-----------------------------------------------------------------------------
\* Mutant: the rule looks at streams that were decoded.
InspectedOnly ==
    IF format = "ArrowIpc" /\ kind = "Stream" /\ decode_error = "none"
    THEN {[rule |-> "AL016", error |-> e] : e \in FileErrors} ELSE {}

InvalidIpcStream ==
    IF format = "ArrowIpc" /\ kind = "Stream"
    THEN {[rule |-> "AL016", error |-> e] : e \in FileErrors} ELSE {}

LegacyIpcStreamFraming ==
    IF format = "ArrowIpc" /\ kind = "Stream" /\ uses_legacy_framing
    THEN {[rule |-> "AL017"]} ELSE {}

CheckRules ==
    /\ phase = "scanned"
    /\ diagnostics' = InvalidIpcStream \cup LegacyIpcStreamFraming
    /\ phase' = "linted"
    /\ UNCHANGED <<vars, format, kind, schema, num_rows, decoded, decode_error, replaced>>

ScanStep ==
    \/ OpenFile
    \/ FileBatch
    \/ FileBatchFails
    \/ phase = "inspect" /\ Step /\ UNCHANGED scan
    \/ InspectFails
    \/ InspectEnds
    \/ OpenFails
    \/ OpenStream
    \/ DecodeBatch
    \/ DecodeFails
    \/ DecodeEnds
    \/ CheckRules

ScanNext ==
    \/ OpenFile
    \/ FileBatch
    \/ FileBatchFails
    \/ InspectFrame
    \/ InspectFails
    \/ InspectEnds
    \/ OpenFails
    \/ OpenStream
    \/ DecodeBatch
    \/ DecodeFails
    \/ DecodeEnds
    \/ CheckRules
    \/ Replace

ScanSpec == ScanInit /\ [][ScanNext]_scanVars /\ WF_scanVars(ScanStep)

-----------------------------------------------------------------------------
Changed == replaced \/ disk < size

\* scan_ipc: rows are reported only with a schema and only when neither the inspector
\* nor the decoder found anything, whichever version of the file each of them read.
RowsOnlyWhenClean == num_rows # Unknown => schema /\ FileErrors = {}

\* rules.md, AL016: decoding failures are reported by the rule instead of aborting the
\* complete lint run.  A stream nobody changes meanwhile never aborts it.
StreamsNeverAbort == phase = "aborted" /\ kind = "Stream" => Changed

\* format-packs.md: framing is checked for Arrow IPC and Feather.  A stream with errors
\* is reported by AL016, and one that is not is reported with its rows.
BrokenStreamsReported ==
    phase = "linted" /\ kind = "Stream" /\ num_rows = Unknown
       => \E d \in diagnostics : d.rule = "AL016"

\* Every input is reported or aborts the run.
ScanEnds == <>(phase \in {"linted", "aborted"})

=============================================================================
