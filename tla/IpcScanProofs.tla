---------------------------- MODULE IpcScanProofs ----------------------------
(* Proofs about one Arrow IPC or Feather input, for files of any size and  *)
(* content and whatever the Arrow readers answer: the frame inspector      *)
(* keeps its promises inside scan_ipc, rows are reported of clean inputs   *)
(* only, a stream never aborts the run, and a broken one is reported.      *)
EXTENDS IpcScan, IpcStreamProofs

USE BatchAssumption

-----------------------------------------------------------------------------
(* The inspector inside scan_ipc: every step of a scan is a step of the    *)
(* inspector or leaves it alone.                                           *)

LEMMA ScanStepRefines == [ScanNext]_scanVars => [Next]_vars
<1> SUFFICES ASSUME [ScanNext]_scanVars PROVE [Next]_vars
  OBVIOUS
<1>1. CASE InspectFrame
  BY <1>1 DEF InspectFrame
<1>2. CASE Replace
  BY <1>2 DEF Replace
<1>3. CASE Abort
  BY <1>3 DEF Abort
<1>4. CASE OpenFile \/ FileBatch \/ InspectEnds \/ OpenStream
  BY <1>4 DEF OpenFile, FileBatch, InspectEnds, OpenStream
<1>5. CASE DecodeBatch \/ DecodeFails \/ DecodeEnds \/ CheckRules
  BY <1>5 DEF DecodeBatch, DecodeFails, DecodeEnds, CheckRules
<1>6. CASE UNCHANGED scanVars
  BY <1>6 DEF scanVars
<1>7. QED
  BY <1>1, <1>2, <1>3, <1>4, <1>5, <1>6
     DEF ScanNext, FileBatchFails, InspectFails, OpenFails

LEMMA InspectorInScan == ScanSpec => [](TypeOK /\ InspectorInv)
<1>1. ScanInit => Init
  BY DEF ScanInit
<1>2. Init => TypeOK
  BY InitType
<1>3. QED
  BY <1>1, <1>2, InspectorInit, NextType, InspectorStep, ScanStepRefines, PTL DEF ScanSpec

\* What IpcStreamProofs shows of the inspector on its own holds of every scan: its state
\* is typed, its verdict is right, and it fails on truncated files only.
THEOREM InspectorPromises ==
    ScanSpec => [](TypeOK /\ Verdict /\ FailureNeedsShrink /\ LegacyFlag)
<1>1. InspectorInv => Verdict /\ FailureNeedsShrink /\ LegacyFlag
  BY DEF InspectorInv, Verdict, FailureNeedsShrink, LegacyFlag
<1>2. QED
  BY <1>1, InspectorInScan, PTL

-----------------------------------------------------------------------------
(* The phases of scan_ipc.  The file format never meets the inspector, a   *)
(* stream is decoded only when the inspector found nothing, and a scan     *)
(* ends with rows or with an error.                                        *)

Clean == errors = {} /\ decode_error = "none"

Phases == {"open", "file", "inspect", "reopen", "decode", "scanned", "linted", "aborted"}

KindOfPhase ==
    /\ phase \in Phases
    /\ phase = "open" => kind = "None"
    /\ phase = "file" => kind = "File" /\ schema
    /\ phase \in {"inspect", "reopen", "decode"} => kind = "Stream"
    /\ phase = "decode" => schema
    /\ phase \in {"reopen", "decode", "scanned", "linted"} /\ kind = "Stream" => pc = "done"

ErrorsOfPhase ==
    /\ phase \in {"open", "file", "reopen", "decode"} => Clean
    /\ phase = "open" => pc = "walk"
    /\ phase \in {"inspect", "aborted"} => decode_error = "none"
    /\ decode_error \in {"none", "schema", "data"}

RowsOfPhase ==
    /\ decoded \in Nat
    /\ num_rows # Unknown => schema /\ Clean /\ phase \in {"scanned", "linted"}
    /\ phase \in {"scanned", "linted"} /\ num_rows = Unknown => kind = "Stream" /\ ~Clean

Reported ==
    phase = "linted" => diagnostics = InvalidIpcStream \cup LegacyIpcStreamFraming

AbortsExplained == phase = "aborted" /\ kind = "Stream" => Changed

ScanInv == KindOfPhase /\ ErrorsOfPhase /\ RowsOfPhase /\ Reported /\ AbortsExplained

LEMMA ErrorsOfFile == Clean <=> FileErrors = {}
BY DEF Clean, FileErrors

LEMMA ScanInvInit == ScanInit => ScanInv
BY DEF ScanInit, Init, ScanInv, KindOfPhase, ErrorsOfPhase, RowsOfPhase, Reported,
       AbortsExplained, Clean, Phases, Unknown

\* A scan that aborts: a stream does so only when its file changed.
LEMMA AbortKeeps ==
    ASSUME ScanInv, Abort,
           phase \in {"open", "file", "inspect", "reopen"},
           kind = "Stream" => Changed
    PROVE  ScanInv'
BY DEF Abort, vars, inspector, ScanInv, KindOfPhase, ErrorsOfPhase, RowsOfPhase, Reported,
       AbortsExplained, Clean, Phases, Changed

LEMMA InspectFrameKeeps ==
    ASSUME ScanInv, InspectFrame
    PROVE  ScanInv'
BY DEF InspectFrame, scan, ScanInv, KindOfPhase, ErrorsOfPhase, RowsOfPhase, Reported,
       AbortsExplained, Clean, Phases

LEMMA ScanInvNext ==
    TypeOK /\ InspectorInv /\ ScanInv /\ [ScanNext]_scanVars => ScanInv'
<1> SUFFICES ASSUME TypeOK, InspectorInv, ScanInv, [ScanNext]_scanVars PROVE ScanInv'
  OBVIOUS
<1> USE DEF vars, inspector, ScanInv, KindOfPhase, ErrorsOfPhase, RowsOfPhase, Reported,
            AbortsExplained, Clean, Phases, Changed, Unknown
<1>1. CASE OpenFile
  BY <1>1 DEF OpenFile
<1>2. CASE FileBatch
  BY <1>2 DEF FileBatch
<1>3. CASE FileBatchFails
  BY <1>3, AbortKeeps DEF FileBatchFails
<1>4. CASE InspectFrame
  BY <1>4, InspectFrameKeeps
<1>5. CASE InspectFails
  <2>1. Changed  BY <1>5 DEF InspectFails, InspectorInv
  <2>2. QED  BY <1>5, <2>1, AbortKeeps DEF InspectFails
<1>6. CASE InspectEnds
  BY <1>6 DEF InspectEnds
<1>7. CASE OpenFails
  BY <1>7, AbortKeeps DEF OpenFails
<1>8. CASE OpenStream
  BY <1>8 DEF OpenStream
<1>9. CASE DecodeBatch
  BY <1>9 DEF DecodeBatch
<1>10. CASE DecodeFails
  BY <1>10 DEF DecodeFails
<1>11. CASE DecodeEnds
  BY <1>11 DEF DecodeEnds
<1>12. CASE CheckRules
  BY <1>12 DEF CheckRules, InvalidIpcStream, LegacyIpcStreamFraming, FileErrors
<1>13. CASE Replace
  BY <1>13 DEF Replace
<1>14. CASE UNCHANGED scanVars
  BY <1>14 DEF scanVars, scan, InvalidIpcStream, LegacyIpcStreamFraming, FileErrors
<1>15. QED
  BY <1>1, <1>2, <1>3, <1>4, <1>5, <1>6, <1>7, <1>8, <1>9, <1>10, <1>11, <1>12, <1>13, <1>14
     DEF ScanNext

LEMMA ScanInvCorrect == ScanSpec => []ScanInv
BY ScanInvInit, ScanInvNext, InspectorInScan, PTL DEF ScanSpec

-----------------------------------------------------------------------------
\* scan_ipc reports rows only of an input with a schema in which neither the inspector
\* nor a reader found anything, also when the file is replaced between the opens.
THEOREM RowsOnlyWhenCleanCorrect == ScanSpec => []RowsOnlyWhenClean
<1>1. ScanInv => RowsOnlyWhenClean
  BY ErrorsOfFile DEF ScanInv, RowsOfPhase, RowsOnlyWhenClean
<1>2. QED  BY <1>1, ScanInvCorrect, PTL

\* A stream that nobody changes never aborts the lint run, whatever its bytes.
THEOREM StreamsNeverAbortCorrect == ScanSpec => []StreamsNeverAbort
<1>1. ScanInv => StreamsNeverAbort
  BY DEF ScanInv, AbortsExplained, StreamsNeverAbort
<1>2. QED  BY <1>1, ScanInvCorrect, PTL

\* AL016 reports every Arrow IPC stream that has no rows reported.  The format is part of
\* the statement because the rule passes over streams in files named as Feather.
THEOREM BrokenStreamsReportedCorrect ==
    ScanSpec => [](format = "ArrowIpc" => BrokenStreamsReported)
<1>1. ScanInv => (format = "ArrowIpc" => BrokenStreamsReported)
  <2> SUFFICES ASSUME ScanInv, format = "ArrowIpc",
                      phase = "linted", kind = "Stream", num_rows = Unknown
               PROVE  \E d \in diagnostics : d.rule = "AL016"
    BY DEF BrokenStreamsReported
  <2>1. FileErrors # {}
    BY ErrorsOfFile DEF ScanInv, RowsOfPhase
  <2>2. PICK e \in FileErrors : TRUE
    BY <2>1
  <2>3. [rule |-> "AL016", error |-> e] \in diagnostics
    BY <2>2 DEF ScanInv, Reported, InvalidIpcStream
  <2>4. QED  BY <2>3
<1>2. QED  BY <1>1, ScanInvCorrect, PTL

\* The verdict on the whole input: a stream that the inspector walked and no reader refused
\* is reported with its rows exactly when it is a valid stream.
THEOREM RowsMeanValid ==
    ScanSpec => [](phase = "linted" /\ kind = "Stream" /\ decode_error = "none"
                     => (num_rows # Unknown <=> ValidStream))
<1>1. InspectorInv /\ ScanInv
        => (phase = "linted" /\ kind = "Stream" /\ decode_error = "none"
              => (num_rows # Unknown <=> ValidStream))
  BY DEF InspectorInv, ScanInv, KindOfPhase, RowsOfPhase, Clean
<1>2. QED  BY <1>1, ScanInvCorrect, InspectorInScan, PTL

=============================================================================
