----------------------------- MODULE MCIpcScan -----------------------------
(* Small streams for TLC, through the inspector and through scan_ipc:      *)
(* sizes on and off the 4- and 8-byte boundaries, a metadata limit of 16   *)
(* bytes in place of 64 MiB.                                               *)
EXTENDS IpcScan

MCFileSizes       == {0, 3, 7, 12, 16, 28, 36}
MCMetadataLengths == {0, 8, 12, 24}
MCBodyLengths     == {-16, 0, 4, 8}
=============================================================================
