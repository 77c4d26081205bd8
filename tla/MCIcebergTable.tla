-------------------------- MODULE MCIcebergTable --------------------------
(* Tables of each format version with up to two snapshots, one branch or   *)
(* tag, and two transforms.                                                *)
EXTENDS IcebergTable

\* An ID that is used sooner or later, and one beyond all of them.
MCForeign == {1, 9}
=============================================================================
