-------------------------- MODULE MCLanceDataset --------------------------
(* Three versions are enough for a listing to miss both the version that   *)
(* is cleaned up and the one that took its place, with one more to follow. *)
(* Broken datasets have one fault or two.                                  *)
EXTENDS LanceDataset

MCFaults == Range(FaultOrder) \cup FileFaults

MCDamages == {{}} \cup {{f, g} : f, g \in MCFaults}
=============================================================================
