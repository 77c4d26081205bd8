------------------------------ MODULE LintGate ------------------------------
(***************************************************************************)
(* What a caller of the linter relies on, a CI job say: one report decides *)
(* the run, or none if it aborts, and the process exits with a status that *)
(* says whether this very report holds a diagnostic at or above the        *)
(* failure threshold.  LintRun implements it.                              *)
(***************************************************************************)
EXTENDS Naturals

CONSTANTS
    Diagnostics,  \* what a report may hold
    RankOf        \* the rank of a diagnostic's severity

VARIABLES
    status,       \* "running", "reported", "passed" or "failed"
    shown,        \* the diagnostics of the report that decides
    threshold     \* rank from which a diagnostic fails the run

vars == <<status, shown, threshold>>

Init ==
    /\ status = "running"
    /\ shown = {}
    /\ threshold = 0

Report ==
    /\ status = "running"
    /\ shown' \in SUBSET Diagnostics
    /\ threshold' \in 1..4
    /\ status' = "reported"

Decide ==
    /\ status = "reported"
    /\ status' = IF \E d \in shown : RankOf[d] >= threshold THEN "failed" ELSE "passed"
    /\ UNCHANGED <<shown, threshold>>

Abort ==
    /\ status = "running"
    /\ status' = "failed"
    /\ UNCHANGED <<shown, threshold>>

Next == Report \/ Decide \/ Abort

Spec == Init /\ [][Next]_vars
=============================================================================
