---------------------------- MODULE MCScanState ----------------------------
(* Scanner runs for TLC.  Files are interchangeable, and processes. *)
EXTENDS ScanState, TLC

Symmetry == Permutations(Files) \cup Permutations(Scanners)
=============================================================================
