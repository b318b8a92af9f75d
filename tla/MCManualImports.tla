-------------------------- MODULE MCManualImports ---------------------------
(* Small instances of ManualImports for TLC. *)
EXTENDS ManualImports, TLC
=============================================================================
