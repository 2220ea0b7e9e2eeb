---------------------------- MODULE MCCliReader ----------------------------
(* Small instances of CliReader for TLC. *)
EXTENDS CliReader, TLC

\* The book, a version as long as the first one, and an emptied one.
MCSize == (0 :> 4) @@ (1 :> 4) @@ (2 :> 0)
=============================================================================
