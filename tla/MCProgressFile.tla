-------------------------- MODULE MCProgressFile --------------------------
(* Small instances of ProgressFile for TLC. *)
EXTENDS ProgressFile, TLC

CONSTANTS bookA, bookB, bookC, shared

\* The names older versions gave to bookA and bookB collide; bookC never had another name.
MCBooks == {bookA, bookB, bookC}
MCOldPath == (bookA :> shared) @@ (bookB :> shared) @@ (bookC :> NoPath)
MCPositions == {0, 1, 2}
=============================================================================
