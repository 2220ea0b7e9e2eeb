--------------------------- MODULE MCChunkReader ---------------------------
(* Small instances of ChunkReader for TLC. *)
EXTENDS ChunkReader, TLC

MCBytes == [letter |-> 1, wide |-> 2, space |-> 1, stop |-> 1, bad |-> 1]
MCPhrases == {<<>>, <<"wide", "space">>}
=============================================================================
