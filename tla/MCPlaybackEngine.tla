-------------------------- MODULE MCPlaybackEngine --------------------------
(* Small instances of PlaybackEngine for TLC. *)
EXTENDS MCPlaybackManager, PlaybackEngine

\* Two chunks, so that a Stop may come between two Speaks.
Size2 == [b \in Books |-> 2]
=============================================================================
