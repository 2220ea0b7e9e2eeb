------------------------- MODULE MCPlaybackManager -------------------------
(* Small instances of PlaybackManager for TLC. *)
EXTENDS PlaybackProperties, TLC

CONSTANTS b1, c1, c2

OneBook == {b1}
NoneShared == {}
Size3 == [b \in Books |-> 3]
Size1 == [b \in Books |-> 1]

\* Every offset starts a rune, or one rune is two bytes long: the first at first,
\* and another once the file was edited.
AllOffsets == [b \in Books |-> [v \in Versions |-> 0..Size[b]]]
SplitRune == [b \in Books |-> [v \in Versions |->
                                 (0..Size[b]) \ {IF v = 0 THEN 1 ELSE 2}]]

\* The calls are interchangeable.
CallSymmetry == Permutations(Calls)
=============================================================================
