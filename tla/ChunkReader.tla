---------------------------- MODULE ChunkReader ----------------------------
(***************************************************************************)
(* StreamingReader of src/internal/chunk/reader.go: a reader of a text from *)
(* a byte position on, a saved one or one FindPhraseOffset has found.  Each *)
(* call of Next returns up to limit runes, cut after a sentence or a space; *)
(* what it has read beyond the cut is pending for the next call.  A text is *)
(* a sequence of kinds of runes.  The readers of PlaybackManager and        *)
(* CliReader rely on the properties below.                                  *)
(***************************************************************************)
EXTENDS Integers, Sequences, FiniteSetsExt

CONSTANTS
    Bytes,      \* Bytes[k]: length of a rune of kind k; "bad" is not UTF-8
    MaxRunes,   \* bound: length of a text
    Limits,     \* chunk sizes
    Phrases     \* phrases given with -start; the empty one is none

Kinds == DOMAIN Bytes

ASSUME ChunkAssumption ==
    /\ {"letter", "space", "stop", "bad"} \subseteq Kinds
    /\ \A k \in Kinds : Bytes[k] \in Nat \ {0}
    /\ MaxRunes \in Nat
    /\ Limits \subseteq Nat \ {0}
    /\ Phrases \subseteq Seq(Kinds \ {"bad"})

VARIABLES
    text,       \* the book
    phrase,     \* what to start with
    limit,      \* StreamingReader.limit
    step,       \* "open", "read", "end" (io.EOF), "failed"
    nextByte,   \* StreamingReader.nextByte
    pending,    \* StreamingReader.pending from pendingI on
    chunk,      \* the runes of the last chunk
    start,      \* where the reader began
    spoken      \* the runes of all chunks

vars == <<text, phrase, limit, step, nextByte, pending, chunk, start, spoken>>

Texts == UNION {[1..n -> Kinds] : n \in 0..MaxRunes}

-----------------------------------------------------------------------------
(* The text as bytes *)

\* Where the rune after the first i begins.
Offset(t, i) ==
    LET upTo[n \in 0..Len(t)] == IF n = 0 THEN 0 ELSE upTo[n - 1] + Bytes[t[n]]
    IN upTo[i]
Size(t) == Offset(t, Len(t))

\* readChunkRune at each rune of t.
Runes(t) == [i \in 1..Len(t) |-> [kind |-> t[i], at |-> Offset(t, i - 1)]]
Boundaries(t) == {Offset(t, i) : i \in 0..Len(t)}

\* How many runes begin before byte b.
Before(t, b) == Cardinality({i \in DOMAIN t : Offset(t, i - 1) < b})

MutantIsFileUTF8Boundary(t, b) == TRUE   \* mutant: the byte is not looked at
IsFileUTF8Boundary(t, b) == b \in Boundaries(t)

\* What remains from byte b on; in the middle of a rune it is not UTF-8.
From(t, b) ==
    (IF b \in Boundaries(t) THEN <<>> ELSE <<[kind |-> "bad", at |-> b]>>)
        \o SubSeq(Runes(t), Before(t, b) + 1, Len(t))

\* FindPhraseOffset: the window over the last Len(p) runes, up to the first
\* that is not UTF-8.
Matches(t, p, i) ==
    /\ i >= Len(p)
    /\ SubSeq(t, i - Len(p) + 1, i) = p
    /\ \A j \in 1..i : t[j] # "bad"

Found(t, p, i) == Offset(t, i - Len(p))

\* resolveStartPosition: a book without the phrase is read from its beginning,
\* and a rune that is not UTF-8 ends the search.
PhraseOffsets(t, p) ==
    LET ends == {i \in DOMAIN t : Matches(t, p, i)} IN
    IF p # <<>> /\ ends # {} THEN {Found(t, p, Min(ends))}
    ELSE IF p # <<>> /\ \E i \in DOMAIN t : t[i] = "bad" THEN {}
    ELSE {0}

-----------------------------------------------------------------------------
(* Next *)

\* Runes taken until the limit, the end, or one that is not UTF-8.
Rest == From(text, nextByte)
Wanted == Min({limit - Len(pending), Len(Rest)})
Read == SubSeq(Rest, 1, Wanted)
Invalid == \E i \in DOMAIN Read : Read[i].kind = "bad"
Items == pending \o Read

EndOf(runes) ==
    IF runes = <<>> THEN nextByte
    ELSE LET last == runes[Len(runes)] IN last.at + Bytes[last.kind]

MutantMinCut(n) == Max({n \div 2, 1}) + 1   \* mutant: off by one
MinCut(n) == Max({n \div 2, 1})

\* smartChunkCut: after the last sentence in the second half, or else after the
\* last space there.  Index i of the code is i + 1 here.
CutsAfter(items, kind) ==
    {i \in (MinCut(Len(items)) + 1)..Len(items) : items[i].kind = kind}
SmartCut(items) ==
    LET stops == CutsAfter(items, "stop")
        spaces == CutsAfter(items, "space")
    IN IF Len(items) > 1 /\ stops # {} THEN Max(stops)
       ELSE IF Len(items) > 1 /\ spaces # {} THEN Max(spaces)
       ELSE Len(items)

\* mutant: the rune after the cut is lost
MutantKept(items) == SubSeq(items, SmartCut(items) + 2, Len(items))
Kept(items) == SubSeq(items, SmartCut(items) + 1, Len(items))

NextChunk ==
    /\ step = "read"
    /\ Items # <<>> /\ ~Invalid
    /\ nextByte' = EndOf(Read)
    /\ pending' = Kept(Items)
    /\ chunk' = SubSeq(Items, 1, SmartCut(Items))
    /\ spoken' = spoken \o chunk'
    /\ UNCHANGED <<text, phrase, limit, step, start>>

AtEnd ==
    /\ step = "read"
    /\ Items = <<>>
    /\ step' = "end"
    /\ UNCHANGED <<text, phrase, limit, nextByte, pending, chunk, start, spoken>>

\* The chunk that holds the rune is not returned.
Fail ==
    /\ step = "read"
    /\ Invalid
    /\ step' = "failed"
    /\ UNCHANGED <<text, phrase, limit, nextByte, pending, chunk, start, spoken>>

-----------------------------------------------------------------------------

\* The reader begins at the phrase, or at a position that IsFileUTF8Boundary has
\* accepted.
Open ==
    /\ step = "open"
    /\ \E b \in 0..Size(text) :
         /\ IF phrase # <<>> THEN b \in PhraseOffsets(text, phrase)
                             ELSE IsFileUTF8Boundary(text, b)
         /\ start' = b /\ nextByte' = b
    /\ step' = "read"
    /\ UNCHANGED <<text, phrase, limit, pending, chunk, spoken>>

\* The search has failed: the program ends before it reads.
SearchFails ==
    /\ step = "open" /\ PhraseOffsets(text, phrase) = {}
    /\ step' = "failed"
    /\ UNCHANGED <<text, phrase, limit, nextByte, pending, chunk, start, spoken>>

Init ==
    /\ text \in Texts /\ phrase \in Phrases /\ limit \in Limits
    /\ step = "open"
    /\ nextByte = 0 /\ start = 0
    /\ pending = <<>> /\ chunk = <<>> /\ spoken = <<>>

ReaderStep == Open \/ SearchFails \/ NextChunk \/ AtEnd \/ Fail
Next == ReaderStep
Spec == Init /\ [][Next]_vars
FairSpec == Spec /\ WF_vars(ReaderStep)

-----------------------------------------------------------------------------
(* Properties *)

\* What was returned and what is pending is the text from where the reader began
\* to where it has read, rune for rune, and at the end it is the whole text:
\* nothing is skipped, repeated or out of its place, whatever the cuts.
Between(from, to) ==
    SubSeq(Runes(text), Before(text, from) + 1, Before(text, to))
NothingSkippedOrRepeated ==
    /\ spoken \o pending = Between(start, nextByte)
    /\ step = "end" => spoken = Between(start, Size(text))

\* A chunk ends inside a word only if its second half has neither a sentence nor
\* a space to end with, and before the end of the text none is shorter than half
\* the limit or longer than the limit.
EndsWord(r) == r.kind \in {"stop", "space"}
ChunksEndWell ==
    chunk # <<>> =>
        LET n == Len(chunk) IN
        /\ n <= limit
        /\ EndOf(pending) = Size(text) \/ 2 * n >= limit
        /\ EndsWord(chunk[n]) \/
             \A i \in 1..n : i > n \div 2 /\ i > 1 => ~EndsWord(chunk[i])

\* A valid text is read to its end from any position that was accepted, and a
\* reader given a phrase reads that phrase first, or all of a book without it: no
\* chunk is empty, and no position is inside a rune.
StartsWithPhrase ==
    IF \E i \in DOMAIN text : Matches(text, phrase, i)
      THEN /\ Len(phrase) <= Len(spoken)
           /\ \A i \in DOMAIN phrase : spoken[i].kind = phrase[i]
      ELSE phrase # <<>> => spoken = Runes(text)
ReadsToTheEnd ==
    (\A i \in DOMAIN text : text[i] # "bad") ~> step = "end" /\ StartsWithPhrase
=============================================================================
