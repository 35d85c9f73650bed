------------------------------ MODULE Chunker ------------------------------
(***************************************************************************)
(* FixedSizeChunker (pkg/files/chunker.go) as a pure function: a text is   *)
(* its length in runes and the set of positions that hold white space; a   *)
(* chunk is the half-open range [start, end) it is cut from.               *)
(***************************************************************************)
EXTENDS Integers, Sequences, FiniteSets

\* Sizes are configured in tokens of about four runes.
ChunkSize(maxTokens) == 4 * (IF maxTokens <= 0 THEN 800 ELSE maxTokens)

ChunkOverlap(tokens) == 4 * (IF tokens < 0 THEN 0 ELSE tokens)

Chunk(start, end) == [start |-> start, end |-> end]

(***************************************************************************)
(* Where a chunk that starts at pos ends: at the text's end, or at the     *)
(* last white space of the second half of the window, or at the window's   *)
(* end.                                                                    *)
(***************************************************************************)
ChunkEnd(pos, total, spaces, size) ==
    LET limit == pos + size
        breaks == {i \in spaces : pos + (size \div 2) < i /\ i <= limit}
    IN  IF limit >= total THEN total
        ELSE IF breaks = {} THEN limit
        ELSE CHOOSE i \in breaks : \A j \in breaks : j <= i

\* The step to the next chunk: back by the overlap, but at least one rune.
Advance(pos, end, overlap) ==
    IF end - pos <= overlap THEN 1 ELSE (end - pos) - overlap

\* The chunks of a text, as a recursive function of the position.
Chunks(total, spaces, size, overlap) ==
    LET From[pos \in Nat] ==
          IF pos >= total THEN << >>
          ELSE LET end == ChunkEnd(pos, total, spaces, size)
               IN  <<Chunk(pos, end)>>
                   \o From[pos + Advance(pos, end, overlap)]
    IN  From[0]

-----------------------------------------------------------------------------
(***************************************************************************)
(* What the users of the chunker rely on.                                  *)
(***************************************************************************)

\* No rune of a text is lost, chunks move forward and keep the size limit,
\* and a chunk shares at least the overlap with the one before unless the
\* window was shorter than that (FixedSizeChunker.Chunk).
ChunksOK(total, spaces, size, overlap) ==
    LET chunks == Chunks(total, spaces, size, overlap)
    IN  /\ UNION {c.start .. c.end - 1 : c \in {chunks[i] : i \in DOMAIN chunks}}
             = 0 .. total - 1
        /\ \A i \in DOMAIN chunks :
             /\ chunks[i].end - chunks[i].start \in 1 .. size
             /\ i > 1 =>
                  LET prev == chunks[i - 1]
                  IN  /\ chunks[i].start > prev.start
                      /\ chunks[i].start <= prev.end
                      /\ chunks[i].end >= prev.end
                      /\ prev.end - prev.start > overlap
                           => prev.end - chunks[i].start = overlap

=============================================================================
