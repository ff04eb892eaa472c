------------------------------- MODULE BoundedLines -------------------------------
(***************************************************************************)
(* read_bounded_line (mcp/protocol.rs): requests are lines, read from a    *)
(* stream that arrives in buffers; a line longer than the limit is read to *)
(* its end and reported, and never kept.                                   *)
(***************************************************************************)
EXTENDS Naturals, Sequences, SequencesExt

CONSTANTS Newline, Return, MaxBytes  \* MAX_REQUEST_BYTES

ASSUME LinesAssumption == MaxBytes \in Nat

\* The pieces a buffer is consumed in: up to a newline, or to its end.
Extend(pieces, byte) ==
    IF pieces = <<>> \/ Last(Last(pieces)) = Newline THEN Append(pieces, <<byte>>)
    ELSE [pieces EXCEPT ![Len(pieces)] = Append(@, byte)]

Pieces(buffer) == FoldLeft(Extend, <<>>, buffer)

Chomp(line, byte) ==
    IF line # <<>> /\ Last(line) = byte THEN Front(line) ELSE line

TooLong    == [kind |-> "TooLong"]
Line(text) == [kind |-> "Line", text |-> text]

\* Whether a piece takes a line over the limit.
Over(line, piece) == Len(line) + Len(piece) > MaxBytes

\* One turn of the loop; r.read holds the lines that were returned.
Consume(r, piece) ==
    LET over == r.tooLong \/ Over(r.line, piece)
        line == IF over THEN <<>> ELSE r.line \o piece
    IN  IF Last(piece) = Newline
        THEN [line |-> <<>>, tooLong |-> FALSE,
              read |-> Append(r.read,
                         IF over THEN TooLong ELSE Line(Chomp(Chomp(line, Newline), Return)))]
        ELSE [r EXCEPT !.line = line, !.tooLong = over]

\* The stream ends: an unfinished line counts, as it is.
LinesRead(buffers) ==
    LET r == FoldLeft(Consume, [line |-> <<>>, tooLong |-> FALSE, read |-> <<>>],
                      FlattenSeq([b \in DOMAIN buffers |-> Pieces(buffers[b])]))
    IN  IF r.tooLong THEN Append(r.read, TooLong)
        ELSE IF r.line # <<>> THEN Append(r.read, Line(r.line))
        ELSE r.read
-------------------------------------------------------------------------------
\* The reference: the stream is cut at its newlines, and each line judged whole.
Judged(piece) ==
    IF Len(piece) > MaxBytes THEN TooLong
    ELSE Line(IF Last(piece) = Newline THEN Chomp(Chomp(piece, Newline), Return) ELSE piece)

LinesOf(stream) == LET pieces == Pieces(stream) IN [i \in DOMAIN pieces |-> Judged(pieces[i])]

\* Each line is taken or refused by its own length, wherever the buffers end:
\* one too long does not take the next one with it, and none is cut in two.
LinesAreWhole(buffers) == LinesRead(buffers) = LinesOf(FlattenSeq(buffers))
================================================================================
