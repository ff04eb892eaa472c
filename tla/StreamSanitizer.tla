----------------------------- MODULE StreamSanitizer -----------------------------
(***************************************************************************)
(* StreamSanitizer (runtime/sanitize.rs): what a child process writes is   *)
(* passed on in chunks, as the reads happen to cut it, without terminal    *)
(* control sequences and with every secret replaced.  Bytes are one-letter *)
(* strings; ESC, BEL, NUL and ST (the backslash that ends a string) are    *)
(* members of the alphabet like any other.                                 *)
(***************************************************************************)
EXTENDS Sequences, SequencesExt

CONSTANTS Esc, Bel, Backslash, Redacted

Finals   == {"[", "]", "P", "m", "a", "b", Backslash}  \* 0x40 to 0x7e
Controls == {Esc, Bel}                                 \* below 0x20, and not white space

\* The mark that replaces a secret is none of the bytes.
ASSUME SanitizerAssumption == Redacted \notin Finals \cup Controls

\* What a byte does to the state of the escape sequence parser.
NextAnsi(ansi, byte) ==
    CASE ansi = "Text"   -> IF byte = Esc THEN "Escape" ELSE "Text"
      [] ansi = "Escape" -> CASE byte = "[" -> "Csi"
                              [] byte = "]" -> "Osc"
                              [] byte = "P" -> "ControlString"
                              [] OTHER      -> "Text"
      [] ansi = "Csi"    -> IF byte \in Finals THEN "Text" ELSE "Csi"
      [] ansi = "Osc"    -> CASE byte = Bel -> "Text"
                              [] byte = Esc -> "OscEscape"
                              [] OTHER      -> "Osc"
      [] ansi = "ControlString" -> IF byte = Esc THEN "ControlEscape" ELSE "ControlString"
      [] OTHER -> CASE byte = Backslash -> "Text"  \* OscEscape, ControlEscape
                    [] byte = Esc       -> ansi
                    [] OTHER -> IF ansi = "OscEscape" THEN "Osc" ELSE "ControlString"

Feed(s, byte) ==
    [s EXCEPT !.ansi    = NextAnsi(@, byte),
              !.pending = IF s.ansi = "Text" /\ byte \notin Controls THEN Append(@, byte) ELSE @]

StartsAt(text, i, word) ==
    /\ i + Len(word) <= Len(text)
    /\ \A k \in 1 .. Len(word) : text[i + k] = word[k]

\* The secrets are tried from the longest to the shortest.
SecretAt(secrets, text, i) ==
    LET found == {s \in secrets : StartsAt(text, i, s)}
    IN  IF found = {} THEN 0
        ELSE CHOOSE n \in {Len(s) : s \in found} : \A s \in found : Len(s) <= n

\* Deliberate defect: one byte too few is kept back.
RetainLess(secrets) ==
    IF secrets = {} THEN 0
    ELSE LET longest == CHOOSE n \in {Len(s) : s \in secrets} : \A s \in secrets : Len(s) <= n
         IN  IF longest < 2 THEN 0 ELSE longest - 2

\* What may still become the longest secret is kept back.
Retain(secrets) ==
    IF secrets = {} THEN 0
    ELSE (CHOOSE n \in {Len(s) : s \in secrets} : \A s \in secrets : Len(s) <= n) - 1

\* drain_redacted: what is written of pending before limit, and how far that
\* goes, which is beyond the limit when a secret starts before it.
Redact(secrets, pending, d, i) ==
    IF i < d.consumed THEN d
    ELSE LET n == SecretAt(secrets, pending, i)
         IN  [out      |-> Append(d.out, IF n = 0 THEN pending[i + 1] ELSE Redacted),
              consumed |-> i + (IF n = 0 THEN 1 ELSE n)]

Drain(secrets, pending, limit) ==
    FoldLeft(LAMBDA d, i : Redact(secrets, pending, d, i - 1),
             [out |-> <<>>, consumed |-> 0], [i \in 1 .. limit |-> i])

Drained(secrets, s, limit) ==
    LET d == Drain(secrets, s.pending, limit)
    IN  [s EXCEPT !.out = @ \o d.out, !.pending = SubSeq(@, d.consumed + 1, Len(@))]

Push(secrets, s, bytes) ==
    LET fed == FoldLeft(Feed, s, bytes)
        n   == Len(fed.pending)
    IN  Drained(secrets, fed, IF n <= Retain(secrets) THEN 0 ELSE n - Retain(secrets))

NewSanitizer == [ansi |-> "Text", pending |-> <<>>, out |-> <<>>]

\* What is passed on of a stream that arrives in chunks, with all of them and
\* with finish after the last.
Shown(secrets, chunks)     == FoldLeft(LAMBDA s, c : Push(secrets, s, c), NewSanitizer, chunks).out
Sanitized(secrets, chunks) ==
    LET s == FoldLeft(LAMBDA t, c : Push(secrets, t, c), NewSanitizer, chunks)
    IN  Drained(secrets, s, Len(s.pending)).out
-------------------------------------------------------------------------------
\* The reference: of the visible text, cut at the leftmost and longest secrets.
Visible(text) == FoldLeft(Feed, NewSanitizer, text).pending

Holds(text, word) == \E i \in 0 .. Len(text) - 1 : StartsAt(text, i, word)

\* However a stream is cut: what is passed on is what would be if it were read
\* at once, at every moment a prefix of it, and shows no secret; so that no two
\* reads together give away what each of them hides.
CutsDoNotMatter(secrets, chunks) ==
    LET text  == FlattenSeq(chunks)
        whole == Sanitized(secrets, <<text>>)
    IN  /\ Sanitized(secrets, chunks) = whole
        /\ IsPrefix(Shown(secrets, chunks), whole)
        /\ secrets = {} => whole = Visible(text)
        /\ \A word \in secrets : ~Holds(whole, word)
================================================================================
