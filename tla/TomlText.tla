-------------------------------- MODULE TomlText --------------------------------
(***************************************************************************)
(* The strings of .jalon/agent.toml: what agent/toml.go reads in the text  *)
(* to the right of an = sign, comment included.  A text is a sequence of   *)
(* marks and words; blanks, which TrimSpace removes, are left out.         *)
(***************************************************************************)
EXTENDS Naturals, Sequences, SequencesExt

Basic == "\""      \* the two quotes, the backslash and the sign of a comment
Literal == "'"
Escape == "\\"
Hash == "#"
Quote == {Basic, Literal}
Escapable == {Basic, Escape, "n", "t"}

\* One more mark of a line: the quote that is open, and whether the next mark is
\* escaped.
Scan(was, c) ==
  IF was.escaped THEN [was EXCEPT !.escaped = FALSE]
  ELSE CASE was.quote = Basic /\ c = Escape -> [was EXCEPT !.escaped = TRUE]
         [] was.quote # "" /\ c = was.quote -> [was EXCEPT !.quote = ""]
         [] was.quote = "" /\ c \in Quote -> [was EXCEPT !.quote = c]
         [] OTHER -> was

\* Where a text stands after its first n marks.
Inside(text) ==
  LET after[n \in 0..Len(text)] ==
        IF n = 0 THEN [quote |-> "", escaped |-> FALSE] ELSE Scan(after[n - 1], text[n])
  IN after

\* The marks # that are no data: outside any string.
Comments(text) ==
  {n \in 1..Len(text) : text[n] = Hash /\ Inside(text)[n - 1].quote = ""}

\* MUTANT of strip: the first # of the line, as strings.Cut would have it.
stripAtHash(text) ==
  LET hashes == {n \in 1..Len(text) : text[n] = Hash}
  IN IF hashes = {} THEN text
     ELSE SubSeq(text, 1, (CHOOSE n \in hashes : \A k \in hashes : n <= k) - 1)

strip(text) ==
  IF Comments(text) = {} THEN text
  ELSE SubSeq(text, 1, (CHOOSE n \in Comments(text) : \A k \in Comments(text) : n <= k) - 1)

NeverClosed(text) == Comments(text) = {} /\ Inside(text)[Len(text)].quote # ""

\* The marks of a body that begin an escape.
Escapes(body) ==
  LET begins[n \in 0..Len(body)] ==
        IF n = 0 THEN FALSE ELSE body[n] = Escape /\ ~ begins[n - 1]
  IN {n \in 1..Len(body) : begins[n]}

\* What an escape stands for: one character, which for the last two is none of the
\* marks above.
Char(e) == CASE e = "n" -> "\\n" [] e = "t" -> "\\t" [] OTHER -> e

\* A body read with its escapes at the marks E.
Unescaped(body, E) ==
  LET upto[n \in 0..Len(body)] ==
        IF n = 0 THEN <<>>
        ELSE IF n \in E THEN upto[n - 1]
        ELSE Append(upto[n - 1], IF n - 1 \in E THEN Char(body[n]) ELSE body[n])
  IN upto[Len(body)]

\* What is between the quotes of a text.
Body(text) == SubSeq(text, 2, Len(text) - 1)

NoString(text) ==
  \/ Len(text) < 2 \/ text[1] \notin Quote \/ text[Len(text)] # text[1]
  \/ text[1] = Literal /\ Contains(Body(text), Literal)
  \/ /\ text[1] = Basic
     /\ \E n \in Escapes(Body(text)) :
          n = Len(Body(text)) \/ Body(text)[n + 1] \notin Escapable

str(text) ==
  IF text[1] = Literal THEN Body(text) ELSE Unescaped(Body(text), Escapes(Body(text)))

\* The texts that are refused, and what the others are read as.
Unreadable(text) == NeverClosed(text) \/ NoString(strip(text))
ReadString(text) == str(strip(text))

-----------------------------------------------------------------------------
(* The grammar those readers stand for, as its comment gives it, without reading *)
(* from left to right: a text means what some way to cut it means.               *)

\* A basic string's body is plain characters and escapes, which begin at E.
CutAt(body, E) ==
  \A n \in DOMAIN body :
    IF n \in E THEN body[n] = Escape /\ n + 1 \in DOMAIN body \ E /\ body[n + 1] \in Escapable
    ELSE n - 1 \in E \/ body[n] \notin {Basic, Escape}

Meanings(text) ==
  LET ends(q) == {n \in 2..Len(text) : /\ text[1] = q /\ text[n] = q
                                       /\ n = Len(text) \/ text[n + 1] = Hash}
      body(n) == SubSeq(text, 2, n - 1)
  IN {body(n) : n \in {n \in ends(Literal) : ~ Contains(body(n), Literal)}}
     \cup UNION {{Unescaped(body(n), E) : E \in {E \in SUBSET DOMAIN body(n) : CutAt(body(n), E)}}
                 : n \in ends(Basic)}
=============================================================================
