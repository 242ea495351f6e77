------------------------------- MODULE Tokenizer -------------------------------
(***************************************************************************)
(* GetToken of src/tokenizer.c: the type of the token that starts at a     *)
(* place of a line, and where it ends.  Line and column numbers and the    *)
(* value of a number are left out: no caller reads them.                   *)
(***************************************************************************)
EXTENDS Integers, Sequences, FiniteSetsExt

CONSTANTS
    Char,       \* the characters of a line
    Alpha,      \* those for which IsAlpha holds
    Digit       \* those for which IsNumber holds

\* NUL ends a string of C.
ASSUME CharAssumption == "NUL" \notin Char

TokenTypes ==
    {"EndOfStream", "String", "Space", "EndOfLine", "Comment", "Identifier", "Number", "Unknown",
     "OpenParen", "CloseParen", "OpenBrace", "CloseBrace", "OpenBracket", "CloseBracket",
     "Asterisk", "Plus", "Percent", "Other"}

Space == {" ", "HT", "VT", "FF"}
EndOfLine == {"CR", "LF"}

\* The characters that are a token by themselves.
Single ==
    [c \in {"(", ")", ":", ";", "*", "[", "]", "{", "}", "=", ",", "|", "#", "<", ">", "?",
            "@", "%", "+"} |->
        CASE c = "(" -> "OpenParen"   [] c = ")" -> "CloseParen"
          [] c = "[" -> "OpenBrace"   [] c = "]" -> "CloseBrace"
          [] c = "{" -> "OpenBracket" [] c = "}" -> "CloseBracket"
          [] c = "*" -> "Asterisk"    [] c = "+" -> "Plus"
          [] c = "%" -> "Percent"     [] OTHER   -> "Other"]

IdentifierStart == Alpha \cup {".", "/", "BACKSLASH", "$"}
IdentifierPart == Alpha \cup Digit \cup {"_", ".", "/", "-", "+", "="}

\* The characters c for which IsNumber(c - '0') holds: the backquote and letters
\* from a to i, no digit (line 307).
FractionPart == {"BACKQUOTE", "a", "b", "c", "d", "e", "f", "g", "h", "i"}

\* The character at a place, NUL behind the line.
At(line, p) == IF p <= Len(line) THEN line[p] ELSE "NUL"

TokenType(line, p) ==
    LET c == At(line, p) IN
    CASE c = "NUL"                                   -> "EndOfStream"
      [] c \in DOMAIN Single                         -> Single[c]
      [] c = "QUOTE"                                 -> "String"
      [] c \in Space                                 -> "Space"
      [] c \in EndOfLine                             -> "EndOfLine"
      [] c = "/" /\ At(line, p + 1) \in {"/", "*"}   -> "Comment"
      [] c \in IdentifierStart
            /\ ~(c = "/" /\ At(line, p + 1) \in {"/", "*"}) -> "Identifier"
      [] c \in Digit                                 -> "Number"
      [] OTHER                                       -> "Unknown"

\* The first place from p on whose character is not in the set.
Past(line, p, set) == Min({q \in p..(Len(line) + 1) : At(line, q) \notin set} \cup {Len(line) + 1})

\* The place behind the closing quote, or behind the line.
StringEnd(line, p) ==
    LET end[q \in p..(Len(line) + 2)] ==
            CASE q > Len(line)                                        -> Len(line) + 1
              [] q <= Len(line) /\ line[q] = "QUOTE"                  -> q + 1
              [] q < Len(line) /\ line[q] = "BACKSLASH"                      -> end[q + 2]
              [] OTHER                                                -> end[q + 1]
    IN end[p]

\* A comment ends with its line, or with "*/".  The character behind the two it
\* begins with is passed over unseen: "/**/" is not ended by its own "*/", and of
\* an empty "//" the end of the line is a part.
CommentEnd(line, p) ==
    LET ends == IF At(line, p + 1) = "/"
                THEN {q \in (p + 3)..Len(line) : At(line, q) \in EndOfLine}
                ELSE {q + 2 : q \in {i \in (p + 3)..Len(line) : At(line, i) = "*" /\ At(line, i + 1) = "/"}}
    IN  Min(ends \cup {Len(line) + 1})

NumberEnd(line, p) ==
    LET dot == Past(line, p, Digit)
    IN  IF At(line, dot) = "." THEN Past(line, dot + 1, FractionPart) ELSE dot

\* The place behind the token at p.
TokenEnd(line, p) ==
    LET type == TokenType(line, p) IN
    CASE type = "EndOfStream" -> p
      [] type = "String"      -> StringEnd(line, p + 1)
      [] type = "Space"       -> Past(line, p + 1, Space)
      [] type = "EndOfLine"   -> IF <<At(line, p), At(line, p + 1)>> \in
                                        {<<"CR", "LF">>, <<"LF", "CR">>} THEN p + 2 ELSE p + 1
      [] type = "Comment"     -> CommentEnd(line, p)
      [] type = "Identifier"  -> Past(line, p + 1, IdentifierPart)
      [] type = "Number"      -> NumberEnd(line, p + 1)
      [] OTHER                -> p + 1

\* The tokens of a line, each with its type and text.
Tokens(line) ==
    LET from[p \in 1..(Len(line) + 1)] ==
            IF p > Len(line) THEN <<>>
            ELSE <<[type |-> TokenType(line, p), text |-> SubSeq(line, p, TokenEnd(line, p) - 1)]>>
                    \o from[TokenEnd(line, p)]
    IN from[1]

\* What GetToken returns behind the last of them.
EndOfStream == [type |-> "EndOfStream", text |-> <<>>]

\* The token at a place.
Nth(tokens, k) == IF k <= Len(tokens) THEN tokens[k] ELSE EndOfStream
=============================================================================
