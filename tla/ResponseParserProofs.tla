------------------------- MODULE ResponseParserProofs -------------------------
(***************************************************************************)
(* Theorems about ResponseParser for lines of any length and text.  The    *)
(* lemmas about Tokenizer come first: from every place of a line there is  *)
(* a token, it ends behind that place, and so a line is a sequence of      *)
(* tokens.  The functions that are defined by recursion exist by           *)
(* RecursiveFunction, and that their values have a kind is shown for the   *)
(* last place that would not have it.                                      *)
(***************************************************************************)
EXTENDS ResponseParser, FiniteSetTheorems, DataLemmas

Token == [type : TokenTypes, text : Seq(Char)]

-------------------------------------------------------------------------------
(* Tokenizer *)

\* A line has NUL behind its end and nowhere else.
LEMMA AtFacts ==
    ASSUME NEW text \in Seq(Char), NEW p \in Nat, 1 <= p
    PROVE  /\ Len(text) \in Nat /\ At(text, p) \in Char \cup {"NUL"}
           /\ At(text, p) = "NUL" <=> p > Len(text)
<1>1. Len(text) \in Nat
  OBVIOUS
<1>2. CASE p <= Len(text)
  <2>1. p \in 1..Len(text)
    BY <1>1, <1>2
  <2>2. text[p] \in Char
    BY <2>1, ElementOfSeq
  <2>3. At(text, p) = text[p]
    BY <1>2 DEF At
  <2> QED
    BY <1>1, <1>2, <2>2, <2>3, CharAssumption
<1>3. CASE ~(p <= Len(text))
  <2>1. p > Len(text)
    BY <1>1, <1>3
  <2>2. At(text, p) = "NUL"
    BY <1>3 DEF At
  <2> QED
    BY <1>1, <2>1, <2>2
<1> QED
  BY <1>2, <1>3

\* Passing over characters of a set ends in the line or just behind it.
LEMMA PastFacts ==
    ASSUME NEW text \in Seq(Char), NEW p \in 1..(Len(text) + 1), NEW set
    PROVE  Past(text, p, set) \in p..(Len(text) + 1)
<1>1. Len(text) \in Nat
  OBVIOUS
<1> DEFINE P == {q \in p..(Len(text) + 1) : At(text, q) \notin set} \cup {Len(text) + 1}
<1>2. P \subseteq p..(Len(text) + 1) /\ P \subseteq Nat /\ P # {}
  BY <1>1
<1>3. Past(text, p, set) = Min(P)
  BY DEF Past
<1> HIDE DEF P
<1> QED
  BY <1>2, <1>3, MinFacts

\* A comment ends behind its first character.
LEMMA CommentFacts ==
    ASSUME NEW text \in Seq(Char), NEW p \in 1..Len(text), At(text, p + 1) \in {"/", "*"}
    PROVE  CommentEnd(text, p) \in (p + 1)..(Len(text) + 1)
<1>1. Len(text) \in Nat
  OBVIOUS
<1>2. p + 1 <= Len(text)
  <2>1. At(text, p + 1) # "NUL" /\ p + 1 \in Nat /\ 1 <= p + 1
    BY <1>1
  <2> QED
    BY <1>1, <2>1, AtFacts
<1> DEFINE I == {i \in (p + 3)..Len(text) : At(text, i) = "*" /\ At(text, i + 1) = "/"}
           ends == IF At(text, p + 1) = "/"
                   THEN {q \in (p + 3)..Len(text) : At(text, q) \in EndOfLine}
                   ELSE {q + 2 : q \in I}
           P == ends \cup {Len(text) + 1}
<1>3. ASSUME NEW q \in I PROVE q + 2 \in (p + 1)..(Len(text) + 1)
  <2>1. q \in (p + 3)..Len(text) /\ At(text, q + 1) # "NUL"
    OBVIOUS
  <2>2. q + 1 \in Nat /\ 1 <= q + 1
    BY <1>1, <2>1
  <2>3. ~(q + 1 > Len(text))
    BY <2>1, <2>2, AtFacts
  <2> QED
    BY <1>1, <2>1, <2>3
<1> HIDE DEF I
<1>4. ends \subseteq (p + 1)..(Len(text) + 1)
  BY <1>1, <1>3
<1>5. CommentEnd(text, p) = Min(P)
  BY DEF CommentEnd, I
<1> HIDE DEF ends
<1>6. P \subseteq (p + 1)..(Len(text) + 1) /\ P # {}
  <2>1. Len(text) + 1 \in (p + 1)..(Len(text) + 1)
    BY <1>1, <1>2
  <2> QED
    BY <1>4, <2>1
<1> HIDE DEF P
<1>7. P \subseteq Nat
  BY <1>1, <1>6
<1> QED
  BY <1>5, <1>6, <1>7, MinFacts

\* A number ends where its digits are looked for or later.
LEMMA NumberFacts ==
    ASSUME NEW text \in Seq(Char), NEW p \in 1..(Len(text) + 1)
    PROVE  NumberEnd(text, p) \in p..(Len(text) + 1)
<1>1. Len(text) \in Nat
  OBVIOUS
<1>2. PICK dot \in p..(Len(text) + 1) : dot = Past(text, p, Digit)
  BY PastFacts
<1>3. CASE At(text, dot) = "."
  <2>1. dot \in Nat /\ 1 <= dot /\ At(text, dot) # "NUL"
    BY <1>1, <1>3
  <2>2. dot + 1 \in 1..(Len(text) + 1)
    BY <1>1, <2>1, AtFacts
  <2>3. Past(text, dot + 1, FractionPart) \in (dot + 1)..(Len(text) + 1)
    BY <2>2, PastFacts
  <2>4. NumberEnd(text, p) = Past(text, dot + 1, FractionPart)
    BY <1>2, <1>3 DEF NumberEnd
  <2> QED
    BY <1>1, <2>3, <2>4
<1>4. CASE At(text, dot) # "."
  BY <1>2, <1>4 DEF NumberEnd
<1> QED
  BY <1>3, <1>4

\* A string ends behind its place, at the latest behind the line.
LEMMA StringFacts ==
    ASSUME NEW text \in Seq(Char), NEW p \in 1..(Len(text) + 1)
    PROVE  StringEnd(text, p) \in p..(Len(text) + 1)
<1>1. Len(text) \in Nat
  OBVIOUS
<1> DEFINE D == p..(Len(text) + 2)
           Ends == {q \in D : q > Len(text) \/ text[q] = "QUOTE"}
           given == [q \in D |-> IF q > Len(text) THEN Len(text) + 1 ELSE q + 1]
           next == [q \in D |-> IF q > Len(text) THEN q
                                ELSE IF q < Len(text) /\ text[q] = "BACKSLASH" THEN q + 2 ELSE q + 1]
           step == [q \in D |-> [v \in Nat |-> v]]
           Body(f, q) ==
             CASE q > Len(text)                                        -> Len(text) + 1
               [] q <= Len(text) /\ text[q] = "QUOTE"                  -> q + 1
               [] q < Len(text) /\ text[q] = "BACKSLASH"               -> f[q + 2]
               [] OTHER                                                -> f[q + 1]
           Choice == CHOOSE f : f = [q \in D |-> Body(f, q)]
<1>2. \A q \in D : \A f : Body(f, q) = IF q \in Ends THEN given[q] ELSE f[next[q]]
  BY <1>1
<1>3. \E f \in [D -> Nat] : f = [q \in D |-> Body(f, q)]
  <2>1. given \in [D -> Nat] /\ step \in [D -> [Nat -> Nat]]
    BY <1>1
  <2>2. next \in [D -> D]
    BY <1>1
  <2>3. \A q \in D : q \in Ends \/ next[q] > q
    BY <1>1
  <2>4. \A q \in D, v \in Nat : step[q][v] = v
    OBVIOUS
  <2>5. p \in Nat /\ Len(text) + 2 \in Nat
    BY <1>1
  <2> HIDE DEF Ends, given, next, step, Body
  <2>6. PICK f \in [D -> Nat] : \A q \in D : f[q] = IF q \in Ends THEN given[q] ELSE step[q][f[next[q]]]
    <3>1. Recursion(p, Len(text) + 2, Nat, Ends, given, next, step)
      BY <2>1, <2>2, <2>3, <2>5 DEF Recursion
    <3> QED
      BY <3>1, RecursiveFunction
  <2>7. ASSUME NEW q \in D PROVE f[q] = Body(f, q)
    <3>1. f[next[q]] \in Nat
      BY <2>2
    <3>2. step[q][f[next[q]]] = f[next[q]]
      BY <2>4, <3>1
    <3> QED
      BY <1>2, <2>6, <3>2
  <2>8. f = [q \in D |-> Body(f, q)]
    BY <2>7
  <2> QED
    BY <2>8
<1>4. StringEnd(text, p) = Choice[p]
  BY DEF StringEnd
<1>5. Choice = [q \in D |-> Body(Choice, q)]
  BY <1>3
<1> HIDE DEF Choice
<1>6. \A q \in D : Choice[q] = Body(Choice, q)
  BY <1>5
<1>7. \A q \in p..(Len(text) + 1) : Choice[q] \in q..(Len(text) + 1)
  <2> DEFINE T == {k \in Nat : \E q \in p..(Len(text) + 1) :
                      k = Len(text) + 1 - q /\ Choice[q] \notin q..(Len(text) + 1)}
  <2>1. SUFFICES ASSUME NEW q \in p..(Len(text) + 1), Choice[q] \notin q..(Len(text) + 1) PROVE FALSE
    OBVIOUS
  <2>2. Len(text) + 1 - q \in T
    BY <1>1, <2>1
  <2>3. T \subseteq Nat /\ T # {}
    BY <2>2
  <2>4. PICK k \in T : \A j \in T : k <= j
    BY <2>3, LeastNumber
  <2>5. PICK r \in p..(Len(text) + 1) : k = Len(text) + 1 - r /\ Choice[r] \notin r..(Len(text) + 1)
    OBVIOUS
  <2>6. ASSUME NEW s \in p..(Len(text) + 1), s > r PROVE Choice[s] \in s..(Len(text) + 1)
    <3>1. SUFFICES ASSUME Choice[s] \notin s..(Len(text) + 1) PROVE FALSE
      OBVIOUS
    <3>2. Len(text) + 1 - s \in T
      BY <1>1, <3>1
    <3>3. k <= Len(text) + 1 - s
      BY <2>4, <3>2
    <3> QED
      BY <1>1, <2>5, <2>6, <3>3
  <2>7. r \in D /\ r \in Nat
    BY <1>1
  <2>8. CASE r > Len(text)
    <3>1. Choice[r] = Len(text) + 1
      BY <1>6, <2>7, <2>8
    <3> QED
      BY <1>1, <2>5, <3>1
  <2>9. CASE ~(r > Len(text)) /\ text[r] = "QUOTE"
    <3>1. Choice[r] = r + 1
      BY <1>1, <1>6, <2>7, <2>9
    <3> QED
      BY <1>1, <2>5, <2>9, <3>1
  <2>10. CASE ~(r > Len(text)) /\ text[r] # "QUOTE" /\ r < Len(text) /\ text[r] = "BACKSLASH"
    <3>1. Choice[r] = Choice[r + 2]
      BY <1>1, <1>6, <2>7, <2>10
    <3>2. r + 2 \in p..(Len(text) + 1) /\ r + 2 > r
      BY <1>1, <2>7, <2>10
    <3>3. Choice[r + 2] \in (r + 2)..(Len(text) + 1)
      BY <2>6, <3>2
    <3> QED
      BY <1>1, <2>5, <3>1, <3>3
  <2>11. CASE ~(r > Len(text)) /\ text[r] # "QUOTE" /\ ~(r < Len(text) /\ text[r] = "BACKSLASH")
    <3>1. Choice[r] = Choice[r + 1]
      BY <1>1, <1>6, <2>7, <2>11
    <3>2. r + 1 \in p..(Len(text) + 1) /\ r + 1 > r
      BY <1>1, <2>7, <2>11
    <3>3. Choice[r + 1] \in (r + 1)..(Len(text) + 1)
      BY <2>6, <3>2
    <3> QED
      BY <1>1, <2>5, <3>1, <3>3
  <2> QED
    BY <2>8, <2>9, <2>10, <2>11
<1>8. p \in p..(Len(text) + 1)
  BY <1>1
<1> QED
  BY <1>4, <1>7, <1>8

\* There is a type for every character, that of the end for NUL only; a comment
\* begins with two characters.
LEMMA TypeFacts ==
    ASSUME NEW text \in Seq(Char), NEW p \in 1..Len(text)
    PROVE  /\ TokenType(text, p) \in TokenTypes \ {"EndOfStream"}
           /\ TokenType(text, p) = "Comment" => At(text, p + 1) \in {"/", "*"}
<1>1. At(text, p) # "NUL"
  <2>1. Len(text) \in Nat /\ p \in Nat /\ 1 <= p /\ ~(p > Len(text))
    OBVIOUS
  <2> QED
    BY <2>1, AtFacts
<1> DEFINE c == At(text, p)
           rest == CASE c = "QUOTE"                                 -> "String"
                     [] c \in Space                                 -> "Space"
                     [] c \in EndOfLine                             -> "EndOfLine"
                     [] c = "/" /\ At(text, p + 1) \in {"/", "*"}   -> "Comment"
                     [] c \in IdentifierStart
                           /\ ~(c = "/" /\ At(text, p + 1) \in {"/", "*"}) -> "Identifier"
                     [] c \in Digit                                 -> "Number"
                     [] OTHER                                       -> "Unknown"
<1>2. CASE c \in DOMAIN Single
  <2>1. Single[c] \in {"OpenParen", "CloseParen", "OpenBrace", "CloseBrace", "OpenBracket",
                       "CloseBracket", "Asterisk", "Plus", "Percent", "Other"}
    BY <1>2 DEF Single
  <2> QED
    BY <1>1, <1>2, <2>1 DEF TokenType, TokenTypes
<1>3. CASE c \notin DOMAIN Single
  BY <1>1, <1>3 DEF TokenType, TokenTypes
<1> QED
  BY <1>2, <1>3

\* A token has at least one character.
LEMMA EndFacts ==
    ASSUME NEW text \in Seq(Char), NEW p \in 1..Len(text)
    PROVE  TokenEnd(text, p) \in (p + 1)..(Len(text) + 1)
<1>1. Len(text) \in Nat /\ p + 1 \in 1..(Len(text) + 1) /\ p + 1 \in (p + 1)..(Len(text) + 1)
  OBVIOUS
<1>2. PICK type \in TokenTypes \ {"EndOfStream"} : type = TokenType(text, p)
  BY TypeFacts
<1>3. /\ StringEnd(text, p + 1) \in (p + 1)..(Len(text) + 1)
      /\ NumberEnd(text, p + 1) \in (p + 1)..(Len(text) + 1)
      /\ Past(text, p + 1, Space) \in (p + 1)..(Len(text) + 1)
      /\ Past(text, p + 1, IdentifierPart) \in (p + 1)..(Len(text) + 1)
  BY <1>1, StringFacts, NumberFacts, PastFacts
<1>4. CASE type = "Comment"
  <2>1. CommentEnd(text, p) \in (p + 1)..(Len(text) + 1)
    BY <1>2, <1>4, TypeFacts, CommentFacts
  <2> QED
    BY <1>2, <1>4, <2>1 DEF TokenEnd
<1>5. CASE type = "EndOfLine"
  <2>1. CASE <<At(text, p), At(text, p + 1)>> \in {<<"CR", "LF">>, <<"LF", "CR">>}
    <3>1. At(text, p + 1) # "NUL" /\ p + 1 \in Nat /\ 1 <= p + 1
      BY <2>1
    <3>2. ~(p + 1 > Len(text))
      BY <3>1, AtFacts
    <3>3. p + 2 \in (p + 1)..(Len(text) + 1)
      BY <1>1, <3>2
    <3>4. TokenEnd(text, p) = p + 2
      BY <1>2, <1>5, <2>1 DEF TokenEnd
    <3> QED
      BY <3>3, <3>4
  <2>2. CASE <<At(text, p), At(text, p + 1)>> \notin {<<"CR", "LF">>, <<"LF", "CR">>}
    <3>1. TokenEnd(text, p) = p + 1
      BY <1>2, <1>5, <2>2 DEF TokenEnd
    <3> QED
      BY <1>1, <3>1
  <2> QED
    BY <2>1, <2>2
<1>6. CASE type \notin {"Comment", "EndOfLine"}
  <2>1. TokenEnd(text, p) \in {StringEnd(text, p + 1), NumberEnd(text, p + 1),
            Past(text, p + 1, Space), Past(text, p + 1, IdentifierPart), p + 1}
    BY <1>2, <1>6 DEF TokenEnd
  <2> QED
    BY <1>1, <1>3, <2>1
<1> QED
  BY <1>4, <1>5, <1>6

\* A line is a sequence of tokens.
LEMMA TokensFacts ==
    ASSUME NEW text \in Seq(Char)
    PROVE  Tokens(text) \in Seq(Token)
<1>1. Len(text) \in Nat
  OBVIOUS
<1> DEFINE last == Len(text) + 1
           D == 1..last
           token == [p \in D |-> [type |-> TokenType(text, p),
                                  text |-> SubSeq(text, p, TokenEnd(text, p) - 1)]]
           Ends == {last}
           given == [p \in D |-> <<>>]
           next == [p \in D |-> IF p > Len(text) THEN p ELSE TokenEnd(text, p)]
           step == [p \in D |-> [s \in Seq(Token) |-> IF p > Len(text) THEN <<>> ELSE <<token[p]>> \o s]]
           Body(f, p) ==
             IF p > Len(text) THEN <<>>
             ELSE <<[type |-> TokenType(text, p), text |-> SubSeq(text, p, TokenEnd(text, p) - 1)]>>
                    \o f[TokenEnd(text, p)]
           Choice == CHOOSE f : f = [p \in D |-> Body(f, p)]
<1>2. ASSUME NEW p \in D, ~(p > Len(text))
      PROVE  /\ TokenEnd(text, p) \in (p + 1)..last
             /\ token[p] \in Token
  <2>1. p \in 1..Len(text)
    BY <1>1, <1>2
  <2>2. TokenEnd(text, p) \in (p + 1)..last
    BY <2>1, EndFacts
  <2>3. TokenType(text, p) \in TokenTypes
    BY <2>1, TypeFacts
  <2>4. SubSeq(text, p, TokenEnd(text, p) - 1) \in Seq(Char)
    <3>1. PICK e \in (p + 1)..last : e = TokenEnd(text, p)
      BY <2>2
    <3>2. e - 1 \in p..Len(text) /\ p \in Nat /\ 1 <= p
      BY <1>1, <2>1
    <3>3. \A i \in p..(e - 1) : text[i] \in Char
      <4>1. \A i \in p..(e - 1) : i \in 1..Len(text)
        BY <1>1, <3>2
      <4> QED
        BY <4>1, ElementOfSeq
    <3>4. SubSeq(text, p, e - 1) \in Seq(Char)
      BY <3>2, <3>3, SubSeqProperties
    <3> QED
      BY <3>1, <3>4
  <2> QED
    BY <2>2, <2>3, <2>4 DEF Token
<1>2a. ASSUME NEW p \in D, ~(p > Len(text))
       PROVE  TokenEnd(text, p) \in D /\ TokenEnd(text, p) > p
  <2>1. PICK e \in (p + 1)..last : e = TokenEnd(text, p)
    BY <1>2, <1>2a
  <2> HIDE DEF token, given, next, step, Body, Choice
  <2>2. e \in D /\ e > p
    BY <1>1, <2>1
  <2> QED
    BY <2>1, <2>2
<1>3. \E f \in [D -> Seq(Token)] : f = [p \in D |-> Body(f, p)]
  <2>1. given \in [D -> Seq(Token)]
    OBVIOUS
  <2>2. ASSUME NEW p \in D PROVE next[p] \in D /\ (p \in Ends \/ next[p] > p)
    <3>1. CASE p > Len(text)
      BY <1>1, <3>1
    <3>2. CASE ~(p > Len(text))
      BY <1>2a, <3>2
    <3> QED
      BY <3>1, <3>2
  <2>3. next \in [D -> D] /\ \A p \in D : p \in Ends \/ next[p] > p
    BY <2>2
  <2>4. step \in [D -> [Seq(Token) -> Seq(Token)]]
    <3>1. ASSUME NEW p \in D, NEW s \in Seq(Token), ~(p > Len(text))
          PROVE  <<token[p]>> \o s \in Seq(Token)
      <4>1. PICK t \in Token : t = token[p]
        BY <1>2, <3>1
      <4> QED
        BY <4>1
    <3> HIDE DEF token
    <3> QED
      BY <3>1
  <2>5. 1 \in Nat /\ last \in Nat
    BY <1>1
  <2>6. ASSUME NEW p \in D, NEW f \in [D -> Seq(Token)]
        PROVE  (IF p \in Ends THEN given[p] ELSE step[p][f[next[p]]]) = Body(f, p)
    <3>1. CASE p > Len(text)
      BY <1>1, <3>1
    <3>2. CASE ~(p > Len(text))
      <4>1. f[next[p]] \in Seq(Token) /\ p \notin Ends /\ next[p] = TokenEnd(text, p)
        BY <1>1, <2>2, <3>2
      <4> QED
        BY <3>2, <4>1
    <3> QED
      BY <3>1, <3>2
  <2> HIDE DEF Ends, given, next, step, Body, last
  <2>7. PICK f \in [D -> Seq(Token)] :
           \A p \in D : f[p] = IF p \in Ends THEN given[p] ELSE step[p][f[next[p]]]
    <3>1. Recursion(1, last, Seq(Token), Ends, given, next, step)
      BY <2>1, <2>2, <2>3, <2>4, <2>5 DEF Recursion
    <3> QED
      BY <3>1, RecursiveFunction
  <2>8. f = [p \in D |-> Body(f, p)]
    BY <2>6, <2>7
  <2> QED
    BY <2>8
<1>4. Tokens(text) = Choice[1]
  BY DEF Tokens
<1>5. Choice = [p \in D |-> Body(Choice, p)]
  BY <1>3
<1> HIDE DEF Choice
<1>6. \A p \in D : Choice[p] = Body(Choice, p)
  BY <1>5
<1>7. \A p \in D : Choice[p] \in Seq(Token)
  <2> DEFINE T == {k \in Nat : \E p \in D : k = last - p /\ Choice[p] \notin Seq(Token)}
  <2>1. SUFFICES ASSUME NEW p \in D, Choice[p] \notin Seq(Token) PROVE FALSE
    OBVIOUS
  <2>2. last - p \in T
    BY <1>1, <2>1
  <2>3. T \subseteq Nat /\ T # {}
    BY <2>2
  <2>4. PICK k \in T : \A j \in T : k <= j
    BY <2>3, LeastNumber
  <2>5. PICK r \in D : k = last - r /\ Choice[r] \notin Seq(Token)
    OBVIOUS
  <2>6. ASSUME NEW s \in D, s > r PROVE Choice[s] \in Seq(Token)
    <3>1. SUFFICES ASSUME Choice[s] \notin Seq(Token) PROVE FALSE
      OBVIOUS
    <3>2. last - s \in T
      BY <1>1, <3>1
    <3>3. k <= last - s
      BY <2>4, <3>2
    <3> QED
      BY <1>1, <2>5, <2>6, <3>3
  <2>7. CASE r > Len(text)
    <3>1. Choice[r] = <<>>
      BY <1>6, <2>7
    <3> QED
      BY <2>5, <3>1
  <2>8. CASE ~(r > Len(text))
    <3>1. PICK e \in D : e = TokenEnd(text, r) /\ e > r
      BY <1>2a, <2>8
    <3>2. Choice[e] \in Seq(Token) /\ token[r] \in Token
      BY <1>2, <2>6, <2>8, <3>1
    <3>3. Choice[r] = <<token[r]>> \o Choice[e]
      BY <1>6, <2>8, <3>1
    <3> HIDE DEF token
    <3>4. <<token[r]>> \in Seq(Token)
      BY <3>2
    <3>5. Choice[r] \in Seq(Token)
      BY <3>2, <3>3, <3>4
    <3> QED
      BY <2>5, <3>5
  <2> QED
    BY <2>7, <2>8
<1>8. 1 \in D
  BY <1>1
<1> QED
  BY <1>4, <1>7, <1>8

-------------------------------------------------------------------------------
(* Counting tokens and characters *)

\* The count before a place, and the token there.
Counts(toks, types, first, place) ==
    /\ Count(toks, types, first, first) = 0
    /\ Count(toks, types, first, place) \in Nat
    /\ Count(toks, types, first, place + 1) = Count(toks, types, first, place)
          + (IF toks[place].type \in types THEN 1 ELSE 0)

\* Counting token after token.
LEMMA CountFacts ==
    ASSUME NEW toks, NEW types, NEW first \in Nat, NEW place \in Nat, first <= place
    PROVE  Counts(toks, types, first, place)
<1> DEFINE S(k) == {i \in first..(k - 1) : toks[i].type \in types}
<1>1. \A k \in Nat : Count(toks, types, first, k) = Cardinality(S(k)) /\ IsFiniteSet(S(k))
  <2> SUFFICES ASSUME NEW k \in Nat PROVE IsFiniteSet(S(k))
    BY DEF Count
  <2>1. k - 1 \in Int /\ S(k) \subseteq first..(k - 1)
    OBVIOUS
  <2>2. IsFiniteSet(first..(k - 1))
    BY <2>1, FS_Interval
  <2> QED
    BY <2>1, <2>2, FS_Subset
<1>2. S(first) = {}
  OBVIOUS
<1>3. S(place + 1) = S(place) \cup (IF toks[place].type \in types THEN {place} ELSE {})
  OBVIOUS
<1>4. place \notin S(place) /\ place + 1 \in Nat
  OBVIOUS
<1> HIDE DEF S
<1>5. Cardinality(S(place)) \in Nat
  BY <1>1, FS_CardinalityType
<1>6. Cardinality(S(place + 1)) = Cardinality(S(place)) + (IF toks[place].type \in types THEN 1 ELSE 0)
  <2>1. CASE toks[place].type \in types
    <3>1. S(place + 1) = S(place) \cup {place}
      BY <1>3, <2>1
    <3>2. Cardinality(S(place) \cup {place}) = Cardinality(S(place)) + 1
      BY <1>1, <1>4, FS_AddElement
    <3> QED
      BY <2>1, <3>1, <3>2
  <2>2. CASE ~(toks[place].type \in types)
    <3>1. S(place + 1) = S(place)
      BY <1>3, <2>2
    <3> QED
      BY <1>5, <2>2, <3>1
  <2> QED
    BY <2>1, <2>2
<1> QED
  BY <1>1, <1>2, <1>4, <1>5, <1>6, FS_EmptySet DEF Counts

\* There are no more of them before an earlier place.
LEMMA CountRises ==
    ASSUME NEW toks, NEW types, NEW first \in Nat, NEW place \in Nat, NEW end \in Nat, place <= end
    PROVE  Count(toks, types, first, place) <= Count(toks, types, first, end)
<1> DEFINE S(k) == {i \in first..(k - 1) : toks[i].type \in types}
<1>1. S(place) \subseteq S(end) /\ S(end) \subseteq first..(end - 1) /\ end - 1 \in Int
  OBVIOUS
<1>2. Count(toks, types, first, place) = Cardinality(S(place))
      /\ Count(toks, types, first, end) = Cardinality(S(end))
  BY DEF Count
<1> HIDE DEF S
<1>3. IsFiniteSet(S(end))
  <2>1. IsFiniteSet(first..(end - 1))
    BY <1>1, FS_Interval
  <2> QED
    BY <1>1, <2>1, FS_Subset
<1> QED
  BY <1>1, <1>2, <1>3, FS_Subset

\* How many lists are open from one token to the next.
LEMMA DepthStep ==
    ASSUME NEW toks, NEW first \in Nat, NEW k \in Nat, first <= k
    PROVE  /\ Depth(toks, first, first) = 0
           /\ Depth(toks, first, k) \in Int
           /\ Depth(toks, first, k + 1) =
                CASE toks[k].type = "OpenParen"  -> Depth(toks, first, k) + 1
                  [] toks[k].type = "CloseParen" -> Depth(toks, first, k) - 1
                  [] OTHER                       -> Depth(toks, first, k)
<1>1. PICK open \in Nat, close \in Nat :
         /\ open = Count(toks, {"OpenParen"}, first, k) /\ close = Count(toks, {"CloseParen"}, first, k)
         /\ Count(toks, {"OpenParen"}, first, k + 1) =
               open + (IF toks[k].type = "OpenParen" THEN 1 ELSE 0)
         /\ Count(toks, {"CloseParen"}, first, k + 1) =
               close + (IF toks[k].type = "CloseParen" THEN 1 ELSE 0)
  <2>1. ASSUME NEW types
        PROVE  /\ Count(toks, types, first, k) \in Nat
               /\ Count(toks, types, first, k + 1) =
                     Count(toks, types, first, k) + (IF toks[k].type \in types THEN 1 ELSE 0)
    <3>1. Counts(toks, types, first, k)
      BY CountFacts
    <3> QED
      BY <3>1 DEF Counts
  <2>2. toks[k].type \in {"OpenParen"} <=> toks[k].type = "OpenParen"
    OBVIOUS
  <2>3. toks[k].type \in {"CloseParen"} <=> toks[k].type = "CloseParen"
    OBVIOUS
  <2> QED
    BY <2>1, <2>2, <2>3
<1>2. Depth(toks, first, k) = open - close
  BY <1>1 DEF Depth
<1>3. Depth(toks, first, k + 1) = (open + (IF toks[k].type = "OpenParen" THEN 1 ELSE 0))
                                  - (close + (IF toks[k].type = "CloseParen" THEN 1 ELSE 0))
  BY <1>1 DEF Depth
<1>4. Depth(toks, first, first) = 0
  <2>1. \A types : Count(toks, types, first, first) = 0
    BY CountFacts DEF Counts
  <2> QED
    BY <2>1 DEF Depth
<1> QED
  BY <1>2, <1>3, <1>4

\* The length of a text is that of its first token and of the rest.
LEMMA TextFacts ==
    ASSUME NEW toks \in Seq(Token), NEW k \in 1..(Len(toks) + 2)
    PROVE  /\ TextLength(toks)[k] \in Nat
           /\ k <= Len(toks) /\ toks[k].type # "EndOfLine" =>
                 /\ TextLength(toks)[k + 1] \in Nat /\ Len(toks[k].text) \in Nat
                 /\ TextLength(toks)[k] = Len(toks[k].text) + TextLength(toks)[k + 1]
<1>1. Len(toks) \in Nat
  OBVIOUS
<1> DEFINE last == Len(toks) + 2
           D == 1..last
           Ends == {q \in D : q > Len(toks) \/ Nth(toks, q).type = "EndOfLine"}
           given == [q \in D |-> 0]
           next == [q \in D |-> IF q < last THEN q + 1 ELSE q]
           length == [q \in D |-> IF q <= Len(toks) THEN Len(toks[q].text) ELSE 0]
           step == [q \in D |-> [v \in Nat |-> length[q] + v]]
           Body(f, q) == IF q > Len(toks) \/ Nth(toks, q).type = "EndOfLine"
                         THEN 0
                         ELSE Len(toks[q].text) + f[q + 1]
           Choice == CHOOSE f : f = [q \in D |-> Body(f, q)]
<1>2. ASSUME NEW q \in D PROVE length[q] \in Nat
  <2>1. CASE q <= Len(toks)
    <3>1. q \in 1..Len(toks)
      BY <1>1, <2>1
    <3>2. toks[q] \in Token
      BY <3>1, ElementOfSeq
    <3>3. toks[q].text \in Seq(Char)
      BY <3>2 DEF Token
    <3> QED
      BY <2>1, <3>3
  <2>2. CASE ~(q <= Len(toks))
    BY <2>2
  <2> QED
    BY <2>1, <2>2
<1>3. \A q \in D : q \notin Ends => /\ q <= Len(toks) /\ q + 1 \in D /\ q + 1 > q
                                  /\ next[q] = q + 1 /\ length[q] = Len(toks[q].text)
  BY <1>1
<1>4. \A f, q : q \in D => Body(f, q) = IF q \in Ends THEN 0 ELSE length[q] + f[q + 1]
  BY <1>3
<1>5. next \in [D -> D] /\ given \in [D -> Nat] /\ last \in Nat /\ 1 \in Nat /\ length \in [D -> Nat]
  <2> HIDE DEF last
  <2>1. last \in Nat
    BY <1>1 DEF last
  <2>2. length \in [D -> Nat]
    BY <1>2
  <2> HIDE DEF length
  <2> QED
    BY <2>1, <2>2
<1> HIDE DEF length, Ends, Body, last
<1>6. step \in [D -> [Nat -> Nat]] /\ \A q \in D, v \in Nat : step[q][v] = length[q] + v
  BY <1>2
<1> HIDE DEF given, next, step
<1>7. PICK f \in [D -> Nat] : \A q \in D : f[q] = IF q \in Ends THEN given[q] ELSE step[q][f[next[q]]]
  <2>1. Recursion(1, last, Nat, Ends, given, next, step)
    BY <1>3, <1>5, <1>6 DEF Recursion
  <2> QED
    BY <2>1, RecursiveFunction
<1>8. f = [q \in D |-> Body(f, q)]
  <2>1. ASSUME NEW q \in D PROVE f[q] = Body(f, q)
    <3>1. f[next[q]] \in Nat
      BY <1>5
    <3>2. step[q][f[next[q]]] = length[q] + f[next[q]]
      BY <1>6, <3>1
    <3>3. given[q] = 0
      BY DEF given
    <3>4. Body(f, q) = IF q \in Ends THEN 0 ELSE length[q] + f[q + 1]
      BY <1>4
    <3>5. f[q] = IF q \in Ends THEN 0 ELSE length[q] + f[next[q]]
      BY <1>7, <3>2, <3>3
    <3> QED
      BY <1>3, <3>4, <3>5
  <2> QED
    BY <2>1
<1>9. TextLength(toks) = Choice
  BY DEF TextLength, Body, last
<1>10. Choice = [q \in D |-> Body(Choice, q)]
  BY <1>8
<1> HIDE DEF Choice
<1>11. \A q \in D : Choice[q] = IF q \in Ends THEN 0 ELSE length[q] + Choice[q + 1]
  BY <1>4, <1>10
<1>12. \A q \in D : Choice[q] \in Nat
  <2>1. ASSUME NEW q \in D, \A p \in D : p > q => Choice[p] \in Nat PROVE Choice[q] \in Nat
    <3>1. CASE q \in Ends
      BY <1>11, <3>1
    <3>2. CASE q \notin Ends
      BY <1>2, <1>3, <1>11, <2>1, <3>2
    <3> QED
      BY <3>1, <3>2
  <2> QED
    BY <1>5, <2>1, FromTheEnd
<1>13. k \in D
  BY DEF last
<1>14. ASSUME k <= Len(toks), toks[k].type # "EndOfLine" PROVE k \notin Ends
  BY <1>1, <1>14 DEF Ends, Nth
<1> QED
  BY <1>2, <1>3, <1>9, <1>11, <1>12, <1>13, <1>14

-------------------------------------------------------------------------------
(* The parser *)

\* StatusOf finds the name of a status or none.
LEMMA StatusFacts ==
    ASSUME NEW name
    PROVE  StatusOf(name) \in Seq(Char)
<1> DEFINE fits == {i \in DOMAIN StatusNames :
                      /\ Len(name) <= Len(StatusNames[i])
                      /\ SubSeq(StatusNames[i], 1, Len(name)) = name}
<1>1. fits \subseteq 1..Len(StatusNames) /\ fits \subseteq Nat
  BY NamesAssumption
<1>2. StatusOf(name) = IF fits = {} THEN Invalid ELSE StatusNames[Min(fits)]
  BY DEF StatusOf
<1> HIDE DEF fits
<1>3. CASE fits = {}
  BY <1>2, <1>3 DEF Invalid
<1>4. CASE fits # {}
  <2>1. Min(fits) \in fits
    BY <1>1, <1>4, MinFacts
  <2>2. StatusNames[Min(fits)] \in Seq(Char)
    BY <1>1, <2>1, NamesAssumption, ElementOfSeq
  <2> QED
    BY <1>2, <1>4, <2>2
<1> QED
  BY <1>3, <1>4

\* A status is found by its name, and none exactly where no name begins like that.
LEMMA StatusFound ==
    ASSUME NEW name
    PROVE  /\ \A i \in DOMAIN StatusNames : name = StatusNames[i] => StatusOf(name) = name /\ name # Invalid
           /\ StatusOf(name) # Invalid <=> \E i \in DOMAIN StatusNames : Begins(name, StatusNames[i])
<1> DEFINE fits == {i \in DOMAIN StatusNames :
                      /\ Len(name) <= Len(StatusNames[i])
                      /\ SubSeq(StatusNames[i], 1, Len(name)) = name}
<1>1. StatusOf(name) = IF fits = {} THEN Invalid ELSE StatusNames[Min(fits)]
  BY DEF StatusOf
<1>2. fits = {i \in DOMAIN StatusNames : Begins(name, StatusNames[i])}
  BY DEF Begins
<1>3. fits \subseteq 1..Len(StatusNames) /\ fits \subseteq Nat
  BY NamesAssumption
<1> HIDE DEF fits
<1>4. ASSUME NEW i \in DOMAIN StatusNames, name = StatusNames[i]
      PROVE  StatusOf(name) = name /\ name # Invalid
  <2>1. i \in 1..Len(StatusNames) /\ StatusNames \in Seq(Seq(Char) \ {<<>>})
    BY NamesAssumption
  <2>2. StatusNames[i] \in Seq(Char) \ {<<>>}
    BY <2>1, ElementOfSeq
  <2>3. Begins(name, name)
    BY <1>4, <2>2, SubSeqFull DEF Begins
  <2>4. fits = {i}
    BY <1>2, <1>4, <2>3, NamesAssumption
  <2>5. Min(fits) = i
    BY <1>3, <2>4, MinFacts
  <2> QED
    BY <1>1, <1>4, <2>2, <2>4, <2>5 DEF Invalid
<1>5. CASE fits = {}
  BY <1>1, <1>2, <1>4, <1>5
<1>6. CASE fits # {}
  <2>1. Min(fits) \in fits
    BY <1>3, <1>6, MinFacts
  <2>2. StatusNames[Min(fits)] # <<>>
    <3>1. Min(fits) \in 1..Len(StatusNames) /\ StatusNames \in Seq(Seq(Char) \ {<<>>})
      BY <1>3, <2>1, NamesAssumption
    <3>2. StatusNames[Min(fits)] \in Seq(Char) \ {<<>>}
      BY <3>1, ElementOfSeq
    <3> QED
      BY <3>2
  <2> QED
    BY <1>1, <1>2, <1>4, <1>6, <2>1, <2>2 DEF Invalid
<1> QED
  BY <1>5, <1>6

\* The line and its tokens are the same throughout.
LEMMA LineStays == [Next]_vars => UNCHANGED <<line, tokens>>
<1> QED
  BY DEF vars, lineVars, Next, imap_parse_response, imap_parse_response_data, Done, InvalidTag,
         Continuation, ValidTag, StatusLine, DataLine, Atom, ListStart, NoItem, AfterItem,
         LiteralStart, LiteralToken, LiteralEnd, LiteralFails, ReturnToList, ReturnToData,
         ReturnToCode, LongTag, LongAtom, DeepList, InfoToken, InfoEnd, Fail, Undefined, Store

\* Where the parser has not ended it has passed over at most one token more than
\* there are, and that only behind a datum.
AtInv ==
    /\ at <= Len(tokens) + 2
    /\ pc \in {"start", "kind", "item", "literal"} => at <= Len(tokens) + 1

TypeInv == TypeOK /\ AtInv

\* What PeekToken returns; it is not the end where there is a token.
LEMMA PeekFacts ==
    ASSUME TypeOK, NEW n \in Nat
    PROVE  /\ Peek(n).type \in TokenTypes /\ Peek(n).text \in Seq(Char)
           /\ Peek(n).type # "EndOfStream" => at + n \in 1..Len(tokens)
           /\ at + n <= Len(tokens) => Peek(n) = tokens[at + n]
<1>1. tokens \in Seq(Token) /\ at \in Nat /\ 1 <= at /\ Len(tokens) \in Nat
  BY DEF TypeOK, Token
<1>2. CASE at + n <= Len(tokens)
  <2>1. at + n \in 1..Len(tokens)
    BY <1>1, <1>2
  <2>2. tokens[at + n] \in Token
    BY <1>1, <2>1, ElementOfSeq
  <2> QED
    BY <1>2, <2>1, <2>2 DEF Peek, Nth, Token
<1>3. CASE ~(at + n <= Len(tokens))
  BY <1>3 DEF Peek, Nth, EndOfStream, TokenTypes
<1> QED
  BY <1>2, <1>3

\* The parser starts at the first token of a line.
LEMMA InitType == Init => TypeInv
<1> SUFFICES ASSUME Init PROVE TypeInv
  OBVIOUS
<1>1. tokens \in Seq(Token)
  BY LinesAssumption, TokensFacts DEF Init
<1>2. Len(tokens) \in Nat /\ MaxData \in Nat /\ MaxLists \in Nat /\ InfoSize \in Nat \ {0}
  BY <1>1, SizesAssumption
<1>3. /\ <<>> \in Seq(Char) /\ <<>> \in Seq(Seq(Char) \cup {Garbage}) /\ Len(<<>>) = 0
  OBVIOUS
<1>4. Response \in [Type : {"UNKNOWN", "STATUS", "DATA", "CONTINUATION"}, Tag : Seq(Char),
                    Status : Seq(Char), Code : Seq(Char), Data : Seq(Seq(Char) \cup {Garbage})]
  BY <1>3 DEF Init, Invalid, Blank
<1>5. Len(Response.Data) <= MaxData
  BY <1>2, <1>3 DEF Init, Blank
<1>6. at \in 1..(Len(tokens) + 3) /\ at <= Len(tokens) + 1 /\ at <= Len(tokens) + 2
  BY <1>2 DEF Init
<1>7. lists \in 0..MaxLists /\ OutLength \in 0..(InfoSize - 1)
  BY <1>2 DEF Init
<1>8. inCode \in BOOLEAN /\ HasError \in BOOLEAN /\ pc = "start"
  BY DEF Init
<1> QED
  BY <1>1, <1>4, <1>5, <1>6, <1>7, <1>8 DEF TypeInv, AtInv, TypeOK, Token

\* A datum is stored where there is room for it.
LEMMA StoreFacts ==
    ASSUME TypeInv, NEW datum \in Seq(Char) \cup {Garbage}, NEW n \in {1, 2},
           at + n <= Len(tokens) + 2, Store(datum, n)
    PROVE  TypeInv'
<1> DEFINE D == Seq(Char) \cup {Garbage}
<1>1. /\ tokens \in Seq([type : TokenTypes, text : Seq(Char)]) /\ at \in Nat /\ 1 <= at
      /\ Response.Data \in Seq(D) /\ Len(Response.Data) <= MaxData /\ MaxData \in Nat
      /\ Len(tokens) \in Nat
  BY SizesAssumption DEF TypeInv, TypeOK
<1>2. CASE Len(Response.Data) = MaxData
  <2>1. Undefined
    BY <1>2 DEF Store
  <2>2. UNCHANGED <<line, tokens, at, inCode, lists, OutLength, Response, HasError>> /\ pc' = "undefined"
    BY <2>1 DEF Undefined, lineVars
  <2> QED
    BY <2>2 DEF TypeInv, TypeOK, AtInv
<1>3. CASE Len(Response.Data) # MaxData
  <2>1. /\ Response' = [Response EXCEPT !.Data = Append(@, datum)] /\ at' = at + n /\ pc' = "after"
        /\ UNCHANGED <<line, tokens, inCode, lists, OutLength, HasError>>
    BY <1>3 DEF Store, lineVars
  <2>2. PICK k \in Nat : k = Len(Response.Data)
    BY <1>1
  <2>3. Append(Response.Data, datum) \in Seq(D) /\ Len(Append(Response.Data, datum)) = k + 1
    BY <1>1, <2>2
  <2>4. k + 1 <= MaxData
    BY <1>1, <1>3, <2>2
  <2>5. Response'.Data = Append(Response.Data, datum)
    BY <2>1 DEF TypeInv, TypeOK
  <2>6. Response' \in [Type : {"UNKNOWN", "STATUS", "DATA", "CONTINUATION"}, Tag : Seq(Char),
                       Status : Seq(Char), Code : Seq(Char), Data : Seq(D)]
    BY <2>1, <2>3 DEF TypeInv, TypeOK
  <2>7. at' \in 1..(Len(tokens) + 3) /\ at' <= Len(tokens) + 2
    BY <1>1, <2>1, SMTT(30)
  <2> QED
    BY <2>1, <2>3, <2>4, <2>5, <2>6, <2>7 DEF TypeInv, AtInv, TypeOK
<1> QED
  BY <1>2, <1>3

\* Every step of the parser keeps the types.
LEMMA TypeInvariance == TypeInv /\ [Next]_vars => TypeInv'
<1> SUFFICES ASSUME TypeInv, [Next]_vars PROVE TypeInv'
  OBVIOUS
<1> USE DEF lineVars
<1>1. /\ tokens \in Seq(Token) /\ at \in Nat /\ 1 <= at /\ Len(tokens) \in Nat /\ at <= Len(tokens) + 2
      /\ TypeOK
  BY DEF TypeInv, TypeOK, AtInv, Token
<1>2. \A n \in Nat : /\ Peek(n).type \in TokenTypes /\ Peek(n).text \in Seq(Char)
                     /\ Peek(n).type # "EndOfStream" => at + n \in 1..Len(tokens)
  BY <1>1, PeekFacts
<1>3. 0 \in Nat /\ 1 \in Nat /\ 2 \in Nat /\ at + 0 = at
  BY <1>1
<1>4. NextType # "EndOfStream" => at \in 1..Len(tokens)
  BY <1>2, <1>3 DEF NextType
<1>5. MaxLists \in Nat /\ InfoSize \in Nat
  BY SizesAssumption
\* The parser stops, or goes on where it is.
<1>6. ASSUME UNCHANGED <<line, tokens, at, inCode, lists, OutLength, Response>>, HasError' \in BOOLEAN,
             pc' \in {"after", "return", "done", "undefined"}
      PROVE  TypeInv'
  BY <1>6 DEF TypeInv, TypeOK, AtInv
<1>7. ASSUME Fail PROVE TypeInv'
  BY <1>6, <1>7 DEF Fail
<1>8. ASSUME Undefined PROVE TypeInv'
  BY <1>1, <1>6, <1>8 DEF Undefined, TypeOK
\* One token is passed over.
<1>9. ASSUME at' = at + 1, at <= Len(tokens), UNCHANGED <<line, tokens, inCode, Response, HasError>>,
             lists' \in 0..MaxLists, OutLength' \in 0..(InfoSize - 1),
             pc' \in {"item", "literal", "after", "info"}
      PROVE  TypeInv'
  <2>1. at' \in 1..(Len(tokens) + 3) /\ at' <= Len(tokens) + 1 /\ at' <= Len(tokens) + 2
    BY <1>1, <1>9
  <2> QED
    BY <1>9, <2>1 DEF TypeInv, TypeOK, AtInv
<1>10. CASE InvalidTag
  BY <1>7, <1>10 DEF InvalidTag
<1>11. CASE Continuation
  <2>1. at + 0 \in 1..Len(tokens)
    BY <1>2, <1>3, <1>11 DEF Continuation, NextType
  <2>2. at' \in 1..(Len(tokens) + 3) /\ at' <= Len(tokens) + 2
    BY <1>1, <1>11, <2>1 DEF Continuation
  <2> QED
    BY <1>11, <2>2 DEF Continuation, TypeInv, TypeOK, AtInv
<1>12. CASE ValidTag
  <2>1. at + 1 \in 1..Len(tokens)
    BY <1>2, <1>3, <1>12 DEF ValidTag
  <2>2. at' \in 1..(Len(tokens) + 3) /\ at' <= Len(tokens) + 1 /\ at' <= Len(tokens) + 2
    BY <1>1, <1>12, <2>1 DEF ValidTag
  <2> QED
    BY <1>12, <2>2 DEF ValidTag, TypeInv, TypeOK, AtInv
<1>13. CASE StatusLine
  <2>1. at + 1 \in 1..Len(tokens) /\ UNCHANGED <<line, tokens, lists, OutLength, HasError>>
    BY <1>2, <1>3, <1>13 DEF StatusLine, IsStatus
  <2>2. tokens[1].text \in Seq(Char)
    <3>1. 1 \in 1..Len(tokens)
      BY <1>1, <2>1
    <3>2. tokens[1] \in Token
      BY <1>1, <3>1, ElementOfSeq
    <3> QED
      BY <3>2 DEF Token
  <2>3. PICK s \in Seq(Char) : s = StatusOf(Peek(0).text)
    BY StatusFacts
  <2>4. /\ Response' \in [Type : {"UNKNOWN", "STATUS", "DATA", "CONTINUATION"}, Tag : Seq(Char),
                          Status : Seq(Char), Code : Seq(Char), Data : Seq(Seq(Char) \cup {Garbage})]
        /\ Response'.Data = Response.Data
    BY <1>13, <2>2, <2>3 DEF StatusLine, TypeInv, TypeOK
  <2>5. CASE Peek(2).type = "OpenBrace"
    <3>1. at' = at + 3 /\ inCode' = TRUE /\ pc' = "item"
      BY <1>13, <2>5 DEF StatusLine
    <3>2. at + 2 \in 1..Len(tokens)
      BY <1>2, <1>3, <2>5
    <3>3. at' \in 1..(Len(tokens) + 3) /\ at' <= Len(tokens) + 1 /\ at' <= Len(tokens) + 2
      BY <1>1, <3>1, <3>2
    <3> QED
      BY <2>1, <2>4, <3>1, <3>3 DEF TypeInv, AtInv, TypeOK
  <2>6. CASE Peek(2).type # "OpenBrace"
    <3>1. at' = at + 2 /\ pc' = "info" /\ UNCHANGED inCode
      BY <1>13, <2>6 DEF StatusLine
    <3>2. at' \in 1..(Len(tokens) + 3) /\ at' <= Len(tokens) + 1 /\ at' <= Len(tokens) + 2
      BY <1>1, <2>1, <3>1
    <3> QED
      BY <2>1, <2>4, <3>1, <3>2 DEF TypeInv, AtInv, TypeOK
  <2> QED
    BY <2>5, <2>6
<1>14. CASE LongTag \/ LongAtom \/ DeepList
  BY <1>8, <1>14 DEF LongTag, LongAtom, DeepList
<1>15. CASE DataLine
  BY <1>15 DEF DataLine, TypeInv, TypeOK, AtInv
<1>16. CASE Atom
  <2>1. Store(Peek(0).text, 1) /\ at + 1 <= Len(tokens) + 2 /\ Peek(0).text \in Seq(Char)
    BY <1>1, <1>2, <1>3, <1>16 DEF Atom, TypeInv, AtInv
  <2>2. 1 \in {1, 2}
    OBVIOUS
  <2> QED
    BY <2>1, <2>2, StoreFacts
<1>17. CASE LiteralStart \/ LiteralToken
  <2>1. at <= Len(tokens)
    BY <1>1, <1>4, <1>17 DEF LiteralStart, LiteralToken
  <2> QED
    BY <1>1, <1>9, <1>17, <2>1 DEF LiteralStart, LiteralToken, TypeOK
<1>18. CASE LiteralEnd
  <2>1. at <= Len(tokens)
    BY <1>1, <1>4, <1>18 DEF LiteralEnd
  <2>2. at + 2 <= Len(tokens) + 2 /\ 2 \in {1, 2}
    BY <1>1, <2>1
  <2>3. ASSUME NEW datum \in Range(Response.Data) \cup {Garbage}, Store(datum, 2) PROVE TypeInv'
    <3>1. Response.Data \in Seq(Seq(Char) \cup {Garbage})
      BY <1>1 DEF TypeOK
    <3>2. datum \in Seq(Char) \cup {Garbage}
      BY <3>1, ElementOfSeq DEF Range
    <3> QED
      BY <2>2, <2>3, <3>2, StoreFacts
  <2> QED
    BY <1>8, <1>18, <2>3 DEF LiteralEnd
<1>19. CASE LiteralFails
  BY <1>7, <1>19 DEF LiteralFails
<1>20. CASE ListStart
  <2>1. at <= Len(tokens)
    BY <1>1, <1>4, <1>20 DEF ListStart
  <2>2. lists' \in 0..MaxLists
    BY <1>1, <1>5, <1>20 DEF ListStart, TypeOK
  <2> QED
    BY <1>1, <1>9, <1>20, <2>1, <2>2 DEF ListStart, TypeOK
<1>21. CASE NoItem
  BY <1>1, <1>6, <1>21 DEF NoItem, TypeOK
<1>22. CASE AfterItem
  <2>1. CASE NextType \in {"Unknown", "EndOfLine", "EndOfStream", "CloseParen", "CloseBrace"}
    BY <1>1, <1>6, <1>22, <2>1 DEF AfterItem, TypeOK
  <2>2. CASE NextType = "Space"
    <3>1. at <= Len(tokens)
      BY <1>1, <1>4, <2>2
    <3> QED
      BY <1>1, <1>9, <1>22, <2>2, <3>1 DEF AfterItem, TypeOK
  <2>3. CASE NextType \notin {"Unknown", "EndOfLine", "EndOfStream", "CloseParen", "CloseBrace", "Space"}
    BY <1>7, <1>22, <2>3 DEF AfterItem
  <2> QED
    BY <2>1, <2>2, <2>3
<1>23. CASE ReturnToList
  <2>1. CASE NextType = "CloseParen"
    <3>1. at <= Len(tokens)
      BY <1>1, <1>4, <2>1
    <3>2. lists' \in 0..MaxLists
      BY <1>1, <1>5, <1>23, <2>1 DEF ReturnToList, TypeOK
    <3> QED
      BY <1>1, <1>9, <1>23, <2>1, <3>1, <3>2 DEF ReturnToList, TypeOK
  <2>2. CASE NextType # "CloseParen"
    BY <1>7, <1>23, <2>2 DEF ReturnToList
  <2> QED
    BY <2>1, <2>2
<1>24. CASE ReturnToData \/ InfoEnd
  BY <1>1, <1>6, <1>24 DEF ReturnToData, InfoEnd, TypeOK
<1>25. CASE ReturnToCode
  <2>1. CASE Response.Data = <<>>
    BY <1>8, <1>25, <2>1 DEF ReturnToCode
  <2>2. CASE Response.Data # <<>>
    <3> DEFINE name == Head(Response.Data)
               D == Seq(Char) \cup {Garbage}
    <3>1. /\ Response' = [Response EXCEPT !.Code = IF name \in CodeNames THEN name ELSE Invalid,
                                          !.Data = Tail(@)]
          /\ pc' \in {"done", "info"} /\ HasError' \in BOOLEAN
          /\ UNCHANGED <<line, tokens, inCode, lists, OutLength>>
          /\ at' = at \/ (at' = at + 1 /\ NextType = "CloseBrace")
      BY <1>1, <1>25, <2>2 DEF ReturnToCode, TypeOK
    <3>2. Response.Data \in Seq(D) /\ Len(Response.Data) <= MaxData /\ MaxData \in Nat
      BY SizesAssumption DEF TypeInv, TypeOK
    <3>3. Tail(Response.Data) \in Seq(D) /\ Len(Tail(Response.Data)) <= MaxData
      BY <2>2, <3>2
    <3> HIDE DEF name
    <3>4. PICK code \in Seq(Char) : code = IF name \in CodeNames THEN name ELSE Invalid
      <4>1. CodeNames \subseteq Seq(Char) /\ Invalid \in Seq(Char)
        BY NamesAssumption DEF Invalid
      <4> QED
        BY <4>1
    <3>5. Response' = [Response EXCEPT !.Code = code, !.Data = Tail(@)]
      BY <3>1, <3>4
    <3>6. at' \in 1..(Len(tokens) + 3) /\ at' <= Len(tokens) + 2
      BY <1>1, <1>4, <3>1
    <3> QED
      BY <3>1, <3>3, <3>5, <3>6 DEF TypeInv, TypeOK, AtInv
  <2> QED
    BY <2>1, <2>2
<1>26. CASE InfoToken
  <2>1. CASE Fits(OutLength + Len(Peek(0).text), InfoSize)
    <3>1. /\ OutLength' = OutLength + Len(Peek(0).text) /\ at' = at + 1 /\ pc' = "info"
          /\ UNCHANGED <<line, tokens, inCode, lists, Response, HasError>> /\ NextType # "EndOfStream"
      BY <1>26, <2>1 DEF InfoToken
    <3>2. Len(Peek(0).text) \in Nat
      BY <1>2, <1>3
    <3>3. OutLength' \in 0..(InfoSize - 1)
      <4>1. OutLength \in Nat /\ InfoSize \in Nat
        BY <1>1, SizesAssumption DEF TypeOK
      <4>2. OutLength + Len(Peek(0).text) < InfoSize
        BY <2>1 DEF Fits
      <4> QED
        BY <3>1, <3>2, <4>1, <4>2
    <3>4. at <= Len(tokens)
      BY <1>1, <1>4, <3>1
    <3> QED
      BY <1>1, <1>9, <3>1, <3>3, <3>4 DEF TypeOK
  <2>2. CASE ~Fits(OutLength + Len(Peek(0).text), InfoSize)
    BY <1>8, <1>26, <2>2 DEF InfoToken
  <2> QED
    BY <2>1, <2>2
<1>27. CASE UNCHANGED vars
  BY <1>27 DEF vars, TypeInv, TypeOK, AtInv
<1>28. CASE Done
  BY <1>27, <1>28 DEF Done
<1> QED
  BY <1>10, <1>11, <1>12, <1>13, <1>14, <1>15, <1>16, <1>17, <1>18, <1>19, <1>20, <1>21, <1>22,
     <1>23, <1>24, <1>25, <1>26, <1>27, <1>28
     DEF Next, imap_parse_response, imap_parse_response_data

\* On a line that keeps the limits nothing undefined is near: at an item there is
\* room for one more datum, the lists are those that are open in the line, and what
\* is left of a text fits behind what has been copied.
Begin == ~inCode /\ lists = 0 /\ OutLength = 0 /\ Response.Data = <<>>

First == IF inCode THEN 6 ELSE 3

InItems ==
    /\ First <= at /\ OutLength = 0
    /\ at <= Len(tokens) + 1 => lists = Depth(tokens, First, at)
    /\ Len(Response.Data) <= Count(tokens, {"Space"}, First, at) + (IF pc = "item" THEN 0 ELSE 1)
    /\ ItemsFit(tokens, First)
    /\ inCode => NamesCode(tokens)
    /\ inCode /\ Response.Data = <<>> => pc = "item" /\ at = 6

LimitInv ==
    KeepsLimits(tokens) =>
        /\ pc \notin {"literal", "undefined"}
        /\ pc \in {"start", "kind"} => Begin
        /\ pc = "start" => at = 1
        /\ pc = "kind" => at = 3
        /\ pc \in {"item", "after", "return"} => InItems
        /\ pc = "info" => OutLength + TextLength(tokens)[at] < InfoSize

\* What is counted in the items from one token to the next.
LEMMA ItemFacts ==
    ASSUME TypeOK, InItems
    PROVE  /\ Count(tokens, {"Space"}, First, at) \in Nat
           /\ Count(tokens, {"Space"}, First, at + 1) =
                 Count(tokens, {"Space"}, First, at) + (IF tokens[at].type = "Space" THEN 1 ELSE 0)
           /\ at <= Len(tokens) + 1 => Count(tokens, {"Space"}, First, at) < MaxData
           /\ at <= Len(tokens) => /\ Depth(tokens, First, at + 1) =
                                        CASE tokens[at].type = "OpenParen"  -> lists + 1
                                          [] tokens[at].type = "CloseParen" -> lists - 1
                                          [] OTHER                          -> lists
                                   /\ tokens[at].type # "OpenBracket"
                                   /\ Fits(Len(tokens[at].text), ContentSize)
                                   /\ Depth(tokens, First, at + 1) <= MaxLists
           /\ Len(Response.Data) \in Nat
<1>1. First \in Nat /\ at \in Nat /\ First <= at /\ Len(tokens) \in Nat /\ Len(Response.Data) \in Nat
  BY DEF TypeOK, InItems, First
<1>2. Counts(tokens, {"Space"}, First, at)
  BY <1>1, CountFacts
<1>3. ASSUME at <= Len(tokens) + 1 PROVE Count(tokens, {"Space"}, First, at) < MaxData
  <2>1. Len(tokens) + 1 \in Nat
    BY <1>1
  <2>2. Count(tokens, {"Space"}, First, at) <= Count(tokens, {"Space"}, First, Len(tokens) + 1)
    BY <1>1, <1>3, <2>1, CountRises
  <2>3. Count(tokens, {"Space"}, First, Len(tokens) + 1) < MaxData
    BY DEF InItems, ItemsFit
  <2>4. Count(tokens, {"Space"}, First, Len(tokens) + 1) \in Nat
    <3>1. First <= Len(tokens) + 1
      BY <1>1, <1>3
    <3>2. Counts(tokens, {"Space"}, First, Len(tokens) + 1)
      BY <1>1, <2>1, <3>1, CountFacts
    <3> QED
      BY <3>2 DEF Counts
  <2>5. Count(tokens, {"Space"}, First, at) \in Nat /\ MaxData \in Nat
    BY <1>2, SizesAssumption DEF Counts
  <2> QED
    BY <2>2, <2>3, <2>4, <2>5
<1>4. Depth(tokens, First, at + 1) =
         CASE tokens[at].type = "OpenParen"  -> Depth(tokens, First, at) + 1
           [] tokens[at].type = "CloseParen" -> Depth(tokens, First, at) - 1
           [] OTHER                          -> Depth(tokens, First, at)
  BY <1>1, DepthStep
<1>5. at <= Len(tokens) => /\ tokens[at].type # "OpenBracket"
                           /\ Fits(Len(tokens[at].text), ContentSize)
                           /\ Depth(tokens, First, at + 1) <= MaxLists
  <2>1. at <= Len(tokens) => at \in First..Len(tokens)
    BY <1>1
  <2> QED
    BY <2>1 DEF InItems, ItemsFit
<1>6. at <= Len(tokens) => lists = Depth(tokens, First, at)
  BY <1>1 DEF InItems
<1> QED
  BY <1>1, <1>2, <1>3, <1>4, <1>5, <1>6 DEF Counts

\* The parser keeps to the limits where the line does.
LEMMA LimitStep ==
    ASSUME TypeInv, LimitInv, Next, KeepsLimits(tokens)
    PROVE  LimitInv'
<1> USE DEF lineVars
<1>0. tokens' = tokens
  BY LineStays
<1>1. /\ tokens \in Seq(Token) /\ at \in Nat /\ 1 <= at /\ Len(tokens) \in Nat /\ at <= Len(tokens) + 2
      /\ TypeOK /\ (pc = "item" => at <= Len(tokens) + 1)
  BY DEF TypeInv, TypeOK, AtInv, Token
<1>2. /\ Peek(0).type \in TokenTypes /\ Peek(0).text \in Seq(Char)
      /\ NextType # "EndOfStream" => at \in 1..Len(tokens)
      /\ at <= Len(tokens) => Peek(0) = tokens[at]
      /\ ~(at <= Len(tokens)) => Peek(0) = EndOfStream
  <2>1. 0 \in Nat /\ at + 0 = at
    BY <1>1
  <2> QED
    BY <1>1, <2>1, PeekFacts DEF NextType, Peek, Nth
<1>3. NextType # "EndOfStream" => at <= Len(tokens) /\ tokens[at].type = NextType
  BY <1>1, <1>2 DEF NextType
<1>4. /\ pc \notin {"literal", "undefined"}
      /\ pc \in {"start", "kind"} => Begin
      /\ pc = "start" => at = 1
      /\ pc = "kind" => at = 3
      /\ pc \in {"item", "after", "return"} => InItems
      /\ pc = "info" => OutLength + TextLength(tokens)[at] < InfoSize
  BY DEF LimitInv
<1>5. First' = First \/ inCode' # inCode
  BY DEF First
<1>6. ASSUME pc' = "done" PROVE LimitInv'
  BY <1>6 DEF LimitInv
\* What the items are is told by the line alone.
<1>7. ASSUME pc \in {"item", "after", "return"}, pc' \in {"item", "after", "return"},
             inCode' = inCode, OutLength' = OutLength, First <= at',
             at' <= Len(tokens) + 1 => lists' = Depth(tokens, First, at'),
             Len(Response'.Data) <= Count(tokens, {"Space"}, First, at') + (IF pc' = "item" THEN 0 ELSE 1),
             inCode /\ Response'.Data = <<>> => pc' = "item" /\ at' = 6
      PROVE  LimitInv'
  <2>1. InItems
    BY <1>4, <1>7
  <2>2. InItems'
    BY <1>0, <1>7, <2>1 DEF InItems, First
  <2> QED
    BY <1>7, <2>2 DEF LimitInv
<1>8. CASE InvalidTag \/ LiteralFails \/ ReturnToData \/ InfoEnd
  BY <1>6, <1>8 DEF InvalidTag, LiteralFails, ReturnToData, InfoEnd, Fail
<1>9. CASE Continuation
  <2>1. at = 1 /\ OutLength = 0 /\ Nth(tokens, 1).type = "Plus"
    BY <1>4, <1>9 DEF Continuation, Begin, NextType, Peek
  <2>2. at' = 3 /\ pc' = "info" /\ OutLength' = 0
    BY <1>9, <2>1 DEF Continuation
  <2>3. TextLength(tokens)[3] < InfoSize
    BY <2>1 DEF KeepsLimits, TextFits, Fits
  <2>4. TextLength(tokens)[3] \in Nat
    <3>1. 1 <= Len(tokens)
      BY <2>1 DEF Nth, EndOfStream
    <3>2. 3 \in 1..(Len(tokens) + 2)
      BY <1>1, <3>1
    <3> QED
      BY <1>1, <3>2, TextFacts
  <2> QED
    BY <1>0, <2>2, <2>3, <2>4 DEF LimitInv
<1>10. CASE ValidTag
  <2>1. at' = 3 /\ pc' = "kind" /\ UNCHANGED <<inCode, lists, OutLength, Response>> /\ Begin
    BY <1>4, <1>10 DEF ValidTag
  <2> QED
    BY <2>1 DEF LimitInv, Begin
<1>11. IsStatus /\ at = 3 <=> NamesStatus(tokens) /\ at = 3
  <2>1. at = 3 => Peek(0) = Nth(tokens, 3) /\ Peek(1) = Nth(tokens, 4)
    BY DEF Peek
  <2>2. StatusOf(Nth(tokens, 3).text) # Invalid <=>
           \E i \in DOMAIN StatusNames : Begins(Nth(tokens, 3).text, StatusNames[i])
    BY StatusFound
  <2> QED
    BY <2>1, <2>2 DEF IsStatus, NamesStatus
<1>12. CASE StatusLine
  <2>1. at = 3 /\ Begin /\ NamesStatus(tokens)
    BY <1>4, <1>11, <1>12 DEF StatusLine
  <2>2. Response'.Data = <<>> /\ lists' = 0 /\ OutLength' = 0
    BY <1>1, <1>12, <2>1 DEF StatusLine, Begin, TypeOK
  <2>3. Peek(2) = Nth(tokens, 5)
    BY <2>1 DEF Peek
  <2>4. CASE Nth(tokens, 5).type = "OpenBrace"
    <3>1. at' = 6 /\ inCode' = TRUE /\ pc' = "item"
      BY <1>12, <2>1, <2>3, <2>4 DEF StatusLine
    <3>2. ItemsFit(tokens, 6) /\ NamesCode(tokens)
      BY <2>1, <2>4 DEF KeepsLimits, NamesCode
    <3>3. Depth(tokens, 6, 6) = 0 /\ Count(tokens, {"Space"}, 6, 6) = 0
      <4>1. Counts(tokens, {"Space"}, 6, 6)
        BY CountFacts
      <4> QED
        BY <4>1, DepthStep DEF Counts
    <3>4. First' = 6
      BY <3>1 DEF First
    <3>5. InItems'
      BY <1>0, <2>2, <3>1, <3>2, <3>3, <3>4 DEF InItems
    <3> QED
      BY <3>1, <3>5 DEF LimitInv
  <2>5. CASE Nth(tokens, 5).type # "OpenBrace"
    <3>1. at' = 5 /\ pc' = "info"
      BY <1>12, <2>1, <2>3, <2>5 DEF StatusLine
    <3>2. TextLength(tokens)[5] < InfoSize
      BY <2>1, <2>5 DEF KeepsLimits, NamesCode, TextFits, Fits
    <3>3. TextLength(tokens)[5] \in Nat
      <4>1. 4 <= Len(tokens)
        BY <2>1 DEF NamesStatus, Nth, EndOfStream
      <4>2. 5 \in 1..(Len(tokens) + 2)
        BY <1>1, <4>1
      <4> QED
        BY <1>1, <4>2, TextFacts
    <3> QED
      BY <1>0, <2>2, <3>1, <3>2, <3>3 DEF LimitInv
  <2> QED
    BY <2>4, <2>5
<1>13. ~LongTag
  BY <1>4, <1>11 DEF LongTag, KeepsLimits
<1>14. CASE DataLine
  <2>1. at = 3 /\ Begin /\ ~NamesStatus(tokens)
    BY <1>4, <1>11, <1>14 DEF DataLine
  <2>2. /\ Response'.Data = <<>> /\ lists' = 0 /\ OutLength' = 0 /\ at' = 3 /\ inCode' = FALSE
        /\ pc' = "item"
    BY <1>1, <1>14, <2>1 DEF DataLine, Begin, TypeOK
  <2>3. ItemsFit(tokens, 3)
    BY <2>1 DEF KeepsLimits
  <2>4. Depth(tokens, 3, 3) = 0 /\ Count(tokens, {"Space"}, 3, 3) = 0
    <3>1. Counts(tokens, {"Space"}, 3, 3)
      BY CountFacts
    <3> QED
      BY <3>1, DepthStep DEF Counts
  <2>5. First' = 3
    BY <2>2 DEF First
  <2>6. InItems'
    BY <1>0, <2>2, <2>3, <2>4, <2>5 DEF InItems
  <2> QED
    BY <2>2, <2>6 DEF LimitInv
<1>15. CASE Atom
  <2>1. InItems /\ pc = "item" /\ NextType \notin {"OpenParen", "CloseParen"} /\ Store(Peek(0).text, 1)
    BY <1>4, <1>15 DEF Atom
  <2>2. PICK n \in Nat : /\ n = Count(tokens, {"Space"}, First, at) /\ n < MaxData
                         /\ n <= Count(tokens, {"Space"}, First, at + 1)
                         /\ Count(tokens, {"Space"}, First, at + 1) \in Nat
    BY <1>1, <2>1, ItemFacts
  <2>3. Len(Response.Data) \in Nat /\ Len(Response.Data) <= n
    BY <1>1, <2>1, <2>2, ItemFacts DEF InItems
  <2>4. Len(Response.Data) # MaxData
    BY <2>2, <2>3, SizesAssumption
  <2>5. /\ Response' = [Response EXCEPT !.Data = Append(@, Peek(0).text)] /\ at' = at + 1
        /\ pc' = "after" /\ UNCHANGED <<inCode, lists, OutLength>>
    BY <2>1, <2>4 DEF Store
  <2>6. Response'.Data # <<>> /\ Len(Response'.Data) = Len(Response.Data) + 1
    <3>1. Response.Data \in Seq(Seq(Char) \cup {Garbage}) /\ Peek(0).text \in Seq(Char)
      BY <1>1, <1>2 DEF TypeOK
    <3>2. Response'.Data = Append(Response.Data, Peek(0).text)
      BY <1>1, <2>5 DEF TypeOK
    <3>3. /\ Len(Append(Response.Data, Peek(0).text)) = Len(Response.Data) + 1
          /\ Append(Response.Data, Peek(0).text) # <<>>
      BY <3>1
    <3> QED
      BY <2>3, <3>2, <3>3
  <2>7. at' <= Len(tokens) + 1 => lists' = Depth(tokens, First, at')
    <3>1. SUFFICES ASSUME at <= Len(tokens) PROVE lists' = Depth(tokens, First, at + 1)
      BY <1>1, <2>5
    <3>2. tokens[at].type \notin {"OpenParen", "CloseParen"}
      BY <1>2, <2>1, <3>1 DEF NextType
    <3> QED
      BY <1>1, <2>1, <2>5, <3>1, <3>2, ItemFacts
  <2>8. First <= at'
    BY <1>1, <2>1, <2>5 DEF InItems, First
  <2> QED
    BY <1>7, <2>1, <2>2, <2>3, <2>5, <2>6, <2>7, <2>8
<1>16. ~LongAtom
  <2> SUFFICES ASSUME LongAtom PROVE FALSE
    OBVIOUS
  <2>1. InItems
    BY <1>4 DEF LongAtom
  <2>2. CASE at <= Len(tokens)
    BY <1>1, <1>2, <2>1, <2>2, ItemFacts DEF LongAtom
  <2>3. CASE ~(at <= Len(tokens))
    BY <1>2, <2>3, SizesAssumption DEF LongAtom, EndOfStream, Fits
  <2> QED
    BY <2>2, <2>3
<1>17. ~LiteralStart /\ ~LiteralToken /\ ~LiteralEnd
  <2>1. ~LiteralStart
    BY <1>1, <1>3, <1>4, ItemFacts DEF LiteralStart
  <2> QED
    BY <1>4, <2>1 DEF LiteralToken, LiteralEnd
\* At the first item of a code there is neither a list nor its end.
<1>18. pc = "item" /\ inCode /\ Response.Data = <<>> =>
          NextType \notin {"OpenParen", "CloseParen", "EndOfLine"}
  <2> SUFFICES ASSUME pc = "item", inCode, Response.Data = <<>>
               PROVE  NextType \notin {"OpenParen", "CloseParen", "EndOfLine"}
    OBVIOUS
  <2>1. at = 6 /\ NamesCode(tokens)
    BY <1>4 DEF InItems
  <2>2. Peek(0) = Nth(tokens, 6)
    BY <2>1 DEF Peek
  <2> QED
    BY <2>1, <2>2 DEF KeepsLimits, NextType
<1>19. CASE ListStart
  <2>1. /\ InItems /\ pc = "item" /\ pc' = "item" /\ NextType = "OpenParen" /\ at' = at + 1 /\ lists' = lists + 1
        /\ UNCHANGED <<inCode, OutLength, Response>>
    BY <1>4, <1>19 DEF ListStart
  <2>2. at <= Len(tokens) /\ tokens[at].type = "OpenParen"
    BY <1>3, <2>1
  <2>3. lists' = Depth(tokens, First, at') /\ First <= at'
    BY <1>1, <2>1, <2>2, ItemFacts DEF InItems, First
  <2>4. Len(Response'.Data) <= Count(tokens, {"Space"}, First, at')
    BY <1>1, <2>1, <2>2, ItemFacts DEF InItems
  <2>5. ~(inCode /\ Response'.Data = <<>>)
    BY <1>18, <2>1
  <2>6. Count(tokens, {"Space"}, First, at') + 0 = Count(tokens, {"Space"}, First, at')
    BY <1>1, <2>1, <2>2, ItemFacts
  <2> QED
    BY <1>7, <2>1, <2>3, <2>4, <2>5, <2>6
<1>20. ~DeepList
  <2> SUFFICES ASSUME DeepList PROVE FALSE
    OBVIOUS
  <2>1. InItems /\ lists = MaxLists /\ NextType = "OpenParen"
    BY <1>4 DEF DeepList
  <2>2. at <= Len(tokens) /\ tokens[at].type = "OpenParen"
    BY <1>3, <2>1
  <2>3. Depth(tokens, First, at + 1) = MaxLists + 1 /\ Depth(tokens, First, at + 1) <= MaxLists
    BY <1>1, <2>1, <2>2, ItemFacts
  <2> QED
    BY <2>3, SizesAssumption
\* The parser goes on where it is, with a datum or a list behind it.
<1>21. ASSUME pc \in {"item", "after", "return"}, pc' \in {"after", "return"},
              UNCHANGED <<at, inCode, lists, OutLength, Response>>,
              pc = "item" => NextType \in {"CloseParen", "EndOfLine"}
       PROVE  LimitInv'
  <2>1. InItems
    BY <1>4, <1>21
  <2>2. PICK n \in Nat : n = Count(tokens, {"Space"}, First, at)
    BY <1>1, <2>1, ItemFacts
  <2>3. Len(Response.Data) <= n + 1 /\ ~(inCode /\ Response.Data = <<>>)
    <3>1. Len(Response.Data) \in Nat
      BY <1>1, <2>1, ItemFacts
    <3>2. Len(Response.Data) <= n + (IF pc = "item" THEN 0 ELSE 1)
      BY <2>1, <2>2 DEF InItems
    <3> QED
      BY <1>18, <1>21, <2>1, <2>2, <3>1, <3>2 DEF InItems
  <2> QED
    BY <1>7, <1>21, <2>1, <2>2, <2>3 DEF InItems
<1>22. CASE NoItem
  BY <1>21, <1>22 DEF NoItem
<1>23. CASE AfterItem
  <2>1. CASE NextType \in {"Unknown", "EndOfLine", "EndOfStream", "CloseParen", "CloseBrace"}
    BY <1>21, <1>23, <2>1 DEF AfterItem
  <2>2. CASE NextType = "Space"
    <3>1. /\ InItems /\ pc = "after" /\ pc' = "item" /\ at' = at + 1
          /\ UNCHANGED <<inCode, lists, OutLength, Response>>
      BY <1>4, <1>23, <2>2 DEF AfterItem
    <3>2. at <= Len(tokens) /\ tokens[at].type = "Space"
      BY <1>3, <2>2
    <3>3. lists' = Depth(tokens, First, at') /\ First <= at'
      BY <1>1, <3>1, <3>2, ItemFacts DEF InItems, First
    <3>4. Len(Response'.Data) <= Count(tokens, {"Space"}, First, at') + 0
      BY <1>1, <3>1, <3>2, ItemFacts DEF InItems
    <3>5. ~(inCode /\ Response'.Data = <<>>)
      BY <3>1 DEF InItems
    <3> QED
      BY <1>7, <3>1, <3>3, <3>4, <3>5
  <2>3. CASE NextType \notin {"Unknown", "EndOfLine", "EndOfStream", "CloseParen", "CloseBrace", "Space"}
    BY <1>6, <1>23, <2>3 DEF AfterItem, Fail
  <2> QED
    BY <2>1, <2>2, <2>3
<1>24. CASE ReturnToList
  <2>1. CASE NextType = "CloseParen"
    <3>1. /\ InItems /\ pc = "return" /\ pc' = "after" /\ at' = at + 1 /\ lists' = lists - 1
          /\ UNCHANGED <<inCode, OutLength, Response>>
      BY <1>4, <1>24, <2>1 DEF ReturnToList
    <3>2. at <= Len(tokens) /\ tokens[at].type = "CloseParen"
      BY <1>3, <2>1
    <3>3. lists' = Depth(tokens, First, at') /\ First <= at'
      BY <1>1, <3>1, <3>2, ItemFacts DEF InItems, First
    <3>4. Len(Response'.Data) <= Count(tokens, {"Space"}, First, at') + 1
      BY <1>1, <3>1, <3>2, ItemFacts DEF InItems
    <3>5. ~(inCode /\ Response'.Data = <<>>)
      BY <3>1 DEF InItems
    <3> QED
      BY <1>7, <3>1, <3>3, <3>4, <3>5
  <2>2. CASE NextType # "CloseParen"
    BY <1>6, <1>24, <2>2 DEF ReturnToList, Fail
  <2> QED
    BY <2>1, <2>2
<1>25. CASE ReturnToCode
  <2>1. InItems /\ pc = "return" /\ inCode /\ Response.Data # <<>> /\ NamesCode(tokens)
    BY <1>4, <1>25 DEF ReturnToCode, InItems
  <2>2. CASE NextType = "CloseBrace"
    <3>1. at' = at + 1 /\ pc' = "info" /\ OutLength' = 0
      BY <1>25, <2>1, <2>2 DEF ReturnToCode, InItems
    <3>2. at \in 6..Len(tokens) /\ tokens[at].type = "CloseBrace"
      BY <1>1, <1>3, <2>1, <2>2 DEF InItems, First
    <3>3. TextLength(tokens)[at + 1] < InfoSize
      BY <2>1, <3>2 DEF KeepsLimits, TextFits, Fits
    <3>4. TextLength(tokens)[at + 1] \in Nat
      <4>1. at + 1 \in 1..(Len(tokens) + 2)
        BY <1>1, <3>2
      <4> QED
        BY <1>1, <4>1, TextFacts
    <3> QED
      BY <1>0, <3>1, <3>3, <3>4 DEF LimitInv
  <2>3. CASE NextType # "CloseBrace"
    BY <1>6, <1>25, <2>1, <2>3 DEF ReturnToCode
  <2> QED
    BY <2>2, <2>3
<1>26. CASE InfoToken
  <2>1. pc = "info" /\ OutLength + TextLength(tokens)[at] < InfoSize
    BY <1>4, <1>26 DEF InfoToken
  <2>2. at <= Len(tokens) /\ tokens[at].type # "EndOfLine" /\ Peek(0) = tokens[at]
    BY <1>2, <1>3, <1>26 DEF InfoToken
  <2>3. PICK n \in Nat, rest \in Nat :
           n = Len(Peek(0).text) /\ rest = TextLength(tokens)[at + 1] /\ TextLength(tokens)[at] = n + rest
    <3>1. at \in 1..(Len(tokens) + 2)
      BY <1>1
    <3> QED
      BY <1>1, <2>2, <3>1, TextFacts
  <2>4. OutLength \in Nat /\ InfoSize \in Nat
    BY <1>1, SizesAssumption DEF TypeOK
  <2>5. Fits(OutLength + Len(Peek(0).text), InfoSize) /\ (OutLength + n) + rest < InfoSize
    BY <2>1, <2>3, <2>4 DEF Fits
  <2>6. OutLength' = OutLength + n /\ at' = at + 1 /\ pc' = "info"
    BY <1>26, <2>3, <2>5 DEF InfoToken
  <2> QED
    BY <1>0, <2>3, <2>5, <2>6 DEF LimitInv
<1>27. CASE Done
  <2>1. UNCHANGED <<tokens, at, pc, inCode, lists, OutLength, Response>>
    BY <1>27 DEF Done, vars
  <2> QED
    BY <2>1 DEF LimitInv, Begin, InItems, First
<1> QED
  BY <1>8, <1>9, <1>10, <1>12, <1>13, <1>14, <1>15, <1>16, <1>17, <1>19, <1>20, <1>22, <1>23, <1>24,
     <1>25, <1>26, <1>27 DEF Next, imap_parse_response, imap_parse_response_data

IInv == TypeInv /\ LimitInv

\* The parser starts in the invariant.
LEMMA InitInvariant == Init => IInv
<1> SUFFICES ASSUME Init PROVE LimitInv
  BY InitType DEF IInv
<1> QED
  BY DEF Init, LimitInv, Begin, Blank

\* Every step of the parser keeps it.
LEMMA Invariance == IInv /\ [Next]_vars => IInv'
<1> SUFFICES ASSUME IInv, [Next]_vars PROVE LimitInv'
  BY TypeInvariance DEF IInv
<1>1. UNCHANGED tokens
  BY LineStays
<1>2. CASE UNCHANGED vars
  BY <1>2 DEF IInv, vars, lineVars, LimitInv, Begin, InItems, First
<1>3. CASE Next
  <2>1. CASE KeepsLimits(tokens)
    BY <1>3, <2>1, LimitStep DEF IInv
  <2>2. CASE ~KeepsLimits(tokens)
    BY <1>1, <2>2 DEF LimitInv
  <2> QED
    BY <2>1, <2>2
<1> QED
  BY <1>2, <1>3

-------------------------------------------------------------------------------
(* Responses *)

\* The items of a response, from "first" to before "end".
Section(r, first, end) ==
    \/ first = 3 /\ IsData(r, tokens, end)
    \/ first = 6 /\ IsStatusCode(r, tokens, end)

\* All their words: those of a code begin with its name.
AllWords(r, first) == IF first = 6 THEN <<tokens[6].text>> \o r.Data ELSE r.Data

\* The parser is at a place of the items where it expects what is there.
InPlace(first, end) ==
    \/ pc = "item" /\ ItemStarts(tokens, first, at)
    \/ pc = "after" /\ (at < end => tokens[at].type \in {"Space", "CloseParen"})
    \/ pc = "return" /\ (at < end => tokens[at].type = "CloseParen")

\* It has opened the lists that are open there, and stored the words before it.
Reading(r, first, end) ==
    /\ Section(r, first, end) /\ at \in first..end /\ InPlace(first, end)
    /\ inCode = (first = 6) /\ HasError = FALSE /\ OutLength = 0
    /\ lists = Depth(tokens, first, at)
    /\ Response = [r EXCEPT !.Code = Invalid,
                            !.Data = SubSeq(AllWords(r, first), 1, Count(tokens, Word, first, at))]

Fresh == inCode = FALSE /\ lists = 0 /\ OutLength = 0 /\ Response = Blank /\ HasError = FALSE

\* It has the response and copies the text behind it, the rest of which fits.
InText(r) ==
    /\ pc = "info" /\ ~HasError /\ Response = r
    /\ OutLength + TextLength(tokens)[at] < InfoSize

Finished(r) == pc = "done" /\ ~HasError /\ Response = r

\* The parser is on its way to a response that the line stands for.
Follows(r) ==
    \/ pc = "start" /\ at = 1 /\ Fresh /\ StandsFor(tokens, r)
    \/ pc = "kind" /\ at = 3 /\ Fresh /\ StandsFor(tokens, r) /\ Tagged(tokens)
    \/ \E first \in {3, 6}, end \in DOMAIN tokens : Reading(r, first, end)
    \/ InText(r)
    \/ Finished(r)

MeaningInv == \A r \in line.means : Follows(r)

\* What the grammar says of the items of a response.
LEMMA SectionFacts ==
    ASSUME tokens \in Seq(Token), NEW r, NEW first \in {3, 6}, NEW end \in DOMAIN tokens,
           Section(r, first, end)
    PROVE  /\ Len(tokens) \in Nat /\ end \in Nat /\ end <= Len(tokens) /\ first < end
           /\ Items(tokens, first, end) /\ Words(AllWords(r, first), tokens, first, end)
           /\ r = [Type |-> r.Type, Tag |-> r.Tag, Status |-> r.Status, Code |-> r.Code, Data |-> r.Data]
           /\ r.Data \in Seq(Seq(Char)) /\ AllWords(r, first) \in Seq(Seq(Char))
           /\ first = 3 => tokens[end].type = "EndOfLine" /\ r.Code = Invalid
           /\ first = 6 => /\ tokens[end].type = "CloseBrace" /\ ~ItemStarts(tokens, 6, end)
                           /\ TextFits(tokens, end + 1)
                           /\ r.Code = IF tokens[6].text \in CodeNames THEN tokens[6].text ELSE Invalid
<1>1. Len(tokens) \in Nat /\ end \in Nat /\ end <= Len(tokens)
  OBVIOUS
<1>2. CASE first = 3
  <2>1. IsData(r, tokens, end)
    BY <1>2 DEF Section
  <2>2. AllWords(r, first) = r.Data
    BY <1>2 DEF AllWords
  <2>3. r = [Type |-> r.Type, Tag |-> r.Tag, Status |-> r.Status, Code |-> r.Code, Data |-> r.Data]
        /\ r.Code = Invalid
    BY <2>1 DEF IsData, Blank
  <2>4. Items(tokens, first, end) /\ r.Data \in Seq(Seq(Char)) /\ Words(r.Data, tokens, first, end)
        /\ tokens[end].type = "EndOfLine" /\ first < end
    BY <1>2, <2>1 DEF IsData, Items
  <2> QED
    BY <1>1, <1>2, <2>2, <2>3, <2>4
<1>3. CASE first = 6
  <2>1. IsStatusCode(r, tokens, end)
    BY <1>3 DEF Section
  <2>2. AllWords(r, first) = <<tokens[6].text>> \o r.Data
    BY <1>3 DEF AllWords
  <2>3. r = [Type |-> r.Type, Tag |-> r.Tag, Status |-> r.Status, Code |-> r.Code, Data |-> r.Data]
    BY <2>1 DEF IsStatusCode, HasStatus, Blank
  <2>4. /\ Items(tokens, first, end) /\ r.Data \in Seq(Seq(Char)) /\ first < end
        /\ Words(<<tokens[6].text>> \o r.Data, tokens, first, end)
        /\ tokens[end].type = "CloseBrace" /\ ~ItemStarts(tokens, 6, end) /\ TextFits(tokens, end + 1)
        /\ r.Code = IF tokens[6].text \in CodeNames THEN tokens[6].text ELSE Invalid
    BY <1>3, <2>1 DEF IsStatusCode, Items
  <2>5. tokens[6].text \in Seq(Char)
    <3>1. 6 \in 1..Len(tokens)
      BY <1>1, <1>3, <2>4
    <3>2. tokens[6] \in Token
      BY <3>1, ElementOfSeq
    <3> QED
      BY <3>2 DEF Token
  <2>6. <<tokens[6].text>> \o r.Data \in Seq(Seq(Char))
    BY <2>4, <2>5
  <2>7. AllWords(r, first) \in Seq(Seq(Char)) /\ Words(AllWords(r, first), tokens, first, end)
    BY <2>2, <2>4, <2>6
  <2>8. first # 3
    BY <1>3
  <2> QED
    BY <1>1, <2>3, <2>4, <2>7, <2>8
<1> QED
  BY <1>2, <1>3

\* From one token of the items to the next.
LEMMA MoveFacts ==
    ASSUME NEW first \in Nat, NEW end \in Nat, Items(tokens, first, end), NEW k \in first..(end - 1)
    PROVE  /\ Depth(tokens, first, k) \in Int
           /\ Depth(tokens, first, k + 1) =
                CASE tokens[k].type = "OpenParen"  -> Depth(tokens, first, k) + 1
                  [] tokens[k].type = "CloseParen" -> Depth(tokens, first, k) - 1
                  [] OTHER                         -> Depth(tokens, first, k)
           /\ ItemStarts(tokens, first, k + 1) <=> tokens[k].type \in {"Space", "OpenParen"}
           /\ ItemStarts(tokens, first, k) => tokens[k].type \in Word \cup {"OpenParen", "CloseParen"}
           /\ ~ItemStarts(tokens, first, k) => tokens[k].type \in {"Space", "CloseParen"}
           /\ tokens[k].type = "CloseParen" => Depth(tokens, first, k) > 0
           /\ tokens[k].type \in Word => Fits(Len(tokens[k].text), ContentSize)
           /\ tokens[k].type = "OpenParen" => Depth(tokens, first, k) < MaxLists
<1>1. k \in Nat /\ first <= k /\ k + 1 # first /\ (k + 1) - 1 = k
  OBVIOUS
<1>2. /\ Depth(tokens, first, k) \in Int
      /\ Depth(tokens, first, k + 1) =
           CASE tokens[k].type = "OpenParen"  -> Depth(tokens, first, k) + 1
             [] tokens[k].type = "CloseParen" -> Depth(tokens, first, k) - 1
             [] OTHER                         -> Depth(tokens, first, k)
  BY <1>1, DepthStep
<1>3. /\ tokens[k].type \in Word => Fits(Len(tokens[k].text), ContentSize)
      /\ Depth(tokens, first, k + 1) <= MaxLists
  BY DEF Items
<1>4. tokens[k].type = "OpenParen" => Depth(tokens, first, k) < MaxLists
  BY <1>2, <1>3, SizesAssumption
<1>5. ItemStarts(tokens, first, k + 1) <=> tokens[k].type \in {"Space", "OpenParen"}
  BY <1>1 DEF ItemStarts
<1>6. \/ ItemStarts(tokens, first, k) /\ tokens[k].type \in Word \cup {"OpenParen"}
      \/ ~ItemStarts(tokens, first, k) /\ tokens[k].type = "Space"
      \/ tokens[k].type = "CloseParen" /\ Depth(tokens, first, k) > 0
  BY DEF Items
<1> QED
  BY <1>2, <1>3, <1>4, <1>5, <1>6 DEF Word

\* The response with the first n of its data, as the parser has it.
Partial(r, first, n) == [r EXCEPT !.Code = Invalid, !.Data = SubSeq(AllWords(r, first), 1, n)]

\* What is used of Reading at its places.
LEMMA ReadingFacts ==
    ASSUME TypeOK, NEW r, NEW first \in {3, 6}, NEW end \in DOMAIN tokens, Reading(r, first, end)
    PROVE  tokens \in Seq(Token) /\ Section(r, first, end) /\ at \in first..end /\ first \in Nat
<1>1. tokens \in Seq(Token)
  BY DEF TypeOK, Token
<1>2. Section(r, first, end) /\ at \in first..end
  BY DEF Reading
<1>3. first \in Nat
  OBVIOUS
<1> QED
  BY <1>1, <1>2, <1>3

\* Where the parser reads items it finds what it expects there.
LEMMA ExpectedFacts ==
    ASSUME TypeOK, NEW r, NEW first \in {3, 6}, NEW end \in DOMAIN tokens, Reading(r, first, end)
    PROVE  /\ at \in Nat /\ end \in Nat /\ Peek(0) = tokens[at] /\ NextType = tokens[at].type
           /\ pc = "item" => \/ at < end /\ NextType \in Word \cup {"OpenParen", "CloseParen"}
                             \/ at = end /\ NextType = "EndOfLine"
           /\ at < end => /\ NextType \in Word => Fits(Len(Peek(0).text), ContentSize)
                          /\ NextType = "OpenParen" => lists < MaxLists
           /\ pc = "after" => \/ at < end /\ NextType \in {"Space", "CloseParen"}
                              \/ at = end /\ NextType \in {"EndOfLine", "CloseBrace"}
           /\ pc = "return" => \/ at < end /\ NextType = "CloseParen" /\ lists > 0
                               \/ at = end /\ lists = 0 /\ (inCode => NextType = "CloseBrace")
<1>1. tokens \in Seq(Token) /\ Section(r, first, end) /\ at \in first..end /\ first \in Nat
  BY ReadingFacts
<1>2. /\ Len(tokens) \in Nat /\ end \in Nat /\ end <= Len(tokens) /\ Items(tokens, first, end)
      /\ first = 3 => tokens[end].type = "EndOfLine"
      /\ first = 6 => tokens[end].type = "CloseBrace" /\ ~ItemStarts(tokens, 6, end)
  BY <1>1, SectionFacts
<1>3. at \in Nat /\ at + 0 = at /\ at <= Len(tokens) /\ (at < end \/ at = end)
  BY <1>1, <1>2
<1>4. Peek(0) = tokens[at] /\ NextType = tokens[at].type
  BY <1>3 DEF Peek, Nth, NextType
<1>5. CASE at < end
  <2>1. at \in first..(end - 1)
    BY <1>1, <1>2, <1>5
  <2>2. /\ ItemStarts(tokens, first, at) => NextType \in Word \cup {"OpenParen", "CloseParen"}
        /\ NextType = "CloseParen" => lists > 0
        /\ NextType \in Word => Fits(Len(Peek(0).text), ContentSize)
        /\ NextType = "OpenParen" => lists < MaxLists
    BY <1>1, <1>2, <1>4, <2>1, MoveFacts DEF Reading
  <2> QED
    BY <1>1, <1>2, <1>3, <1>4, <1>5, <2>2 DEF Reading, InPlace
<1>6. CASE at = end
  <2>1. Depth(tokens, first, end) = 0
    BY <1>2 DEF Items
  <2>2. NextType \in {"EndOfLine", "CloseBrace"} /\ (inCode => NextType = "CloseBrace")
    BY <1>2, <1>4, <1>6 DEF Reading
  <2>3. pc = "item" => NextType = "EndOfLine"
    BY <1>2, <1>4, <1>6 DEF Reading, InPlace
  <2> QED
    BY <1>2, <1>3, <1>4, <1>6, <2>1, <2>2, <2>3 DEF Reading
<1> QED
  BY <1>3, <1>5, <1>6

\* A token is passed over: a list is opened or closed, or a word is stored.
Pass ==
    /\ at' = at + 1 /\ UNCHANGED <<tokens, inCode, OutLength, HasError>>
    /\ lists' = CASE NextType = "OpenParen"  -> lists + 1
                  [] NextType = "CloseParen" -> lists - 1
                  [] OTHER                   -> lists
    /\ NextType \notin Word => UNCHANGED Response
    /\ NextType \in Word => Response' = [Response EXCEPT !.Data = Append(@, Peek(0).text)]
    /\ pc' = IF NextType \in {"Space", "OpenParen"} THEN "item" ELSE "after"

\* That keeps the parser on its way.
LEMMA PassFacts ==
    ASSUME TypeOK, NEW r, NEW first \in {3, 6}, NEW end \in DOMAIN tokens, Reading(r, first, end),
           at < end, Pass
    PROVE  Reading(r, first, end)'
<1>1. tokens \in Seq(Token) /\ Section(r, first, end) /\ at \in first..end /\ first \in Nat
  BY ReadingFacts
<1>2. /\ Len(tokens) \in Nat /\ end \in Nat /\ end <= Len(tokens) /\ Items(tokens, first, end)
      /\ Words(AllWords(r, first), tokens, first, end) /\ AllWords(r, first) \in Seq(Seq(Char))
      /\ r = [Type |-> r.Type, Tag |-> r.Tag, Status |-> r.Status, Code |-> r.Code, Data |-> r.Data]
  BY <1>1, SectionFacts
<1>3. at \in Nat /\ NextType = tokens[at].type /\ Peek(0) = tokens[at]
  BY ExpectedFacts
<1>4. at \in first..(end - 1) /\ first <= at /\ at + 1 \in Nat /\ at + 1 \in first..end /\ at + 1 <= end
  <2>1. at \in Nat /\ first \in Nat /\ end \in Nat /\ first <= at /\ at < end
    BY <1>1, <1>2, <1>3
  <2> QED
    BY <2>1
<1>5. /\ Depth(tokens, first, at) \in Int
      /\ Depth(tokens, first, at + 1) =
           CASE tokens[at].type = "OpenParen"  -> Depth(tokens, first, at) + 1
             [] tokens[at].type = "CloseParen" -> Depth(tokens, first, at) - 1
             [] OTHER                          -> Depth(tokens, first, at)
      /\ ItemStarts(tokens, first, at + 1) <=> tokens[at].type \in {"Space", "OpenParen"}
  BY <1>1, <1>2, <1>4, MoveFacts
<1>6. lists' = Depth(tokens, first, at + 1)
  BY <1>3, <1>5 DEF Reading, Pass
<1>7. InPlace(first, end)'
  <2>1. CASE NextType \in {"Space", "OpenParen"}
    BY <1>3, <1>5, <2>1 DEF InPlace, Pass
  <2>2. CASE NextType \notin {"Space", "OpenParen"}
    <3>1. ASSUME at + 1 < end PROVE tokens[at + 1].type \in {"Space", "CloseParen"}
      <4>1. at + 1 \in first..(end - 1)
        BY <1>2, <1>4, <3>1
      <4>2. ~ItemStarts(tokens, first, at + 1)
        BY <1>3, <1>5, <2>2
      <4> QED
        BY <1>1, <1>2, <4>1, <4>2, MoveFacts
    <3> QED
      BY <2>2, <3>1 DEF InPlace, Pass
  <2> QED
    BY <2>1, <2>2
<1>8. Response' = Partial(r, first, Count(tokens, Word, first, at + 1))
  <2>1. PICK n \in Nat : /\ n = Count(tokens, Word, first, at)
                         /\ Count(tokens, Word, first, at + 1) = n + (IF NextType \in Word THEN 1 ELSE 0)
    <3>1. Counts(tokens, Word, first, at)
      BY <1>1, <1>3, <1>4, CountFacts
    <3> QED
      BY <1>3, <3>1 DEF Counts
  <2>2. Response = Partial(r, first, n)
    BY <2>1 DEF Reading, Partial
  <2>3. CASE NextType \notin Word
    BY <2>1, <2>2, <2>3 DEF Pass
  <2>4. CASE NextType \in Word
    <3>1. Count(tokens, Word, first, at + 1) = n + 1
      BY <2>1, <2>4
    <3>2. n + 1 <= Len(AllWords(r, first))
      <4>1. n + 1 <= Count(tokens, Word, first, end)
        BY <1>1, <1>2, <1>4, <3>1, CountRises
      <4> QED
        BY <1>2, <4>1 DEF Words
    <3>3. AllWords(r, first)[n + 1] = Peek(0).text
      BY <1>2, <1>3, <1>4, <2>4, <3>1 DEF Words
    <3>4. SubSeq(AllWords(r, first), 1, n + 1) = Append(SubSeq(AllWords(r, first), 1, n), Peek(0).text)
      <4>1. PICK w \in Seq(Seq(Char)) : w = AllWords(r, first)
        BY <1>2
      <4>2. n + 1 <= Len(w) /\ Len(w) \in Nat /\ w[n + 1] = Peek(0).text
        BY <3>2, <3>3, <4>1
      <4>3. SubSeq(w, 1, n + 1) = Append(SubSeq(w, 1, n), w[n + 1])
        <5>1. n + 1 \in 1..Len(w) /\ 1 \in 1..(n + 1) /\ (n + 1) - 1 = n
          BY <4>2
        <5>2. SubSeq(w, 1, n + 1) = SubSeq(w, 1, n) \o <<w[n + 1]>>
          BY <4>1, <5>1, SubSeqRecursiveSecond
        <5> QED
          BY <5>2, AppendIsConcat
      <4> QED
        BY <4>1, <4>2, <4>3
    <3>5. Response.Data = SubSeq(AllWords(r, first), 1, n)
      BY <1>2, <2>2 DEF Partial
    <3>6. Response' = [Response EXCEPT !.Data = SubSeq(AllWords(r, first), 1, n + 1)]
      BY <2>4, <3>4, <3>5 DEF Pass
    <3> QED
      BY <1>2, <2>2, <3>1, <3>6 DEF Partial
  <2> QED
    BY <2>3, <2>4
<1>9. Section(r, first, end)'
  BY <1>1 DEF Section, Pass
<1>10. AllWords(r, first)' = AllWords(r, first)
  BY DEF AllWords, Pass
<1> QED
  BY <1>4, <1>6, <1>7, <1>8, <1>9, <1>10 DEF Reading, Partial, Pass

\* There is room for each word.
LEMMA RoomFacts ==
    ASSUME TypeOK, NEW r, NEW first \in {3, 6}, NEW end \in DOMAIN tokens, Reading(r, first, end),
           at < end, NextType \in Word
    PROVE  Len(Response.Data) # MaxData
<1>1. tokens \in Seq(Token) /\ Section(r, first, end) /\ at \in first..end /\ first \in Nat
  BY ReadingFacts
<1>2. /\ end \in Nat /\ Items(tokens, first, end)
      /\ Words(AllWords(r, first), tokens, first, end) /\ AllWords(r, first) \in Seq(Seq(Char))
      /\ r = [Type |-> r.Type, Tag |-> r.Tag, Status |-> r.Status, Code |-> r.Code, Data |-> r.Data]
  BY <1>1, SectionFacts
<1>3. at \in Nat /\ NextType = tokens[at].type
  BY ExpectedFacts
<1>4. first <= at /\ at + 1 \in Nat /\ at + 1 <= end
  <2>1. at \in Nat /\ first \in Nat /\ end \in Nat /\ first <= at /\ at < end
    BY <1>1, <1>2, <1>3
  <2> QED
    BY <2>1
<1>5. PICK n \in Nat : n = Count(tokens, Word, first, at) /\ Count(tokens, Word, first, at + 1) = n + 1
  <2>1. Counts(tokens, Word, first, at)
    BY <1>1, <1>3, <1>4, CountFacts
  <2> QED
    BY <1>3, <2>1 DEF Counts
<1>6. n + 1 <= Count(tokens, Word, first, end)
  BY <1>1, <1>2, <1>4, <1>5, CountRises
<1>7. PICK w \in Seq(Seq(Char)) : w = AllWords(r, first) /\ n + 1 <= Len(w) /\ Len(w) <= MaxData
  BY <1>2, <1>6 DEF Words, Items
<1>8. Response.Data = SubSeq(w, 1, n)
  BY <1>2, <1>5, <1>7 DEF Reading
<1>9. Len(SubSeq(w, 1, n)) = n
  BY <1>7
<1> QED
  BY <1>7, <1>8, <1>9, SizesAssumption

Full(r, first) == [r EXCEPT !.Code = Invalid, !.Data = AllWords(r, first)]

\* Behind the items the response has all words.
LEMMA FullFacts ==
    ASSUME TypeOK, NEW r, NEW first \in {3, 6}, NEW end \in DOMAIN tokens, Reading(r, first, end),
           at = end
    PROVE  Response = Full(r, first)
<1>1. tokens \in Seq(Token) /\ Section(r, first, end)
  BY DEF TypeOK, Token, Reading
<1>2. Words(AllWords(r, first), tokens, first, end) /\ AllWords(r, first) \in Seq(Seq(Char))
  BY <1>1, SectionFacts
<1>3. SubSeq(AllWords(r, first), 1, Count(tokens, Word, first, end)) = AllWords(r, first)
  BY <1>2, SubSeqFull DEF Words
<1> QED
  BY <1>3 DEF Reading, Full

\* A step of the parser keeps it on its way or finishes the response.
LEMMA ReadingStep ==
    ASSUME TypeOK, NEW r, NEW first \in {3, 6}, NEW end \in DOMAIN tokens, Reading(r, first, end), Next
    PROVE  Reading(r, first, end)' \/ InText(r)' \/ Finished(r)'
<1> USE DEF lineVars
<1>1. /\ at \in Nat /\ end \in Nat /\ Peek(0) = tokens[at] /\ NextType = tokens[at].type
      /\ pc = "item" => \/ at < end /\ NextType \in Word \cup {"OpenParen", "CloseParen"}
                        \/ at = end /\ NextType = "EndOfLine"
      /\ at < end => /\ NextType \in Word => Fits(Len(Peek(0).text), ContentSize)
                     /\ NextType = "OpenParen" => lists < MaxLists
      /\ pc = "after" => \/ at < end /\ NextType \in {"Space", "CloseParen"}
                         \/ at = end /\ NextType \in {"EndOfLine", "CloseBrace"}
      /\ pc = "return" => \/ at < end /\ NextType = "CloseParen" /\ lists > 0
                          \/ at = end /\ lists = 0 /\ (inCode => NextType = "CloseBrace")
  BY ExpectedFacts
<1>2. pc \in {"item", "after", "return"} /\ tokens \in Seq(Token) /\ Section(r, first, end)
  BY DEF Reading, InPlace, TypeOK, Token
\* The place stays, and so does what is expected there.
<1>3. ASSUME UNCHANGED <<tokens, at, inCode, lists, OutLength, Response, HasError>>, InPlace(first, end)'
      PROVE  Reading(r, first, end)'
  <2>1. Section(r, first, end)' /\ AllWords(r, first)' = AllWords(r, first)
    BY <1>2, <1>3 DEF Section, AllWords
  <2> QED
    BY <1>3, <2>1 DEF Reading
<1>4. CASE Atom
  <2>1. at < end /\ NextType \in Word /\ Store(Peek(0).text, 1)
    BY <1>1, <1>4 DEF Atom
  <2>2. Pass
    BY <2>1, RoomFacts DEF Store, Pass, Word
  <2> QED
    BY <2>1, <2>2, PassFacts
<1>5. CASE ListStart
  <2>1. at < end /\ NextType = "OpenParen" /\ NextType \notin Word
    BY <1>1, <1>5 DEF ListStart, Word
  <2>2. Pass
    BY <1>5, <2>1 DEF ListStart, Pass
  <2> QED
    BY <2>1, <2>2, PassFacts
<1>6. CASE NoItem
  <2>1. UNCHANGED <<tokens, at, inCode, lists, OutLength, Response, HasError>>
    BY <1>6 DEF NoItem
  <2>2. CASE NextType = "CloseParen"
    BY <1>1, <1>3, <1>6, <2>1, <2>2 DEF NoItem, InPlace
  <2>3. CASE NextType = "EndOfLine"
    <3>1. at = end /\ pc' = "return"
      BY <1>1, <1>6, <2>3 DEF NoItem, Word
    <3> QED
      BY <1>1, <1>3, <2>1, <3>1 DEF InPlace
  <2> QED
    BY <1>6, <2>2, <2>3 DEF NoItem
<1>7. CASE AfterItem
  <2>1. CASE NextType = "Space"
    <3>1. at < end /\ NextType \notin Word
      BY <1>1, <1>7, <2>1 DEF AfterItem, Word
    <3>2. Pass
      BY <1>7, <2>1, <3>1 DEF AfterItem, Pass
    <3> QED
      BY <3>1, <3>2, PassFacts
  <2>2. CASE NextType \in {"CloseParen", "EndOfLine", "CloseBrace"}
    <3>1. pc' = "return" /\ UNCHANGED <<tokens, at, inCode, lists, OutLength, Response, HasError>>
      BY <1>7, <2>2 DEF AfterItem
    <3>2. at < end => tokens[at].type = "CloseParen"
      BY <1>1, <1>7, <2>2 DEF AfterItem
    <3> QED
      BY <1>3, <3>1, <3>2 DEF InPlace
  <2> QED
    BY <1>1, <1>7, <2>1, <2>2 DEF AfterItem
<1>8. CASE ReturnToList
  <2>1. at < end /\ NextType = "CloseParen" /\ NextType \notin Word
    BY <1>1, <1>8 DEF ReturnToList, Word
  <2>2. Pass
    BY <1>8, <2>1 DEF ReturnToList, Pass
  <2> QED
    BY <2>1, <2>2, PassFacts
<1>9. /\ r = [Type |-> r.Type, Tag |-> r.Tag, Status |-> r.Status, Code |-> r.Code, Data |-> r.Data]
      /\ r.Data \in Seq(Seq(Char))
      /\ first = 3 => r.Code = Invalid
      /\ first = 6 => /\ r.Code = IF tokens[6].text \in CodeNames THEN tokens[6].text ELSE Invalid
                      /\ tokens[6].text \in Seq(Char)
  <2>1. first = 6 => tokens[6].text \in Seq(Char)
    <3>1. first = 6 => 6 \in 1..Len(tokens)
      <4>1. Len(tokens) \in Nat /\ end \in Nat /\ end <= Len(tokens) /\ first < end
        BY <1>2, SectionFacts
      <4> QED
        BY <4>1
    <3>2. first = 6 => tokens[6] \in Token
      BY <1>2, <3>1, ElementOfSeq
    <3> QED
      BY <3>2 DEF Token
  <2> QED
    BY <1>2, <2>1, SectionFacts
<1>9a. inCode <=> first = 6
  BY DEF Reading, TypeOK
<1>10. CASE ReturnToData
  <2>1. at = end /\ ~inCode /\ first = 3 /\ pc' = "done" /\ UNCHANGED <<Response, HasError>>
    BY <1>1, <1>9a, <1>10 DEF ReturnToData
  <2>1a. AllWords(r, first) = r.Data
    BY <2>1 DEF AllWords
  <2>2. Response = [r EXCEPT !.Code = Invalid, !.Data = r.Data]
    <3>1. Response = Full(r, first)
      BY <2>1, FullFacts
    <3> QED
      BY <2>1a, <3>1 DEF Full
  <2>3. Response = r
    BY <1>9, <2>1, <2>2
  <2> QED
    BY <2>1, <2>3 DEF Reading, Finished
<1>11. CASE ReturnToCode
  <2>1. at = end /\ inCode /\ first = 6 /\ NextType = "CloseBrace"
    BY <1>1, <1>9a, <1>11 DEF ReturnToCode
  <2>1a. AllWords(r, first) = <<tokens[6].text>> \o r.Data
    BY <2>1 DEF AllWords
  <2>2. Response = [r EXCEPT !.Code = Invalid, !.Data = <<tokens[6].text>> \o r.Data]
    <3>1. Response = Full(r, first)
      BY <2>1, FullFacts
    <3> QED
      BY <2>1a, <3>1 DEF Full
  <2> DEFINE name == tokens[6].text
             data == <<name>> \o r.Data
  <2>3. data # <<>> /\ Head(data) = name /\ Tail(data) = r.Data
    <3>1. PICK d \in Seq(Seq(Char)) : d = r.Data
      BY <1>9
    <3>2. name \in Seq(Char)
      BY <1>9, <2>1
    <3> HIDE DEF name
    <3>3. <<name>> \o d # <<>> /\ Head(<<name>> \o d) = name /\ Tail(<<name>> \o d) = d
      BY <3>2, FrontFacts
    <3> QED
      BY <3>1, <3>3
  <2> HIDE DEF data, name
  <2>4. Response.Data = data
    BY <1>9, <2>2 DEF data, name
  <2>5. /\ Response' = [Response EXCEPT !.Code = IF name \in CodeNames THEN name ELSE Invalid,
                                        !.Data = r.Data]
        /\ pc' = "info" /\ HasError' = FALSE /\ at' = end + 1 /\ UNCHANGED <<tokens, OutLength>>
    BY <1>11, <2>1, <2>3, <2>4 DEF ReturnToCode, Reading
  <2>6. Response' = [r EXCEPT !.Code = r.Code, !.Data = r.Data]
    BY <1>9, <2>1, <2>2, <2>5 DEF name
  <2>7. Response' = r
    BY <1>9, <2>6
  <2>8. OutLength' + TextLength(tokens)[end + 1] < InfoSize
    <3>1. TextLength(tokens)[end + 1] < InfoSize
      BY <1>2, <2>1, SectionFacts DEF TextFits, Fits
    <3>2. end + 1 \in 1..(Len(tokens) + 2)
      BY <1>2, SectionFacts
    <3>3. TextLength(tokens)[end + 1] \in Nat
      BY <1>2, <3>2, TextFacts
    <3> QED
      BY <2>5, <3>1, <3>3 DEF Reading
  <2> QED
    BY <2>5, <2>7, <2>8 DEF InText
<1>12. ~LiteralStart /\ ~LongAtom /\ ~DeepList
  BY <1>1, SizesAssumption DEF LiteralStart, LongAtom, DeepList, Word
<1> QED
  BY <1>2, <1>4, <1>5, <1>6, <1>7, <1>8, <1>10, <1>11, <1>12
     DEF Next, imap_parse_response, imap_parse_response_data, Done, InvalidTag, Continuation,
         ValidTag, StatusLine, LongTag, DataLine, LiteralToken, LiteralEnd, LiteralFails,
         InfoToken, InfoEnd

\* The first token tells whether the line goes on.
LEMMA StartStep ==
    ASSUME TypeOK, NEW r, pc = "start", at = 1, Fresh, StandsFor(tokens, r), Next
    PROVE  Follows(r)'
<1> USE DEF lineVars
<1>1. Len(tokens) \in Nat /\ tokens \in Seq(Token)
  BY DEF TypeOK, Token
<1>2. InvalidTag \/ Continuation \/ ValidTag
  BY DEF Next, imap_parse_response, imap_parse_response_data, Done, StatusLine, DataLine, Atom,
         ListStart, NoItem, AfterItem, LiteralStart, LiteralToken, LiteralEnd, LiteralFails,
         ReturnToList, ReturnToData, ReturnToCode, LongTag, LongAtom, DeepList, InfoToken, InfoEnd
<1>3. CASE IsContinuation(r, tokens)
  <2>1. Len(tokens) >= 1
    BY <1>1, <1>3 DEF IsContinuation
  <2>2. Peek(0) = tokens[1] /\ NextType = "Plus"
    BY <1>1, <1>3, <2>1 DEF IsContinuation, Peek, Nth, NextType
  <2>3. Continuation
    BY <1>2, <2>2 DEF InvalidTag, ValidTag, NoTag
  <2>4. /\ pc' = "info" /\ at' = 3 /\ HasError' = FALSE /\ OutLength' = 0 /\ tokens' = tokens
        /\ Response' = r
    BY <1>3, <2>3 DEF Continuation, IsContinuation, Fresh
  <2>5. TextLength(tokens)[3] < InfoSize
    BY <1>3 DEF IsContinuation, TextFits, Fits
  <2>6. TextLength(tokens)[3] \in Nat
    <3>1. 3 \in 1..(Len(tokens) + 2)
      BY <1>1, <2>1
    <3> QED
      BY <1>1, <3>1, TextFacts
  <2>7. InText(r)'
    BY <2>4, <2>5, <2>6 DEF InText
  <2> QED
    BY <2>7 DEF Follows
<1>4. CASE Tagged(tokens)
  <2>1. /\ Peek(0) = tokens[1] /\ Peek(1) = tokens[2]
        /\ NextType \in {"Asterisk", "Identifier"} /\ Peek(1).type = "Space"
    BY <1>1, <1>4 DEF Tagged, Peek, Nth, NextType
  <2>2. ValidTag
    BY <1>2, <2>1 DEF InvalidTag, Continuation, NoTag
  <2> QED
    BY <1>4, <2>2 DEF ValidTag, Fresh, Follows
<1> QED
  BY <1>3, <1>4 DEF StandsFor, IsStatusText, IsStatusCode, HasStatus, IsData

Begun(r) == [Type |-> r.Type, Tag |-> r.Tag, Status |-> r.Status, Code |-> Invalid, Data |-> <<>>]

\* A parser at the first item is on its way.
LEMMA FirstItem ==
    ASSUME tokens \in Seq(Token), UNCHANGED tokens,
           NEW r, NEW first \in {3, 6}, NEW end \in DOMAIN tokens, Section(r, first, end),
           pc' = "item", at' = first, HasError' = FALSE, lists' = 0, OutLength' = 0,
           Response' = Begun(r),
           first = 3 => inCode' = FALSE, first = 6 => inCode' = TRUE
    PROVE  Reading(r, first, end)'
<1>1. /\ Len(tokens) \in Nat /\ end \in Nat /\ end <= Len(tokens) /\ first < end
      /\ AllWords(r, first) \in Seq(Seq(Char))
  BY SectionFacts
<1>2. first \in Nat /\ first <= first /\ first \in first..end
  BY <1>1
<1>3. \A types : Count(tokens, types, first, first) = 0
  BY <1>2, CountFacts DEF Counts
<1>4. Depth(tokens, first, first) = 0
  BY <1>3 DEF Depth
<1>5. SubSeq(AllWords(r, first), 1, 0) = <<>>
  BY <1>1, SubSeqEmpty
<1>6. InPlace(first, end)'
  BY DEF InPlace, ItemStarts
<1>7. Section(r, first, end)' /\ AllWords(r, first)' = AllWords(r, first)
  BY DEF Section, AllWords
<1>8. inCode' = (first = 6)
  OBVIOUS
<1>9. Response' = [r EXCEPT !.Code = Invalid, !.Data = <<>>]
  <2>1. PICK type, tag, status, code, data :
          r = [Type |-> type, Tag |-> tag, Status |-> status, Code |-> code, Data |-> data]
    BY SectionFacts
  <2>2. Response' = [Type |-> type, Tag |-> tag, Status |-> status, Code |-> Invalid, Data |-> <<>>]
    BY <2>1 DEF Begun
  <2>3. [r EXCEPT !.Code = Invalid, !.Data = <<>>]
          = [Type |-> type, Tag |-> tag, Status |-> status, Code |-> Invalid, Data |-> <<>>]
    <3>1. [r EXCEPT !.Code = Invalid]
            = [Type |-> type, Tag |-> tag, Status |-> status, Code |-> Invalid, Data |-> data]
      BY <2>1
    <3>2. [[Type |-> type, Tag |-> tag, Status |-> status, Code |-> Invalid, Data |-> data] EXCEPT !.Data = <<>>]
            = [Type |-> type, Tag |-> tag, Status |-> status, Code |-> Invalid, Data |-> <<>>]
      OBVIOUS
    <3> QED
      BY <3>1, <3>2
  <2> QED
    BY <2>2, <2>3
<1>10. SubSeq(AllWords(r, first)', 1, Count(tokens', Word, first, at')) = <<>>
  BY <1>3, <1>5, <1>7
<1>11. (Response = [r EXCEPT !.Code = Invalid,
                             !.Data = SubSeq(AllWords(r, first), 1, Count(tokens, Word, first, at))])'
  BY <1>9, <1>10
<1>12. (at \in first..end)' /\ (lists = Depth(tokens, first, at))'
  BY <1>2, <1>4
<1> QED
  BY <1>6, <1>7, <1>8, <1>11, <1>12 DEF Reading

\* What the second one is tells where the items start, if there are any.
LEMMA KindStep ==
    ASSUME TypeOK, NEW r, pc = "kind", at = 3, Fresh, StandsFor(tokens, r), Tagged(tokens), Next
    PROVE  Follows(r)'
<1> USE DEF lineVars
<1>1. Len(tokens) \in Nat /\ tokens \in Seq(Token)
  BY DEF TypeOK, Token
<1>2. StatusLine \/ LongTag \/ DataLine
  BY DEF Next, imap_parse_response, imap_parse_response_data, Done, InvalidTag, Continuation, ValidTag,
         Atom, ListStart, NoItem, AfterItem, LiteralStart, LiteralToken, LiteralEnd, LiteralFails,
         ReturnToList, ReturnToData, ReturnToCode, LongAtom, DeepList, InfoToken, InfoEnd
<1>3. Peek(0) = tokens[3] /\ Peek(1) = tokens[4] /\ Peek(2) = Nth(tokens, 5)
  BY <1>1 DEF Tagged, Peek, Nth
<1>4. ASSUME HasStatus(r, tokens)
      PROVE  /\ StatusLine /\ StatusOf(Peek(0).text) = tokens[3].text
             /\ r.Type = "STATUS" /\ r.Tag = tokens[1].text /\ r.Status = tokens[3].text
             /\ r = [Type |-> r.Type, Tag |-> r.Tag, Status |-> r.Status, Code |-> r.Code, Data |-> r.Data]
  <2>1. PICK i \in DOMAIN StatusNames : tokens[3].text = StatusNames[i]
    BY <1>4 DEF HasStatus
  <2>2. StatusOf(tokens[3].text) = tokens[3].text /\ tokens[3].text # Invalid
    BY <2>1, StatusFound
  <2>3. IsStatus
    BY <1>3, <1>4, <2>2 DEF IsStatus, HasStatus
  <2> QED
    BY <1>2, <1>3, <1>4, <2>2, <2>3 DEF DataLine, LongTag, HasStatus, Blank
<1>5. CASE IsStatusText(r, tokens)
  <2>1. HasStatus(r, tokens) /\ Peek(2).type # "OpenBrace" /\ r.Code = Invalid /\ r.Data = <<>>
    BY <1>3, <1>5 DEF IsStatusText
  <2>2. StatusLine /\ StatusOf(Peek(0).text) = tokens[3].text
    BY <1>4, <2>1
  <2>2a. pc' = "info" /\ at' = 5 /\ UNCHANGED <<tokens, OutLength, HasError>>
    <3>1. at + 2 = 5
      OBVIOUS
    <3> QED
      BY <2>1, <2>2, <3>1 DEF StatusLine
  <2>2b. Response' = [Blank EXCEPT !.Type = "STATUS", !.Tag = tokens[1].text, !.Status = tokens[3].text]
    BY <2>2 DEF StatusLine, Fresh
  <2>3. Response' = [Type |-> "STATUS", Tag |-> tokens[1].text, Status |-> tokens[3].text,
                     Code |-> Invalid, Data |-> <<>>]
    BY <2>2b DEF Blank
  <2>4. /\ r.Type = "STATUS" /\ r.Tag = tokens[1].text /\ r.Status = tokens[3].text
        /\ r = [Type |-> r.Type, Tag |-> r.Tag, Status |-> r.Status, Code |-> r.Code, Data |-> r.Data]
    BY <1>4, <2>1
  <2>5. Response' = r
    BY <2>1, <2>3, <2>4
  <2>6. TextLength(tokens)[5] < InfoSize
    BY <1>5 DEF IsStatusText, TextFits, Fits
  <2>7. TextLength(tokens)[5] \in Nat
    <3>1. 5 \in 1..(Len(tokens) + 2)
      BY <1>1 DEF Tagged
    <3> QED
      BY <1>1, <3>1, TextFacts
  <2>8. InText(r)'
    BY <2>2a, <2>5, <2>6, <2>7 DEF InText, Fresh
  <2> QED
    BY <2>8 DEF Follows
<1>6. ASSUME NEW end \in DOMAIN tokens, IsStatusCode(r, tokens, end) PROVE Follows(r)'
  <2>1. HasStatus(r, tokens) /\ end \in 7..Len(tokens) /\ tokens[5].type = "OpenBrace"
    BY <1>6 DEF IsStatusCode
  <2>2. Peek(2).type = "OpenBrace"
    <3>1. 5 \in 1..Len(tokens)
      BY <1>1, <2>1
    <3> QED
      BY <1>3, <2>1, <3>1 DEF Nth
  <2>3. StatusLine /\ StatusOf(Peek(0).text) = tokens[3].text
    BY <1>4, <2>1
  <2>3a. /\ pc' = "item" /\ at' = 6 /\ inCode' = TRUE /\ UNCHANGED tokens
         /\ lists' = 0 /\ OutLength' = 0 /\ HasError' = FALSE
    <3>1. at + 3 = 6
      OBVIOUS
    <3> QED
      BY <2>2, <2>3, <3>1 DEF StatusLine, Fresh
  <2>3b. Response' = [Type |-> "STATUS", Tag |-> tokens[1].text, Status |-> tokens[3].text,
                      Code |-> Invalid, Data |-> <<>>]
    BY <2>3 DEF StatusLine, Fresh, Blank
  <2>3c. PICK tag, status, code, data :
            /\ r = [Type |-> "STATUS", Tag |-> tag, Status |-> status, Code |-> code, Data |-> data]
            /\ tag = tokens[1].text /\ status = tokens[3].text
    BY <1>4, <2>1
  <2>4. Response' = Begun(r)
    <3>1. Begun([Type |-> "STATUS", Tag |-> tag, Status |-> status, Code |-> code, Data |-> data])
            = [Type |-> "STATUS", Tag |-> tag, Status |-> status, Code |-> Invalid, Data |-> <<>>]
      BY DEF Begun
    <3> QED
      BY <2>3b, <2>3c, <3>1
  <2>5. Section(r, 6, end) /\ 6 \in {3, 6} /\ 6 # 3
    BY <1>6 DEF Section
  <2>6. Reading(r, 6, end)'
    BY <1>1, <2>3a, <2>4, <2>5, FirstItem
  <2> QED
    BY <2>3a, <2>5, <2>6 DEF Follows
<1>7. ASSUME NEW end \in DOMAIN tokens, IsData(r, tokens, end) PROVE Follows(r)'
  <2>1. StatusOf(Peek(0).text) = Invalid
    BY <1>3, <1>7, StatusFound DEF IsData
  <2>2. DataLine
    BY <1>2, <2>1 DEF StatusLine, LongTag, IsStatus
  <2>3. /\ pc' = "item" /\ at' = 3 /\ inCode' = FALSE /\ UNCHANGED tokens
        /\ lists' = 0 /\ OutLength' = 0 /\ HasError' = FALSE
    BY <2>2 DEF DataLine, Fresh
  <2>3a. Response' = [Type |-> "DATA", Tag |-> <<>>, Status |-> Invalid, Code |-> Invalid, Data |-> <<>>]
    BY <2>2 DEF DataLine, Fresh, Blank
  <2>3b. PICK data :
            r = [Type |-> "DATA", Tag |-> <<>>, Status |-> Invalid, Code |-> Invalid, Data |-> data]
    BY <1>7 DEF IsData, Blank
  <2>4. Response' = Begun(r)
    <3>1. Begun([Type |-> "DATA", Tag |-> <<>>, Status |-> Invalid, Code |-> Invalid, Data |-> data])
            = [Type |-> "DATA", Tag |-> <<>>, Status |-> Invalid, Code |-> Invalid, Data |-> <<>>]
      BY DEF Begun
    <3> QED
      BY <2>3a, <2>3b, <3>1
  <2>5. Section(r, 3, end) /\ 3 \in {3, 6} /\ 3 # 6
    BY <1>7 DEF Section
  <2>6. Reading(r, 3, end)'
    BY <1>1, <2>3, <2>4, <2>5, FirstItem
  <2> QED
    BY <2>3, <2>5, <2>6 DEF Follows
<1>8. ~IsContinuation(r, tokens)
  BY DEF IsContinuation, Tagged
<1> QED
  BY <1>5, <1>6, <1>7, <1>8 DEF StandsFor

\* The rest of a text that fits is copied, and with it the response is finished.
LEMMA TextStep ==
    ASSUME TypeOK, NEW r, InText(r), Next
    PROVE  InText(r)' \/ Finished(r)'
<1> USE DEF lineVars
<1>1. tokens \in Seq(Token) /\ Len(tokens) \in Nat /\ at \in Nat /\ 1 <= at /\ OutLength \in Nat /\ InfoSize \in Nat
  BY SizesAssumption DEF TypeOK, Token
<1>2. pc = "info" /\ OutLength + TextLength(tokens)[at] < InfoSize
  BY DEF InText
<1>3. InfoToken \/ InfoEnd
  BY <1>2 DEF Next, imap_parse_response, imap_parse_response_data, Done, InvalidTag, Continuation,
         ValidTag, StatusLine, LongTag, DataLine, Atom, LongAtom, ListStart, DeepList, NoItem, AfterItem,
         LiteralStart, LiteralToken, LiteralEnd, LiteralFails, ReturnToList, ReturnToData, ReturnToCode
<1>4. CASE InfoToken
  <2>1. at <= Len(tokens) /\ Peek(0) = tokens[at] /\ tokens[at].type # "EndOfLine"
    <3>1. 0 \in Nat /\ at + 0 = at
      BY <1>1
    <3> QED
      BY <1>1, <1>4, <3>1, PeekFacts DEF InfoToken, NextType
  <2>2. PICK n \in Nat, rest \in Nat :
           n = Len(Peek(0).text) /\ rest = TextLength(tokens)[at + 1] /\ TextLength(tokens)[at] = n + rest
    <3>1. at \in 1..(Len(tokens) + 2)
      BY <1>1, <2>1
    <3> QED
      BY <1>1, <2>1, <3>1, TextFacts
  <2>3. Fits(OutLength + Len(Peek(0).text), InfoSize) /\ (OutLength + n) + rest < InfoSize
    <3>1. PICK l \in Nat, size \in Nat : l = OutLength /\ size = InfoSize
      BY <1>1
    <3>2. l + (n + rest) < size
      BY <1>2, <2>2, <3>1
    <3>3. l + n < size /\ (l + n) + rest < size
      BY <3>2
    <3> QED
      BY <2>2, <3>1, <3>3 DEF Fits
  <2>4. OutLength' = OutLength + n /\ at' = at + 1 /\ UNCHANGED <<tokens, pc, Response, HasError>>
    BY <1>4, <2>2, <2>3 DEF InfoToken
  <2> QED
    BY <2>2, <2>3, <2>4 DEF InText
<1>5. CASE InfoEnd
  BY <1>5 DEF InfoEnd, InText, Finished
<1> QED
  BY <1>3, <1>4, <1>5

\* Every step keeps the parser on its way to each response of the line.
LEMMA MeaningStep == TypeOK /\ MeaningInv /\ [Next]_vars => MeaningInv'
<1> SUFFICES ASSUME TypeOK, MeaningInv, [Next]_vars, NEW r \in line'.means
             PROVE  Follows(r)'
  BY DEF MeaningInv
<1>1. UNCHANGED <<line, tokens>>
  BY LineStays
<1>2. Follows(r)
  BY <1>1 DEF MeaningInv
<1>3. CASE UNCHANGED vars
  <2>1. UNCHANGED <<line, tokens, at, pc, inCode, lists, OutLength, Response, HasError>>
    BY <1>3 DEF vars, lineVars
  <2>2. ASSUME NEW first, NEW end PROVE Reading(r, first, end)' = Reading(r, first, end)
    BY <2>1 DEF Reading, Section, InPlace, AllWords
  <2>3. InText(r)' = InText(r) /\ Finished(r)' = Finished(r)
    BY <2>1 DEF InText, Finished
  <2> QED
    BY <1>2, <2>1, <2>2, <2>3 DEF Follows, Fresh
<1>4. CASE Next
  <2>1. CASE pc = "start" /\ at = 1 /\ Fresh /\ StandsFor(tokens, r)
    BY <1>4, <2>1, StartStep
  <2>2. CASE pc = "kind" /\ at = 3 /\ Fresh /\ StandsFor(tokens, r) /\ Tagged(tokens)
    BY <1>4, <2>2, KindStep
  <2>3. ASSUME NEW first \in {3, 6}, NEW end \in DOMAIN tokens, Reading(r, first, end)
        PROVE  Follows(r)'
    <3>1. Reading(r, first, end)' \/ InText(r)' \/ Finished(r)'
      BY <1>4, <2>3, ReadingStep
    <3> QED
      BY <1>1, <3>1 DEF Follows
  <2>4. CASE InText(r)
    <3>1. InText(r)' \/ Finished(r)'
      BY <1>4, <2>4, TextStep
    <3> QED
      BY <3>1 DEF Follows
  <2>5. CASE Finished(r)
    <3>1. UNCHANGED vars
      BY <1>4, <2>5 DEF Finished, Next, imap_parse_response, imap_parse_response_data, Done, InvalidTag,
         Continuation, ValidTag, StatusLine, DataLine, Atom, ListStart, NoItem, AfterItem,
         LiteralStart, LiteralToken, LiteralEnd, LiteralFails, ReturnToList, ReturnToData,
         ReturnToCode, LongTag, LongAtom, DeepList, InfoToken, InfoEnd
    <3> QED
      BY <1>3, <3>1
  <2> QED
    BY <1>2, <2>1, <2>2, <2>3, <2>4, <2>5 DEF Follows
<1> QED
  BY <1>3, <1>4

-------------------------------------------------------------------------------
(* The bound for the steps *)

\* Each place of the parser has a rank.
LEMMA RankFacts ==
    ASSUME NEW q \in {"start", "kind", "item", "literal", "after", "return", "info", "done", "undefined"}
    PROVE  Rank[q] \in Nat
<1>1. q \in DOMAIN Rank
  BY DEF Rank
<1>2. Rank[q] \in 0..4
  BY Z3 DEF Rank
<1> QED
  BY <1>2

\* Another place of the parser, or a token further, is a step nearer to the end.
LEMMA Nearer ==
    ASSUME TypeOK, TypeOK', tokens' = tokens,
           \/ at' = at /\ Rank[pc'] < Rank[pc]
           \/ at' \in {at + 1, at + 2, at + 3} /\ Rank[pc'] < Rank[pc] + 4
    PROVE  StepsLeft' < StepsLeft
<1>1. PICK n \in Nat : n = Len(tokens)
  <2>1. tokens \in Seq(Token)
    BY DEF TypeOK, Token
  <2> QED
    BY <2>1
<1>2. at \in Nat /\ Rank[pc] \in Nat /\ Rank[pc'] \in Nat
  <2>1. at \in Nat
    BY <1>1 DEF TypeOK
  <2>2. Rank[pc] \in Nat
    BY RankFacts DEF TypeOK
  <2>3. Rank[pc'] \in Nat
    BY RankFacts DEF TypeOK
  <2> QED
    BY <2>1, <2>2, <2>3
<1>3. PICK a \in Nat, b \in Nat, c \in Nat : a = at /\ b = Rank[pc] /\ c = Rank[pc']
  BY <1>2
<1>4. StepsLeft = 4 * (n + 3 - a) + b /\ StepsLeft' = 4 * (n + 3 - at') + c
  BY <1>1, <1>3 DEF StepsLeft, Rank
<1>5. (at' = a /\ c < b) \/ (at' \in {a + 1, a + 2, a + 3} /\ c < b + 4)
  BY <1>3
<1> QED
  BY <1>4, <1>5

\* Every step is.
LEMMA StepNearer ==
    ASSUME TypeOK, TypeOK', Next, ~UNCHANGED vars
    PROVE  StepsLeft' < StepsLeft
<1> USE DEF Rank
<1>1. tokens' = tokens
  BY LineStays
<1>2. CASE InvalidTag \/ LiteralFails \/ LongTag \/ LongAtom \/ DeepList
  BY <1>1, <1>2, Nearer DEF InvalidTag, LiteralFails, LongTag, LongAtom, DeepList, Fail, Undefined
<1>3. CASE Continuation \/ ValidTag \/ StatusLine \/ DataLine
  BY <1>1, <1>3, Nearer DEF Continuation, ValidTag, StatusLine, DataLine
<1>4. CASE Atom \/ LiteralEnd
  BY <1>1, <1>4, Nearer DEF Atom, LiteralEnd, Store, Undefined
<1>5. CASE ListStart \/ LiteralStart \/ LiteralToken
  BY <1>1, <1>5, Nearer DEF ListStart, LiteralStart, LiteralToken
<1>6. CASE NoItem \/ AfterItem
  BY <1>1, <1>6, Nearer DEF NoItem, AfterItem, Fail
<1>7. CASE ReturnToList \/ ReturnToData \/ ReturnToCode
  BY <1>1, <1>7, Nearer DEF ReturnToList, ReturnToData, ReturnToCode, Fail, Undefined
<1>8. CASE InfoToken \/ InfoEnd
  BY <1>1, <1>8, Nearer DEF InfoToken, InfoEnd, Undefined
<1> QED
  BY <1>2, <1>3, <1>4, <1>5, <1>6, <1>7, <1>8
     DEF Next, imap_parse_response, imap_parse_response_data, Done

-------------------------------------------------------------------------------
(* The theorems *)

\* The parser stays in the invariant.
LEMMA Invariant == Spec => []IInv
<1> QED
  BY InitInvariant, Invariance, PTL DEF Spec

\* The tokens of a line, the response and its data keep their types, and the place
\* in the tokens stays near their end, which is what keeps Peek defined:
\* imap_parser.c:13-36, 77-158.  A step that would leave an array is "undefined",
\* so the sizes in the types are ParsingDefined's to justify.
THEOREM TypeCorrect == Spec => []TypeOK
<1>1. IInv => TypeOK
  BY DEF IInv, TypeInv
<1> QED
  BY Invariant, <1>1, PTL

\* On a line of any length and text, well formed or not, the parser does nothing
\* undefined as long as the tokens keep the limits of its copies (a tag, a text, a
\* word, the number of data), of its stack, and have no literal and no code without
\* a name.  For each of these the code has a line that does not test it:
\* imap_parser.c:329, 261, 106, 130, 136, 111, 85, 229-242.
THEOREM ParsingDefined == Spec => []Defined
<1>1. IInv => Defined
  BY DEF IInv, LimitInv, Defined
<1> QED
  BY Invariant, <1>1, PTL

\* A line that stands for a response within the sizes of the tag, the text, the
\* words, their number and the depth of lists, whatever these sizes are, is parsed
\* as that response without an error: its type, tag, status and code, and its
\* data one by one: imap_parser.c:77-158, 203-357.
THEOREM ResponsesUnderstood == Spec => []Understood
<1>1. Init => MeaningInv
  <2> SUFFICES ASSUME Init, NEW r \in line.means PROVE Follows(r)
    BY DEF MeaningInv
  <2>1. StandsFor(tokens, r)
    BY LinesAssumption DEF Init
  <2> QED
    BY <2>1 DEF Init, Follows, Fresh
<1>2. MeaningInv => Understood
  <2> SUFFICES ASSUME MeaningInv, Ended, NEW r \in line.means
               PROVE  pc = "done" /\ ~HasError /\ Response \in line.means
    BY DEF Understood
  <2>1. Follows(r)
    BY DEF MeaningInv
  <2>2. pc = "done" /\ ~HasError /\ Response = r
    BY <2>1 DEF Follows, Ended, Reading, InPlace, InText, Finished
  <2> QED
    BY <2>2
<1>3. IInv => TypeOK
  BY DEF IInv, TypeInv
<1> QED
  BY <1>1, <1>2, <1>3, Invariant, MeaningStep, PTL DEF Spec

\* On a line of any length and text every step of the parser brings it nearer to
\* the end, by a measure that is a natural number: it makes a bounded number of
\* them, at most four for each token and twelve: imap_parser.c:51-158, 253-266.
THEOREM StepsBounded ==
    Spec => /\ StepsLeft <= 4 * Len(tokens) + 12
            /\ [](StepsLeft \in Nat)
            /\ MovesOn
<1>1. Init => StepsLeft <= 4 * Len(tokens) + 12
  <2> SUFFICES ASSUME Init PROVE StepsLeft <= 4 * Len(tokens) + 12
    OBVIOUS
  <2>1. TypeOK
    BY InitType DEF TypeInv
  <2>2. PICK n \in Nat : n = Len(tokens)
    BY <2>1 DEF TypeOK
  <2>3. StepsLeft = 4 * (n + 3 - 1) + 4
    BY <2>2 DEF Init, StepsLeft, Rank
  <2> QED
    BY <2>2, <2>3
<1>2. TypeOK => StepsLeft \in Nat
  <2> SUFFICES ASSUME TypeOK PROVE StepsLeft \in Nat
    OBVIOUS
  <2>1. PICK n \in Nat : n = Len(tokens)
    BY DEF TypeOK
  <2>2. PICK a \in 1..(n + 3) : a = at
    BY <2>1 DEF TypeOK
  <2>3. Rank[pc] \in Nat
    BY RankFacts DEF TypeOK
  <2> QED
    BY <2>1, <2>2, <2>3 DEF StepsLeft
<1>3. TypeOK /\ TypeOK' /\ [Next]_vars => [StepsLeft' < StepsLeft]_vars
  BY StepNearer
<1>4. IInv => TypeOK
  BY DEF IInv, TypeInv
<1> QED
  BY <1>1, <1>2, <1>3, <1>4, Invariant, PTL DEF Spec, MovesOn
=============================================================================
