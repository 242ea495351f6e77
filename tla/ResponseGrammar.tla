---------------------------- MODULE ResponseGrammar ----------------------------
(***************************************************************************)
(* What a line of tokens stands for: the responses of RFC 3501 that the    *)
(* program asks for, as far as they go into an IMAP_RESPONSE.  This is the *)
(* reference the parser is compared with; it says nothing of how the       *)
(* tokens are read.                                                        *)
(***************************************************************************)
EXTENDS Tokenizer

CONSTANTS
    StatusNames,    \* the names of the statuses in the order they are tried
    CodeNames,      \* the names imap_parse_response_code knows
    TagSize,        \* the size of Response.Tag
    InfoSize,       \* the size of Response.Info
    ContentSize,    \* the size of Content and of Response.Data[].Value
    MaxData,        \* how many Response.Data has
    MaxLists        \* how deep lists may nest before the stack is used up

\* The characters of the one begin the other.
Begins(name, other) == Len(name) <= Len(other) /\ SubSeq(other, 1, Len(name)) = name

\* OK, NO, BAD, PREAUTH, BYE: none of them begins another.
ASSUME NamesAssumption ==
    /\ StatusNames \in Seq(Seq(Char) \ {<<>>})
    /\ \A i, j \in DOMAIN StatusNames : Begins(StatusNames[i], StatusNames[j]) => i = j
    /\ CodeNames \subseteq Seq(Char)

ASSUME SizesAssumption == {TagSize, InfoSize, ContentSize, MaxData, MaxLists} \subseteq Nat \ {0}

Invalid == <<>>     \* a status or a code no name is known for

Blank == [Type |-> "UNKNOWN", Tag |-> <<>>, Status |-> Invalid, Code |-> Invalid, Data |-> <<>>]

\* The tokens that are a datum: flags, names, numbers and quoted strings.
Word == {"Identifier", "Number", "String"}

\* How many tokens from "first" to before "place" have one of the types.
Count(tokens, types, first, place) ==
    Cardinality({k \in first..(place - 1) : tokens[k].type \in types})

\* How many lists are open before a place.
Depth(tokens, first, place) ==
    Count(tokens, {"OpenParen"}, first, place) - Count(tokens, {"CloseParen"}, first, place)

\* An item may start here.
ItemStarts(tokens, first, place) ==
    place = first \/ tokens[place - 1].type \in {"Space", "OpenParen"}

\* How many characters the text has that starts at a place and ends with its line.
TextLength(tokens) ==
    LET from[k \in 1..(Len(tokens) + 2)] ==
            IF k > Len(tokens) \/ Nth(tokens, k).type = "EndOfLine"
            THEN 0
            ELSE Len(tokens[k].text) + from[k + 1]
    IN from

\* A string of C has a NUL behind it.
Fits(length, size) == length < size
TextFits(tokens, first) == Fits(TextLength(tokens)[first], InfoSize)

\* The tokens from "first" to before "end" are a word and, behind spaces,
\* words and lists; lists have items or none, with spaces between them.  The
\* words, their number and the depth of the lists are within the sizes.
Items(tokens, first, end) ==
    /\ first < end
    /\ tokens[first].type \in Word
    /\ \A k \in first..(end - 1) :
          \/ ItemStarts(tokens, first, k) /\ tokens[k].type \in Word \cup {"OpenParen"}
          \/ ~ItemStarts(tokens, first, k) /\ tokens[k].type = "Space"
          \/ /\ tokens[k].type = "CloseParen"
             /\ Depth(tokens, first, k) > 0 /\ tokens[k - 1].type # "Space"
    /\ Depth(tokens, first, end) = 0
    /\ Count(tokens, Word, first, end) <= MaxData
    /\ \A k \in first..(end - 1) :
          /\ tokens[k].type \in Word => Fits(Len(tokens[k].text), ContentSize)
          /\ Depth(tokens, first, k + 1) <= MaxLists

\* The data are the words of the items, in order.
Words(data, tokens, first, end) ==
    /\ Len(data) = Count(tokens, Word, first, end)
    /\ \A k \in first..(end - 1) :
          tokens[k].type \in Word => data[Count(tokens, Word, first, k + 1)] = tokens[k].text

-------------------------------------------------------------------------------
Tagged(tokens) ==
    Len(tokens) >= 4 /\ tokens[1].type \in {"Asterisk", "Identifier"} /\ tokens[2].type = "Space"

\* +, and text.
IsContinuation(response, tokens) ==
    /\ tokens # <<>> /\ tokens[1].type = "Plus" /\ TextFits(tokens, 3)
    /\ response = [Blank EXCEPT !.Type = "CONTINUATION"]

\* A tag, a status, and text or a code in brackets.
HasStatus(response, tokens) ==
    /\ Tagged(tokens) /\ tokens[4].type = "Space" /\ Fits(Len(tokens[1].text), TagSize)
    /\ \E i \in DOMAIN StatusNames : tokens[3].text = StatusNames[i]
    /\ response = [Blank EXCEPT !.Type = "STATUS", !.Tag = tokens[1].text, !.Status = tokens[3].text,
                                !.Code = response.Code, !.Data = response.Data]

IsStatusText(response, tokens) ==
    /\ HasStatus(response, tokens)
    /\ Nth(tokens, 5).type # "OpenBrace" /\ TextFits(tokens, 5)
    /\ response.Code = Invalid /\ response.Data = <<>>

IsStatusCode(response, tokens, end) ==
    /\ HasStatus(response, tokens)
    /\ end \in 7..Len(tokens) /\ tokens[5].type = "OpenBrace" /\ tokens[end].type = "CloseBrace"
    /\ Items(tokens, 6, end) /\ ~ItemStarts(tokens, 6, end) /\ TextFits(tokens, end + 1)
    /\ response.Code = IF tokens[6].text \in CodeNames THEN tokens[6].text ELSE Invalid
    /\ response.Data \in Seq(Seq(Char))
    /\ Words(<<tokens[6].text>> \o response.Data, tokens, 6, end)

\* A tag and items up to the end of the line, the first of them no status.
IsData(response, tokens, end) ==
    /\ Tagged(tokens)
    /\ end \in 4..Len(tokens) /\ tokens[end].type = "EndOfLine"
    /\ \A i \in DOMAIN StatusNames : ~Begins(tokens[3].text, StatusNames[i])
    /\ Items(tokens, 3, end)
    /\ response = [Blank EXCEPT !.Type = "DATA", !.Data = response.Data]
    /\ response.Data \in Seq(Seq(Char))
    /\ Words(response.Data, tokens, 3, end)

StandsFor(tokens, response) ==
    \/ IsContinuation(response, tokens)
    \/ IsStatusText(response, tokens)
    \/ \E end \in DOMAIN tokens : IsStatusCode(response, tokens, end) \/ IsData(response, tokens, end)

-------------------------------------------------------------------------------
(* What a line of any tokens must keep to for its parsing to be defined: its  *)
(* texts and words fit where they are copied to, and no other item follows    *)
(* the last one there is room for.                                            *)

\* Also the beginning of a status, and nothing, is taken for one.
NamesStatus(tokens) ==
    /\ Nth(tokens, 4).type = "Space"
    /\ \E i \in DOMAIN StatusNames : Begins(Nth(tokens, 3).text, StatusNames[i])

NamesCode(tokens) == NamesStatus(tokens) /\ Nth(tokens, 5).type = "OpenBrace"

\* Items that are not words are data, too; each but the first follows a space.
\* What a literal stores is not known.
ItemsFit(tokens, first) ==
    /\ \A k \in first..Len(tokens) :
          /\ tokens[k].type # "OpenBracket"
          /\ Fits(Len(tokens[k].text), ContentSize)
          /\ Depth(tokens, first, k + 1) <= MaxLists
    /\ Count(tokens, {"Space"}, first, Len(tokens) + 1) < MaxData

KeepsLimits(tokens) ==
    /\ Nth(tokens, 1).type = "Plus" => TextFits(tokens, 3)
    /\ NamesStatus(tokens) => Fits(Len(tokens[1].text), TagSize)
    /\ NamesStatus(tokens) /\ ~NamesCode(tokens) => TextFits(tokens, 5)
    /\ NamesCode(tokens) =>
          /\ ItemsFit(tokens, 6)
          /\ Nth(tokens, 6).type \notin {"OpenParen", "CloseParen", "EndOfLine"}
          /\ \A k \in 6..Len(tokens) : tokens[k].type = "CloseBrace" => TextFits(tokens, k + 1)
    /\ ~NamesStatus(tokens) => ItemsFit(tokens, 3)
=============================================================================
