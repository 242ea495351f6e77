---------------------------- MODULE ResponseParser ----------------------------
(***************************************************************************)
(* imap_parse_response of src/imap_parser.c on one line.  Lists nest: the  *)
(* calls of imap_parse_response_data by imap_parse_response_list, and the  *)
(* places they return to, are the number of lists that are open.  Of the   *)
(* text of a line (Info) there is the length: no caller reads it, but its  *)
(* copy has to fit.                                                        *)
(***************************************************************************)
EXTENDS ResponseGrammar

CONSTANTS
    Lines           \* [text, means]: a line, and the responses it stands for, if any

ASSUME LinesAssumption ==
    \A l \in Lines :
        l.text \in Seq(Char) /\ \A response \in l.means : StandsFor(Tokens(l.text), response)

VARIABLES
    line,       \* the line and what it stands for
    tokens,     \* the tokens of its text
    at,         \* which of them is next
    pc,         \* where the parser is; "done", or "undefined"
    inCode,     \* the data being parsed are those of a code
    lists,      \* how many lists are open
    OutLength,  \* how many characters of the text have been copied
    Response,
    HasError

lineVars == <<line, tokens>>
vars == <<lineVars, at, pc, inCode, lists, OutLength, Response, HasError>>

Init ==
    /\ line \in Lines
    /\ tokens = Tokens(line.text)
    /\ at = 1
    /\ pc = "start"
    /\ inCode = FALSE
    /\ lists = 0
    /\ OutLength = 0
    /\ Response = Blank
    /\ HasError = FALSE

\* Peek(0) is the token PeekToken returns, Peek(1) the one behind it.
Peek(n) == Nth(tokens, at + n)
NextType == Peek(0).type

\* Every path that reports an error gives up the line.
Fail ==
    /\ pc' = "done"
    /\ HasError' = TRUE
    /\ UNCHANGED <<lineVars, at, inCode, lists, OutLength, Response>>

Undefined ==
    /\ pc' = "undefined"
    /\ UNCHANGED <<lineVars, at, inCode, lists, OutLength, Response, HasError>>

-----------------------------------------------------------------------------
(* imap_parse_response *)

NoTag == {"OpenParen", "CloseParen", "OpenBracket", "CloseBracket", "Space", "Percent",
          "OpenBrace", "CloseBrace"}

InvalidTag ==
    /\ pc = "start"
    /\ NextType \in NoTag \/ (NextType # "Plus" /\ Peek(1).type # "Space")
    /\ Fail

\* The token behind the plus is passed over, too: the text follows.
Continuation ==
    /\ pc = "start"
    /\ NextType = "Plus"
    /\ Response' = [Response EXCEPT !.Type = "CONTINUATION"]
    /\ at' = at + 2
    /\ pc' = "info"
    /\ UNCHANGED <<lineVars, inCode, lists, OutLength, HasError>>

ValidTag ==
    /\ pc = "start"
    /\ NextType \notin NoTag \cup {"Plus"}
    /\ Peek(1).type = "Space"
    /\ at' = at + 2
    /\ pc' = "kind"
    /\ UNCHANGED <<lineVars, inCode, lists, OutLength, Response, HasError>>

\* strncmp compares as many characters as the token has: a beginning of a
\* name passes for it.
StatusOf(name) ==
    LET fits == {i \in DOMAIN StatusNames :
                    /\ Len(name) <= Len(StatusNames[i])
                    /\ SubSeq(StatusNames[i], 1, Len(name)) = name}
    IN  IF fits = {} THEN Invalid ELSE StatusNames[Min(fits)]

IsStatus == StatusOf(Peek(0).text) # Invalid /\ Peek(1).type = "Space"

\* Behind the status there is a code in brackets, or text.
StatusLine ==
    /\ pc = "kind"
    /\ IsStatus
    /\ Fits(Len(tokens[1].text), TagSize)
    /\ Response' = [Response EXCEPT !.Type = "STATUS", !.Tag = tokens[1].text,
                                    !.Status = StatusOf(Peek(0).text)]
    /\ IF Peek(2).type = "OpenBrace"
       THEN at' = at + 3 /\ inCode' = TRUE /\ pc' = "item"
       ELSE at' = at + 2 /\ pc' = "info" /\ UNCHANGED inCode
    /\ UNCHANGED <<lineVars, lists, OutLength, HasError>>

\* The sprintf of the tag has no bound.
LongTag ==
    /\ pc = "kind"
    /\ IsStatus
    /\ ~Fits(Len(tokens[1].text), TagSize)
    /\ Undefined

DataLine ==
    /\ pc = "kind"
    /\ ~IsStatus
    /\ Response' = [Response EXCEPT !.Type = "DATA"]
    /\ pc' = "item"
    /\ UNCHANGED <<lineVars, at, inCode, lists, OutLength, HasError>>

-----------------------------------------------------------------------------
(* imap_parse_response_info *)

\* Mutant: a space is put behind each token of the text.
InfoTokenSpaced ==
    /\ pc = "info"
    /\ NextType \notin {"EndOfLine", "EndOfStream"}
    /\ LET length == OutLength + Len(Peek(0).text) + 1 IN
       IF Fits(length, InfoSize)
       THEN /\ OutLength' = length
            /\ at' = at + 1
            /\ UNCHANGED <<lineVars, pc, inCode, lists, Response, HasError>>
       ELSE Undefined

\* Token after token is copied, and none of the copies has a bound.
InfoToken ==
    /\ pc = "info"
    /\ NextType \notin {"EndOfLine", "EndOfStream"}
    /\ LET length == OutLength + Len(Peek(0).text) IN
       IF Fits(length, InfoSize)
       THEN /\ OutLength' = length
            /\ at' = at + 1
            /\ UNCHANGED <<lineVars, pc, inCode, lists, Response, HasError>>
       ELSE Undefined

InfoEnd ==
    /\ pc = "info"
    /\ NextType \in {"EndOfLine", "EndOfStream"}
    /\ pc' = "done"
    /\ UNCHANGED <<lineVars, at, inCode, lists, OutLength, Response, HasError>>

-----------------------------------------------------------------------------
(* imap_parse_response_data and imap_parse_response_list *)

\* A datum that is no text of the line.
Garbage == <<"garbage">>

\* A datum is stored and that many tokens are passed over.
Store(datum, n) ==
    IF Len(Response.Data) = MaxData
    THEN Undefined
    ELSE /\ Response' = [Response EXCEPT !.Data = Append(@, datum)]
         /\ at' = at + n
         /\ pc' = "after"
         /\ UNCHANGED <<lineVars, inCode, lists, OutLength, HasError>>

\* Whatever else is there is read as an atom.
Atom ==
    /\ pc = "item"
    /\ NextType \notin {"OpenBracket", "OpenParen", "CloseParen", "EndOfLine"}
    /\ Fits(Len(Peek(0).text), ContentSize)
    /\ Store(Peek(0).text, 1)

\* The sprintf of an atom or a string has no bound.
LongAtom ==
    /\ pc = "item"
    /\ NextType \notin {"OpenBracket", "OpenParen", "CloseParen", "EndOfLine"}
    /\ ~Fits(Len(Peek(0).text), ContentSize)
    /\ Undefined

LiteralStart ==
    /\ pc = "item"
    /\ NextType = "OpenBracket"
    /\ at' = at + 1
    /\ pc' = "literal"
    /\ UNCHANGED <<lineVars, inCode, lists, OutLength, Response, HasError>>

LiteralToken ==
    /\ pc = "literal"
    /\ NextType \notin {"Unknown", "EndOfLine", "EndOfStream", "CloseBracket"}
    /\ at' = at + 1
    /\ UNCHANGED <<lineVars, pc, inCode, lists, OutLength, Response, HasError>>

\* A literal puts nothing in Content, which is stored all the same: an earlier
\* datum that is still there, whatever was on the stack, or so much of the stack
\* that it does not fit.  The token behind the literal is passed over, too.
LiteralEnd ==
    /\ pc = "literal"
    /\ NextType = "CloseBracket"
    /\ \/ \E datum \in Range(Response.Data) \cup {Garbage} : Store(datum, 2)
       \/ Undefined

LiteralFails ==
    /\ pc = "literal"
    /\ NextType \in {"Unknown", "EndOfLine", "EndOfStream"}
    /\ Fail

ListStart ==
    /\ pc = "item"
    /\ NextType = "OpenParen"
    /\ lists < MaxLists
    /\ at' = at + 1
    /\ lists' = lists + 1
    /\ UNCHANGED <<lineVars, pc, inCode, OutLength, Response, HasError>>

\* Each list is a call inside the one of the list around it.
DeepList ==
    /\ pc = "item"
    /\ NextType = "OpenParen"
    /\ lists = MaxLists
    /\ Undefined

\* Mutant: at the end of the line the loop goes on.
NoItemStays ==
    /\ pc = "item"
    /\ NextType \in {"CloseParen", "EndOfLine"}
    /\ pc' = IF NextType = "CloseParen" THEN "after" ELSE pc
    /\ UNCHANGED <<lineVars, at, inCode, lists, OutLength, Response, HasError>>

\* No datum: the list is empty, or the line ends here.
NoItem ==
    /\ pc = "item"
    /\ NextType \in {"CloseParen", "EndOfLine"}
    /\ pc' = IF NextType = "CloseParen" THEN "after" ELSE "return"
    /\ UNCHANGED <<lineVars, at, inCode, lists, OutLength, Response, HasError>>

\* Mutant: a closing bracket does not end the data.
AfterItemPastBrace ==
    /\ pc = "after"
    /\ CASE NextType \in {"Unknown", "EndOfLine", "EndOfStream", "CloseParen"} ->
               pc' = "return" /\ UNCHANGED <<lineVars, at, inCode, lists, OutLength, Response, HasError>>
         [] NextType = "Space" ->
               at' = at + 1 /\ pc' = "item" /\ UNCHANGED <<lineVars, inCode, lists, OutLength, Response, HasError>>
         [] OTHER -> Fail

\* Mutant: the space is looked at and not passed over.
AfterItemStays ==
    /\ pc = "after"
    /\ CASE NextType \in {"Unknown", "EndOfLine", "EndOfStream", "CloseParen", "CloseBrace"} ->
               pc' = "return" /\ UNCHANGED <<lineVars, at, inCode, lists, OutLength, Response, HasError>>
         [] NextType = "Space" ->
               pc' = "item" /\ UNCHANGED <<lineVars, at, inCode, lists, OutLength, Response, HasError>>
         [] OTHER -> Fail

\* Behind a datum or a list: the end of the data, a space and the next one,
\* or an error.
AfterItem ==
    /\ pc = "after"
    /\ CASE NextType \in {"Unknown", "EndOfLine", "EndOfStream", "CloseParen", "CloseBrace"} ->
               pc' = "return" /\ UNCHANGED <<lineVars, at, inCode, lists, OutLength, Response, HasError>>
         [] NextType = "Space" ->
               at' = at + 1 /\ pc' = "item" /\ UNCHANGED <<lineVars, inCode, lists, OutLength, Response, HasError>>
         [] OTHER -> Fail

\* Mutant: the end of a list closes the list around it, too.
ReturnToListTwice ==
    /\ pc = "return" /\ lists > 0
    /\ IF NextType = "CloseParen"
       THEN /\ at' = at + 1
            /\ lists' = lists - 2
            /\ pc' = "after"
            /\ UNCHANGED <<lineVars, inCode, OutLength, Response, HasError>>
       ELSE Fail

ReturnToList ==
    /\ pc = "return" /\ lists > 0
    /\ IF NextType = "CloseParen"
       THEN /\ at' = at + 1
            /\ lists' = lists - 1
            /\ pc' = "after"
            /\ UNCHANGED <<lineVars, inCode, OutLength, Response, HasError>>
       ELSE Fail

ReturnToData ==
    /\ pc = "return" /\ lists = 0 /\ ~inCode
    /\ pc' = "done"
    /\ UNCHANGED <<lineVars, at, inCode, lists, OutLength, Response, HasError>>

\* imap_parse_response_code_and_data: the first datum is the name of the
\* code.  Without any the unsigned DataCount - 1 is the largest number.
ReturnToCode ==
    /\ pc = "return" /\ lists = 0 /\ inCode
    /\ IF Response.Data = <<>>
       THEN Undefined
       ELSE LET name == Head(Response.Data) IN
            /\ Response' = [Response EXCEPT
                               !.Code = IF name \in CodeNames THEN name ELSE Invalid,
                               !.Data = Tail(@)]
            /\ IF NextType = "CloseBrace"
               THEN at' = at + 1 /\ pc' = "info" /\ UNCHANGED HasError
               ELSE pc' = "done" /\ HasError' = TRUE /\ UNCHANGED at
            /\ UNCHANGED <<lineVars, inCode, lists, OutLength>>

Done == pc \in {"done", "undefined"} /\ UNCHANGED vars

imap_parse_response_data ==
    \/ Atom \/ LongAtom \/ ListStart \/ DeepList \/ NoItem \/ AfterItem
    \/ LiteralStart \/ LiteralToken \/ LiteralEnd \/ LiteralFails
    \/ ReturnToList

imap_parse_response ==
    \/ InvalidTag \/ Continuation \/ ValidTag \/ StatusLine \/ LongTag \/ DataLine
    \/ imap_parse_response_data
    \/ ReturnToData \/ ReturnToCode
    \/ InfoToken \/ InfoEnd

Next == imap_parse_response \/ Done

Spec == Init /\ [][Next]_vars /\ WF_vars(imap_parse_response)

-----------------------------------------------------------------------------
TypeOK ==
    /\ tokens \in Seq([type : TokenTypes, text : Seq(Char)])
    /\ at \in 1..(Len(tokens) + 3)
    /\ pc \in {"start", "kind", "item", "literal", "after", "return", "info", "done", "undefined"}
    /\ inCode \in BOOLEAN
    /\ lists \in 0..MaxLists
    /\ OutLength \in 0..(InfoSize - 1)
    /\ Response \in [Type : {"UNKNOWN", "STATUS", "DATA", "CONTINUATION"}, Tag : Seq(Char),
                     Status : Seq(Char), Code : Seq(Char), Data : Seq(Seq(Char) \cup {Garbage})]
    /\ Len(Response.Data) <= MaxData
    /\ HasError \in BOOLEAN

Ended == pc \in {"done", "undefined"}

\* A line that stands for a response within the sizes is parsed as that response:
\* its type, status and code, and its data one by one, whatever lists, strings
\* and text are in it (imap_parser.c:275-357).
Understood ==
    (Ended /\ line.means # {}) => pc = "done" /\ ~HasError /\ Response \in line.means

\* No copy of the parser is bounded (imap_parser.c:106, 130, 136, 261, 329), nor is
\* the nesting of its calls (111), a literal leaves what it stores undefined (85)
\* and an empty code is counted down from nothing (229-242).  A line, well formed
\* or not, on which none of this can be seen from its tokens, without parsing it,
\* does not bring it about while it is parsed.
Defined == KeepsLimits(tokens) => pc # "undefined"

\* A bound for the steps that are left: four for each token not yet passed over,
\* and what can be done without passing over one.
Rank == [start |-> 4, kind |-> 4, item |-> 3, literal |-> 3, after |-> 2, return |-> 1,
         info |-> 1, done |-> 0, undefined |-> 0]
StepsLeft == 4 * (Len(tokens) + 3 - at) + Rank[pc]

\* However the loops of the data, of the lists in them, of the literals and of the
\* text take turns, none goes round without passing over a token: a line of n tokens is
\* parsed in at most 4n + 12 steps (imap_parser.c:51-158, 253-266).
MovesOn == [][StepsLeft' < StepsLeft]_vars

\* The parser comes to an end on every line (imap_parser.c:77-158, 253-270).
Stops == <>Ended
=============================================================================
