--------------------------- MODULE MCResponseParser ---------------------------
(***************************************************************************)
(* Lines for ResponseParser: those a server writes for a response, with    *)
(* the response, and any short sequences of characters.  Names are spelled *)
(* with few letters.                                                       *)
(***************************************************************************)
EXTENDS ResponseParser, SequencesExt

CONSTANTS
    MaxItems,       \* the most items of a list, a code or a data line
    MaxChars,       \* the length of the lines of any characters
    Characters      \* what those are made of

OK == <<"O", "K">>
NO == <<"N", "O">>
MCStatusNames == <<OK, NO, <<"B", "A">>, <<"P", "R">>, <<"B", "Y">>>>
CAPABILITY == <<"C">>
UNSEEN == <<"U">>
MCCodeNames == {CAPABILITY, UNSEEN}

SP == <<" ">>
End == <<"CR", "LF">>
Quoted(chars) == <<"QUOTE">> \o chars \o <<"QUOTE">>

\* An item: how it is written and the data it stands for.
Item(chars, data) == [text |-> chars, data |-> data]
Atoms == {Item(a, <<a>>) : a \in
            {<<"x">>, <<"1", "2">>, <<"BACKSLASH", "S">>, <<"C", "=", "x">>,
             Quoted(<<")", " ">>), Quoted(<<"BACKSLASH", "QUOTE", "]">>)}}

\* Items one after the other, each with the character between before it.
Joined(items) ==
    Item(FlattenSeq([i \in DOMAIN items |-> (IF i = 1 THEN <<>> ELSE SP) \o items[i].text]),
         FlattenSeq([i \in DOMAIN items |-> items[i].data]))

InList(items) == LET inner == Joined(items) IN Item(<<"(">> \o inner.text \o <<")">>, inner.data)

Lists == {InList(items) : items \in BoundedSeq(Atoms, 1)}
Nested == {InList(<<Item(<<"x">>, <<<<"x">>>>), list>>) : list \in Lists}
SomeItems == Atoms \cup Lists \cup Nested

\* Names followed by items, as many data as there is room for.
Sections(names) ==
    {s \in {Joined(<<Item(name, <<name>>)>> \o items) :
                name \in names, items \in BoundedSeq(SomeItems, MaxItems)} : Len(s.data) <= MaxData}

\* Text that must not be taken for anything else.
Texts == {<<"x">>, <<"(", "x">>, <<"QUOTE">>, <<"x", " ", "]">>, <<"/", "/">>, <<"*", "{">>}

StatusLines ==
    {[text |-> tag \o SP \o status \o SP \o words \o End,
      means |-> {[Blank EXCEPT !.Type = "STATUS", !.Tag = tag, !.Status = status]}] :
        tag \in {<<"*">>, <<"A", "1">>}, status \in ToSet(MCStatusNames), words \in Texts}

CodeLines ==
    {[text |-> tag \o SP \o OK \o SP \o <<"[">> \o code.text \o <<"]">> \o words \o End,
      means |-> {[Blank EXCEPT !.Type = "STATUS", !.Tag = tag, !.Status = OK,
                              !.Code = IF code.data[1] \in MCCodeNames THEN code.data[1] ELSE Invalid,
                              !.Data = Tail(code.data)]}] :
        tag \in {<<"*">>, <<"A", "1">>}, words \in {<<>>, <<" ", "x", " ", "]">>, <<" ", "/", "/">>},
        code \in Sections(MCCodeNames \cup {<<"X", "-", "x">>})}

DataLines ==
    {[text |-> <<"*">> \o SP \o data.text \o trail \o End,
      means |-> {[Blank EXCEPT !.Type = "DATA", !.Data = data.data]}] :
        data \in Sections({<<"S">>, <<"1", "2">>}), trail \in {<<>>, SP}}

Continuations ==
    {[text |-> <<"+">> \o words \o End, means |-> {[Blank EXCEPT !.Type = "CONTINUATION"]}] :
        words \in {<<>>} \cup {SP \o t : t \in Texts}}

\* Lines that do not fit: a tag, a text, a word, a name, a list or a datum too much.
LongLines ==
    {[text |-> chars \o End, means |-> {}] : chars \in
        {<<"A", "1", "2", " ", "O", "K", " ", "x">>,
         <<"*", " ", "O", "K", " ", "x", " ", "(", "x", ")">>,
         <<"+", " ", "x", "x", "x", "x", "x">>,
         <<"*", " ", "O", "K", " ", "[", "U", "]", " ", "x", " ", "x", " ", "x">>,
         <<"*", " ", "x", "x", "x", "x", "x", "x">>,
         <<"*", " ", "O", "K", " ", "[", "x", "x", "x", "x", "x", "x", "]">>,
         <<"*", " ", "x", " ", "(", "(", "(", "x", ")", ")", ")">>,
         <<"*", " ", "x", " ", "(", "x", ")", " ", "(", "x", " ", "x", ")">>}}

AnyLines ==
    {[text |-> head \o chars \o End, means |-> {}] :
        head \in {<<>>, <<"*", " ">>, <<"*", " ">> \o OK \o <<" ", "[">>},
        chars \in BoundedSeq(Characters, MaxChars)}

MCLines == StatusLines \cup CodeLines \cup DataLines \cup Continuations \cup LongLines \cup AnyLines
=============================================================================
