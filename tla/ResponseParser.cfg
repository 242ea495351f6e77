\* Responses with up to two items behind a name, lines that do not fit, and any
\* three characters behind the beginning of a line, of a data line and of a code.
CONSTANTS
    Char = {"A", "B", "C", "K", "N", "O", "P", "R", "S", "U", "X", "Y", "a", "x", "1", "2", "(", ")", "[", "]", "{", "}", " ", "QUOTE", "BACKSLASH", "*", "/", ".", "+", "-", "=", "!", "CR", "LF"}
    Alpha = {"A", "B", "C", "K", "N", "O", "P", "R", "S", "U", "X", "Y", "a", "x"}
    Digit = {"1", "2"}
    Lines <- MCLines
    StatusNames <- MCStatusNames
    CodeNames <- MCCodeNames
    TagSize = 3
    InfoSize = 5
    ContentSize = 6
    MaxData = 3
    MaxLists = 2
    MaxItems = 2
    MaxChars = 3
    Characters = {"(", ")", "[", "]", "{", "}", " ", "QUOTE", "BACKSLASH", "*", "/", ".", "+", "x", "1", "!", "CR"}
SPECIFICATION Spec
INVARIANTS
    TypeOK
    Understood
    Defined
PROPERTIES
    MovesOn
    Stops
