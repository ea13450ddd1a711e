\* Guided requests: JSON three containers deep, patterns with every small count, choices with and without lists.
CONSTANTS
    Chars <- JsonChars
    Digits <- MCDigits
    Word <- MCWord
    Space <- MCSpace
    Tokens <- MCTokens
    FirstToken <- MCFirst
    Requests <- MCRequests
    MaxDepth = 3
SPECIFICATION Spec
INVARIANTS
    OutputOnCourse
    CompleteIsWhole
    NothingForbidden
    NeverStuck
PROPERTIES
    RaisesForContradiction
