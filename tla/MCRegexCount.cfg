\* A pattern with a counted repetition.
CONSTANTS
    Chars <- JsonChars
    Digits <- MCDigits
    Word <- MCWord
    Space <- MCSpace
    Tokens <- MCTokens
    FirstToken <- MCFirst
    Requests <- Thrice
    MaxDepth = 1
SPECIFICATION Spec
INVARIANTS
    OutputForced
