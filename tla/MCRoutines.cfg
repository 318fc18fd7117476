SPECIFICATION RoutinesSpec
\* Numbers are of eight bits.  A byte with its sign has four characters, as
\* an int has eleven, so the array of five is as tight.
CONSTANTS
    Calls <- MCCalls
    Chars <- MCChars
    Word = 256
    BfSize = 5
    Fields = {0, 3, 6}
    Numerals <- MCNumerals
    Bases = {0, 2, 10, 16}
    Texts <- MCTexts
    SecondText <- MCSecondText
    Delims <- MCDelims
    MaxCalls = 4
    Documents <- MCDocuments
    MaxTokens = 6
INVARIANTS
    Answers
    LoadsSound
    PrintedReadsBack
    Clamped
    Separates
    Tokenizes
CHECK_DEADLOCK FALSE
