SPECIFICATION Spec
CONSTANTS
    Ids = {1, 2, 3, 4, 5, 6}
    Foreign = 6
    Texts <- MCTexts
    Quotes = {"epigraph"}
    Props = {"surname"}
    People = {"jael"}
    Titles = {"Jael", "Jer"}
    Categories = {"Chapter", "Character"}
    Drafts <- MCDrafts
    MaxBlocks = 4
    MaxEdits = 2
    MaxCalls = 2
    MaxCrashes = 1
    NoId = NoId
    NoPerson = NoPerson
    NoQuote = NoQuote
    NoLine = NoLine
    EmptyLine = EmptyLine
    Gone = Gone
CHECK_DEADLOCK FALSE
INVARIANTS
    WordsKept
    SettledAfterSave
    FrontMatterAgrees
