SPECIFICATION Spec
CONSTANTS
    Rank <- MCRank
    Num <- MCNum
    Words <- MCWords
    Symbols <- MCSymbols
    ModulesSym = "M"
    Valid <- MCValid
    Prefixed <- MCPrefixed
    Number <- MCNumber
    Spell <- MCSpell
    Unset = "null"
    Texts <- TextsUsed
    Trees <- MCTrees
    Order <- MCOrder
    Starts <- MCStarts
    Fixed <- MCFixed
    Answers <- MCAnswers
    Dice <- MCDice
    Entered <- MCEntered
    MaxRuns = 2
    MaxEdits = 1
INVARIANTS
    CacheCoherent
    ChoiceHolds
    RoundTrip
PROPERTIES
    ConfigKept
    AutoMatches
    SyncSpec
CHECK_DEADLOCK FALSE
