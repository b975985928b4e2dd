\* The parser's tree says what the file says, boxes are closed, sessions end
\* and the wrapper becomes the compiler.
SPECIFICATION Spec
CONSTANTS
    Rank <- MCRank
    Num <- MCNum
    Words = {}
    Symbols <- MCSymbols
    ModulesSym = "A"
    Type <- MCType
    Deps <- MCDeps
    Defaults <- MCDefaults
    Demands <- MCDemands
    Order <- MCOrder
    MaxEntries = 4
    MaxBlocks = 1
    Counts = {0, 1, 3, 5}
    Heights = {1, 2, 3}
    Name <- MCName
    Letters = {"a", "s", "x"}
    Texts <- MCTexts
    Chars = {"a", "b"}
    Width = 3
    TextBound = 5
    PageTexts <- MCPageTexts
    Rows = {0, 2, 3, 5}
    JumpNb = 2
    SideBound = 1
    Root = "root"
    Menus <- MCMenus
    Kind <- MCKind
    Entries <- MCSubentries
    Needs <- MCNeeds
    Contents = {"a", "b"}
    Default <- MCDefault
    FileNames = {".config", "other"}
    StartFiles <- MCStartFiles
    DepthBound = 4
    EditBound = 2
    Builds <- MCBuilds
    ArgLists <- MCArgLists
INVARIANT TreeKept MeaningKept SubmenuReachable PrintedMeaning RecursionReported
INVARIANT ListShowsAnswer CursorOnItsChar ExitLosesNothing ExecutedIsSafe
PROPERTY TextFollows
CHECK_DEADLOCK FALSE
