\* Small blocks, lines and files; two prompts; digests of one to three blocks.
CONSTANTS
    StreamSize = 4
    BlockSizes = {1, 3}
    FileSizes = {0, 2}
    MaxIOCalls = 3
    MaxFaults = 2
    Typing <- TwoChars
    NoChar = NoChar
    BufSize = 2
    LineBufInc = 1
    MaxPrompts = 2
    MaxSignals = 2
    BlockSize = 4
    DigestSize = 3
    WordBits = 6
    KeySizes = {0, 2, 4, 5}
    AppendSizes = {0, 1, 3, 6, 12}
    MaxMessage = 13
    SaltSizes = {0, 3}
    PrfSize = 2
    DKSizes = {0, 1, 4, 5}
    MaxCount = 3
    NameChars = {"x"}
    HexDigits <- Digits
    KeyLen = 1
    MaxIdentity = 2
    VarSize = 2
    Identities <- Names
    PassPhrases <- Secrets
    NumBits = 14
    Kilo = 5
    Kibi = 4
    Numbers = {0, 1, 2, 3, 4, 16, 1000, 16383, 16384, 20000}
    MaxText = 6
CHECK_DEADLOCK FALSE
SPECIFICATION LibSpec
INVARIANTS
    LibTypeOK
    TransfersAreWhole
    NothingLeftBehind
    AnswerIsTheLine
    SignalsAreResent
    DigestIsOfTheMessage
    DerivedKeyIsStandard
    RecordsAreTheLines
    WrittenIsRead
    NumbersAreExact
PROPERTIES
    InterruptsAreAsked
    TransfersEnd
    PromptEnds
