SPECIFICATION Spec
CONSTANTS
    None = None
    Mails = {"m1", "m2", "m3"}
    Boxes = {"inbox", "trash"}
    ArgBoxes = {"inbox", "gone"}
    ReceivedAt <- MCReceivedAt
    Threads = {"thread", "none"}
    ThreadOf <- MCThreadOf
    Matching = {"m1", "m2", "m3"}
    Letters <- MCLetters
    Limits = {1, 3}
    MAX_EMAIL_LIMIT = 2
    MAX_TEXT_BODY = 5
    DownloadMaxBytes = 2
    Lexemes <- MCLexemes
    Texts <- MCTexts
INVARIANTS Sandboxed FlagIsExact LeftOutForCause DownloadCapped 
CHECK_DEADLOCK FALSE
