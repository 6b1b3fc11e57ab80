SPECIFICATION RunSpec
CONSTANTS
    Size = 5
    Class = "run"
    NoStmt = NoStmt
    NoTag = NoTag
    Name <- MCName
    Tag <- MCTag
    Stmt <- MCStmt
    Decl <- MCDecl
    Program <- MCProgram
INVARIANT RunTypeOK
INVARIANT DoesWhatTheSourceSays
PROPERTY NoSilentLoop
INVARIANT FunctionsVerify
INVARIANT RecordTellsReturn
PROPERTY NothingAfterTerminator
