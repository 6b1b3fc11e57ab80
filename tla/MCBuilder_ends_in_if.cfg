SPECIFICATION Spec
CONSTANTS
    Size = 4
    Class = "ends_in_if"
    NoStmt = NoStmt
    NoTag = NoTag
    Name <- MCName
    Tag <- MCTag
    Stmt <- MCStmt
    Decl <- MCDecl
    Program <- MCProgram
INVARIANT FunctionsVerify
