SPECIFICATION Spec
CONSTANTS
    Size = 4
    Class = "unbraced"
    NoStmt = NoStmt
    NoTag = NoTag
    Name <- MCName
    Tag <- MCTag
    Stmt <- MCStmt
    Decl <- MCDecl
    Program <- MCProgram
INVARIANT FunctionsVerify
