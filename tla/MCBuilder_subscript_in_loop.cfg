SPECIFICATION Spec
CONSTANTS
    Size = 4
    Class = "subscript_in_loop"
    NoStmt = NoStmt
    NoTag = NoTag
    Name <- MCName
    Tag <- MCTag
    Stmt <- MCStmt
    Decl <- MCDecl
    Program <- MCProgram
INVARIANT FunctionsVerify
