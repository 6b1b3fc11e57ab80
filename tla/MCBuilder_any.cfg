SPECIFICATION Spec
CONSTANTS
    Size = 4
    Class = "any"
    NoStmt = NoStmt
    NoTag = NoTag
    Name <- MCName
    Tag <- MCTag
    Stmt <- MCStmt
    Decl <- MCDecl
    Program <- MCProgram
INVARIANT TypeOK
INVARIANT CurrBlockIsInsertionPoint
INVARIANT ScopesMirrorNesting
INVARIANT BranchesStayInside
