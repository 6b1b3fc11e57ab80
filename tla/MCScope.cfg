SPECIFICATION Spec
CONSTANTS
    n1 = n1
    v1 = v1
    v2 = v2
    NoValue = NoValue
    Name <- MCName
    Value <- MCValue
    Predeclared <- MCPredeclared
    MaxDepth = 3
INVARIANT TypeOK
PROPERTY ImplementsBindings
