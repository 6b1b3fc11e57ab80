SPECIFICATION FairSpec
CONSTANTS
    Size = 3
    None = None
    Value = Value
    Null = Null
    Inst <- MCInst
    Function <- MCFunction
INVARIANT TypeOK
INVARIANT NothingDangles
INVARIANT NeededKept
INVARIANT OrderIndependent
INVARIANT ChangeReported
PROPERTY Terminates
