SPECIFICATION Spec
CONSTANTS
    Width = 4
    NoNode = NoNode
    NoValue = NoValue
    Source <- MCSource
    TypeOf <- MCTypeOf
    Stoi <- MCStoi
    PointsTo <- MCPointsTo
    Memory <- MCMemory
INVARIANTS ExprTypeOK ComputesTheSource
