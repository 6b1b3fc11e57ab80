SPECIFICATION Spec
CONSTANTS
    Function <- MCFunction
    NoScope = "none"
INVARIANTS AdceTypeOK SameSteps OperandsRemain KeptForAReason SafeSuccessor StillReturns
PROPERTY Terminates
