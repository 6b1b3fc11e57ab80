SPECIFICATION Spec
CONSTANTS
    VReg = {"v", "w", "n"}
    PReg = {"A", "A0", "A1", "B", "B0"}
    NoReg = "none"
    UnitsOf <- MCUnitsOf
    Alias <- MCAlias
    LowPart <- MCLowPart
    Order <- MCOrder
    Functions <- MCFunctions
    UnsignedMax = 65535
    UseLimit = 3
    Class = "tied"

INVARIANT LiveOutStored
