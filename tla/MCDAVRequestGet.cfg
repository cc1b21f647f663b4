SPECIFICATION Spec
CONSTANTS
    Ops <- GetOnly
    Codes <- GetCodes
    Framings <- LengthOnly
    MaxHops = 0
INVARIANTS
    GetFileHoldsTheResource
