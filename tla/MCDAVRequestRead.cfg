SPECIFICATION Spec
CONSTANTS
    Ops <- ReadOps
    Codes <- ReadCodes
    Framings <- ReadFramings
    MaxHops = 1
INVARIANTS
    GetDeliversTheResource
