SPECIFICATION Spec
CONSTANTS
    Ops <- CancelOps
    Codes <- WriteCodes
    Framings <- LiveFramings
    MaxHops = 0
INVARIANTS
    CancelIsForTheCurrentTransaction
