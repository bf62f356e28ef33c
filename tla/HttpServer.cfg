CONSTANT
    Inputs <- MCInputs

SPECIFICATION Spec

CHECK_DEADLOCK FALSE

INVARIANTS
    TypeOK
    WellFormedHandled
    EncodingAccepted
