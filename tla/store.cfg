SPECIFICATION Spec
CONSTANTS
    MaxOps = 3
    MaxPayload = 2
    MaxCrashes = 1
    MaxFaults = 2
INVARIANTS TypeOK AcknowledgedIsKept EffectsHaveTheirTransaction
CHECK_DEADLOCK FALSE
