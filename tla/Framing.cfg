SPECIFICATION Spec
CONSTANTS
    kMaxKeyBytes = 3
    kMaxValueBytes = 2
    Request <- MCRequest
    Response <- MCResponse
    Streams <- MCStreams
    Chunks <- MCChunks
    Limits <- MCLimits
    kCompactThresholdBytes = 26
    Nobody = Nobody
INVARIANTS StreamConserved WaitsWithReason RefusesWithReason ReplyCorrelates
CHECK_DEADLOCK FALSE
