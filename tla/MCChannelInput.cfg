SPECIFICATION FairSpec
CONSTANTS
    mode = mode
    block = block
    moved = moved
    set_ms = set_ms
    data = data
    removed = removed
    nak = nak
    Response <- MCResponse
    Permanent <- MCPermanent
    Command <- MCCommand
    Accepts <- MCAccepts
    MaxRegistrations = 3
INVARIANTS TypeOK OneOutcome NoLostTimer ListedKeepsAlive
PROPERTIES StaleTimerHarmless KeepsPromise Resolved
CHECK_DEADLOCK FALSE
