\* One outage after another: two troubles, one probe, two batches, and a host
\* that takes one batch for garbage and closes at the second.  No behaviour
\* comes to a sixth dial, so Dials leaves nothing out.
CONSTANTS
    Dials = 6
    MaxGarbage = 1
    MaxBatches = 2
    MaxProbes = 1
    MaxTroubles = 2
SPECIFICATION Spec
INVARIANTS TypeOK AlwaysArmed PumpFollowsLink
PROPERTY Reconnects
CHECK_DEADLOCK FALSE
