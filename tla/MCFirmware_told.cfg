SPECIFICATION Spec
CONSTANTS
    MaxPackets = 3
    MaxResets = 0
INVARIANTS AnnouncedMeansSubscribed
CHECK_DEADLOCK FALSE
