SPECIFICATION FairSpec
CONSTANT
    N = 6
PROPERTIES Debounced TriggerSeen
