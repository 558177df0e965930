SPECIFICATION FairSpec
CONSTANTS
    Ssid = {"short", "full"}
    FullSsid = {"full"}
    Number = {0, 1, 99}
    TooMuch = {99}
    MaxBtcq = 2
    MaxAp = 1
    MaxOps = 5
INVARIANTS TypeOK NothingLeftBehind SoftApAsSent ListOnItsWay
PROPERTY Settles
