SPECIFICATION FairSpec
CONSTANTS
    a1 = a1
    a2 = a2
    p1 = p1
    p2 = p2
    AP = {a1, a2}
    Passwd = {p1, p2}
    PasswdOf <- MCPasswdOf
    FullSsid = {a2}
    BuiltIn <- MCBuiltIn
    None = None
    Overlong = Overlong
    MaxRetry = 1
    MaxEvq = 3
    MaxCuts = 2
INVARIANTS TypeOK MarkedPairIsWhole AttemptUsesStored NoLostReconnect WaitsEnd
PROPERTIES Joins TurnsToSmartConfig
