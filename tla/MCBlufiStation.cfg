SPECIFICATION Spec
CONSTANTS
    a1 = a1
    a2 = a2
    p1 = p1
    p2 = p2
    AP = {a1, a2}
    Zero = Zero
    NoPasswd = NoPasswd
    Passwd = {p1, p2, NoPasswd}
    PasswdOf <- MCPasswdOf
    FullSsid = {a2}
    MaxEvq = 3
    MaxOps = 4
INVARIANTS TypeOK ViewFollowsLink NoLostReconnect AttemptUsesRequestedConfig AddressIsTold
PROPERTY ImplementsView
