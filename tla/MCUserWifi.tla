----------------------------- MODULE MCUserWifi -----------------------------
\* UserWifi with two access points, one of them with a name of 32 characters.
EXTENDS UserWifi, TLC
CONSTANTS a1, a2, p1, p2
MCPasswdOf == (a1 :> p1) @@ (a2 :> p2)
MCBuiltIn  == [ssid |-> a1, passwd |-> p1]
=============================================================================
