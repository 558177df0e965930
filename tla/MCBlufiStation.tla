------------------------- MODULE MCBlufiStation -------------------------
\* BlufiStation with two access points of different passwords, one of them with a
\* 32-character SSID.
EXTENDS BlufiStation, TLC
CONSTANTS a1, a2, p1, p2
MCPasswdOf == (a1 :> p1) @@ (a2 :> p2)
==========================================================================
