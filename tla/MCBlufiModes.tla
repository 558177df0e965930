---------------------------- MODULE MCBlufiModes ----------------------------
\* BlufiModes with two names, one of them of 32 characters, and three numbers, one of
\* them out of range.
EXTENDS BlufiModes
=============================================================================
