------------------------ MODULE MCBlufiSecurity ------------------------
\* BlufiSecurity with three memory blocks.
EXTENDS BlufiSecurity
CONSTANTS b1, b2, b3
=========================================================================
