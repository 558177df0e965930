---------------------------- MODULE MCEquipment ----------------------------
\* Equipment with the six sensors of the board.
EXTENDS Equipment
===========================================================================
