----------------------------- MODULE MCFirmware -----------------------------
\* Firmware with few packets under way.
EXTENDS Firmware
=============================================================================
