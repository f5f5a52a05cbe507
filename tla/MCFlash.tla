------------------------------ MODULE MCFlash -------------------------------
\* Two slots of two sectors of two cells; two cores of the same length for the
\* two versions of the hardware, and one whose ROMs fill the slot to the brim.
EXTENDS WxUpdater

CONSTANTS old, new, full
MCCoreLen == [i \in Images |-> 1]
MCRomLen == [i \in Images |-> IF i = full THEN 2 ELSE 1]
MCHardware == [i \in Images |-> IF i = new THEN 2 ELSE 1]
=============================================================================
