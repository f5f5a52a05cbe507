------------------------------- MODULE MCChMon -------------------------------
(* Short sessions over ChMon, with files and regions that end before, at and *)
(* behind the end of a packet.                                               *)
EXTENDS ChMon

MCFileLengths == 0 .. 2 * Packet

\* Low RAM, a region that reaches into the ROM, and an empty one.
MCRegions == {<<0, 3>>, <<3, 5>>, <<4, 4>>}
==============================================================================
