---------------------------- MODULE MCD64Transfer ----------------------------
(* A disk of three tracks, the first with more sectors than the last, as on a *)
(* real one; one of them a multiple of the interleave, where the search for   *)
(* the next sector has to step aside.                                         *)
EXTENDS D64Transfer

MCSectors == <<4, 3, 3>>
===============================================================================
