------------------------------ MODULE MCChacoApp ------------------------------
(* Two tasks over ChacoApp: one that is started by a click alone and reads   *)
(* the status afterwards, and one with a dialog that asks for the SD card.   *)
EXTENDS ChacoApp, Sequences

MCKind == <<"StartCH", "FlashCore">>
=============================================================================
