--------------------------- MODULE MCIso14bTagSim ---------------------------
(* Model-checking instance of Iso14bTagSim: the frames of spec 6 (REQB,   *)
(* WUPB, HLTB, ATTRIB, an I-block) and a 6-byte frame that starts with   *)
(* 0x05 but is no REQB.                                                   *)
EXTENDS Iso14bTagSim

MCReqb == [b0 |-> 5, len |-> 5, wup |-> FALSE]      \* 05 00 00 71 FF
MCWupb == [b0 |-> 5, len |-> 5, wup |-> TRUE]       \* 05 00 08 39 73
MCHltb == [b0 |-> 80, len |-> 7, wup |-> FALSE]     \* 50 PUPI CRC
MCAttrib == [b0 |-> 29, len |-> 11, wup |-> TRUE]   \* 1D PUPI 00 08 .. CRC
MCIBlock == [b0 |-> 10, len |-> 6, wup |-> FALSE]   \* 0A 00 90 00 CRC
MCLong05 == [b0 |-> 5, len |-> 6, wup |-> TRUE]
MCCommands == {MCReqb, MCWupb, MCHltb, MCAttrib, MCIBlock, MCLong05}
=============================================================================
