--------------------------- MODULE MCIso14bReader ---------------------------
(* Model-checking instance of Iso14bReader: host commands as the client  *)
(* sends them (a triggered connect, select and disconnect; select and    *)
(* APDU; APDU alone; an SRx select with a raw frame; a timeout change),   *)
(* one card PUPI and two SRx chip ids.                                    *)
EXTENDS Iso14bReader

CONSTANTS p1, p2, c1, c2

MCHostCmds == {{"REQUEST_TRIGGER", "CONNECT", "SELECT_STD", "DISCONNECT"},
               {"SELECT_STD", "APDU"}, {"APDU"},
               {"CONNECT", "SELECT_SR", "RAW"}, {"SET_TIMEOUT"}}
MCTimeouts == {1700, 2147483647}
=============================================================================
