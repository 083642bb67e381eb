--------------------------- MODULE MCIso14bTxTiming ---------------------------
(* Transmit timing with the code's 600-tick guard, and an SSP clock of 12 *)
(* bits, which does not wrap within the longest exchange here, or of 10   *)
(* bits, which does (at 1024 instead of 2^32).  The tag's answer ends at 100     *)
(* (nothing wraps), at 400 (the start time is just below the wrap), at    *)
(* 430 (eof + 600 wraps to 6, under DELAY_ARM_TO_TAG) and at 1000 (the   *)
(* clock wraps before the call).  The call comes 2 ticks after the EOF,   *)
(* or 700, after the requested time (the missed-time path).               *)
EXTENDS Iso14bTxTiming

MCEofTimes == {100, 400, 430, 1000}
MCProcTimes == {2, 700}
=============================================================================
