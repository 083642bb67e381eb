--------------------------- MODULE MCIso14bSniffer ---------------------------
(* Model-checking instance of Iso14bSniffer: frames of at most one byte  *)
(* (0x00 or 0xA5), a phase on the I axis and one in the second quadrant, *)
(* the answer right after the command or four words later, and a tag     *)
(* that may stop in TR1 after training, in the SOF low and high phases,  *)
(* in the middle of its byte and right after it.  An answer of one byte *)
(* is 112 words: 44 of TR1 (with the preloaded 0xFF), 20 of SOF low, 4   *)
(* of SOF high, 20 per character, 20 of EOF and 4 of trailing ones.     *)
EXTENDS Iso14bSniffer

MCBytes == {0, 165}
MCPhases == {<<20, 0>>, <<-9, 12>>}
MCGaps == {0, 4}
MCCuts == {30, 56, 66, 78, 88}
=============================================================================
