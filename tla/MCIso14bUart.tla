---------------------------- MODULE MCIso14bUart ----------------------------
(* Model-checking instance of Iso14bUart.  Byte values 0x00 (all data     *)
(* bits zero, only its stop bit tells it from an EOF) and 0xA5 (mixed     *)
(* bits).  MAX_FRAME_SIZE is cut from 256 to 2 so that commands of        *)
(* length byteCntMax and byteCntMax + 1 are within reach.                 *)
EXTENDS Iso14bUart

MCBytes == {0, 165}
(* Noise inverts any one sample of the SOF, 40 samples low and 8 high   *)
(* (10 and 2 ETU of 4 samples), or the last idle sample before it.       *)
MCGlitches == 0..48
=============================================================================
