----------------------------- MODULE Iso14bUart -----------------------------
(***************************************************************************)
(* The tag-side software UART of armsrc/iso14443b.c                       *)
(* (Handle14443bSampleFromReader) driven by GetIso14443bCommandFromReader *)
(* with the envelope of a reader command coded by CodeIso14443bAsReader.  *)
(*                                                                         *)
(* One step is one call of the sample handler: the UART state is the     *)
(* record Uart with the fields of the C struct, Uart.output holding the   *)
(* bytes of the current frame (the first Uart.byteCnt of the buffer).     *)
(* The reader sends msg after lead samples of unmodulated carrier; after  *)
(* the command the carrier stays unmodulated (envelope 1).  Noise may     *)
(* invert one envelope sample: the sample lead + glitch of the stream.  *)
(***************************************************************************)
EXTENDS Naturals, Sequences, Iso14bCodec

CONSTANTS
    MAX_FRAME_SIZE,   \* Uart.byteCntMax after Uart14bReset
    Bytes,            \* the byte values a command is made of
    MaxMsgLen,        \* longest command the reader sends
    MaxLead,          \* longest idle carrier before the command
    Glitches          \* samples noise may invert, counted from the SOF's start

ASSUME MAX_FRAME_SIZE \in Nat \ {0} /\ Bytes \subseteq 0..255
ASSUME MaxMsgLen \in Nat /\ MaxLead \in Nat

VARIABLES
    Uart,      \* the UART struct
    msg,       \* the command the reader transmits (fixed per behaviour)
    lead,      \* idle samples before its SOF (fixed per behaviour)
    air,       \* the envelope samples on air, computed once from msg and lead
    pos,       \* samples consumed so far
    result,    \* "running", or "frame" once the loop returned true
    glitch     \* the sample noise inverts (fixed per behaviour), or NoGlitch

vars == <<Uart, msg, lead, air, pos, result, glitch>>

Unsyncd == "STATE_14B_UNSYNCD"
GotFallingEdgeOfSof == "STATE_14B_GOT_FALLING_EDGE_OF_SOF"
AwaitingStartBit == "STATE_14B_AWAITING_START_BIT"
ReceivingData == "STATE_14B_RECEIVING_DATA"
UartStates == {Unsyncd, GotFallingEdgeOfSof, AwaitingStartBit, ReceivingData}

Messages == UNION {[1..n -> Bytes] : n \in 0..MaxMsgLen}

(* Uart14bReset; Uart14bInit only also sets the output pointer. *)
Uart14bReset == [state |-> Unsyncd, shiftReg |-> 0, bitCnt |-> 0,
                 byteCnt |-> 0, byteCntMax |-> MAX_FRAME_SIZE, posCnt |-> 0,
                 output |-> <<>>]

NoGlitch == -1000    \* no sample is inverted

(* The envelope sample stream the UART is fed. *)
Stream == Rep(lead, 1) \o ReaderEnvelope(CodeIso14443bAsReader(msg))
(* The i-th envelope sample, inverted if noise hits it. *)
SampleAt(i) ==
    LET clean == IF i <= Len(air) THEN air[i] ELSE 1
    IN IF i = lead + glitch THEN 1 - clean ELSE clean

(***************************************************************************)
(* The four branches of Handle14443bSampleFromReader.  Each maps the      *)
(* struct u and the sampled bit to [u |-> new struct, eof |-> returned].  *)
(***************************************************************************)
UnsyncdSample(u, bit) ==
    [u |-> IF bit = 0
           THEN [u EXCEPT !.state = GotFallingEdgeOfSof, !.posCnt = 0,
                          !.bitCnt = 0]
           ELSE u,
     eof |-> FALSE]

(* Fault variant: posCnt is not wrapped at 4, so only the first ETU of    *)
(* the SOF is sampled.                                                     *)
GotFallingEdgeSampleNoWrap(u, bit) ==
    LET p == u.posCnt + 1
        sofOk == p = 2 /\ bit = 1 /\ u.bitCnt > 9
        bc == IF p = 2 THEN u.bitCnt + 1 ELSE u.bitCnt
    IN [u |-> [u EXCEPT
                 !.posCnt = IF sofOk THEN 0 ELSE p,
                 !.bitCnt = bc,
                 !.byteCnt = IF sofOk THEN 0 ELSE @,
                 !.output = IF sofOk THEN <<>> ELSE @,
                 !.state = CASE bc > 12 -> Unsyncd
                             [] sofOk -> AwaitingStartBit
                             [] p = 2 /\ bit = 1 -> Unsyncd
                             [] OTHER -> @],
        eof |-> FALSE]

(* Fault variant: an SOF needs more than 10 zero ETUs. *)
GotFallingEdgeSampleLongSof(u, bit) ==
    LET p == u.posCnt + 1
        sofOk == p = 2 /\ bit = 1 /\ u.bitCnt > 10
        bc == IF p = 2 THEN u.bitCnt + 1 ELSE u.bitCnt
        p1 == IF sofOk THEN 0 ELSE p
    IN [u |-> [u EXCEPT
                 !.posCnt = IF p1 >= 4 THEN 0 ELSE p1,
                 !.bitCnt = bc,
                 !.byteCnt = IF sofOk THEN 0 ELSE @,
                 !.output = IF sofOk THEN <<>> ELSE @,
                 !.state = CASE bc > 12 -> Unsyncd
                             [] sofOk -> AwaitingStartBit
                             [] p = 2 /\ bit = 1 -> Unsyncd
                             [] OTHER -> @],
        eof |-> FALSE]

(* Sample in the middle of each ETU; a one after more than 9 zero ETUs is  *)
(* a valid SOF, but more than 12 bit times without a one gives up, and    *)
(* that test comes last, after bitCnt was counted.                         *)
GotFallingEdgeSample(u, bit) ==
    LET p == u.posCnt + 1
        mid == p = 2
        sofOk == mid /\ bit = 1 /\ u.bitCnt > 9
        sofShort == mid /\ bit = 1 /\ u.bitCnt <= 9
        bc == IF mid THEN u.bitCnt + 1 ELSE u.bitCnt
        p1 == IF sofOk THEN 0 ELSE p
    IN [u |-> [u EXCEPT
                 !.posCnt = IF p1 >= 4 THEN 0 ELSE p1,
                 !.bitCnt = bc,
                 !.byteCnt = IF sofOk THEN 0 ELSE @,
                 !.output = IF sofOk THEN <<>> ELSE @,
                 !.state = CASE bc > 12 -> Unsyncd
                             [] sofOk -> AwaitingStartBit
                             [] sofShort -> Unsyncd
                             [] OTHER -> @],
        eof |-> FALSE]

(* A one for more than 25 samples is a too long gap between characters;  *)
(* a zero is the falling edge of a start bit.                             *)
AwaitingStartBitSample(u, bit) ==
    LET p == u.posCnt + 1
    IN [u |-> IF bit = 1
              THEN [u EXCEPT !.posCnt = p,
                             !.state = IF p > 25 THEN Unsyncd ELSE @]
              ELSE [u EXCEPT !.posCnt = 0, !.bitCnt = 0, !.shiftReg = 0,
                             !.state = ReceivingData],
        eof |-> FALSE]

ReceivingDataSample(u, bit) ==
    LET p == u.posCnt + 1
        mid == p = 2
        sr == IF mid THEN (u.shiftReg \div 2) + 512 * bit ELSE u.shiftReg
        bc == IF mid THEN u.bitCnt + 1 ELSE u.bitCnt
        p1 == IF p >= 4 THEN 0 ELSE p
        isChar == sr \div 512 = 1 /\ sr % 2 = 0
        n == u.byteCnt + 1
        s1 == [u EXCEPT !.posCnt = p1, !.shiftReg = sr, !.bitCnt = bc]
    IN CASE bc = 10 /\ isChar ->
              [u |-> [s1 EXCEPT !.output = Append(u.output, (sr \div 2) % 256),
                                !.byteCnt = n,
                                !.posCnt = IF n >= u.byteCntMax THEN @ ELSE 0,
                                !.state = IF n >= u.byteCntMax
                                          THEN Unsyncd ELSE AwaitingStartBit],
               eof |-> FALSE]
         [] bc = 10 /\ sr = 0 ->
              [u |-> [s1 EXCEPT !.state = Unsyncd], eof |-> u.byteCnt # 0]
         [] bc = 10 ->
              [u |-> [s1 EXCEPT !.state = Unsyncd], eof |-> FALSE]
         [] OTHER -> [u |-> s1, eof |-> FALSE]

Handle14443bSampleFromReader(u, bit) ==
    CASE u.state = Unsyncd -> UnsyncdSample(u, bit)
      [] u.state = GotFallingEdgeOfSof -> GotFallingEdgeSample(u, bit)
      [] u.state = AwaitingStartBit -> AwaitingStartBitSample(u, bit)
      [] u.state = ReceivingData -> ReceivingDataSample(u, bit)

-----------------------------------------------------------------------------
(***************************************************************************)
(* GetIso14443bCommandFromReader: Uart14bInit, then one handler call per   *)
(* envelope sample until the handler returns true.  Past the end of the   *)
(* command the carrier is idle and the UART, back in Unsyncd, spins.      *)
(***************************************************************************)
Init ==
    /\ msg \in Messages
    /\ lead \in 0..MaxLead
    /\ air = Stream
    /\ Uart = Uart14bReset
    /\ pos = 0
    /\ result = "running"
    /\ glitch \in Glitches \cup {NoGlitch}

Step == Handle14443bSampleFromReader(Uart, SampleAt(pos + 1))

(* A sample that does not end a frame. *)
ReceiveSample ==
    /\ result = "running"
    /\ ~Step.eof
    /\ Uart' = Step.u
    /\ pos' = IF pos < Len(air) THEN pos + 1 ELSE pos
    /\ UNCHANGED <<msg, lead, air, result, glitch>>

(* The sample that completes a frame: the loop returns true with          *)
(* *len = Uart.byteCnt.                                                    *)
FrameReceived ==
    /\ result = "running"
    /\ Step.eof
    /\ Uart' = Step.u
    /\ pos' = pos + 1
    /\ result' = "frame"
    /\ UNCHANGED <<msg, lead, air, glitch>>

Next == ReceiveSample \/ FrameReceived

(* Samples arrive from the SSC at the rate of the FPGA clock. *)
Spec == Init /\ [][Next]_vars /\ WF_vars(Next)

-----------------------------------------------------------------------------
(* Type invariant of the UART struct (Handle14443bSampleFromReader) and  *)
(* of the harness; posCnt stays below 26 and bitCnt below 13 because of   *)
(* the resets in the handler.                                              *)
TypeOK ==
    /\ Uart.state \in UartStates
    /\ Uart.shiftReg \in 0..1023
    /\ Uart.bitCnt \in 0..13
    /\ Uart.posCnt \in 0..26
    /\ Uart.byteCnt \in 0..MAX_FRAME_SIZE
    /\ Uart.output \in Seq(0..255) /\ Len(Uart.output) = Uart.byteCnt
    /\ msg \in Messages /\ lead \in 0..MaxLead
    /\ air = Stream /\ pos \in 0..Len(air) /\ result \in {"running", "frame"}
    /\ glitch \in Glitches \cup {NoGlitch}

Channel == INSTANCE FrameChannel
               WITH cmd <- msg,
                    rx <- IF result = "frame" THEN Uart.output ELSE <<>>,
                    delivered <- result = "frame",
                    noisy <- glitch # NoGlitch,
                    Limit <- MAX_FRAME_SIZE

UartImplementsChannel == Channel!Spec

=============================================================================
