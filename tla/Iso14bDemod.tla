---------------------------- MODULE Iso14bDemod ----------------------------
(***************************************************************************)
(* The reader-side BPSK demodulator of armsrc/iso14443b.c                  *)
(* (Handle14443bSamplesFromTag) driven by Get14443bAnswerFromTag, fed     *)
(* with the answer of a tag coded by CodeIso14443bAsTag.                   *)
(*                                                                         *)
(* One step is one IQ sample read from the DMA buffer.  The tag starts    *)
(* its answer after delay silent samples, and may fall silent after cut   *)
(* samples of it (a card leaving the field); one sample may carry a      *)
(* noise spike added to it.  A stuffbit 1 arrives as the correlation     *)
(* <<I, Q>> of its subcarrier phase, a 0 as the opposite vector, silence *)
(* as <<0, 0>>.  Demod.output holds the bytes of the                      *)
(* current frame (the first Demod.len of the buffer, which the code      *)
(* writes without comparing with max_len).                                 *)
(***************************************************************************)
EXTENDS Integers, Sequences, Iso14bCodec

CONSTANTS
    MaxLen,       \* max_len given to Demod14bInit (size of the answer buffer)
    Timeout,      \* the timeout argument, in samples
    Bytes,        \* the byte values an answer is made of
    MaxMsgLen,    \* longest answer the tag sends
    MaxDelay,     \* latest start of the answer, in samples
    Phases,       \* subcarrier phases <<I, Q>> the reader may see
    Cuts,         \* samples after which a tag may fall silent mid-answer
    Spikes        \* noise: [at |-> k, iq |-> v] adds v to answer sample k

ASSUME MaxLen \in Nat /\ Timeout \in Nat /\ Bytes \subseteq 0..255
ASSUME MaxMsgLen \in Nat /\ MaxDelay \in Nat /\ Phases \subseteq Int \X Int
ASSUME Cuts \subseteq Nat

VARIABLES
    Demod,     \* the demodulator struct
    msg,       \* the answer the tag transmits (fixed per behaviour)
    delay,     \* silent samples before it (fixed per behaviour)
    phase,     \* subcarrier phase of the tag (fixed per behaviour)
    air,       \* the symbols of the answer, computed once from msg
    cut,       \* the tag stops after this many samples (card removed)
    samples,   \* samples read so far
    returned,  \* Get14443bAnswerFromTag has returned
    ret,       \* its return value
    spike      \* the noise of this behaviour, or NoSpike

vars == <<Demod, msg, delay, phase, air, cut, samples, returned, ret, spike>>

DUnsyncd == 0              \* the enum values of Demod.state, in order
DPhaseRefTraining == 1
DAwaitingFallingEdgeOfSof == 2
DGotFallingEdgeOfSof == 3
DAwaitingStartBit == 4
DReceivingData == 5

Messages == UNION {[1..n -> Bytes] : n \in 0..MaxMsgLen}

(* Demod14bReset. *)
Demod14bReset == [state |-> DUnsyncd, bitCount |-> 0, posCount |-> 0,
                  thisBit |-> 0, shiftReg |-> 0, output |-> <<>>,
                  sumI |-> 0, sumQ |-> 0]

Abs(x) == IF x < 0 THEN -x ELSE x
(* AMPLITUDE(ci, cq): max(|ci|,|cq|) + min(|ci|,|cq|)/2. *)
Amplitude(ci, cq) ==
    IF Abs(ci) >= Abs(cq) THEN Abs(ci) + Abs(cq) \div 2
                          ELSE Abs(cq) + Abs(ci) \div 2
SUBCARRIER_DETECT_THRESHOLD == 8

(* MAKE_SOFT_DECISION: project the sample on the quadrant of the          *)
(* reference vector <<sumI, sumQ>>.                                        *)
SoftDecision(d, ci, cq) ==
    (IF d.sumI > 0 THEN ci ELSE -ci) + (IF d.sumQ > 0 THEN cq ELSE -cq)

(***************************************************************************)
(* The six branches of Handle14443bSamplesFromTag, each mapping the       *)
(* struct d and a sample to [d |-> new struct, eof |-> returned].         *)
(***************************************************************************)
UnsyncdIQ(d, ci, cq) ==
    [d |-> IF Amplitude(ci, cq) > SUBCARRIER_DETECT_THRESHOLD
           THEN [d EXCEPT !.state = DPhaseRefTraining, !.sumI = ci,
                          !.sumQ = cq, !.posCount = 1]
           ELSE d,
     eof |-> FALSE]

PhaseRefTrainingIQ(d, ci, cq) ==
    [d |-> CASE d.posCount >= 8 ->
                  [d EXCEPT !.state = DAwaitingFallingEdgeOfSof]
             [] Amplitude(ci, cq) > SUBCARRIER_DETECT_THRESHOLD ->
                  [d EXCEPT !.sumI = @ + ci, !.sumQ = @ + cq,
                            !.posCount = @ + 1]
             [] OTHER -> [d EXCEPT !.state = DUnsyncd],
     eof |-> FALSE]

(* Fault variant: the TR1 length is counted only on subcarrier samples,  *)
(* so silence after TR1 keeps the demodulator waiting.                    *)
AwaitingFallingEdgeIQSubcarrierOnly(d, ci, cq) ==
    [d |-> CASE SoftDecision(d, ci, cq) < 0 ->
                  [d EXCEPT !.state = DGotFallingEdgeOfSof, !.posCount = 1]
             [] SoftDecision(d, ci, cq) > 0 ->
                  [d EXCEPT !.state = IF d.posCount > 50 THEN DUnsyncd ELSE @,
                            !.posCount = @ + 1]
             [] OTHER -> d,
     eof |-> FALSE]

(* A negative decision starts the SOF; TR1 longer than 50 gives up. *)
AwaitingFallingEdgeIQ(d, ci, cq) ==
    [d |-> IF SoftDecision(d, ci, cq) < 0
           THEN [d EXCEPT !.state = DGotFallingEdgeOfSof, !.posCount = 1]
           ELSE [d EXCEPT !.state = IF d.posCount > 50 THEN DUnsyncd ELSE @,
                          !.posCount = @ + 1],
     eof |-> FALSE]

(* The low phase of the SOF must last from 18 to 28 samples. *)
GotFallingEdgeIQ(d, ci, cq) ==
    LET p == d.posCount + 1
    IN [d |-> CASE SoftDecision(d, ci, cq) > 0 /\ p < 18 ->
                     [d EXCEPT !.posCount = p, !.state = DUnsyncd]
                [] SoftDecision(d, ci, cq) > 0 ->
                     [d EXCEPT !.posCount = 0, !.bitCount = 0,
                               !.output = <<>>, !.state = DAwaitingStartBit]
                [] p > 28 -> [d EXCEPT !.posCount = p, !.state = DUnsyncd]
                [] OTHER -> [d EXCEPT !.posCount = p],
        eof |-> FALSE]

(* High for more than 12 samples ends the frame: an SOF with nothing      *)
(* after it is returned as a frame (the iClass case), state unchanged;    *)
(* after data it is an error.  A decision <= 0 is the start bit.           *)
AwaitingStartBitIQ(d, ci, cq) ==
    LET p == d.posCount + 1
        v == SoftDecision(d, ci, cq)
        sofOnly == d.bitCount = 0 /\ Len(d.output) = 0
    IN CASE v > 0 /\ p > 12 /\ sofOnly ->
              [d |-> [d EXCEPT !.posCount = p], eof |-> TRUE]
         [] v > 0 /\ p > 12 ->
              [d |-> [d EXCEPT !.posCount = p, !.state = DUnsyncd],
               eof |-> FALSE]
         [] v > 0 -> [d |-> [d EXCEPT !.posCount = p], eof |-> FALSE]
         [] OTHER ->
              [d |-> [d EXCEPT !.posCount = 1, !.thisBit = v, !.shiftReg = 0,
                               !.state = DReceivingData],
               eof |-> FALSE]

(* Fault variant: the bit count is not cleared after a character. *)
ReceivingDataIQNoBitReset(d, ci, cq) ==
    LET v == SoftDecision(d, ci, cq)
        tb == d.thisBit + v
        sr == (d.shiftReg \div 2) + (IF tb > 0 THEN 512 ELSE 0)
        s1 == [d EXCEPT !.thisBit = tb, !.shiftReg = sr,
                        !.bitCount = @ + 1, !.posCount = 0]
    IN CASE d.posCount = 0 ->
              [d |-> [d EXCEPT !.thisBit = v, !.posCount = 1], eof |-> FALSE]
         [] d.bitCount + 1 = 10 /\ sr \div 512 = 1 /\ sr % 2 = 0 ->
              [d |-> [s1 EXCEPT !.output = Append(@, (sr \div 2) % 256),
                                !.state = DAwaitingStartBit],
               eof |-> FALSE]
         [] d.bitCount + 1 = 10 /\ sr = 0 ->
              [d |-> [s1 EXCEPT !.state = DUnsyncd, !.posCount = d.posCount],
               eof |-> TRUE]
         [] d.bitCount + 1 = 10 -> [d |-> [s1 EXCEPT !.state = DUnsyncd], eof |-> FALSE]
         [] OTHER -> [d |-> s1, eof |-> FALSE]

(* Fault variant: the byte is taken from the register without dropping   *)
(* the start bit.                                                          *)
ReceivingDataIQNoShift(d, ci, cq) ==
    LET v == SoftDecision(d, ci, cq)
        tb == d.thisBit + v
        sr == (d.shiftReg \div 2) + (IF tb > 0 THEN 512 ELSE 0)
        bc == d.bitCount + 1
        s1 == [d EXCEPT !.thisBit = tb, !.shiftReg = sr, !.bitCount = bc,
                        !.posCount = 0]
    IN CASE d.posCount = 0 ->
              [d |-> [d EXCEPT !.thisBit = v, !.posCount = 1], eof |-> FALSE]
         [] bc = 10 /\ sr \div 512 = 1 /\ sr % 2 = 0 ->
              [d |-> [s1 EXCEPT !.output = Append(@, sr % 256),
                                !.bitCount = 0, !.state = DAwaitingStartBit],
               eof |-> FALSE]
         [] bc = 10 /\ sr = 0 ->
              [d |-> [s1 EXCEPT !.state = DUnsyncd, !.posCount = d.posCount],
               eof |-> TRUE]
         [] bc = 10 -> [d |-> [s1 EXCEPT !.state = DUnsyncd], eof |-> FALSE]
         [] OTHER -> [d |-> s1, eof |-> FALSE]

(* Two samples per bit.  After ten bits: a character is stored at         *)
(* output[len] with no bound check, an all-zero register is the EOF       *)
(* (returned before posCount is cleared), anything else a framing error.  *)
ReceivingDataIQ(d, ci, cq) ==
    LET v == SoftDecision(d, ci, cq)
        tb == d.thisBit + v
        sr == (d.shiftReg \div 2) + (IF tb > 0 THEN 512 ELSE 0)
        bc == d.bitCount + 1
        s1 == [d EXCEPT !.thisBit = tb, !.shiftReg = sr, !.bitCount = bc,
                        !.posCount = 0]
    IN CASE d.posCount = 0 ->
              [d |-> [d EXCEPT !.thisBit = v, !.posCount = 1], eof |-> FALSE]
         [] bc = 10 /\ sr \div 512 = 1 /\ sr % 2 = 0 ->
              [d |-> [s1 EXCEPT !.output = Append(@, (sr \div 2) % 256),
                                !.bitCount = 0, !.state = DAwaitingStartBit],
               eof |-> FALSE]
         [] bc = 10 /\ sr = 0 ->
              [d |-> [s1 EXCEPT !.state = DUnsyncd, !.posCount = d.posCount],
               eof |-> TRUE]
         [] bc = 10 -> [d |-> [s1 EXCEPT !.state = DUnsyncd], eof |-> FALSE]
         [] OTHER -> [d |-> s1, eof |-> FALSE]

Handle14443bSamplesFromTag(d, ci, cq) ==
    CASE d.state = DUnsyncd -> UnsyncdIQ(d, ci, cq)
      [] d.state = DPhaseRefTraining -> PhaseRefTrainingIQ(d, ci, cq)
      [] d.state = DAwaitingFallingEdgeOfSof -> AwaitingFallingEdgeIQ(d, ci, cq)
      [] d.state = DGotFallingEdgeOfSof -> GotFallingEdgeIQ(d, ci, cq)
      [] d.state = DAwaitingStartBit -> AwaitingStartBitIQ(d, ci, cq)
      [] d.state = DReceivingData -> ReceivingDataIQ(d, ci, cq)

-----------------------------------------------------------------------------
(***************************************************************************)
(* Get14443bAnswerFromTag: Demod14bInit, then per sample: count it, run   *)
(* the demodulator, return -2 or Demod.len at its EOF, or -1 once more    *)
(* than timeout samples went by while the demodulator is Unsyncd.         *)
(***************************************************************************)
NoSpike == [at |-> 0, iq |-> <<0, 0>>]

Init ==
    /\ msg \in Messages
    /\ delay \in 0..MaxDelay
    /\ phase \in Phases
    /\ air = TagToReaderSymbols(TransmitAsTag(CodeIso14443bAsTag(msg)))
    /\ cut \in {c \in Cuts : c < Len(air)} \cup {Len(air)}
    /\ Demod = Demod14bReset
    /\ samples = 0
    /\ returned = FALSE
    /\ ret = 0
    /\ spike \in Spikes \cup {NoSpike}

(* The IQ correlation of the n-th sample: the tag's symbol, plus the     *)
(* noise spike if it falls on this sample (k counts from the answer's     *)
(* first sample, so k <= 0 is the silence before it).                      *)
SampleIQ(n) ==
    LET k == n - delay
        sig == IF k >= 1 /\ k <= cut
               THEN IF air[k] = 1 THEN phase ELSE <<-phase[1], -phase[2]>>
               ELSE <<0, 0>>
        noise == IF spike # NoSpike /\ spike.at = k THEN spike.iq ELSE <<0, 0>>
    IN <<sig[1] + noise[1], sig[2] + noise[2]>>

Step == Handle14443bSamplesFromTag(Demod, SampleIQ(samples + 1)[1],
                                   SampleIQ(samples + 1)[2])
(* Fault variant: the timeout fires whatever the demodulator state. *)
TimedOutAnyState == samples + 1 > Timeout

(* The timeout test of the loop: more than timeout samples read while    *)
(* the demodulator, after this sample, has not seen a subcarrier.          *)
TimedOut == samples + 1 > Timeout /\ Step.d.state < DPhaseRefTraining

(* Past the end of the answer and the timeout every sample is silence and *)
(* the timeout test saturated, so the count stops there: a demodulator    *)
(* that never leaves a trained state then stutters instead of counting.   *)
Horizon == delay + cut + Timeout + 1

ReceiveIQ ==
    /\ ~returned
    /\ ~Step.eof /\ ~TimedOut
    /\ Demod' = Step.d
    /\ samples' = IF samples < Horizon THEN samples + 1 ELSE samples
    /\ UNCHANGED <<msg, delay, phase, air, cut, returned, ret, spike>>

(* EOF: -2 if more than max_len bytes were stored, else Demod.len. *)
AnswerComplete ==
    /\ ~returned
    /\ Step.eof
    /\ Demod' = Step.d
    /\ samples' = samples + 1
    /\ returned' = TRUE
    /\ ret' = IF Len(Step.d.output) > MaxLen THEN -2 ELSE Len(Step.d.output)
    /\ UNCHANGED <<msg, delay, phase, air, cut, spike>>

AnswerTimeout ==
    /\ ~returned
    /\ ~Step.eof /\ TimedOut
    /\ Demod' = Step.d
    /\ samples' = samples + 1
    /\ returned' = TRUE
    /\ ret' = -1
    /\ UNCHANGED <<msg, delay, phase, air, cut, spike>>

Next == ReceiveIQ \/ AnswerComplete \/ AnswerTimeout

(* The DMA delivers a sample every 4.72 us whatever the CPU does. *)
Spec == Init /\ [][Next]_vars /\ WF_vars(Next)

-----------------------------------------------------------------------------
(* Type invariant of the Demod struct (Handle14443bSamplesFromTag): the  *)
(* counters stay in the ranges the handler's resets keep them in.          *)
TypeOK ==
    /\ Demod.state \in DUnsyncd..DReceivingData
    /\ Demod.bitCount \in 0..10 /\ Demod.posCount \in 0..52
    /\ Demod.shiftReg \in 0..1023
    /\ Demod.output \in Seq(0..255)
    /\ returned \in BOOLEAN /\ ret \in {-1, -2} \cup Nat
    /\ spike \in Spikes \cup {NoSpike}

(* A whole answer free of noise comes back as the tag sent it: one that   *)
(* starts by sample timeout + 1 is returned whole (its length when it fits in    *)
(* max_len, -2 when not); one that starts later, or whose subcarrier is   *)
(* not above the detection threshold, times out with -1.                  *)
AnswerMatchesTag ==
    returned /\ cut = Len(air) /\ spike = NoSpike =>
        IF delay >= Timeout + 1
           \/ Amplitude(phase[1], phase[2]) <= SUBCARRIER_DETECT_THRESHOLD
        THEN ret = -1
        ELSE /\ Demod.output = msg
             /\ ret = IF Len(msg) > MaxLen THEN -2 ELSE Len(msg)

(* Get14443bAnswerFromTag returns for every answer, also one cut short   *)
(* after the phase reference was trained or hit by a noise spike.         *)
AnswerReturns == <>returned

(* Spec 8, invariant 6: the demodulator returns an empty frame only when  *)
(* an SOF is followed by the AwaitingStartBit timeout (the SOF-only case,  *)
(* which leaves the state AwaitingStartBit), never from an EOF.            *)
EmptyOnlyAfterSof ==
    returned /\ ret = 0 => Demod.state = DAwaitingStartBit

(* Spec 5, Timeout: a sample past timeout that leaves the demodulator     *)
(* Unsynced or in PhaseRefTraining ends Get14443bAnswerFromTag with -1.   *)
SpecTimeoutInTraining ==
    [][~returned /\ samples + 1 > Timeout /\ Step.d.state <= DPhaseRefTraining
         => returned' /\ ret' = -1]_vars

(* The demodulator never writes past the max_len bytes of its output      *)
(* buffer (r_init[3], r_attrib[3], r_pupid[14], buf[100] ...).            *)
NoOutputOverrun == Len(Demod.output) <= MaxLen

(* What spec 5 and 8 say of Get14443bAnswerFromTag: the answer stays in  *)
(* the caller's max_len bytes, an empty answer comes only from the        *)
(* SOF-only timeout, and the timeout ends the wait in PhaseRefTraining.   *)
(* Each conjunct fails on its own.                                         *)
SpecDemodAnswer ==
    [](NoOutputOverrun /\ EmptyOnlyAfterSof) /\ SpecTimeoutInTraining

=============================================================================
