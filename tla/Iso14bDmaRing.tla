---------------------------- MODULE Iso14bDmaRing ----------------------------
(***************************************************************************)
(* The DMA ring consumer of Get14443bAnswerFromTag (and, line for line,   *)
(* of SniffIso14443b) against the SSC's peripheral DMA controller (PDC).  *)
(*                                                                         *)
(* The PDC writes samples into buf[0..N-1] at RPR, counting RCR down;     *)
(* when RCR reaches 0 it sets ENDRX and, if the next counter RNCR is not  *)
(* 0, continues at the next pointer (always buf) with RNCR samples.  With *)
(* both counters 0 it stops and the SSC drops what arrives.  The consumer *)
(* polls behindBy = (RPR - upTo) mod N, reads buf[upTo], and when upTo   *)
(* wraps and ENDRX is set re-arms the stopped counters and looks at the  *)
(* button.  Pointers are indices: RPR = N is one past the buffer.         *)
(*                                                                         *)
(* fresh, lost and stale are history: the slots written and not yet read, *)
(* whether a sample was overwritten unread or dropped, and whether the    *)
(* consumer read a slot twice.                                             *)
(***************************************************************************)
EXTENDS Naturals, FiniteSets

CONSTANTS
    N,        \* DMA_BUFFER_SIZE, a power of two
    Lags      \* how many samples the PDC may get ahead of the consumer

ASSUME N \in {2, 4, 8, 16} /\ Lags \subseteq 1..(N + 1)

VARIABLES
    rpr, rcr, rncr, endrx,   \* PDC_RPR, PDC_RCR, PDC_RNCR, SSC_SR.ENDRX
    upTo,                    \* the consumer's cursor
    pc,                      \* "poll", "primary", "next" or "exited"
    pressed,                 \* the button is down
    maxLag,                  \* the CPU's speed in this behaviour
    fresh, lost, stale       \* history

vars == <<rpr, rcr, rncr, endrx, upTo, pc, pressed, maxLag, fresh, lost, stale>>

(* FpgaSetupSscDma(buf, N): current and next pair both at buf with N.     *)
(* upTo = dma->buf.                                                        *)
Init ==
    /\ rpr = 0 /\ rcr = N /\ rncr = N /\ endrx = FALSE
    /\ upTo = 0 /\ pc = "poll" /\ pressed = FALSE /\ maxLag \in Lags
    /\ fresh = {} /\ lost = FALSE /\ stale = FALSE

-----------------------------------------------------------------------------
(* The PDC and the SSC (hardware).  Samples arrive only while the         *)
(* consumer is less than maxLag samples behind.                           *)
SampleArrives == Cardinality(fresh) < maxLag

(* One sample written at RPR; at the end of the count ENDRX is set and    *)
(* the next pair, if armed, taken over.                                    *)
Transfer ==
    /\ SampleArrives /\ rcr > 0
    /\ lost' = (lost \/ rpr \in fresh)
    /\ fresh' = fresh \cup {rpr}
    /\ IF rcr = 1
       THEN /\ endrx' = TRUE
            /\ IF rncr > 0
               THEN rpr' = 0 /\ rcr' = rncr /\ rncr' = 0
               ELSE rpr' = rpr + 1 /\ rcr' = 0 /\ UNCHANGED rncr
       ELSE /\ rpr' = rpr + 1 /\ rcr' = rcr - 1
            /\ UNCHANGED <<rncr, endrx>>
    /\ UNCHANGED <<maxLag, upTo, pc, pressed, stale>>

(* A stopped PDC whose next counter was re-armed continues with it. *)
Reload ==
    /\ rcr = 0 /\ rncr > 0
    /\ rpr' = 0 /\ rcr' = rncr /\ rncr' = 0
    /\ UNCHANGED <<maxLag, endrx, upTo, pc, pressed, fresh, lost, stale>>

(* Both counters 0: the sample is lost in the SSC. *)
Drop ==
    /\ SampleArrives /\ rcr = 0 /\ rncr = 0 /\ ~lost
    /\ lost' = TRUE
    /\ UNCHANGED <<maxLag, rpr, rcr, rncr, endrx, upTo, pc, pressed, fresh, stale>>

Press ==
    /\ ~pressed /\ pressed' = TRUE
    /\ UNCHANGED <<maxLag, rpr, rcr, rncr, endrx, upTo, pc, fresh, lost, stale>>

-----------------------------------------------------------------------------
(* The consumer loop.  Fault variant: behindBy as a uint16_t difference, *)
(* without the mask.                                                       *)
BehindByUnmasked == (rpr + 65536 - upTo) % 65536

(* behindBy is taken modulo the buffer size. *)
BehindBy == (rpr + N - upTo) % N

(* behindBy = 0: continue, with no button or timeout check. *)
Spin ==
    /\ pc = "poll" /\ BehindBy = 0
    /\ UNCHANGED vars

(* Fault variant: the wrap test is upTo > buf + N. *)
ReadSampleLateWrap ==
    /\ pc = "poll" /\ BehindBy # 0
    /\ stale' = (stale \/ upTo \notin fresh)
    /\ fresh' = fresh \ {upTo}
    /\ IF upTo + 1 > N
       THEN upTo' = 0 /\ pc' = IF endrx THEN "primary" ELSE "poll"
       ELSE upTo' = upTo + 1 /\ UNCHANGED pc
    /\ UNCHANGED <<maxLag, rpr, rcr, rncr, endrx, pressed, lost>>

(* Read *upTo, advance it, and at the end of the buffer go back to buf   *)
(* and, when SSC_SR has ENDRX, to the re-arm.                              *)
ReadSample ==
    /\ pc = "poll" /\ BehindBy # 0
    /\ stale' = (stale \/ upTo \notin fresh)
    /\ fresh' = fresh \ {upTo}
    /\ IF upTo + 1 >= N
       THEN upTo' = 0 /\ pc' = IF endrx THEN "primary" ELSE "poll"
       ELSE upTo' = upTo + 1 /\ UNCHANGED pc
    /\ UNCHANGED <<maxLag, rpr, rcr, rncr, endrx, pressed, lost>>

(* Primary buffer stopped: RPR = buf, RCR = N (writing RCR clears ENDRX). *)
RearmPrimary ==
    /\ pc = "primary"
    /\ IF rcr = 0
       THEN rpr' = 0 /\ rcr' = N /\ endrx' = FALSE
       ELSE UNCHANGED <<rpr, rcr, endrx>>
    /\ pc' = "next"
    /\ UNCHANGED <<maxLag, rncr, upTo, pressed, fresh, lost, stale>>

(* Fault variant: the button is looked at only when the primary buffer    *)
(* had stopped.                                                            *)
RearmNextButtonInPrimary ==
    /\ pc = "next"
    /\ IF rncr = 0
       THEN rncr' = N /\ endrx' = FALSE
       ELSE UNCHANGED <<rncr, endrx>>
    /\ pc' = IF pressed /\ rcr = 0 THEN "exited" ELSE "poll"
    /\ UNCHANGED <<maxLag, rpr, rcr, upTo, pressed, fresh, lost, stale>>

(* Fault variant: the next buffer is re-armed only if the primary one was *)
(* not (else if).                                                          *)
RearmNextElse ==
    /\ pc = "next"
    /\ IF rncr = 0 /\ rcr # N
       THEN rncr' = N /\ endrx' = FALSE
       ELSE UNCHANGED <<rncr, endrx>>
    /\ pc' = IF pressed THEN "exited" ELSE "poll"
    /\ UNCHANGED <<maxLag, rpr, rcr, upTo, pressed, fresh, lost, stale>>

(* Secondary buffer stopped: RNPR = buf, RNCR = N; then WDT_HIT and the   *)
(* button, which ends the loop.                                            *)
RearmNext ==
    /\ pc = "next"
    /\ IF rncr = 0
       THEN rncr' = N /\ endrx' = FALSE
       ELSE UNCHANGED <<rncr, endrx>>
    /\ pc' = IF pressed THEN "exited" ELSE "poll"
    /\ UNCHANGED <<maxLag, rpr, rcr, upTo, pressed, fresh, lost, stale>>

(* The loop has ended on the button; the caller returns. *)
Terminated == pc = "exited" /\ UNCHANGED vars

Consumer == ReadSample \/ RearmPrimary \/ RearmNext
Pdc == Transfer \/ Reload \/ Drop

Next == Pdc \/ Consumer \/ Spin \/ Press \/ Terminated

(* The FPGA streams samples and the CPU runs nothing but this loop. *)
Spec == Init /\ [][Next]_vars /\ WF_vars(Pdc) /\ WF_vars(Consumer)

-----------------------------------------------------------------------------
(* Type invariant of the PDC registers and the consumer cursor. *)
TypeOK ==
    /\ rpr \in 0..N /\ rcr \in 0..N /\ rncr \in {0, N} /\ endrx \in BOOLEAN
    /\ upTo \in 0..(N - 1) /\ pc \in {"poll", "primary", "next", "exited"}
    /\ fresh \subseteq 0..(N - 1)

(* The consumer keeps up: it is less than a buffer behind the PDC. *)
KeepsUp == maxLag < N

(* While the consumer keeps up, the ring is lossless: no sample is        *)
(* overwritten unread or dropped by a stopped PDC, and none is read       *)
(* twice, across every wrap and re-arm of the two counter pairs.          *)
NoSampleLost == KeepsUp => ~lost /\ ~stale

(* Even when the consumer falls a buffer or more behind and the PDC laps  *)
(* it or stops, the masked behindBy never lets the consumer read a slot   *)
(* the PDC has not written since the last read: samples may be lost, but *)
(* none is processed twice and the decoder never runs ahead of the air.  *)
NoDoubleRead == ~stale

(* Spec 5: every wait loop checks the button: while the consumer keeps    *)
(* up, once the button is pressed the loop ends.  (A consumer a buffer    *)
(* behind can leave the PDC stopped with behindBy = 0, and then the loop  *)
(* spins on continue without looking at the button.)                     *)
ButtonHonoured == KeepsUp => (pressed ~> (pc = "exited"))

=============================================================================
