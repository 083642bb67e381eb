---------------------------- MODULE Iso14bSniffer ----------------------------
(***************************************************************************)
(* SniffIso14443b: one loop feeds each DMA word to both decoders, the     *)
(* reader's envelope bits (ci & 1, then cq & 1) to the tag-side UART      *)
(* unless the tag is active, and the tag's IQ sample (ci >> 1, cq >> 1)   *)
(* to the BPSK demodulator only while the reader is not active and a tag  *)
(* answer is expected.  A decoded frame is logged and resets both.        *)
(*                                                                         *)
(* The decoders are the handlers of Iso14bUart and Iso14bDemod.  On air   *)
(* is one conversation: the reader sends cmd1, the tag answers ans after *)
(* gap words unless it stays silent, and may fall silent after cut words *)
(* of it; then the reader sends cmd2.  Each channel is idle while the     *)
(* other side talks.  The DMA ring is taken to be lossless (it is while  *)
(* the CPU keeps up: Iso14bDmaRing); one step is one DMA word.           *)
(***************************************************************************)
EXTENDS Integers, Sequences, FiniteSets, SequencesExt, Iso14bCodec

CONSTANTS
    MAX_FRAME_SIZE,   \* size of ua_buf and dm_buf
    Bytes,            \* the byte values frames are made of
    MaxMsgLen,        \* longest frame either side sends
    Phases,           \* subcarrier phases <<I, Q>> the sniffer may see
    Gaps,             \* words from the reader's frame to the tag's answer
    Cuts              \* words of the answer after which the tag may stop

VARIABLES
    uart, demod,                 \* the Uart and Demod structs
    tag_is_active, reader_is_active, expect_tag_answer,
    log,                         \* the trace: [reader |-> BOOLEAN, data]
    w,                           \* DMA words read so far
    cmd1, ans, cmd2,             \* the conversation (fixed per behaviour)
    answers,                     \* the tag answers cmd1
    rdr, tag,                    \* the two channels, per word
    whole                        \* the tag sends its whole answer

vars == <<uart, demod, tag_is_active, reader_is_active, expect_tag_answer,
          log, w, cmd1, ans, cmd2, answers, rdr, tag, whole>>

U == INSTANCE Iso14bUart
        WITH Uart <- uart, msg <- cmd1, lead <- 0, air <- <<>>, pos <- w,
             result <- "running", MaxLead <- 0,
             glitch <- -1000, Glitches <- {}
D == INSTANCE Iso14bDemod
        WITH Demod <- demod, msg <- ans, delay <- 0, phase <- <<0, 0>>,
             air <- <<>>, cut <- 0, samples <- w, returned <- FALSE, ret <- 0,
             MaxLen <- MAX_FRAME_SIZE, Timeout <- 0, MaxDelay <- 0,
             spike <- [at |-> 0, iq |-> <<0, 0>>], Spikes <- {}

Messages == UNION {[1..n -> Bytes] : n \in 0..MaxMsgLen}
(* A reader command has bytes: the UART returns no frame without any. *)
Commands == Messages \ {<<>>}
Silence == <<0, 0>>
Idle == <<1, 1>>                   \* unmodulated carrier, two samples

(* The reader's envelope, two samples per word. *)
ReaderWords(cmd) ==
    LET env == ReaderEnvelope(CodeIso14443bAsReader(cmd))
    IN [k \in 1..(Len(env) \div 2) |-> <<env[2 * k - 1], env[2 * k]>>]

(* The tag's answer as IQ correlations in phase p, silent after c words. *)
TagWords(a, p, c) ==
    LET sym == TagToReaderSymbols(TransmitAsTag(CodeIso14443bAsTag(a)))
    IN [k \in 1..Len(sym) |->
          IF k > c THEN Silence
          ELSE IF sym[k] = 1 THEN p ELSE <<-p[1], -p[2]>>]

(* Length in words of the tag's answer a. *)
AnswerWords(a) == Len(TagToReaderSymbols(TransmitAsTag(CodeIso14443bAsTag(a))))

-----------------------------------------------------------------------------
(* Both decoders after Uart14bReset and Demod14bReset. *)
ResetBoth(st) == [st EXCEPT !.uart = U!Uart14bReset, !.demod = D!Demod14bReset]

(* One envelope bit to the UART; at its EOF the frame is logged if it     *)
(* has bytes, both decoders reset and a tag answer is expected.           *)
ReaderBit(st, bit) ==
    LET r == U!Handle14443bSampleFromReader(st.uart, bit)
    IN IF r.eof
       THEN [ResetBoth(st) EXCEPT
               !.log = IF r.u.byteCnt > 0
                       THEN Append(@, [reader |-> TRUE, data |-> r.u.output])
                       ELSE @,
               !.reader_is_active = FALSE, !.expect_tag_answer = TRUE]
       ELSE [st EXCEPT !.uart = r.u]

(* Unless the tag is active: ci & 1, then cq & 1, then reader_is_active. *)
ReaderSide(st, bits) ==
    IF st.tag_is_active THEN st
    ELSE LET s1 == ReaderBit(st, bits[1])
             s2 == ReaderBit(s1, bits[2])
         IN [s2 EXCEPT !.reader_is_active =
                         s2.uart.state \in {U!AwaitingStartBit, U!ReceivingData}]

(* Fault variant: the end of a tag frame leaves tag_is_active set. *)
TagSideKeepsActive(st, iq) ==
    IF st.reader_is_active \/ ~st.expect_tag_answer THEN st
    ELSE LET r == D!Handle14443bSamplesFromTag(st.demod, iq[1], iq[2])
         IN IF r.eof
            THEN [ResetBoth(st) EXCEPT
                    !.log = Append(@, [reader |-> FALSE, data |-> r.d.output]),
                    !.expect_tag_answer = FALSE]
            ELSE [st EXCEPT !.demod = r.d,
                            !.tag_is_active = r.d.state > D!DGotFallingEdgeOfSof]

(* While the reader is silent and an answer is expected: the IQ sample   *)
(* to the demodulator; at its EOF the frame (of any length) is logged.   *)
TagSide(st, iq) ==
    IF st.reader_is_active \/ ~st.expect_tag_answer THEN st
    ELSE LET r == D!Handle14443bSamplesFromTag(st.demod, iq[1], iq[2])
         IN IF r.eof
            THEN [ResetBoth(st) EXCEPT
                    !.log = Append(@, [reader |-> FALSE, data |-> r.d.output]),
                    !.expect_tag_answer = FALSE, !.tag_is_active = FALSE]
            ELSE [st EXCEPT !.demod = r.d,
                            !.tag_is_active = r.d.state > D!DGotFallingEdgeOfSof]

-----------------------------------------------------------------------------
Init ==
    /\ cmd1 \in Commands /\ cmd2 \in Commands
    /\ ans \in Messages /\ answers \in BOOLEAN
    /\ \E gap \in Gaps, p \in Phases,
          c \in {k \in Cuts : k < AnswerWords(ans)} \cup {AnswerWords(ans)} :
          LET r1 == ReaderWords(cmd1)
              t == IF answers THEN TagWords(ans, p, c) ELSE <<>>
              r2 == ReaderWords(cmd2)
              quiet == Len(r1) + gap
          IN /\ rdr = r1 \o Rep(gap + Len(t) + 2, Idle) \o r2
             /\ tag = Rep(quiet, Silence) \o t
             /\ whole = (answers /\ c = AnswerWords(ans))
    /\ uart = U!Uart14bReset /\ demod = D!Demod14bReset
    /\ tag_is_active = FALSE /\ reader_is_active = FALSE
    /\ expect_tag_answer = FALSE
    /\ log = <<>> /\ w = 0

RdrAt(k) == IF k <= Len(rdr) THEN rdr[k] ELSE Idle
TagAt(k) == IF k <= Len(tag) THEN tag[k] ELSE Silence

(* One pass of the loop body after the DMA read: the reader side, then   *)
(* the tag side.  Past the conversation the word count stops.            *)
SniffSample ==
    LET st == [uart |-> uart, demod |-> demod, log |-> log,
               tag_is_active |-> tag_is_active,
               reader_is_active |-> reader_is_active,
               expect_tag_answer |-> expect_tag_answer]
        s1 == ReaderSide(st, RdrAt(w + 1))
        s2 == TagSide(s1, TagAt(w + 1))
    IN /\ uart' = s2.uart /\ demod' = s2.demod /\ log' = s2.log
       /\ tag_is_active' = s2.tag_is_active
       /\ reader_is_active' = s2.reader_is_active
       /\ expect_tag_answer' = s2.expect_tag_answer
       /\ w' = IF w <= Len(rdr) THEN w + 1 ELSE w
       /\ UNCHANGED <<cmd1, ans, cmd2, answers, rdr, tag, whole>>

Next == SniffSample

(* The DMA delivers a word every 4.72 us. *)
Spec == Init /\ [][Next]_vars /\ WF_vars(Next)

-----------------------------------------------------------------------------
(* The data of the reader's and the tag's trace entries. *)
Entries(fromReader) ==
    LET e == SelectSeq(log, LAMBDA x : x.reader = fromReader)
    IN [i \in DOMAIN e |-> e[i].data]
ReadersBefore(i) == Cardinality({j \in 1..(i - 1) : log[j].reader})

(* The trace never misattributes or garbles a frame: the reader entries  *)
(* are the reader's commands in order, and a tag entry is a prefix of    *)
(* the tag's answer (all of it, or the bytes before it fell silent),     *)
(* logged after cmd1 and before cmd2, although the UART and the          *)
(* demodulator each see the other side's channel go idle in between.     *)
SniffLogFaithful ==
    /\ IsPrefix(Entries(TRUE), <<cmd1, cmd2>>)
    /\ \A i \in DOMAIN log :
          ~log[i].reader =>
             /\ answers /\ IsPrefix(log[i].data, ans)
             /\ ReadersBefore(i) = 1

(* The gating never deafens the sniffer: once the conversation is over  *)
(* both reader commands are in the trace, however the tag's answer      *)
(* ended, and so is the tag's answer when the tag sent all of it.        *)
(* The loop is deterministic once the air is fixed and the last word is  *)
(* followed by idle ones, so this is what eventually holds.              *)
SniffComplete ==
    w > Len(rdr) =>
       /\ Entries(TRUE) = <<cmd1, cmd2>>
       /\ whole => \E i \in DOMAIN log : ~log[i].reader /\ log[i].data = ans

=============================================================================
