---------------------------- MODULE Iso14bCodec ----------------------------
(***************************************************************************)
(* The ISO 14443 Type B bit codec of armsrc/iso14443b.c as pure           *)
(* operators: the two encoders that fill the stuffbit buffer ToSend, and  *)
(* the two transmitters that turn ToSend into what the other side's       *)
(* decoder samples.                                                        *)
(*                                                                         *)
(* A stuffbit buffer is modelled as the sequence of its symbols (0 or 1)  *)
(* in transmit order; the packing of eight symbols per byte done by       *)
(* tosend_stuffbit (outside src/) is left out: the transmitters read the  *)
(* symbols MSB first, so the order of the sequence is the order on air.   *)
(***************************************************************************)
EXTENDS Naturals, Sequences, SequencesExt

(* n copies of the symbol x. *)
Rep(n, x) == [i \in 1..n |-> x]

(* Every symbol of s repeated k times (SEND4STUFFBIT for k = 4). *)
Oversample(s, k) == [i \in 1..(k * Len(s)) |-> s[((i - 1) \div k) + 1]]

(* The eight data bits of byte b, least significant first. *)
ByteBits(b) == [j \in 1..8 |-> (b \div (2 ^ (j - 1))) % 2]

(* One character on air: start bit 0, eight data bits LSB first, stop 1. *)
CharBits(b) == <<0>> \o ByteBits(b) \o <<1>>

(* The characters of a whole command, back to back (no extra guard time). *)
DataBits(cmd) == FlattenSeq([i \in 1..Len(cmd) |-> CharBits(cmd[i])])

(* CodeIso14443bAsReader: SOF (10 zeros, 2 ones), the characters, EOF     *)
(* (10 zeros) and 8 ones that fill up the last byte of ToSend.            *)
CodeIso14443bAsReader(cmd) ==
    Rep(10, 0) \o Rep(2, 1) \o DataBits(cmd) \o Rep(10, 0) \o Rep(8, 1)

(* CodeIso14443bAsTag: every symbol sent four times (SEND4STUFFBIT): TR1  *)
(* (20 ones), SOF (10 zeros, 2 ones), the characters, EOF (10 zeros) and  *)
(* 2 trailing ones.                                                        *)
CodeIso14443bAsTag(cmd) ==
    Oversample(Rep(20, 1) \o Rep(10, 0) \o Rep(2, 1) \o DataBits(cmd)
                 \o Rep(10, 0) \o Rep(2, 1), 4)

(* TransmitFor14443b_AsReader, as the tag's envelope detector sees it: a  *)
(* symbol 1 is sent as 0x0000 (no modulation, envelope high) and a 0 as   *)
(* 0xffff (modulated, envelope low), and the tag-side UART samples the    *)
(* envelope four times per ETU.                                            *)
ReaderEnvelope(tosend) == Oversample(tosend, 4)

(* TransmitFor14443b_AsTag preloads 0xFF into the holding register before *)
(* the response: eight more stuffbits of subcarrier in front of TR1.      *)
TransmitAsTag(tosend) == Rep(8, 1) \o tosend

(* The reader-side demodulator gets one IQ correlation per two tag        *)
(* stuffbits (the FPGA reports every 4 subcarrier cycles, twice per ETU). *)
TagToReaderSymbols(tx) == [k \in 1..(Len(tx) \div 2) |-> tx[2 * k]]

=============================================================================
