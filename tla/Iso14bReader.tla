---------------------------- MODULE Iso14bReader ----------------------------
(***************************************************************************)
(* The reader side of armsrc/iso14443b.c at the level of frames:          *)
(* SendRawCommand14443B_Ex runs, for one host command, the stages its     *)
(* flags ask for (trigger, setup, timeout, SELECT_STD, SELECT_SR, APDU,  *)
(* RAW, then at out: trigger off and DISCONNECT) in that order, replying *)
(* to the host after each exchange stage, and the stage procedures        *)
(* iso14443b_select_card, iso14443b_select_srx_card and iso14443b_apdu    *)
(* exchange frames with the card.                                          *)
(*                                                                         *)
(* An exchange (CodeAndTransmit14443bAsReader + Get14443bAnswerFromTag)   *)
(* is one step whose answer is chosen from what a card can return: the   *)
(* return value ret of Get14443bAnswerFromTag (-1 timeout, -2 overflow,  *)
(* else the length), whether its CRC checks, and the fields the code      *)
(* reads from it.  The decoders themselves are Iso14bDemod.                *)
(***************************************************************************)
EXTENDS Integers, SequencesExt

CONSTANTS
    HostCmds,      \* flag sets the host may send
    Timeouts,      \* timeout arguments of ISO14B_SET_TIMEOUT
    Pupis,         \* PUPIs a card may answer
    ChipIds,       \* SRx chip ids
    MAX_FRAME_SIZE,
    MaxReqs,       \* bound on the host commands handled
    Garbage        \* what an uninitialised stack byte holds

ASSUME MaxReqs \in Nat /\ MAX_FRAME_SIZE \in Nat /\ Timeouts \subseteq Nat

FWT_TIMEOUT_14B == 35312
MAX_TIMEOUT == 40542464

VARIABLES
    pcb_blocknum,    \* block number of the next I-block
    iso14b_timeout,  \* FWT in ETU
    byteCntMax,      \* Uart.byteCntMax, written by iso14b_set_maxframesize
    card,            \* the iso14b_card_select_t of the host command
    flags,           \* flags of the host command being handled
    stage,           \* the stage of SendRawCommand14443B_Ex it is in
    status,          \* status of the last select (reply_mix)
    sentPcb,         \* block numbers of the I-blocks sent since the last select
    reqs,            \* host commands handled
    trigger,         \* g_trigger, set by iso14b_set_trigger
    field,           \* the reader field: "on" after iso14443b_setup
    replies          \* the reply_mix frames sent for the current host command

vars == <<pcb_blocknum, iso14b_timeout, byteCntMax, card, flags, stage,
          status, sentPcb, reqs, trigger, field, replies>>

NoCard == [uid |-> "none", uidlen |-> 0, cid |-> 0, chipid |-> "none"]
(* The local iso14b_card_select_t of SendRawCommand14443B_Ex is not       *)
(* initialised: a field no select wrote is whatever the stack held.       *)
UndefCard == [uid |-> Garbage, uidlen |-> Garbage, cid |-> Garbage,
              chipid |-> Garbage]

AtqbAnswers == [ret : {-1, 13, 14}, crc : BOOLEAN, pupi : Pupis,
                fsci : {2, 9}, fwi : {8, 15}]
AttribAnswers == [ret : {-1, 2, 3}, crc : BOOLEAN, cid : {0, 1}]
InitAnswers == [ret : {-1, 1, 3}, chip : ChipIds]
SelectAnswers == [ret : {-1, 3}, crc : BOOLEAN, echo : ChipIds]
UidAnswers == [ret : {-1, 10}, crc : BOOLEAN, uid : Pupis]

AnswerFromTag(maxLen) ==
    {[ret |-> -1, len |-> l] : l \in {0, 2, maxLen + 1, 600}}
    \cup {[ret |-> -2, len |-> l] : l \in {maxLen + 1, 600}}
    \cup {[ret |-> l, len |-> l] : l \in {0, 2, 5, maxLen}}

BUF_SIZE == 100            \* uint8_t buf[100] of the APDU and RAW stages
PM3_CMD_DATA_SIZE == 512
CARD_SIZE == "sizeof(iso14b_card_select_t)"

(* iso14443b_apdu's uint8_t result: 0 for an answer under 3 bytes or     *)
(* with a bad CRC, else its length.                                       *)
ApduResult(a, crc) == IF a.ret < 3 \/ ~crc THEN 0 ELSE a.ret % 256

(* The reply_mix frame of a stage: its status (arg0), its length (arg1)  *)
(* and the card it carries, if any.                                      *)
Reply(k, st, len, c) == [kind |-> k, status |-> st, len |-> len, card |-> c]

(* Fault variant: the timeout is not capped at MAX_TIMEOUT. *)
ClampTimeoutNoCap(t) == t

(* iso14b_set_timeout. *)
ClampTimeout(t) == IF t > MAX_TIMEOUT THEN MAX_TIMEOUT ELSE t
(* iso14b_set_maxframesize: the new Uart.byteCntMax, a size over 256      *)
(* replaced by MAX_FRAME_SIZE.                                             *)
SetMaxFrameSize(size) == IF size > 256 THEN MAX_FRAME_SIZE ELSE size

(* The max frame size coded in the upper nibble of ATQB protocol byte 1,  *)
(* as select_card hands it to iso14b_set_maxframesize.                     *)
MaxFrameOf(n) ==
    SetMaxFrameSize(CASE n < 5 -> 8 * n + 16 [] n = 5 -> 64 [] n = 6 -> 96
                      [] n = 7 -> 128 [] n = 8 -> 256 [] OTHER -> 257)

(* iso14443b_setup: Uart14bInit gives byteCntMax = MAX_FRAME_SIZE, and    *)
(* the FPGA is put in reader mode with the field on.                      *)
Iso14443bSetup == [byteCntMax |-> MAX_FRAME_SIZE, field |-> "on"]

Init ==
    /\ pcb_blocknum = 0
    /\ iso14b_timeout = FWT_TIMEOUT_14B
    /\ byteCntMax = MAX_FRAME_SIZE
    /\ card = NoCard
    /\ flags = {}
    /\ stage = "idle"
    /\ status = 0
    /\ sentPcb = <<>>
    /\ reqs = 0
    /\ trigger = FALSE
    /\ field = "off"
    /\ replies = <<>>

(* A host command arrives: ISO14B_REQUEST_TRIGGER sets the trigger,       *)
(* ISO14B_CONNECT runs iso14443b_setup, which switches the field on and  *)
(* whose Uart14bInit resets byteCntMax; ISO14B_SET_TIMEOUT sets the FWT. *)
HostCommand(f) ==
    /\ stage = "idle" /\ reqs < MaxReqs
    /\ flags' = f
    /\ reqs' = reqs + 1
    /\ stage' = "std"
    /\ byteCntMax' = IF "CONNECT" \in f THEN Iso14443bSetup.byteCntMax
                     ELSE byteCntMax
    /\ card' = UndefCard
    /\ IF "SET_TIMEOUT" \in f
       THEN \E t \in Timeouts : iso14b_timeout' = ClampTimeout(t)
       ELSE UNCHANGED iso14b_timeout
    /\ trigger' = ("REQUEST_TRIGGER" \in f \/ trigger)
    /\ field' = IF "CONNECT" \in f THEN Iso14443bSetup.field ELSE field
    /\ replies' = <<>>
    /\ UNCHANGED <<pcb_blocknum, status, sentPcb>>

StageFlag == [std |-> "SELECT_STD", sr |-> "SELECT_SR", apdu |-> "APDU",
              raw |-> "RAW"]
NextStage == [std |-> "sr", sr |-> "apdu", apdu |-> "raw", raw |-> "out"]

(* A stage whose flag is not set is passed over. *)
SkipStage ==
    /\ stage \in DOMAIN StageFlag
    /\ StageFlag[stage] \notin flags
    /\ stage' = NextStage[stage]
    /\ UNCHANGED <<pcb_blocknum, iso14b_timeout, byteCntMax, card, flags,
                   status, sentPcb, reqs, trigger, field, replies>>

(* Fault variant: a failed select returns from the handler, skipping out:. *)
FailedSelectReturns == "idle"

(* A failed select jumps to out: (goto out). *)
FailedSelectGoesTo == "out"

(* Fault variant: a successful select leaves pcb_blocknum as it was. *)
SelectStdKeepsPcb(q, a) ==
    LET st == CASE q.ret < 14 -> -1 [] ~q.crc -> -2
                [] a.ret < 3 -> -1 [] ~a.crc -> -2 [] OTHER -> 0
    IN /\ stage = "std" /\ "SELECT_STD" \in flags
       /\ status' = st
       /\ card' = IF q.ret >= 14 /\ q.crc
                  THEN [card EXCEPT !.uid = q.pupi, !.uidlen = 4,
                                    !.cid = IF st = 0 THEN a.cid ELSE @]
                  ELSE card
       /\ byteCntMax' = IF st = 0 THEN MaxFrameOf(q.fsci) ELSE byteCntMax
       /\ iso14b_timeout' = IF st = 0 THEN ClampTimeout(302 * 2 ^ q.fwi)
                            ELSE iso14b_timeout
       /\ UNCHANGED pcb_blocknum
       /\ sentPcb' = IF st = 0 THEN <<>> ELSE sentPcb
       /\ replies' = Append(replies, Reply("std", st, CARD_SIZE, card'))
       /\ stage' = IF st # 0 THEN FailedSelectGoesTo ELSE "sr"
       /\ UNCHANGED <<flags, reqs, trigger, field>>

(* iso14443b_select_card: WUPB, ATQB of at least 14 bytes with good CRC,  *)
(* ATTRIB, answer of at least 3 bytes with good CRC; then max frame size, *)
(* FWT (fwi is a nibble, so always < 16) and block number 0.  The card is *)
(* replied whatever the status; a failure ends the host command (goto out).*)
SelectStd(q, a) ==
    LET st == CASE q.ret < 14 -> -1 [] ~q.crc -> -2
                [] a.ret < 3 -> -1 [] ~a.crc -> -2 [] OTHER -> 0
        atqbOk == q.ret >= 14 /\ q.crc
    IN /\ stage = "std" /\ "SELECT_STD" \in flags
       /\ status' = st
       /\ card' = IF atqbOk
                  THEN [card EXCEPT !.uid = q.pupi, !.uidlen = 4,
                                    !.cid = IF st = 0 THEN a.cid ELSE @]
                  ELSE card
       /\ byteCntMax' = IF st = 0 THEN MaxFrameOf(q.fsci) ELSE byteCntMax
       /\ iso14b_timeout' = IF st = 0 THEN ClampTimeout(302 * 2 ^ q.fwi)
                            ELSE iso14b_timeout
       /\ pcb_blocknum' = IF st = 0 THEN 0 ELSE pcb_blocknum
       /\ sentPcb' = IF st = 0 THEN <<>> ELSE sentPcb
       /\ replies' = Append(replies, Reply("std", st, CARD_SIZE, card'))
       /\ stage' = IF st # 0 THEN FailedSelectGoesTo ELSE "sr"
       /\ UNCHANGED <<flags, reqs, trigger, field>>

(* Fault variant: the SELECT_SR stage goes on at status 1, the echo      *)
(* mismatch that the comment "0: OK 2: demod fail, 3:crc fail" omits.     *)
SelectSrxGoesOnAtOne(i, s, u) ==
    LET st == CASE i.ret <= 0 -> 2 [] s.ret # 3 -> 2 [] ~s.crc -> 3
                [] s.echo # i.chip -> 1 [] u.ret # 10 -> 2 [] ~u.crc -> 3
                [] OTHER -> 0
    IN /\ stage = "sr" /\ "SELECT_SR" \in flags
       /\ status' = st
       /\ card' = [card EXCEPT !.chipid = IF i.ret > 0 THEN i.chip ELSE @,
                               !.uid = IF st = 0 THEN u.uid ELSE @,
                               !.uidlen = IF st = 0 THEN 8 ELSE @]
       /\ replies' = Append(replies, Reply("sr", st, CARD_SIZE, card'))
       /\ stage' = IF st > 1 THEN FailedSelectGoesTo ELSE "apdu"
       /\ UNCHANGED <<pcb_blocknum, iso14b_timeout, byteCntMax, flags,
                      sentPcb, reqs, trigger, field>>

(* Fault variant: a successful SRx select does not set card->uidlen. *)
SelectSrxNoUidLen(i, s, u) ==
    LET st == CASE i.ret <= 0 -> 2 [] s.ret # 3 -> 2 [] ~s.crc -> 3
                [] s.echo # i.chip -> 1 [] u.ret # 10 -> 2 [] ~u.crc -> 3
                [] OTHER -> 0
    IN /\ stage = "sr" /\ "SELECT_SR" \in flags
       /\ status' = st
       /\ card' = [card EXCEPT !.chipid = IF i.ret > 0 THEN i.chip ELSE @,
                               !.uid = IF st = 0 THEN u.uid ELSE @]
       /\ replies' = Append(replies, Reply("sr", st, CARD_SIZE, card'))
       /\ stage' = IF st > 0 THEN FailedSelectGoesTo ELSE "apdu"
       /\ UNCHANGED <<pcb_blocknum, iso14b_timeout, byteCntMax, flags,
                      sentPcb, reqs, trigger, field>>

(* iso14443b_select_srx_card: INITIATE (any answer of length > 0 gives    *)
(* the chip id, CRC unchecked), SELECT (3 bytes, good CRC, echo of the    *)
(* chip id, else 2, 3 or 1), GET_UID (10 bytes, good CRC).  The card is   *)
(* replied; a status > 0 ends the host command (goto out).                *)
SelectSrx(i, s, u) ==
    LET st == CASE i.ret <= 0 -> 2 [] s.ret # 3 -> 2 [] ~s.crc -> 3
                [] s.echo # i.chip -> 1 [] u.ret # 10 -> 2 [] ~u.crc -> 3
                [] OTHER -> 0
    IN /\ stage = "sr" /\ "SELECT_SR" \in flags
       /\ status' = st
       /\ card' = [card EXCEPT !.chipid = IF i.ret > 0 THEN i.chip ELSE @,
                               !.uid = IF st = 0 THEN u.uid ELSE @,
                               !.uidlen = IF st = 0 THEN 8 ELSE @]
       /\ replies' = Append(replies, Reply("sr", st, CARD_SIZE, card'))
       /\ stage' = IF st > 0 THEN FailedSelectGoesTo ELSE "apdu"
       /\ UNCHANGED <<pcb_blocknum, iso14b_timeout, byteCntMax, flags,
                      sentPcb, reqs, trigger, field>>

(* ISO14B_APDU: iso14443b_apdu sends an I-block with PCB                *)
(* 0x0A | pcb_blocknum, toggling the block number before the frame goes   *)
(* out whatever the answer, and the answer is replied with the apdu's    *)
(* result as both status and length.                                      *)
Apdu(a, crc) ==
    /\ stage = "apdu" /\ "APDU" \in flags
    /\ sentPcb' = Append(sentPcb, pcb_blocknum)
    /\ pcb_blocknum' = 1 - pcb_blocknum
    /\ LET res == ApduResult(a, crc)
       IN replies' = Append(replies, Reply("apdu", res, res, NoCard))
    /\ stage' = "raw"
    /\ UNCHANGED <<iso14b_timeout, byteCntMax, card, flags, status, reqs,
                   trigger, field>>

(* ISO14B_RAW: the host's frame is sent as is, and the reply carries the *)
(* answer's return value and MIN(Demod.len, PM3_CMD_DATA_SIZE) bytes of  *)
(* Demod.output, the 100-byte buf.                                        *)
Raw(a) ==
    /\ stage = "raw" /\ "RAW" \in flags
    /\ LET sendlen == IF a.len < PM3_CMD_DATA_SIZE THEN a.len
                      ELSE PM3_CMD_DATA_SIZE
       IN replies' = Append(replies, Reply("raw", a.ret, sendlen, NoCard))
    /\ stage' = "out"
    /\ UNCHANGED <<pcb_blocknum, iso14b_timeout, byteCntMax, card, flags,
                   status, sentPcb, reqs, trigger, field>>

(* out: the trigger is cleared if the command requested it, and           *)
(* ISO14B_DISCONNECT switches the field off.                              *)
Out ==
    /\ stage = "out"
    /\ trigger' = ("REQUEST_TRIGGER" \notin flags /\ trigger)
    /\ field' = IF "DISCONNECT" \in flags THEN "off" ELSE field
    /\ stage' = "idle"
    /\ UNCHANGED <<pcb_blocknum, iso14b_timeout, byteCntMax, card, flags,
                   status, sentPcb, reqs, replies>>

(* The steps of SendRawCommand14443B_Ex once a command has arrived. *)
Handle ==
    \/ SkipStage
    \/ \E q \in AtqbAnswers, a \in AttribAnswers : SelectStd(q, a)
    \/ \E i \in InitAnswers, s \in SelectAnswers, u \in UidAnswers :
          SelectSrx(i, s, u)
    \/ \E a \in AnswerFromTag(BUF_SIZE), crc \in BOOLEAN : Apdu(a, crc)
    \/ \E a \in AnswerFromTag(BUF_SIZE) : Raw(a)
    \/ Out

Next == (\E f \in HostCmds : HostCommand(f)) \/ Handle

(* The handler is straight-line code whose receives all time out, so it *)
(* runs to its end; the host need not send another command.              *)
Spec == Init /\ [][Next]_vars /\ WF_vars(Handle)

-----------------------------------------------------------------------------
(* Type invariant of the reader state: iso14b_timeout within            *)
(* iso14b_set_timeout's cap, byteCntMax a frame size of the ATQB table.    *)
TypeOK ==
    /\ pcb_blocknum \in {0, 1}
    /\ iso14b_timeout \in 0..MAX_TIMEOUT
    /\ byteCntMax \in 16..256
    /\ stage \in {"idle", "std", "sr", "apdu", "raw", "out"}
    /\ reqs \in 0..MaxReqs
    /\ trigger \in BOOLEAN /\ field \in {"on", "off"}
    /\ Len(replies) <= 4

(* Spec invariant 4 and 8.3: the I-blocks sent after a select carry block *)
(* numbers 0, 1, 0, 1, ...: the first is 0 and each differs from the one  *)
(* before it, across host commands and failed exchanges.                   *)
BlockNumbersAlternate ==
    \A k \in 1..Len(sentPcb) : sentPcb[k] = (k - 1) % 2

Selects == {"std", "sr"}

(* A failed select ends the host command: the replies of one command     *)
(* follow only selects that succeeded, and after a failed select nothing *)
(* more is exchanged before out.  SELECT_STD fails on any status # 0,     *)
(* SELECT_SR on status > 0, including the echo mismatch 1 of             *)
(* iso14443b_select_srx_card that its caller's comment does not list.    *)
FailedSelectEndsCommand ==
    /\ \A k \in 1..(Len(replies) - 1) :
          replies[k].kind \in Selects => replies[k].status = 0
    /\ replies # <<>> /\ Last(replies).kind \in Selects
       /\ Last(replies).status # 0 => stage \in {"out", "idle"}

(* A select reply that says success carries no stack garbage in the     *)
(* fields the host reads: the local iso14b_card_select_t starts          *)
(* undefined, and SELECT_STD must have written the PUPI, its length 4    *)
(* and the CID, SELECT_SR the chip id, the UID and its length 8.         *)
SuccessReplyDefined ==
    \A k \in 1..Len(replies) :
        LET r == replies[k]
        IN /\ r.kind = "std" /\ r.status = 0 =>
                 r.card.uid \in Pupis /\ r.card.uidlen = 4
                 /\ r.card.cid \in {0, 1}
           /\ r.kind = "sr" /\ r.status = 0 =>
                 r.card.chipid \in ChipIds /\ r.card.uid \in Pupis
                 /\ r.card.uidlen = 8

TriggerReleased == trigger ~> ~trigger

=============================================================================
