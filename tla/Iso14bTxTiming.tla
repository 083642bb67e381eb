---------------------------- MODULE Iso14bTxTiming ----------------------------
(***************************************************************************)
(* The start-time arithmetic of TransmitFor14443b_AsReader, called with   *)
(* start_time = eof_time + DELAY_ISO14443B_VICC_TO_VCD_READER after a tag *)
(* answer that ended at eof_time, or with start_time = 0 for the first    *)
(* command of an exchange.  GetCountSspClk() is a free-running           *)
(* unsigned counter; it is modelled ClockBits wide (the code's is 32 bits *)
(* wide, beyond TLC's integers) with the code's constants unchanged.      *)
(*                                                                         *)
(* now is the time in ticks that does not wrap (history): the tag's EOF,  *)
(* the call and the start of the transmission are recorded in it.  The    *)
(* CPU takes at most StepTicks ticks per step of the function.            *)
(***************************************************************************)
EXTENDS Naturals

CONSTANTS
    ClockBits,   \* width of the SSP clock counter
    Guard,       \* DELAY_ISO14443B_VICC_TO_VCD_READER
    StepTicks,   \* most ticks between two steps of the CPU
    EofTimes,    \* times at which the tag's answer may end
    ProcTimes    \* ticks from the tag's EOF to the call

ASSUME ClockBits \in Nat /\ Guard \in Nat /\ StepTicks \in Nat \ {0}
ASSUME EofTimes \subseteq Nat /\ ProcTimes \subseteq Nat

VARIABLES
    now,          \* ticks since StartCountSspClk, not wrapped
    start_time,   \* *start_time
    pc,           \* "clamp", "check", "reschedule", "wait", "send", "done"
    lag,          \* ticks since the CPU's last step
    first,        \* the first command: the caller passes start_time = 0
    eof, entry, tx   \* history: tag EOF, call, start of the transmission

vars == <<now, start_time, pc, lag, first, eof, entry, tx>>

DELAY_ARM_TO_TAG == 16
Modulus == 2 ^ ClockBits

(* GetCountSspClk(). *)
Clk == now % Modulus

(* Fault variant: x & 0xffffffe0. *)
OnCoarseGrid(x) == (x \div 32) * 32

(* x & 0xfffffff0. *)
OnGrid(x) == (x \div 16) * 16

MaxOf(S) == CHOOSE x \in S : \A y \in S : y <= x
Horizon == MaxOf(EofTimes) + MaxOf(ProcTimes) + Guard + 4 * 16

Init ==
    /\ eof \in EofTimes
    /\ \E p \in ProcTimes : now = eof + p
    /\ entry = now
    /\ first \in BOOLEAN
    /\ start_time = IF first THEN 0 ELSE (eof + Guard) % Modulus
    /\ pc = "clamp" /\ lag = 0 /\ tx = 0

(* The SSP clock advances; the CPU is never more than StepTicks behind,   *)
(* except that it polls in the wait loop.                                  *)
Tick ==
    /\ pc # "done" /\ now < Horizon /\ lag < StepTicks
    /\ now' = now + 1 /\ lag' = lag + 1
    /\ UNCHANGED <<start_time, pc, first, eof, entry, tx>>

-----------------------------------------------------------------------------
(* Fault variant: no clamp below DELAY_ARM_TO_TAG. *)
ClampNoGuard ==
    /\ pc = "clamp"
    /\ start_time' = OnGrid((start_time + Modulus - DELAY_ARM_TO_TAG) % Modulus)
    /\ pc' = "check" /\ lag' = 0
    /\ UNCHANGED <<now, first, eof, entry, tx>>

(* Clamp to DELAY_ARM_TO_TAG, subtract it and align down to 16 ticks. *)
Clamp ==
    /\ pc = "clamp"
    /\ LET s == IF start_time < DELAY_ARM_TO_TAG THEN DELAY_ARM_TO_TAG
                ELSE start_time
       IN start_time' = OnGrid(s - DELAY_ARM_TO_TAG)
    /\ pc' = "check" /\ lag' = 0
    /\ UNCHANGED <<now, first, eof, entry, tx>>

(* GetCountSspClk() > *start_time: the intended time may be missed. *)
CheckMissed ==
    /\ pc = "check"
    /\ pc' = IF Clk > start_time THEN "reschedule" ELSE "wait"
    /\ lag' = 0
    /\ UNCHANGED <<now, start_time, first, eof, entry, tx>>

(* Next possible time, from a second read of the clock. *)
Reschedule ==
    /\ pc = "reschedule"
    /\ start_time' = OnGrid((Clk + 16) % Modulus)
    /\ pc' = "wait" /\ lag' = 0
    /\ UNCHANGED <<now, first, eof, entry, tx>>

(* while (GetCountSspClk() < *start_time) ; *)
WaitSpin ==
    /\ pc = "wait" /\ Clk < start_time
    /\ lag' = 0
    /\ UNCHANGED <<now, start_time, pc, first, eof, entry, tx>>

WaitDone ==
    /\ pc = "wait" /\ Clk >= start_time
    /\ tx' = now /\ pc' = "send" /\ lag' = 0
    /\ UNCHANGED <<now, start_time, first, eof, entry>>

(* The stuffbits go out; *start_time += DELAY_ARM_TO_TAG is what is logged *)
(* and what the caller adds the command's length to.                       *)
Send ==
    /\ pc = "send"
    /\ start_time' = (start_time + DELAY_ARM_TO_TAG) % Modulus
    /\ pc' = "done" /\ lag' = 0
    /\ UNCHANGED <<now, first, eof, entry, tx>>

Terminated == pc = "done" /\ UNCHANGED vars

Next == Tick \/ Clamp \/ CheckMissed \/ Reschedule \/ WaitSpin \/ WaitDone
          \/ Send \/ Terminated

Spec == Init /\ [][Next]_vars /\ WF_vars(Next)

-----------------------------------------------------------------------------
(* The latest the transmission may start: the requested time less the   *)
(* FPGA delay (give or take a poll), or, when that had passed by the time *)
(* of the call or none was given, the next 16-tick slot after the CPU's   *)
(* steps.                                                                  *)
Deadline ==
    LET asap == entry + 16 + 4 * StepTicks
    IN IF first THEN asap
       ELSE LET req == eof + Guard - DELAY_ARM_TO_TAG + StepTicks
            IN IF req > asap THEN req ELSE asap

(* The busy wait never overshoots: by the deadline the transmission has  *)
(* started, whatever the caller's start_time and however late the call.  *)
TxPromptly == now > Deadline => pc \in {"send", "done"} /\ tx <= Deadline

(* Spec 4.5: the next command starts DELAY_ISO14443B_VICC_TO_VCD_READER  *)
(* after the tag's EOF: on air (after the FPGA's DELAY_ARM_TO_TAG) no    *)
(* earlier than that, less the 16-tick alignment.                          *)
TxNotEarly ==
    pc \in {"send", "done"} /\ ~first => tx + DELAY_ARM_TO_TAG + 15 >= eof + Guard

(* The reader's command goes out in its window after the tag's EOF:     *)
(* never early (TxNotEarly) and never past the deadline (TxPromptly),     *)
(* wherever the SSP clock stands when TransmitFor14443b_AsReader runs.    *)
TxOnTime == TxPromptly /\ TxNotEarly

=============================================================================
