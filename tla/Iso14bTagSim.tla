---------------------------- MODULE Iso14bTagSim ----------------------------
(***************************************************************************)
(* The main loop of SimulateIso14443bTag (armsrc/iso14443b.c): field      *)
(* detection, then per reader command the REQB/WUPB test and the switch   *)
(* on cardSTATE, transmitting the pre-encoded ATQB or OK answers.          *)
(*                                                                         *)
(* A command is the frame GetIso14443bCommandFromReader returned,         *)
(* abstracted to its first byte, its length and whether byte 2 has the    *)
(* WUPB bit 0x08; the CRC only chooses a debug message and is left out.   *)
(* resp is what the tag transmitted in the current loop iteration.        *)
(* SIM_HALTING is never assigned by the code, so its case is not modelled. *)
(* cmdsReceived only feeds a debug message and is left out.               *)
(*                                                                         *)
(* pc is where the loop is: "top" is the head of the while loop, with its *)
(* BUTTON_PRESS and data_available tests, "listen" the wait inside         *)
(* GetIso14443bCommandFromReader, which tests only the button.  The       *)
(* button and the host's data are levels that, once there, stay until the *)
(* loop ends: a press lasts far longer than one turn of either loop, and  *)
(* host data stays available until it is read.                             *)
(***************************************************************************)
EXTENDS Naturals

CONSTANT Commands   \* the frames the reader may send

ISO14443B_REQB == 5       \* protocols.h command codes
ISO14443B_HALT == 80      \* 0x50
ISO14443B_ATTRIB == 29    \* 0x1D

ASSUME \A c \in Commands : c.b0 \in 0..255 /\ c.len \in Nat /\ c.wup \in BOOLEAN

VARIABLES
    cardSTATE,     \* SIM_NOFIELD ... SIM_WORK
    running,       \* the simulation loop has not been left
    lastCmd,       \* the last command received
    resp,          \* "none", "ATQB" or "OK": transmitted in this iteration
    pc,            \* "top" of the loop or "listen"ing for a reader frame
    button,        \* BUTTON_PRESS()
    hostData       \* data_available(): a host command is waiting

vars == <<cardSTATE, running, lastCmd, resp, pc, button, hostData>>

SimNoField == "SIM_NOFIELD"
SimIdle == "SIM_IDLE"
SimHalted == "SIM_HALTED"
SimSelecting == "SIM_SELECTING"
SimAcknowledge == "SIM_ACKNOWLEDGE"
SimWork == "SIM_WORK"
SimHalting == "SIM_HALTING"   \* declared, and switched on, but never assigned
NoCmd == [b0 |-> 0, len |-> 0, wup |-> FALSE]

(* Fault variant: the length of the frame is not tested. *)
IsReqbOrWupbAnyLen(c, st) ==
    \/ c.b0 = ISO14443B_REQB /\ c.wup /\ st = SimHalted
    \/ c.b0 = ISO14443B_REQB

(* The REQB/WUPB test at the top of the iteration.  Its first disjunct   *)
(* (a WUPB in SIM_HALTED) is implied by the second, so any 5-byte frame  *)
(* starting with 0x05 selects, whatever the state.                      *)
IsReqbOrWupb(c, st) ==
    /\ c.len = 5
    /\ \/ c.b0 = ISO14443B_REQB /\ c.wup /\ st = SimHalted
       \/ c.b0 = ISO14443B_REQB

(* Fault variant: HLTB moves to SIM_HALTING, the state the case table of *)
(* the spec has for it, which the switch then cannot leave.               *)
AfterSwitchHalting(c, st) ==
    CASE st \in {SimIdle, SimHalted} -> [st |-> st, tx |-> "none"]
      [] st = SimSelecting -> [st |-> SimWork, tx |-> "ATQB"]
      [] st = SimAcknowledge -> [st |-> SimIdle, tx |-> "OK"]
      [] st = SimHalting -> [st |-> SimHalting, tx |-> "none"]
      [] st = SimWork /\ c.len = 7 /\ c.b0 = ISO14443B_HALT ->
              [st |-> SimHalting, tx |-> "none"]
      [] st = SimWork /\ c.len = 11 /\ c.b0 = ISO14443B_ATTRIB ->
              [st |-> SimAcknowledge, tx |-> "none"]
      [] st = SimWork -> [st |-> SimIdle, tx |-> "none"]

(* Fault variant: SIM_ACKNOWLEDGE sends OK but stays in SIM_ACKNOWLEDGE. *)
AfterSwitchAckStays(c, st) ==
    CASE st \in {SimIdle, SimHalted} -> [st |-> st, tx |-> "none"]
      [] st = SimSelecting -> [st |-> SimWork, tx |-> "ATQB"]
      [] st = SimAcknowledge -> [st |-> SimAcknowledge, tx |-> "OK"]
      [] st = SimWork /\ c.len = 7 /\ c.b0 = ISO14443B_HALT ->
              [st |-> SimHalted, tx |-> "none"]
      [] st = SimWork /\ c.len = 11 /\ c.b0 = ISO14443B_ATTRIB ->
              [st |-> SimAcknowledge, tx |-> "none"]
      [] st = SimWork -> [st |-> SimIdle, tx |-> "none"]

(* The switch on cardSTATE after that test: the next state and what is   *)
(* transmitted.                                                            *)
AfterSwitch(c, st) ==
    CASE st \in {SimIdle, SimHalted} -> [st |-> st, tx |-> "none"]
      [] st = SimSelecting -> [st |-> SimWork, tx |-> "ATQB"]
      [] st = SimAcknowledge -> [st |-> SimIdle, tx |-> "OK"]
      [] st = SimWork /\ c.len = 7 /\ c.b0 = ISO14443B_HALT ->
              [st |-> SimHalted, tx |-> "none"]
      [] st = SimWork /\ c.len = 11 /\ c.b0 = ISO14443B_ATTRIB ->
              [st |-> SimAcknowledge, tx |-> "none"]
      [] st = SimWork -> [st |-> SimIdle, tx |-> "none"]

Init ==
    /\ cardSTATE = SimNoField
    /\ running = TRUE
    /\ lastCmd = NoCmd
    /\ resp = "none"
    /\ pc = "top"
    /\ button = FALSE
    /\ hostData = FALSE

(* The user presses the button, or the host sends a command. *)
PressButton ==
    /\ running /\ ~button /\ button' = TRUE
    /\ UNCHANGED <<cardSTATE, running, lastCmd, resp, pc, hostData>>
HostSends ==
    /\ running /\ ~hostData /\ hostData' = TRUE
    /\ UNCHANGED <<cardSTATE, running, lastCmd, resp, pc, button>>

(* Fault variant: the head of the loop does not test data_available(). *)
LoopTopIgnoresHost ==
    /\ running /\ pc = "top" /\ cardSTATE # SimNoField
    /\ IF button THEN running' = FALSE /\ UNCHANGED pc
                 ELSE pc' = "listen" /\ UNCHANGED running
    /\ UNCHANGED <<cardSTATE, lastCmd, resp, button, hostData>>

(* The head of the loop with a field: the button ends the loop (while    *)
(* condition), then host data does (break); else GetIso14443bCommand-   *)
(* FromReader is entered.  Without a field the loop spins on the same    *)
(* tests, so an ending there is this step too.                            *)
LoopTop ==
    /\ running /\ pc = "top"
    /\ button \/ hostData \/ cardSTATE # SimNoField
    /\ IF button \/ hostData THEN running' = FALSE /\ UNCHANGED pc
                             ELSE pc' = "listen" /\ UNCHANGED running
    /\ UNCHANGED <<cardSTATE, lastCmd, resp, button, hostData>>

(* vHf > MF_MINFIELDV: the reader field is there, and the same iteration *)
(* goes on to receive.                                                    *)
FieldDetected ==
    /\ running /\ pc = "top" /\ ~button /\ ~hostData
    /\ cardSTATE = SimNoField
    /\ cardSTATE' = SimIdle
    /\ pc' = "listen"
    /\ UNCHANGED <<running, lastCmd, resp, button, hostData>>

(* GetIso14443bCommandFromReader returns a frame, which the rest of the  *)
(* iteration handles: the REQB/WUPB test, then the switch.                *)
HandleCommand(c) ==
    LET st1 == IF IsReqbOrWupb(c, cardSTATE) THEN SimSelecting ELSE cardSTATE
        out == AfterSwitch(c, st1)
    IN /\ running /\ pc = "listen" /\ ~button
       /\ cardSTATE' = out.st
       /\ resp' = out.tx
       /\ lastCmd' = c
       /\ pc' = "top"
       /\ UNCHANGED <<running, button, hostData>>

(* Fault variant: GetIso14443bCommandFromReader waits without testing    *)
(* the button.                                                            *)
ListenIgnoresButton == FALSE

(* The button ends the wait: GetIso14443bCommandFromReader returns false *)
(* and the loop breaks.                                                  *)
ListenButton ==
    /\ running /\ pc = "listen" /\ button
    /\ running' = FALSE
    /\ UNCHANGED <<cardSTATE, lastCmd, resp, pc, button, hostData>>

ReceiveFrame == \E c \in Commands : HandleCommand(c)

Next ==
    \/ PressButton \/ HostSends
    \/ LoopTop \/ FieldDetected \/ ReceiveFrame \/ ListenButton

(* The CPU runs only this loop, so its own steps are weakly fair; the    *)
(* field, the reader's frames, the button and the host are not.           *)
Spec == Init /\ [][Next]_vars /\ WF_vars(LoopTop \/ ListenButton)

-----------------------------------------------------------------------------
(* Type invariant of the emulator loop: cardSTATE only takes the states  *)
(* the code assigns (never SIM_HALTING).                                   *)
TypeOK ==
    /\ cardSTATE \in {SimNoField, SimIdle, SimHalted, SimSelecting,
                      SimAcknowledge, SimWork}
    /\ running \in BOOLEAN
    /\ lastCmd \in Commands \cup {NoCmd}
    /\ resp \in {"none", "ATQB", "OK"}
    /\ pc \in {"top", "listen"}
    /\ button \in BOOLEAN /\ hostData \in BOOLEAN

(* A step that handles a command received from the reader. *)
CommandStep == pc = "listen" /\ pc' = "top"

(* The emulated tag sends its ATQB only as the answer to the REQB or WUPB *)
(* frame it has just received (5 bytes, first byte 0x05).                 *)
AtqbAnswersReqb ==
    [][CommandStep /\ resp' = "ATQB" =>
         lastCmd'.len = 5 /\ lastCmd'.b0 = ISO14443B_REQB]_vars

(* The OK of the emulated tag answers an ATTRIB, one frame late: it is    *)
(* sent only while handling the frame that follows an ATTRIB (11 bytes,   *)
(* 0x1D) accepted in SIM_WORK, that frame is no REQB/WUPB (which would    *)
(* re-select the tag instead), and so each ATTRIB draws at most one OK.   *)
OkFollowsAttrib ==
    [][CommandStep /\ resp' = "OK" =>
         /\ lastCmd.len = 11 /\ lastCmd.b0 = ISO14443B_ATTRIB
         /\ ~IsReqbOrWupb(lastCmd', SimAcknowledge)]_vars

(* A button press ends the emulation, whether it comes while the loop   *)
(* waits for the field, for a reader frame inside                         *)
(* GetIso14443bCommandFromReader, or between frames.                      *)
ButtonEndsSim == button ~> ~running

(* A host command (data_available) ends the emulation, but only at the   *)
(* head of the loop: GetIso14443bCommandFromReader does not test it, so  *)
(* the emulator stops on it only if the reader, when it has a frame to   *)
(* send, sends it.  Spec 5 says host data pre-empts the emulation.        *)
HostDataEndsSim == WF_vars(ReceiveFrame) => (hostData ~> ~running)

(* ISO 14443-3 and spec 8.5: a halted tag answers only a WUPB; a REQB     *)
(* (byte 2 without 0x08) leaves it silent.                                *)
HaltedIgnoresReqb ==
    [][CommandStep /\ cardSTATE = SimHalted /\ ~lastCmd'.wup => resp' = "none"]_vars

(* Spec 4.6 and 8.5: a selected tag answers HLTB with OK (00 78 F0). *)
HaltIsAnswered ==
    [][CommandStep /\ cardSTATE = SimWork /\ lastCmd'.len = 7
         /\ lastCmd'.b0 = ISO14443B_HALT => resp' = "OK"]_vars

(* Spec 4.6: the tag answers ATTRIB with OK in the same exchange, before  *)
(* the reader's next command.                                              *)
AttribIsAnswered ==
    [][CommandStep /\ cardSTATE = SimWork /\ lastCmd'.len = 11
         /\ lastCmd'.b0 = ISO14443B_ATTRIB => resp' = "OK"]_vars

(* Spec 4.6 and 8.5, the tag's answers to the session commands: a       *)
(* halted tag ignores REQB, and a selected tag answers both HLTB and      *)
(* ATTRIB with OK.  Each conjunct fails on its own in SimulateIso14443bTag. *)
SpecTagAnswers == HaltedIgnoresReqb /\ HaltIsAnswered /\ AttribIsAnswered

=============================================================================
