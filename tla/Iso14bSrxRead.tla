---------------------------- MODULE Iso14bSrxRead ----------------------------
(***************************************************************************)
(* ReadSTMemoryIso14443b: select an SRx tag, read blocks 0..numofblocks   *)
(* with ReadSTBlock into a BigBuf buffer, then the system block 0xFF, and *)
(* reply with the buffer.  A select or a block read may fail (no answer,  *)
(* a short answer or a CRC error): the exchange itself is Iso14bReader's  *)
(* and Iso14bDemod's, here it is one of the Answers.                      *)
(*                                                                         *)
(* mem maps each 4-byte slot of the buffer to the number of the block     *)
(* copied there, or Unset; alloc is the size given to BigBuf_malloc.     *)
(***************************************************************************)
EXTENDS Integers, Sequences

CONSTANTS
    Requests,   \* numofblocks values the host may send (uint16_t)
    Answers     \* outcomes of one READ_BLK exchange

ASSUME Requests \subseteq 0..65534 /\ "ok" \in Answers

VARIABLES
    req,          \* the host's numofblocks (fixed per behaviour)
    numofblocks,  \* the local copy, incremented after the select
    i,            \* the uint8_t loop counter
    mem, alloc,   \* the buffer
    isOK,         \* PM3_SUCCESS or PM3_ETIMEOUT
    pc,           \* "select", "loop", "sysblock", "reply", "done"
    reply,        \* what reply_ng sends, once sent
    failed,       \* history: an exchange with the tag failed
    calls         \* history: ReadSTBlock calls, counted up to the cap

vars == <<req, numofblocks, i, mem, alloc, isOK, pc, reply, failed, calls>>

Unset == -1
SystemBlock == 255
PM3_SUCCESS == 0
PM3_ETIMEOUT == -4
Slots == 0..(257 + 1)          \* every slot a uint8_t index reaches, and more
CallCap == 259

(* ReadSTBlock(blocknr, slot): the block is copied into the slot only    *)
(* when the answer has 6 bytes and a good CRC.                            *)
ReadSTBlock(m, blocknr, slot, answer) ==
    [ok |-> answer = "ok",
     mem |-> IF answer = "ok" THEN [m EXCEPT ![slot] = blocknr] ELSE m]

Count(c) == IF c < CallCap THEN c + 1 ELSE c

Init ==
    /\ req \in Requests /\ numofblocks = req
    /\ i = 0 /\ mem = [k \in Slots |-> Unset] /\ alloc = 0
    /\ isOK = PM3_SUCCESS /\ pc = "select" /\ reply = <<>>
    /\ failed = FALSE /\ calls = 0

(* Fault variant: numofblocks is not incremented after the select. *)
SelectCardNoIncrement ==
    /\ pc = "select"
    /\ alloc' = (numofblocks + 1) * 4
    /\ \E selected \in BOOLEAN :
          IF selected
          THEN pc' = "loop" /\ UNCHANGED <<isOK, failed>>
          ELSE isOK' = PM3_ETIMEOUT /\ failed' = TRUE /\ pc' = "reply"
    /\ UNCHANGED <<req, numofblocks, i, mem, reply, calls>>

(* BigBuf_malloc((numofblocks + 1) * 4), then iso14443b_select_srx_card; *)
(* on success ++numofblocks.                                               *)
SelectCard ==
    /\ pc = "select"
    /\ alloc' = (numofblocks + 1) * 4
    /\ \E selected \in BOOLEAN :
          IF selected
          THEN /\ numofblocks' = (numofblocks + 1) % 65536
               /\ pc' = "loop" /\ UNCHANGED <<isOK, failed>>
          ELSE /\ isOK' = PM3_ETIMEOUT /\ failed' = TRUE
               /\ pc' = "reply" /\ UNCHANGED numofblocks
    /\ UNCHANGED <<req, i, mem, reply, calls>>

(* One pass of the loop: ReadSTBlock(i, mem + i * 4); a failure breaks.  *)
ReadBlock ==
    /\ pc = "loop" /\ i < numofblocks
    /\ \E a \in Answers :
          LET r == ReadSTBlock(mem, i, i, a)
          IN /\ mem' = r.mem
             /\ IF r.ok
                THEN i' = (i + 1) % 256 /\ UNCHANGED <<isOK, pc, failed>>
                ELSE /\ isOK' = PM3_ETIMEOUT /\ failed' = TRUE
                     /\ pc' = "sysblock" /\ UNCHANGED i
    /\ calls' = Count(calls)
    /\ UNCHANGED <<req, numofblocks, alloc, reply>>

LoopEnd ==
    /\ pc = "loop" /\ i >= numofblocks
    /\ pc' = "sysblock"
    /\ UNCHANGED <<req, numofblocks, i, mem, alloc, isOK, reply, failed, calls>>

(* Fault variant: the system block's result overwrites isOK. *)
ReadSystemBlockOverwrites ==
    /\ pc = "sysblock"
    /\ \E a \in Answers :
          LET r == ReadSTBlock(mem, SystemBlock, numofblocks, a)
          IN /\ mem' = r.mem
             /\ isOK' = IF r.ok THEN PM3_SUCCESS ELSE PM3_ETIMEOUT
             /\ failed' = (failed \/ ~r.ok)
    /\ pc' = "reply" /\ calls' = Count(calls)
    /\ UNCHANGED <<req, numofblocks, i, alloc, reply>>

(* ReadSTBlock(0xFF, mem + numofblocks * 4), also after a failed block. *)
ReadSystemBlock ==
    /\ pc = "sysblock"
    /\ \E a \in Answers :
          LET r == ReadSTBlock(mem, SystemBlock, numofblocks, a)
          IN /\ mem' = r.mem
             /\ isOK' = IF r.ok THEN isOK ELSE PM3_ETIMEOUT
             /\ failed' = (failed \/ ~r.ok)
    /\ pc' = "reply" /\ calls' = Count(calls)
    /\ UNCHANGED <<req, numofblocks, i, alloc, reply>>

(* reply_ng(CMD_HF_SRI_READ, isOK, mem, numofblocks * 4). *)
Reply ==
    /\ pc = "reply"
    /\ reply' = [status |-> isOK,
                 blocks |-> [k \in 1..numofblocks |-> mem[k - 1]]]
    /\ pc' = "done"
    /\ UNCHANGED <<req, numofblocks, i, mem, alloc, isOK, failed, calls>>

Terminated == pc = "done" /\ UNCHANGED vars

Next == SelectCard \/ ReadBlock \/ LoopEnd \/ ReadSystemBlock \/ Reply
          \/ Terminated

Spec == Init /\ [][Next]_vars /\ WF_vars(Next)

-----------------------------------------------------------------------------
(* The host's dump is right: the reply says success exactly when every   *)
(* exchange with the tag succeeded, and then holds blocks 0..numofblocks *)
(* of the request, in order, each read in this call.                      *)
ReplyIsDump ==
    pc = "done" =>
        /\ (reply.status = PM3_SUCCESS) = ~failed
        /\ reply.status = PM3_SUCCESS =>
              reply.blocks = [k \in 1..(req + 1) |-> k - 1]

(* Every block is copied inside the buffer given by BigBuf_malloc. *)
NoWriteBeyondAlloc == \A k \in Slots : mem[k] # Unset => (k + 1) * 4 <= alloc

(* The dump ends: ReadSTBlock is called at most for blocks 0..numofblocks *)
(* and the system block.                                                  *)
ReadsBounded == calls <= req + 2

(* The dump stays inside its buffer and ends, whatever numofblocks the   *)
(* host sends.                                                             *)
DumpSafe == NoWriteBeyondAlloc /\ ReadsBounded

=============================================================================
