---------------------------- MODULE FrameChannel ----------------------------
(***************************************************************************)
(* What a frame receiver promises its caller, with no bits, samples or    *)
(* states: the command the peer sent is either handed over whole in one  *)
(* step, or, when it does not fit, never handed over at all.  On a noisy *)
(* line the command may also be lost, but it is never altered.           *)
(*                                                                         *)
(* Iso14bUart (GetIso14443bCommandFromReader) is shown to implement it:   *)
(* cmd is the command on air, rx what the receive loop returned and       *)
(* delivered whether it has returned, noisy whether noise hit the line.  *)
(***************************************************************************)
EXTENDS Naturals, Sequences

CONSTANT Limit    \* a command is delivered only when shorter than this

VARIABLES cmd, rx, delivered, noisy

chvars == <<cmd, rx, delivered, noisy>>

Init == rx = <<>> /\ delivered = FALSE

(* The whole command is handed over at once. *)
Deliver ==
    /\ ~delivered
    /\ 0 < Len(cmd) /\ Len(cmd) < Limit
    /\ rx' = cmd
    /\ delivered' = TRUE
    /\ UNCHANGED <<cmd, noisy>>

(* A receiver that keeps polling delivers every command that fits, unless *)
(* noise hit it.                                                           *)
Spec == Init /\ [][Deliver]_chvars /\ (~noisy => WF_chvars(Deliver))

=============================================================================
