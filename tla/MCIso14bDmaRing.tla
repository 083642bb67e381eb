--------------------------- MODULE MCIso14bDmaRing ---------------------------
(* The DMA ring with a eight-sample buffer. *)
EXTENDS Iso14bDmaRing

MCN == 8

(* A CPU that stays within seven samples of the PDC, and one that may     *)
(* fall a whole buffer and more behind.                                    *)
MCLags == {7, 9}

=============================================================================
