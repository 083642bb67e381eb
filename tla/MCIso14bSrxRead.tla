--------------------------- MODULE MCIso14bSrxRead ---------------------------
EXTENDS Iso14bSrxRead

(* SRI512 dumps 16 blocks (numofblocks 15); a short dump and an empty one. *)
MCRequests == {0, 2, 15}
(* A short request and one past the uint8_t loop counter. *)
MCEdgeRequests == {2, 255}
(* A good answer, and one that is short or fails the CRC. *)
MCAnswers == {"ok", "bad"}
=============================================================================
