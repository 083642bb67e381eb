---------------------------- MODULE MCIso14bDemod ----------------------------
(* Model-checking instance of Iso14bDemod.  Phases: one on the I axis,   *)
(* one in the second quadrant (negative reference I), and one of         *)
(* amplitude exactly 8, the detection threshold, which must never sync.  *)
(* Cuts: the answer is 44 samples of TR1, 20 of SOF low, 4 of SOF high,  *)
(* then 20 per character; the tag falls silent in TR1 after training,    *)
(* in the SOF low and high phases, in the middle of the first character *)
(* and at the boundary after it.                                          *)
EXTENDS Iso14bDemod

MCBytes == {0, 165}
MCPhases == {<<20, 0>>, <<-9, 12>>, <<6, 5>>}
MCCuts == {30, 56, 66, 78, 88}
(* Spikes: in the silence before the answer, during phase training, in   *)
(* TR1 after it, at the SOF's falling edge, in the SOF low phase and in  *)
(* its high phase; each against the I axis or the Q axis, strong enough  *)
(* to flip a data bit of every phase (it does, at sample 75).             *)
MCSpikes == {[at |-> a, iq |-> v] : a \in {-1, 3, 20, 45, 50, 66},
                                   v \in {<<-60, 0>>, <<0, -60>>}}
=============================================================================
