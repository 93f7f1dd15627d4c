------------------------- MODULE MCChannelIngestion -------------------------
(* Small instances of ChannelIngestion: one event with two messages, one   *)
(* with a single message.                                                  *)
EXTENDS ChannelIngestion, TLC

CONSTANTS e1, e2, m1, m2, m3, w1, w2, a1

TwoEvents == {e1, e2}
Batch == e1 :> <<m1, m2>> @@ e2 :> <<m3>>
ThreeConvs == 1 .. 3
AllFaults == FaultKinds
WorkerSymmetry == Permutations(Workers)

=============================================================================
