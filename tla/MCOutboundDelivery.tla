-------------------------- MODULE MCOutboundDelivery --------------------------
EXTENDS OutboundDelivery, TLC

CONSTANTS w1, w2, c1

OneMessage == {1}
OneConv == [m \in Messages |-> c1]
AllFaults == FaultKinds

=============================================================================
