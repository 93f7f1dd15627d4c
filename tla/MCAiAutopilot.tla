---------------------------- MODULE MCAiAutopilot ----------------------------
EXTENDS AiAutopilot, TLC

CONSTANT a1

TwoMessages == {1, 2}

AllFaults == FaultKinds

=============================================================================
