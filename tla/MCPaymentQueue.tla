--------------------------- MODULE MCPaymentQueue ---------------------------
(* Small instances of PaymentQueue. *)
EXTENDS PaymentQueue, TLC

CONSTANTS t1, t2, o1, o2, w1, w2, c1

TwoTransfers == {t1, t2}
Memos == t1 :> o1 @@ t2 :> NoOrder
Amounts == t1 :> 1 @@ t2 :> 2
AllFaults == FaultKinds

=============================================================================
