-------------------------- MODULE MCStockMovement --------------------------
(* Small instances of StockMovement. *)
EXTENDS StockMovement, TLC

CONSTANTS t1, t2, t3

MCVariants == {1, 2}
MCTxs == {t1, t2, t3}

Both(q1, q2) == 1 :> q1 @@ 2 :> q2
OrderCalls == {[op |-> o, items |-> Both(1, 1)] : o \in OrderOps}
               \union {[op |-> "restock", items |-> (2 :> 2)]}
AdjustCalls == {[op |-> "stockIn", items |-> (1 :> 1)],
                [op |-> "stockOut", items |-> (1 :> 1)],
                [op |-> "audit", items |-> (1 :> 1)],
                [op |-> "audit", items |-> (2 :> 0)]}
MCCalls == OrderCalls \union AdjustCalls

L(s, r) == [stock |-> s, reserved |-> r]
MCInitLevels == {[v \in MCVariants |-> L(2, 1)], Both(L(1, 0), L(3, 2))}

=============================================================================
