----------------------------- MODULE MCOrderTx -----------------------------
(* Small instances of OrderTx: a shop of two variants and one or two orders. *)
EXTENDS OrderTx, FiniteSetsExt, TLC

CONSTANTS t1, t2, t3, o1, o2

MCVariants == {1, 2}
TwoTxs == {t1, t2}
ThreeTxs == {t1, t2, t3}
Sym2 == Permutations(TwoTxs)
Sym3 == Permutations(ThreeTxs)
OneOrder == {o1}
TwoOrders == {o1, o2}

Bundle(q1, q2) == 1 :> q1 @@ 2 :> q2
MCSupply == Bundle(4, 3)
Ordered == Bundle(1, 1)

-----------------------------------------------------------------------------
(* The shops: each order in one of the states in "states", everything else as *)
(* the code leaves it in that state.  Every order costs 2; "DEPOSIT" is a     *)
(* CONFIRMED order of which 1 is paid.                                        *)
InitRow(state) ==
    [status |-> IF state = "DEPOSIT" THEN "CONFIRMED" ELSE state,
     total  |-> IF state = "ABSENT" THEN 0 ELSE 2,
     paid   |-> CASE state = "DEPOSIT" -> 1
                  [] state \in {"PAID", "COMPLETED"} -> 2
                  [] OTHER -> 0,
     pay    |-> CASE state = "DEPOSIT" -> "PARTIALLY_PAID"
                  [] state \in {"PAID", "COMPLETED"} -> "PAID"
                  [] OTHER -> "UNPAID"]

Pending(amount) == [key |-> <<"bank", "pending">>, order |-> {},
                    amount |-> amount, status |-> "PENDING"]

Shop(state, pending) ==
    LET held(v, sts) == MapThenSumSet(
            LAMBDA o : IF state[o] \in sts THEN Ordered[v] ELSE 0, Orders)
    IN
    [orders |-> [o \in Orders |-> InitRow(state[o])],
     items  |-> [o \in Orders |-> IF state[o] = "ABSENT" THEN {}
                                  ELSE {[by |-> NoTx, qty |-> Ordered]}],
     payments |-> {[key |-> <<"before", o>>, order |-> {o},
                    amount |-> InitRow(state[o]).paid, status |-> "SUCCESS"] :
                      o \in {x \in Orders : InitRow(state[x]).paid > 0}}
                  \union pending,
     levels |-> [v \in Variants |->
                   [stock |-> Supply[v] - held(v, {"PAID", "COMPLETED"}),
                    reserved |-> held(v, {"CONFIRMED", "DEPOSIT"})]]]

Shops(states, pending) == {Shop(s, pending) : s \in [Orders -> states]}
LevelsOf(shops) == {sh.levels : sh \in shops}

OngoingStates == {"DRAFT", "CONFIRMED", "DEPOSIT", "PAID"}
AnyShops == Shops(OngoingStates, {Pending(1)})
AnyLevels == LevelsOf(AnyShops)
AllShops == Shops(OngoingStates \union {"ABSENT", "COMPLETED", "CANCELLED"}, {Pending(1)})
AllLevels == LevelsOf(AllShops)

UnlockedKinds == Kinds \ {"pay", "reconcile"}
MCCalls == [op : OrderOps, items : [Variants -> 0..3]]

-----------------------------------------------------------------------------
Plain(kind, o) == [kind |-> kind, order |-> o, amount |-> 0, key |-> <<"none", o>>,
                   lines |-> {}, confirmNow |-> FALSE]
Create(o, now) == [Plain("create", o) EXCEPT !.lines = {Ordered}, !.confirmNow = now]
Edit(o, qty) == [Plain("edit", o) EXCEPT !.lines = {qty}]
Pay(o, n, code) == [Plain("pay", o) EXCEPT !.amount = n, !.key = <<"manual", o, code>>]
Transfer(o, n, code) == [Plain("reconcile", o) EXCEPT !.amount = n, !.key = <<"bank", code>>]
Match(o, n) == [Plain("match", o) EXCEPT !.amount = n, !.key = <<"bank", "pending">>]

MCAllRequests ==
    UNION {{Create(o, TRUE), Create(o, FALSE), Edit(o, Bundle(1, 0)), Plain("edit", o),
            Plain("confirm", o), Plain("cancel", o), Plain("complete", o),
            Pay(o, 1, "c1"), Pay(o, 2, "c2"), Transfer(o, 1, "b1"), Transfer(o, 2, "b2"),
            Match(o, 1)} : o \in Orders}

(* Two requests of one order, overlapping. *)
ConfirmTwice == {Plain("confirm", o1)}
ConfirmCancel == {Plain("confirm", o1), Plain("cancel", o1)}
PayCancel == {Pay(o1, 2, "c2"), Plain("cancel", o1)}
CompletePay == {Plain("complete", o1), Transfer(o1, 1, "b1")}
MatchTwice == {Match(o, 1) : o \in Orders}
MatchCancel == {Match(o1, 1), Plain("cancel", o1)}
EditConfirm == {Edit(o1, Bundle(2, 0)), Plain("confirm", o1)}
EditTwice == {Edit(o1, Bundle(2, 0)), Edit(o1, Bundle(1, 0))}
Deposits == {Pay(o1, 1, "c1"), Transfer(o1, 1, "b1")}
=============================================================================
