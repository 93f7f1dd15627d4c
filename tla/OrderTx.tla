------------------------------ MODULE OrderTx ------------------------------
(***************************************************************************)
(* The requests that create, edit, confirm, pay, cancel, complete and       *)
(* reconcile orders, as the sequences of SQL statements and Redis calls     *)
(* they make.  Every request runs in one READ COMMITTED transaction and     *)
(* makes at most one stock call, whose statements are those of              *)
(* StockMovement; this module adds the orders, order_items and              *)
(* payment_transactions tables and the Redis payment lock.                  *)
(*                                                                          *)
(* A request reads its order once, decides what to do from that read, and   *)
(* writes later: what it read may be stale by then.  "plan" holds the       *)
(* statements it still has to run.  Calls bounds the quantities an order    *)
(* may hold: a request whose stock call is not in it goes no further.       *)
(*                                                                          *)
(* As in StockMovement, a slip is not part of the model.                    *)
(***************************************************************************)
EXTENDS StockMovement, FiniteSets, Functions

CONSTANTS
    Orders,          \* order ids
    CodOrders,       \* the orders whose payment method is COD or CASH
    Requests,        \* the requests clients, workers and webhooks may send
    InitShops,       \* the consistent databases to start from
    LockMayExpire,   \* the Redis lock's TTL may pass while its holder runs
    Alone,           \* the kinds of request nobody overlaps on an order or transfer
    Supply,          \* Supply[v]: the units of v the shop has ever received
    MatcherReads     \* the matcher's query names only relations that exist

Statuses    == {"ABSENT", "DRAFT", "CONFIRMED", "PAID", "SHIPPING",
                "COMPLETED", "CANCELLED"}
PayStatuses == {"UNPAID", "PARTIALLY_PAID", "PAID", "REFUNDED"}
Payable     == {"DRAFT", "CONFIRMED"}
Cancellable == {"DRAFT", "CONFIRMED", "PAID", "SHIPPING"}
Completable == {"SHIPPING", "PAID", "CONFIRMED"}
InFulfillment == {"SHIPPING"}  \* a slip: a completed order is forgotten
Fulfilled   == {"SHIPPING", "COMPLETED"}
Existing    == Statuses \ {"ABSENT"}

Kinds       == {"create", "edit", "confirm", "pay", "cancel", "complete",
                "reconcile", "match"}

Row == [status : Statuses, total : Nat, paid : Int, pay : PayStatuses]

(* The payment_transactions with this idempotency key; order is {} for a     *)
(* transfer that belongs to no order yet.                                    *)
Payment(key) == [key : {key}, order : SUBSET Orders, amount : Int,
                 status : {"PENDING", "SUCCESS"}]

ASSUME FiniteAssumption == IsFiniteSet(Variants) /\ IsFiniteSet(Orders)
ASSUME FlagsAssumption == {LockMayExpire, MatcherReads} \subseteq BOOLEAN

(* A new order has lines, an edit may leave them alone; the keys of refunds  *)
(* and of cash collected are made by the code, never by a client or a bank.  *)
ASSUME RequestsAssumption ==
    \A r \in Requests :
        /\ r.kind \in Kinds /\ r.order \in Orders /\ r.amount \in Nat
        /\ r.lines \subseteq [Variants -> Nat] /\ r.confirmNow \in BOOLEAN
        /\ r.kind = "create" => r.lines # {}
        /\ r.key[1] \notin {"refund", "cod"}

(* The tables of a shop, with their unique index.  A manual match is about a *)
(* transfer of the bank, and has its amount.                                 *)
ASSUME InitShopsAssumption ==
    \A shop \in InitShops :
        /\ shop.orders \in [Orders -> Row] /\ DOMAIN shop.items = Orders
        /\ \A o \in Orders :
              /\ IsFiniteSet(shop.items[o])
              /\ \A b \in shop.items[o] : b.qty \in [Variants -> Nat]
              /\ shop.orders[o].status = "ABSENT" =>
                    shop.items[o] = {} /\ shop.orders[o].paid = 0
        /\ IsFiniteSet(shop.payments)
        /\ \A p \in shop.payments :
              /\ p \in Payment(p.key)
              /\ \A q \in shop.payments : q.key = p.key => q = p
              /\ p.status = "PENDING" =>
                    \A r \in Requests : r.kind = "match" /\ r.key = p.key
                                           => r.amount = p.amount

NoRequest   == [kind |-> "none"]
NothingSeen == [row |-> [status |-> "ABSENT", total |-> 0, paid |-> 0, pay |-> "UNPAID"],
                qty |-> [v \in Variants |-> 0]]

VARIABLES
    orders,     \* orders[o]: the committed row of the order
    rowOwner,   \* rowOwner[o]: the transaction that holds its row lock
    items,      \* items[o]: its committed order_items, one batch per createMany
    itemOwner,  \* itemOwner[o]: the transaction that has rewritten them
    payments,   \* the committed payment_transactions
    lock,       \* lock[o]: the holder of the Redis key ws:..:order:..:payment
    outcome,    \* outcome[t]: "idle", "running", "committed" or "failed"
    request,    \* request[t]: the request t serves
    plan,       \* plan[t]: the statements t has still to run
    saw,        \* saw[t]: the order as t read it, with its items
    wrote,      \* wrote[t]: its uncommitted UPDATE of the order row
    paying,     \* paying[t]: its uncommitted payment rows
    doomed,     \* doomed[t]: the batches its DELETE has chosen
    adding      \* adding[t]: its uncommitted new batch

flowVars == <<outcome, request, plan, saw, wrote, paying, doomed, adding>>
dbVars == <<orders, rowOwner, items, itemOwner, payments, lock>>
vars == <<stockVars, flowVars, dbVars>>

-----------------------------------------------------------------------------
(* What the code decides from the request r and from the order s it read.   *)

Price(qty) == SumFunctionOnSet(qty, Variants)
ItemsOf(o) == [v \in Variants |-> SumFunction([b \in items[o] |-> b.qty[v]])]
NewLines(r) == CHOOSE qty \in r.lines : TRUE

(* assertCanConfirm, assertCanUpdate, assertCanCancel, assertCanComplete and *)
(* the status checks of payOrder; the reconciliation flows take any order.   *)
Accepted ==
    [create |-> {"ABSENT"}, edit |-> {"DRAFT"}, confirm |-> {"DRAFT"},
     pay |-> Payable, cancel |-> Cancellable, complete |-> Completable,
     reconcile |-> Existing, match |-> Existing]

Accepts(r, s) ==
    /\ s.row.status \in Accepted[r.kind]
    /\ r.kind = "confirm" => \E v \in Variants : s.qty[v] > 0
    /\ r.kind = "reconcile" => MatcherReads
    /\ r.kind = "pay" => \A p \in payments : p.key # r.key

PaidWith(r, s) == s.row.paid + r.amount
SettlesAnyway(r, s) == r.amount > 0  \* a slip: any payment settles
Settles(r, s) == PaidWith(r, s) >= s.row.total
SaleUnreserved(s) == {"commitDirect"}  \* a slip: isConfirmed is not passed on
Sale(s) == IF s.row.status = "CONFIRMED" THEN {"commitReserved"} ELSE {"commitDirect"}

PayStockOps(r, s) ==
    IF Settles(r, s) THEN Sale(s)
    ELSE IF s.row.status = "CONFIRMED" THEN {} ELSE {"reserve"}

ReconcileSellsAgain(r, s) ==  \* a slip: a PAID order is sold again
    IF s.row.status \in Fulfilled \union {"CANCELLED"} THEN {}
    ELSE IF Settles(r, s) THEN Sale(s)
    ELSE IF s.row.status = "DRAFT" THEN {"reserve"} ELSE {}

ReconcileStockOps(r, s) ==
    IF s.row.status \in Fulfilled \union {"CANCELLED"} THEN {}
    ELSE IF Settles(r, s) THEN IF s.row.status = "PAID" THEN {} ELSE Sale(s)
    ELSE IF s.row.status = "DRAFT" THEN {"reserve"} ELSE {}

MatchStockOps(r, s) ==
    IF Settles(r, s) /\ s.row.status \notin Fulfilled \union {"PAID"}
    THEN Sale(s) ELSE {}

CancelReleasesOnly(s) ==  \* a slip: the goods of a PAID order do not come back
    IF s.row.status = "CONFIRMED" THEN {"release"} ELSE {}

CancelStockOps(s) ==
    CASE s.row.status = "CONFIRMED" -> {"release"}
      [] s.row.status \in {"PAID", "SHIPPING"} -> {"restock"}
      [] OTHER -> {}

(* The stock call a request makes: none, or one. *)
StockOps(r, s) ==
    CASE r.kind = "create"    -> IF r.confirmNow THEN {"reserve"} ELSE {}
      [] r.kind = "confirm"   -> {"reserve"}
      [] r.kind = "pay"       -> PayStockOps(r, s)
      [] r.kind = "reconcile" -> ReconcileStockOps(r, s)
      [] r.kind = "match"     -> MatchStockOps(r, s)
      [] r.kind = "cancel"    -> CancelStockOps(s)
      [] r.kind = "complete"  -> IF s.row.status = "CONFIRMED"
                                 THEN {"commitReserved"} ELSE {}
      [] OTHER                -> {}

StockItems(r, s) == IF r.kind = "create" THEN NewLines(r) ELSE s.qty

CollectsCash(r, s) == s.row.paid < s.row.total /\ r.order \in CodOrders

(* The payment row a request inserts: a payment, a refund of what it read as *)
(* paid, or the cash collected on delivery.                                  *)
PaymentRow(r, s) ==
    LET row(key, amount) == [key |-> key, order |-> {r.order},
                             amount |-> amount, status |-> "SUCCESS"] IN
    CASE r.kind = "cancel"   -> row(<<"refund", r.order>>, -s.row.paid)
      [] r.kind = "complete" -> row(<<"cod", r.order>>, s.row.total - s.row.paid)
      [] OTHER               -> row(r.key, r.amount)

Prologue ==
    [create |-> <<"read">>, edit |-> <<"read">>, confirm |-> <<"read">>,
     cancel |-> <<"read">>, complete |-> <<"read">>,
     pay |-> <<"lock", "read">>, reconcile |-> <<"lock", "read">>,
     match |-> <<"peek", "lock", "read">>]

(* A stock call, a payment row or new lines are statements only if there is  *)
(* something to move, to pay back, to collect or to replace.                 *)
CancelPlan(r, s) ==
    LET moves == StockOps(r, s) # {} IN
    CASE s.row.paid > 0 /\ moves    -> <<"insert", "write", "stock">>
      [] s.row.paid > 0 /\ ~moves   -> <<"insert", "write">>
      [] ~(s.row.paid > 0) /\ moves -> <<"write", "stock">>
      [] OTHER                      -> <<"write">>

CompletePlan(r, s) ==
    LET moves == StockOps(r, s) # {} IN
    CASE moves /\ CollectsCash(r, s)  -> <<"stock", "insert", "write">>
      [] moves /\ ~CollectsCash(r, s) -> <<"stock", "write">>
      [] ~moves /\ CollectsCash(r, s) -> <<"insert", "write">>
      [] OTHER                        -> <<"write">>

PlanAfterRead(r, s) ==
    LET moves == StockOps(r, s) # {} IN
    CASE r.kind = "create"   -> IF moves THEN <<"addItems", "stock", "write">>
                                ELSE <<"addItems", "write">>
      [] r.kind = "edit"     -> IF r.lines = {} THEN <<"write">>
                                ELSE <<"deleteItems", "addItems", "write">>
      [] r.kind = "confirm"  -> <<"stock", "write">>
      [] r.kind = "match"    -> IF moves THEN <<"stock", "mark", "write">>
                                ELSE <<"mark", "write">>
      [] r.kind = "cancel"   -> CancelPlan(r, s)
      [] r.kind = "complete" -> CompletePlan(r, s)
      [] OTHER               -> IF moves THEN <<"insert", "stock", "write">>
                                ELSE <<"insert", "write">>

(* The WHERE clause of the UPDATE of the order row. *)
WriteWhere(r, s) ==
    CASE r.kind = "pay"    -> Payable
      [] r.kind = "cancel" -> Cancellable
      [] r.kind = "reconcile" /\ s.row.status \notin Fulfilled \union {"CANCELLED"} ->
            IF Settles(r, s) /\ s.row.status = "PAID" THEN {"PAID"} ELSE Payable
      [] OTHER -> Statuses

CreditedSwapped(r, s, row, next) ==  \* a slip: status and paymentStatus swapped
    [row EXCEPT !.paid = PaidWith(r, s), !.pay = next,
                !.status = IF Settles(r, s) THEN "PAID" ELSE "PARTIALLY_PAID"]

Credited(r, s, row, next) ==
    [row EXCEPT !.paid = PaidWith(r, s), !.status = next,
                !.pay = IF Settles(r, s) THEN "PAID" ELSE "PARTIALLY_PAID"]

(* Its SET clause: the columns written from s, over the current row.  cash   *)
(* says that completeOrder has inserted the cash payment.                    *)
Written(r, s, row, cash) ==
    CASE r.kind = "create" ->
            [status |-> IF r.confirmNow THEN "CONFIRMED" ELSE "DRAFT",
             total |-> Price(NewLines(r)), paid |-> 0, pay |-> "UNPAID"]
      [] r.kind = "edit" ->
            [row EXCEPT !.total = IF r.lines = {} THEN s.row.total ELSE Price(NewLines(r))]
      [] r.kind = "confirm" -> [row EXCEPT !.status = "CONFIRMED"]
      [] r.kind = "pay" ->
            Credited(r, s, row, IF Settles(r, s) THEN "PAID" ELSE "CONFIRMED")
      [] r.kind = "reconcile" /\ s.row.status = "CANCELLED" ->
            [row EXCEPT !.paid = PaidWith(r, s)]
      [] r.kind = "reconcile" /\ s.row.status \in Fulfilled ->
            Credited(r, s, row, row.status)
      [] r.kind = "reconcile" /\ s.row.status \notin Fulfilled \union {"CANCELLED"} ->
            Credited(r, s, row, IF Settles(r, s) THEN "PAID" ELSE "CONFIRMED")
      [] r.kind = "match" ->
            Credited(r, s, row,
                     IF Settles(r, s) /\ s.row.status \notin Fulfilled \union {"PAID"}
                     THEN "PAID" ELSE row.status)
      [] r.kind = "cancel" ->
            [row EXCEPT !.status = "CANCELLED",
                        !.pay = IF s.row.paid > 0 THEN "REFUNDED" ELSE @]
      [] r.kind = "complete" ->
            [row EXCEPT !.status = "COMPLETED",
                        !.paid = IF cash THEN s.row.total ELSE s.row.paid,
                        !.pay = IF cash THEN "PAID" ELSE s.row.pay]

-----------------------------------------------------------------------------
OrderOf(t) == request[t].order
Running(t) == outcome[t] = "running"

(* t has no stock call under way, and runs this statement next. *)
StockIdle(t) == status[t] # "read" /\ todo[t] = {}
At(t, step) ==
    /\ Running(t) /\ StockIdle(t)
    /\ plan[t] # << >> /\ Head(plan[t]) = step
Pop(t) == plan' = [plan EXCEPT ![t] = Tail(@)]

Start(t, r) ==
    /\ outcome[t] = "idle"
    /\ \A u \in Txs : Running(u) /\ {r.kind, request[u].kind} \intersect Alone # {}
          => OrderOf(u) # r.order /\ request[u].key # r.key
    /\ outcome' = [outcome EXCEPT ![t] = "running"]
    /\ request' = [request EXCEPT ![t] = r]
    /\ plan' = [plan EXCEPT ![t] = Prologue[r.kind]]
    /\ UNCHANGED <<stockVars, dbVars, saw, wrote, paying, doomed, adding>>

(* manualMatchTransaction looks at the transaction and at the order first,   *)
(* outside the lock and outside the database transaction.                    *)
Peekable(r) ==
    /\ \E p \in payments : p.key = r.key /\ p.status = "PENDING"
    /\ orders[r.order].status \in Existing \ {"CANCELLED"}

Peek(t) ==
    /\ At(t, "peek") /\ Peekable(request[t])
    /\ Pop(t)
    /\ UNCHANGED <<stockVars, dbVars, outcome, request, saw, wrote, paying, doomed, adding>>

TakeLockAnyway(t) ==  \* a slip: SET without NX
    /\ At(t, "lock")
    /\ lock' = [lock EXCEPT ![OrderOf(t)] = t]
    /\ Pop(t)
    /\ UNCHANGED <<stockVars, orders, rowOwner, items, itemOwner, payments,
                   outcome, request, saw, wrote, paying, doomed, adding>>

(* SET NX PX: whoever finds the key taken gives up at once. *)
TakeLock(t) ==
    /\ At(t, "lock") /\ lock[OrderOf(t)] = NoTx
    /\ lock' = [lock EXCEPT ![OrderOf(t)] = t]
    /\ Pop(t)
    /\ UNCHANGED <<stockVars, orders, rowOwner, items, itemOwner, payments,
                   outcome, request, saw, wrote, paying, doomed, adding>>

(* The TTL of 10 s passes; the transaction may run for 15 s. *)
ExpireLock(o) ==
    /\ LockMayExpire /\ lock[o] # NoTx
    /\ lock' = [lock EXCEPT ![o] = NoTx]
    /\ UNCHANGED <<stockVars, flowVars, orders, rowOwner, items, itemOwner, payments>>

Seen(o) == [row |-> orders[o], qty |-> ItemsOf(o)]

ReadOrder(t) ==
    LET s == Seen(OrderOf(t)) IN
    /\ At(t, "read") /\ Accepts(request[t], s)
    /\ saw' = [saw EXCEPT ![t] = s]
    /\ plan' = [plan EXCEPT ![t] = PlanAfterRead(request[t], s)]
    /\ UNCHANGED <<stockVars, dbVars, outcome, request, wrote, paying, doomed, adding>>

(* The unique index (workspaceId, idempotencyKey): an INSERT waits for the   *)
(* transaction that has inserted the same key, and fails if it commits.      *)
KeyHeldByOther(t, key) ==
    \E u \in Txs \ {t} : Running(u) /\ \E p \in paying[u] : p.key = key
KeyTaken(key) == \E p \in payments : p.key = key

InsertPayment(t) ==
    LET row == PaymentRow(request[t], saw[t]) IN
    /\ At(t, "insert") /\ ~KeyHeldByOther(t, row.key) /\ ~KeyTaken(row.key)
    /\ paying' = [paying EXCEPT ![t] = {row}]
    /\ Pop(t)
    /\ UNCHANGED <<stockVars, dbVars, outcome, request, saw, wrote, doomed, adding>>

(* completeOrder looks for cod:<order> first, and collects nothing then. *)
SkipCash(t) ==
    /\ At(t, "insert") /\ request[t].kind = "complete"
    /\ KeyTaken(PaymentRow(request[t], saw[t]).key)
    /\ Pop(t)
    /\ UNCHANGED <<stockVars, dbVars, outcome, request, saw, wrote, paying, doomed, adding>>

(* UPDATE payment_transactions by id: nothing checks that it is still PENDING. *)
MarkPayment(t) ==
    /\ At(t, "mark") /\ ~KeyHeldByOther(t, request[t].key)
    /\ \E p \in payments :
          /\ p.key = request[t].key
          /\ paying' = [paying EXCEPT ![t] =
                {[p EXCEPT !.status = "SUCCESS", !.order = {OrderOf(t)}]}]
    /\ Pop(t)
    /\ UNCHANGED <<stockVars, dbVars, outcome, request, saw, wrote, doomed, adding>>

CallStock(t) ==
    /\ At(t, "stock")
    /\ \E c \in Calls : /\ c.op \in StockOps(request[t], saw[t])
                        /\ c.items = StockItems(request[t], saw[t])
                        /\ Begin(t, c)
    /\ Pop(t)
    /\ UNCHANGED <<dbVars, outcome, request, saw, wrote, paying, doomed, adding>>

(* A slip: the call is not given the transaction client, and autocommits. *)
StockStatementOutside(t) ==
    /\ Running(t)
    /\ \E v \in Current(t) :
          /\ status[t] = "open" /\ call[t].op = "reserve"
          /\ Admits("reserve", base[v], Qty(t, v))
          /\ base' = [base EXCEPT ![v].reserved = @ + Qty(t, v)]
          /\ level' = base'
          /\ todo' = [todo EXCEPT ![t] = @ \ {v}]
    /\ UNCHANGED <<owner, ledger, draft, status, call, seen, dbVars, flowVars>>

StockStatement(t) ==
    /\ Running(t) /\ Statement(t)
    /\ UNCHANGED <<dbVars, flowVars>>

(* DELETE chooses the batches committed when it starts, and locks them; if   *)
(* somebody is rewriting them it waits, and the batches added since stay.    *)
DeleteItems(t) ==
    /\ At(t, "deleteItems")
    /\ doomed' = [doomed EXCEPT ![t] = items[OrderOf(t)]]
    /\ itemOwner' = [itemOwner EXCEPT ![OrderOf(t)] = IF @ = NoTx THEN t ELSE @]
    /\ Pop(t)
    /\ UNCHANGED <<stockVars, orders, rowOwner, items, payments, lock,
                   outcome, request, saw, wrote, paying, adding>>

AddItems(t) ==
    /\ At(t, "addItems") /\ itemOwner[OrderOf(t)] \in {NoTx, t}
    /\ itemOwner' = [itemOwner EXCEPT ![OrderOf(t)] = t]
    /\ adding' = [adding EXCEPT ![t] = {[by |-> t, qty |-> NewLines(request[t])]}]
    /\ Pop(t)
    /\ UNCHANGED <<stockVars, orders, rowOwner, items, payments, lock,
                   outcome, request, saw, wrote, paying, doomed>>

RowMatches(t) == orders[OrderOf(t)].status \in WriteWhere(request[t], saw[t])

WriteOrder(t) ==
    LET o == OrderOf(t) IN
    /\ At(t, "write") /\ rowOwner[o] = NoTx /\ RowMatches(t)
    /\ rowOwner' = [rowOwner EXCEPT ![o] = t]
    /\ wrote' = [wrote EXCEPT ![t] =
          {Written(request[t], saw[t], orders[o], paying[t] # {})}]
    /\ Pop(t)
    /\ UNCHANGED <<stockVars, orders, items, itemOwner, payments, lock,
                   outcome, request, saw, paying, doomed, adding>>

-----------------------------------------------------------------------------
(* The end of a request: row locks are dropped, and the finally block gives  *)
(* the Redis key back if it is still this request's (compare and delete).    *)
Leave(t) ==
    /\ plan' = [plan EXCEPT ![t] = << >>]
    /\ rowOwner' = [o \in Orders |-> IF rowOwner[o] = t THEN NoTx ELSE rowOwner[o]]
    /\ itemOwner' = [o \in Orders |-> IF itemOwner[o] = t THEN NoTx ELSE itemOwner[o]]
    /\ lock' = [o \in Orders |-> IF lock[o] = t THEN NoTx ELSE lock[o]]
    /\ wrote' = [wrote EXCEPT ![t] = {}]
    /\ paying' = [paying EXCEPT ![t] = {}]
    /\ adding' = [adding EXCEPT ![t] = {}]
    /\ doomed' = [doomed EXCEPT ![t] = {}]
    /\ UNCHANGED <<request, saw>>

Commit(t) ==
    /\ Running(t) /\ plan[t] = << >> /\ StockIdle(t)
    /\ IF status[t] = "open" THEN Finish(t) ELSE UNCHANGED stockVars
    /\ orders' = [o \in Orders |->
          IF rowOwner[o] = t THEN CHOOSE row \in wrote[t] : TRUE ELSE orders[o]]
    /\ items' = [o \in Orders |->
          IF itemOwner[o] = t THEN (items[o] \ doomed[t]) \union adding[t] ELSE items[o]]
    /\ payments' = {p \in payments : \A q \in paying[t] : q.key # p.key}
                     \union paying[t]
    /\ outcome' = [outcome EXCEPT ![t] = "committed"]
    /\ Leave(t)

Fail(t) ==
    /\ IF status[t] \in Live THEN Discard(t) ELSE UNCHANGED stockVars
    /\ outcome' = [outcome EXCEPT ![t] = "failed"]
    /\ Leave(t)
    /\ UNCHANGED <<orders, items, payments>>

(* A guard throws, an UPDATE matches no row, a unique key is taken (P2002,   *)
(* which the matcher reports as DUPLICATE), or the payment lock is held.     *)
Rejected(t) ==
    \/ At(t, "lock") /\ lock[OrderOf(t)] # NoTx
    \/ At(t, "peek") /\ ~Peekable(request[t])
    \/ At(t, "read") /\ ~Accepts(request[t], Seen(OrderOf(t)))
    \/ /\ At(t, "insert") /\ request[t].kind # "complete"
       /\ KeyTaken(PaymentRow(request[t], saw[t]).key)
    \/ At(t, "write") /\ ~RowMatches(t)
    \/ NoRowMatches(t)

Reject(t) == Running(t) /\ Rejected(t) /\ Fail(t)

(* A timeout, a deadlock victim, a lost connection. *)
Die(t) == Running(t) /\ Fail(t)

OrderInit ==
    /\ Init
    /\ \E shop \in InitShops :
          /\ base = shop.levels
          /\ orders = shop.orders
          /\ items = shop.items
          /\ payments = shop.payments
    /\ rowOwner = [o \in Orders |-> NoTx]
    /\ itemOwner = [o \in Orders |-> NoTx]
    /\ lock = [o \in Orders |-> NoTx]
    /\ outcome = [t \in Txs |-> "idle"]
    /\ request = [t \in Txs |-> NoRequest]
    /\ plan = [t \in Txs |-> << >>]
    /\ saw = [t \in Txs |-> NothingSeen]
    /\ wrote = [t \in Txs |-> {}]
    /\ paying = [t \in Txs |-> {}]
    /\ doomed = [t \in Txs |-> {}]
    /\ adding = [t \in Txs |-> {}]

OrderStep(t) ==
    \/ Peek(t) \/ TakeLock(t) \/ ReadOrder(t) \/ InsertPayment(t) \/ SkipCash(t)
    \/ MarkPayment(t) \/ CallStock(t) \/ StockStatement(t) \/ DeleteItems(t)
    \/ AddItems(t) \/ WriteOrder(t) \/ Commit(t) \/ Reject(t)

OrderNext ==
    \/ \E t \in Txs : (\E r \in Requests : Start(t, r)) \/ OrderStep(t) \/ Die(t)
    \/ \E o \in Orders : ExpireLock(o)

OrderSpec == OrderInit /\ [][OrderNext]_vars

-----------------------------------------------------------------------------
(* The type of the tables and of the requests. *)
OrderTypeOK ==
    /\ orders \in [Orders -> Row]
    /\ \A o \in Orders : \A b \in items[o] : b.qty \in [Variants -> Nat]
    /\ rowOwner \in [Orders -> Txs \union {NoTx}]
    /\ itemOwner \in [Orders -> Txs \union {NoTx}]
    /\ lock \in [Orders -> Txs \union {NoTx}]
    /\ \A p \in payments : p \in Payment(p.key)
    /\ outcome \in [Txs -> {"idle", "running", "committed", "failed"}]
    /\ request \in [Txs -> Requests \union {NoRequest}]

Sold == {"PAID", "SHIPPING", "COMPLETED"}
UnitsIn(v, statuses) ==
    SumFunction([o \in Orders |->
        IF orders[o].status \in statuses THEN ItemsOf(o)[v] ELSE 0])

(* The goods of an order leave the shelf exactly once, and come back when it *)
(* is cancelled: what is on the shelf plus what was sold is what came in.    *)
StockConserved ==
    \A v \in Variants : base[v].stock + UnitsIn(v, Sold) = Supply[v]

(* reservedQuantity is what the CONFIRMED orders hold, no more and no less:  *)
(* nothing is reserved twice, and no reservation outlives its order.         *)
ReservedMatchesOrders ==
    \A v \in Variants : base[v].reserved = UnitsIn(v, {"CONFIRMED"})

(* The payments credited to an order: a refund does not lower paidAmount. *)
Credits(o) == {p \in payments : /\ p.order = {o} /\ p.status = "SUCCESS"
                                /\ p.key[1] # "refund"}

(* paidAmount is the sum of the successful payments of the order: none is    *)
(* lost, credited twice, or credited to two orders.                          *)
PaidMatchesPayments ==
    \A o \in Orders :
        orders[o].paid =
            SumFunction([p \in Credits(o) |-> p.amount])

(* An order that says it is PAID has received at least its total. *)
PaidCoversTotal ==
    \A o \in Orders : orders[o].status = "PAID" => orders[o].paid >= orders[o].total

(* The total of an order is the price of the lines it holds. *)
TotalMatchesItems ==
    \A o \in Orders :
        orders[o].status # "ABSENT" => orders[o].total = Price(ItemsOf(o))

(* COMPLETED and CANCELLED are final. *)
TerminalStays ==
    [][\A o \in Orders : orders[o].status \in {"COMPLETED", "CANCELLED"} =>
          orders'[o].status = orders[o].status]_vars

(* The lines of an order change only while it is a draft. *)
OnlyDraftsChange ==
    [][\A o \in Orders :
          items'[o] # items[o] => orders[o].status \in {"ABSENT", "DRAFT"}]_vars

(* An order cancelled after it was paid leaves a refund of all it was paid. *)
RefundsWhatWasPaid ==
    [][\A o \in Orders :
          /\ orders[o].status # "CANCELLED" /\ orders'[o].status = "CANCELLED"
          /\ orders[o].paid > 0
          => \E p \in payments' : p.key = <<"refund", o>> /\ p.amount = -orders[o].paid]_vars

(* t's next statement waits for a lock that u holds. *)
WaitsFor(t, u) ==
    \/ \E v \in Variants : Waits(t, v) /\ owner[v] = u
    \/ At(t, "write") /\ RowMatches(t) /\ rowOwner[OrderOf(t)] = u
    \/ At(t, "addItems") /\ itemOwner[OrderOf(t)] = u /\ u # t
    \/ \E p \in paying[u] :
          /\ u # t
          /\ \/ At(t, "insert") /\ PaymentRow(request[t], saw[t]).key = p.key
             \/ At(t, "mark") /\ request[t].key = p.key

(* No 40P01: the database never has to break a cycle of waiting requests. *)
NoWaitCycle ==
    ~\E S \in SUBSET Txs : S # {} /\ \A t \in S : \E u \in S : WaitsFor(t, u)

(* Whatever the requests do to orders, they use the stock as StockMovement   *)
(* allows: its theorems hold of every order flow.                            *)
StockProtocol == Spec
=============================================================================
