--------------------------- MODULE StockMovement ---------------------------
(***************************************************************************)
(* The inventory of a workspace: the product_variants rows, the append-only *)
(* inventory_transactions ledger and the SQL statements with which          *)
(* StockMovementService moves stock, each inside a PostgreSQL READ          *)
(* COMMITTED transaction.                                                   *)
(*                                                                          *)
(* One transaction makes one stock call.  A statement that updates a row    *)
(* locks it until its transaction ends; a plain read never waits and sees   *)
(* the last committed version (or the transaction's own).  The SELECT and   *)
(* the ledger INSERT that follow an UPDATE of the same row are part of the  *)
(* step: nobody else can touch a locked row in between.  The read that      *)
(* releaseStock, restockStock and adjustStock make BEFORE their UPDATE is a *)
(* step of its own, since the row is not locked yet.                        *)
(*                                                                          *)
(* A definition said to be a slip is not part of the model: it is the       *)
(* definition that follows it with a plausible bug, kept to show that the   *)
(* properties would notice.                                                 *)
(***************************************************************************)
EXTENDS Integers, Sequences

CONSTANTS
    Variants,    \* variant ids, as integers in the order of localeCompare
    Txs,         \* database transactions
    NoTx,        \* "no transaction holds the row lock"
    Calls,       \* the stock calls a transaction may make
    InitLevels   \* the stock levels the shop may start with

OrderOps  == {"reserve", "commitReserved", "commitDirect", "release", "restock"}
AdjustOps == {"stockIn", "stockOut", "audit"}
Ops       == OrderOps \union AdjustOps
LateReadOps == {"reserve", "commitReserved", "commitDirect"}

Level == [stock : Int, reserved : Int]
Sound(l) == 0 <= l.reserved /\ l.reserved <= l.stock
Entry == [op : Ops, quantity : Int, prev : Level, new : Level]

ASSUME VariantsAssumption == Variants \subseteq Int
ASSUME NoTxAssumption == NoTx \notin Txs
ASSUME CallsAssumption ==
    \A c \in Calls :
        /\ c.op \in Ops
        /\ DOMAIN c.items \subseteq Variants
        /\ \A v \in DOMAIN c.items : c.items[v] \in Nat
        /\ c.op \in AdjustOps => \E v \in Variants : DOMAIN c.items = {v}
ASSUME InitLevelsAssumption ==
    \A ls \in InitLevels :
        /\ ls \in [Variants -> Level]
        /\ \A v \in Variants : Sound(ls[v])

VARIABLES
    base,     \* base[v]: the last committed version of the row of v
    level,    \* level[v]: its newest version, committed or not
    owner,    \* owner[v]: the transaction that holds the row lock
    ledger,   \* ledger[v]: the committed ledger rows of v, oldest first
    draft,    \* draft[v]: the ledger rows inserted by owner[v], uncommitted
    status,   \* status[t]: "new", "open", "read", "committed", "aborted"
    call,     \* call[t]: the stock call of t
    todo,     \* todo[t]: the variants whose UPDATE t has not yet run
    seen      \* seen[t]: the row as the read before the UPDATE returned it

stockVars == <<base, level, owner, ledger, draft, status, call, todo, seen>>

Live == {"open", "read"}
NoCall == [op |-> "none", items |-> << >>]

Init ==
    /\ base \in InitLevels
    /\ level = base
    /\ owner = [v \in Variants |-> NoTx]
    /\ ledger = [v \in Variants |-> << >>]
    /\ draft = [v \in Variants |-> << >>]
    /\ status = [t \in Txs |-> "new"]
    /\ call = [t \in Txs |-> NoCall]
    /\ todo = [t \in Txs |-> {}]
    /\ seen = [t \in Txs |-> [stock |-> 0, reserved |-> 0]]

-----------------------------------------------------------------------------
(* What a statement of t sees of the row of v. *)
View(t, v) == IF owner[v] = t THEN level[v] ELSE base[v]

(* Items are processed in ascending variant id; a quantity <= 0 is skipped. *)
Lines(c) == {v \in DOMAIN c.items : c.op \in AdjustOps \/ c.items[v] > 0}
CurrentUnsorted(t) == todo[t]  \* a slip: no sort by variantId
Current(t) == {v \in todo[t] : \A w \in todo[t] : v <= w}
Qty(t, v) == call[t].items[v]

(* A slip: the items of the call are processed under the one before it. *)
BeginUnderOldCall(t, c) ==
    /\ status[t] = "new"
    /\ status' = [status EXCEPT ![t] = "open"]
    /\ todo' = [todo EXCEPT ![t] = Lines(c)]
    /\ UNCHANGED <<base, level, owner, ledger, draft, call, seen>>

Begin(t, c) ==
    /\ status[t] = "new"
    /\ status' = [status EXCEPT ![t] = "open"]
    /\ call' = [call EXCEPT ![t] = c]
    /\ todo' = [todo EXCEPT ![t] = Lines(c)]
    /\ UNCHANGED <<base, level, owner, ledger, draft, seen>>

(* A slip: a reservation compares with the physical stock only. *)
AdmitsPhysical(op, l, q) ==
    CASE op \in {"reserve", "commitDirect"} -> l.stock >= q
      [] op = "commitReserved" -> l.stock >= q /\ l.reserved >= q
      [] op = "stockOut"       -> l.stock - q >= l.reserved
      [] op = "audit"          -> q >= l.reserved
      [] OTHER                 -> TRUE

(* The WHERE clause of the UPDATE that op runs with quantity q. *)
Admits(op, l, q) ==
    CASE op = "reserve"        -> l.stock - l.reserved >= q
      [] op = "commitReserved" -> l.stock >= q /\ l.reserved >= q
      [] op = "commitDirect"   -> l.stock - l.reserved >= q
      [] op = "stockOut"       -> l.stock - q >= l.reserved
      [] op = "audit"          -> q >= l.reserved
      [] OTHER                 -> TRUE

(* A slip: the UPDATE runs without its INSERT into the ledger. *)
UpdateRowUnlogged(t, v, new, prev, shown) ==
    /\ owner[v] \in {NoTx, t}
    /\ Admits(call[t].op, level[v], Qty(t, v))
    /\ owner' = [owner EXCEPT ![v] = t]
    /\ level' = [level EXCEPT ![v] = new]
    /\ todo' = [todo EXCEPT ![t] = @ \ {v}]
    /\ status' = [status EXCEPT ![t] = "open"]
    /\ UNCHANGED <<base, ledger, draft, call, seen>>

(* UPDATE one row, then INSERT its ledger row. *)
UpdateRow(t, v, new, prev, shown) ==
    /\ owner[v] \in {NoTx, t}
    /\ Admits(call[t].op, level[v], Qty(t, v))
    /\ owner' = [owner EXCEPT ![v] = t]
    /\ level' = [level EXCEPT ![v] = new]
    /\ draft' = [draft EXCEPT ![v] =
          Append(@, [op |-> call[t].op, quantity |-> Qty(t, v),
                     prev |-> prev, new |-> shown])]
    /\ todo' = [todo EXCEPT ![t] = @ \ {v}]
    /\ status' = [status EXCEPT ![t] = "open"]
    /\ UNCHANGED <<base, ledger, call, seen>>

(* reserveStock and commitStock read the row after the UPDATE. *)
Reserve(t, v) ==
    LET new == [level[v] EXCEPT !.reserved = @ + Qty(t, v)] IN
    /\ status[t] = "open" /\ v \in Current(t) /\ call[t].op = "reserve"
    /\ UpdateRow(t, v, new, [new EXCEPT !.reserved = @ - Qty(t, v)], new)

CommitReserved(t, v) ==
    LET new == [stock |-> level[v].stock - Qty(t, v),
                reserved |-> level[v].reserved - Qty(t, v)] IN
    /\ status[t] = "open" /\ v \in Current(t) /\ call[t].op = "commitReserved"
    /\ UpdateRow(t, v, new, [stock |-> new.stock + Qty(t, v),
                             reserved |-> new.reserved + Qty(t, v)], new)

CommitDirect(t, v) ==
    LET new == [level[v] EXCEPT !.stock = @ - Qty(t, v)] IN
    /\ status[t] = "open" /\ v \in Current(t) /\ call[t].op = "commitDirect"
    /\ UpdateRow(t, v, new, [new EXCEPT !.stock = @ + Qty(t, v)], new)

(* variantBefore = findFirst(...): no lock, the last committed version. *)
ReadBefore(t, v) ==
    /\ status[t] = "open" /\ v \in Current(t) /\ call[t].op \notin LateReadOps
    /\ status' = [status EXCEPT ![t] = "read"]
    /\ seen' = [seen EXCEPT ![t] = View(t, v)]
    /\ UNCHANGED <<base, level, owner, ledger, draft, call, todo>>

Less(r, q) == IF r >= q THEN r - q ELSE 0

(* The ledger row is computed from variantBefore, not from the new row. *)
Release(t, v) ==
    /\ status[t] = "read" /\ v \in Current(t) /\ call[t].op = "release"
    /\ UpdateRow(t, v, [level[v] EXCEPT !.reserved = Less(@, Qty(t, v))],
                 seen[t], [seen[t] EXCEPT !.reserved = Less(@, Qty(t, v))])

Restock(t, v) ==
    /\ status[t] = "read" /\ v \in Current(t) /\ call[t].op = "restock"
    /\ UpdateRow(t, v, [level[v] EXCEPT !.stock = @ + Qty(t, v)],
                 seen[t], [seen[t] EXCEPT !.stock = @ + Qty(t, v)])

(* adjustStock: previous values from before the UPDATE, new ones from after. *)
AdjustedStock(op, stock, q) ==
    CASE op = "stockIn"  -> stock + q
      [] op = "stockOut" -> stock - q
      [] OTHER           -> q

Adjust(t, v) ==
    LET new == [level[v] EXCEPT
                  !.stock = AdjustedStock(call[t].op, @, Qty(t, v))] IN
    /\ status[t] = "read" /\ v \in Current(t) /\ call[t].op \in AdjustOps
    /\ UpdateRow(t, v, new, seen[t], new)

Statement(t) ==
    \E v \in Variants :
        \/ Reserve(t, v) \/ CommitReserved(t, v) \/ CommitDirect(t, v)
        \/ ReadBefore(t, v) \/ Release(t, v) \/ Restock(t, v) \/ Adjust(t, v)

-----------------------------------------------------------------------------
(* COMMIT publishes the rows of t and its ledger rows, and drops its locks. *)
Publish(t) ==
    /\ status' = [status EXCEPT ![t] = "committed"]
    /\ base' = [v \in Variants |-> View(t, v)]
    /\ ledger' = [v \in Variants |->
          IF owner[v] = t THEN ledger[v] \o draft[v] ELSE ledger[v]]
    /\ draft' = [v \in Variants |-> IF owner[v] = t THEN << >> ELSE draft[v]]
    /\ owner' = [v \in Variants |-> IF owner[v] = t THEN NoTx ELSE owner[v]]
    /\ UNCHANGED <<level, call, todo, seen>>

(* ROLLBACK restores the committed rows and forgets the ledger rows. *)
Discard(t) ==
    /\ status' = [status EXCEPT ![t] = "aborted"]
    /\ level' = [v \in Variants |-> IF owner[v] = t THEN base[v] ELSE level[v]]
    /\ draft' = [v \in Variants |-> IF owner[v] = t THEN << >> ELSE draft[v]]
    /\ owner' = [v \in Variants |-> IF owner[v] = t THEN NoTx ELSE owner[v]]
    /\ todo' = [todo EXCEPT ![t] = {}]
    /\ UNCHANGED <<base, ledger, call, seen>>

Finish(t) ==
    /\ status[t] = "open" /\ todo[t] = {}
    /\ Publish(t)

(* An UPDATE that matches no row (count === 0) throws: the whole transaction *)
(* rolls back.  Its WHERE clause is evaluated on the committed version, so a *)
(* row locked by somebody else does not make the refusal wait.               *)
NoRowMatches(t) ==
    /\ status[t] \in Live
    /\ status[t] = "open" => call[t].op \in LateReadOps
    /\ \E v \in Current(t) : ~Admits(call[t].op, View(t, v), Qty(t, v))

Refuse(t) == NoRowMatches(t) /\ Discard(t)

(* A transaction may die at any time: lost connection, Prisma's 10 s timeout. *)
Abort(t) ==
    /\ status[t] \in Live
    /\ Discard(t)

Next ==
    \E t \in Txs :
        \/ \E c \in Calls : Begin(t, c)
        \/ Statement(t)
        \/ Finish(t)
        \/ Refuse(t)
        \/ Abort(t)

Spec == Init /\ [][Next]_stockVars

(* An awaited statement is answered, and its continuation is scheduled; that *)
(* a request arrives or a transaction dies is nobody's duty.                 *)
Fairness == \A t \in Txs : WF_stockVars(Statement(t) \/ Finish(t) \/ Refuse(t))
FairSpec == Spec /\ Fairness

-----------------------------------------------------------------------------
(* The type of the tables and of the transactions. *)
TypeOK ==
    /\ base \in [Variants -> Level]
    /\ level \in [Variants -> Level]
    /\ owner \in [Variants -> Txs \union {NoTx}]
    /\ ledger \in [Variants -> Seq(Entry)]
    /\ draft \in [Variants -> Seq(Entry)]
    /\ status \in [Txs -> {"new", "open", "read", "committed", "aborted"}]
    /\ call \in [Txs -> Calls \union {NoCall}]
    /\ \A t \in Txs : status[t] # "new" => call[t] \in Calls
    /\ todo \in [Txs -> SUBSET Variants]
    /\ seen \in [Txs -> Level]

(* No oversell: whatever the interleaving of reservations, sales, releases,  *)
(* adjustments and rollbacks, the committed row and every uncommitted one    *)
(* keep 0 <= reservedQuantity <= stockQuantity.                              *)
NoOversell == \A v \in Variants : Sound(base[v]) /\ Sound(level[v])

(* The next UPDATE of t needs the row of v and another transaction has it. *)
Waits(t, v) ==
    /\ status[t] \in Live
    /\ v \in Current(t)
    /\ owner[v] \notin {NoTx, t}

(* No 40P01: whoever waits for a transaction that waits itself waits on a    *)
(* smaller variant, so that no chain of waiting transactions closes.         *)
WaitsAscend ==
    \A t \in Txs, v \in Variants, w \in Variants :
        Waits(t, v) /\ owner[v] \in Txs /\ Waits(owner[v], w) => v < w

(* An uncommitted change is never seen by anyone but its transaction: a row  *)
(* nobody has locked is as committed, with no ledger row pending, and a lock *)
(* is held only by a transaction that still runs.                            *)
LocksCoverDrafts ==
    \A v \in Variants :
        /\ owner[v] = NoTx => level[v] = base[v] /\ draft[v] = << >>
        /\ owner[v] # NoTx => status[owner[v]] \in Live

(* Replays one ledger row, by its type and quantity. *)
Replay(l, e) ==
    CASE e.op = "reserve"        -> [l EXCEPT !.reserved = @ + e.quantity]
      [] e.op = "commitReserved" -> [stock |-> l.stock - e.quantity,
                                     reserved |-> l.reserved - e.quantity]
      [] e.op = "commitDirect"   -> [l EXCEPT !.stock = @ - e.quantity]
      [] e.op = "release"        -> [l EXCEPT !.reserved = Less(@, e.quantity)]
      [] e.op = "restock"        -> [l EXCEPT !.stock = @ + e.quantity]
      [] OTHER                   -> [l EXCEPT !.stock = AdjustedStock(e.op, @, e.quantity)]

(* The level that the ledger rows lead to from l, replayed oldest first. *)
Replayed(l, rows) ==
    LET after[n \in 0 .. Len(rows)] ==
            IF n = 0 THEN l ELSE Replay(after[n - 1], rows[n])
    IN  after[Len(rows)]

(* The ledger explains the stock: the committed rows are what the committed  *)
(* ledger, replayed in order from one of the initial levels, gives.          *)
LedgerReplays ==
    \E init \in InitLevels : \A v \in Variants :
        base[v] = Replayed(init[v], ledger[v])

(* Every stock call ends, refused or committed: nobody waits for ever for a  *)
(* row lock, without the help of a timeout.                                  *)
EveryCallEnds ==
    \A t \in Txs : status[t] \in Live ~> status[t] \in {"committed", "aborted"}
=============================================================================
