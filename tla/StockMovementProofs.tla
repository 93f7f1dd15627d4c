------------------------ MODULE StockMovementProofs ------------------------
(* Theorems about StockMovement, for any set of variants and transactions. *)
EXTENDS StockMovement, SequenceTheorems, WellFoundedInduction, TLAPS

(* A transaction locks the rows of a call in ascending order: what it holds *)
(* is below everything it still has to update.                              *)
LocksBelowTodo ==
    \A v \in Variants : owner[v] \in Txs => \A w \in todo[owner[v]] : v < w

(* Only a line of the call is ever processed. *)
TodoInCall == \A t \in Txs : todo[t] \subseteq DOMAIN call[t].items

IInv == TypeOK /\ NoOversell /\ LocksCoverDrafts /\ LocksBelowTodo /\ TodoInCall

USE VariantsAssumption, NoTxAssumption, CallsAssumption

-----------------------------------------------------------------------------
(* The line at hand is a line of a call: its quantity is a natural number. *)
LEMMA CurrentLine ==
    ASSUME IInv, NEW t \in Txs, NEW v \in Variants,
           status[t] \in Live, v \in Current(t)
    PROVE  call[t] \in Calls /\ Qty(t, v) \in Nat /\ call[t].op \in Ops
<1>1. call[t] \in Calls
  BY DEF IInv, TypeOK, Live
<1>2. v \in DOMAIN call[t].items
  BY DEF IInv, TodoInCall, Current
<1>3. QED
  BY <1>1, <1>2 DEF Qty

(* An UPDATE that leaves a sound row preserves the invariant, whatever the *)
(* ledger row says.                                                        *)
LEMMA UpdateRowPreserves ==
    ASSUME IInv, NEW t \in Txs, NEW v \in Variants,
           NEW new \in Level, NEW prev \in Level, NEW shown \in Level,
           Sound(new), status[t] \in Live, v \in Current(t),
           UpdateRow(t, v, new, prev, shown)
    PROVE  IInv'
<1>1. call[t] \in Calls /\ Qty(t, v) \in Nat /\ call[t].op \in Ops
  BY CurrentLine
<1>2. t # NoTx /\ status[t] # "new"
  BY DEF Live
<1>3. TypeOK'
  <2> DEFINE e == [op |-> call[t].op, quantity |-> Qty(t, v),
                   prev |-> prev, new |-> shown]
  <2>1. e \in Entry
    BY <1>1 DEF Entry
  <2>2. Append(draft[v], e) \in Seq(Entry)
    BY <2>1 DEF IInv, TypeOK
  <2>3. draft' \in [Variants -> Seq(Entry)]
    BY <2>2 DEF IInv, TypeOK, UpdateRow
  <2>4. status' \in [Txs -> {"new", "open", "read", "committed", "aborted"}]
    BY DEF IInv, TypeOK, UpdateRow
  <2>5. todo' \in [Txs -> SUBSET Variants]
    BY DEF IInv, TypeOK, UpdateRow
  <2>6. \A u \in Txs : status'[u] # "new" => call'[u] \in Calls
    BY <1>1 DEF IInv, TypeOK, UpdateRow
  <2>7. owner' \in [Variants -> Txs \union {NoTx}] /\ level' \in [Variants -> Level]
    BY DEF IInv, TypeOK, UpdateRow
  <2>8. QED
    BY <2>3, <2>4, <2>5, <2>6, <2>7 DEF IInv, TypeOK, UpdateRow
<1>4. NoOversell'
  BY DEF IInv, TypeOK, NoOversell, UpdateRow
<1>5. LocksCoverDrafts'
  BY <1>2 DEF IInv, TypeOK, LocksCoverDrafts, UpdateRow, Live
<1>6. LocksBelowTodo'
  <2> SUFFICES ASSUME NEW x \in Variants, owner'[x] \in Txs,
                      NEW w \in todo'[owner'[x]]
               PROVE  x < w
    BY DEF LocksBelowTodo
  <2>1. CASE x = v
    <3>1. owner'[x] = t /\ w \in todo[t] /\ w # v
      BY <2>1 DEF IInv, TypeOK, UpdateRow
    <3>2. v <= w /\ v \in Int /\ w \in Int
      BY <3>1 DEF IInv, TypeOK, Current
    <3>3. QED
      BY <2>1, <3>1, <3>2
  <2>2. CASE x # v
    BY <2>2 DEF IInv, TypeOK, LocksBelowTodo, UpdateRow
  <2>3. QED
    BY <2>1, <2>2
<1>7. TodoInCall'
  BY DEF IInv, TypeOK, TodoInCall, UpdateRow
<1>8. QED
  BY <1>3, <1>4, <1>5, <1>6, <1>7 DEF IInv

(* What a statement of t sees is a sound row. *)
LEMMA ViewSound ==
    ASSUME IInv, NEW t \in Txs, NEW v \in Variants
    PROVE  View(t, v) \in Level /\ Sound(View(t, v))
BY DEF IInv, TypeOK, NoOversell, View

(* COMMIT publishes rows that were sound already, and drops the locks. *)
LEMMA PublishPreserves ==
    ASSUME IInv, NEW t \in Txs, status[t] \in Live, todo[t] = {}, Publish(t)
    PROVE  IInv'
<1>1. base' \in [Variants -> Level] /\ \A v \in Variants : Sound(base'[v])
  BY ViewSound DEF Publish
<1>2. TypeOK'
  <2>1. \A v \in Variants : ledger[v] \o draft[v] \in Seq(Entry)
    BY ConcatProperties DEF IInv, TypeOK
  <2>2. ledger' \in [Variants -> Seq(Entry)]
    BY <2>1 DEF IInv, TypeOK, Publish
  <2>3. << >> \in Seq(Entry)
    BY EmptySeq
  <2>4. draft' \in [Variants -> Seq(Entry)]
    BY <2>3 DEF IInv, TypeOK, Publish
  <2>5. \A u \in Txs : status'[u] # "new" => call'[u] \in Calls
    BY DEF IInv, TypeOK, Publish, Live
  <2>6. QED
    BY <1>1, <2>2, <2>4, <2>5 DEF IInv, TypeOK, Publish
<1>3. NoOversell'
  BY <1>1 DEF IInv, NoOversell, Publish
<1>4. LocksCoverDrafts'
  BY DEF IInv, TypeOK, LocksCoverDrafts, Publish, View
<1>5. LocksBelowTodo' /\ TodoInCall'
  BY DEF IInv, TypeOK, LocksBelowTodo, TodoInCall, Publish
<1>6. QED
  BY <1>2, <1>3, <1>4, <1>5 DEF IInv

(* ROLLBACK goes back to committed rows, which are sound. *)
LEMMA DiscardPreserves ==
    ASSUME IInv, NEW t \in Txs, status[t] \in Live, Discard(t)
    PROVE  IInv'
<1>1. TypeOK'
  <2>1. << >> \in Seq(Entry)
    BY EmptySeq
  <2>2. draft' \in [Variants -> Seq(Entry)]
    BY <2>1 DEF IInv, TypeOK, Discard
  <2>3. \A u \in Txs : status'[u] # "new" => call'[u] \in Calls
    BY DEF IInv, TypeOK, Discard, Live
  <2>4. QED
    BY <2>2, <2>3 DEF IInv, TypeOK, Discard
<1>2. NoOversell'
  BY DEF IInv, TypeOK, NoOversell, Discard
<1>3. LocksCoverDrafts'
  BY DEF IInv, TypeOK, LocksCoverDrafts, Discard
<1>4. LocksBelowTodo' /\ TodoInCall'
  BY DEF IInv, TypeOK, LocksBelowTodo, TodoInCall, Discard
<1>5. QED
  BY <1>1, <1>2, <1>3, <1>4 DEF IInv

(* A call starts without a lock. *)
LEMMA BeginPreserves ==
    ASSUME IInv, NEW t \in Txs, NEW c \in Calls, Begin(t, c)
    PROVE  IInv'
<1>1. Lines(c) \subseteq DOMAIN c.items /\ Lines(c) \subseteq Variants
  BY DEF Lines
<1>2. \A v \in Variants : owner[v] # t
  BY DEF IInv, TypeOK, LocksCoverDrafts, Begin, Live
<1>3. TypeOK'
  BY <1>1 DEF IInv, TypeOK, Begin
<1>4. NoOversell' /\ LocksCoverDrafts'
  BY <1>2 DEF IInv, TypeOK, NoOversell, LocksCoverDrafts, Begin
<1>5. LocksBelowTodo' /\ TodoInCall'
  BY <1>1, <1>2 DEF IInv, TypeOK, LocksBelowTodo, TodoInCall, Begin
<1>6. QED
  BY <1>3, <1>4, <1>5 DEF IInv

(* The WHERE clause of each statement keeps its row sound; the sort keeps the locks below. *)
LEMMA StatementPreserves ==
    ASSUME IInv, NEW t \in Txs, Statement(t)
    PROVE  IInv'
<1> PICK v \in Variants :
        \/ Reserve(t, v) \/ CommitReserved(t, v) \/ CommitDirect(t, v)
        \/ ReadBefore(t, v) \/ Release(t, v) \/ Restock(t, v) \/ Adjust(t, v)
  BY DEF Statement
<1>1. status[t] \in Live /\ v \in Current(t)
  BY DEF Live, Reserve, CommitReserved, CommitDirect, ReadBefore, Release,
         Restock, Adjust
<1>2. Qty(t, v) \in Nat /\ call[t].op \in Ops
  BY <1>1, CurrentLine
<1>3. level[v] \in Level /\ Sound(level[v]) /\ seen[t] \in Level
  BY DEF IInv, TypeOK, NoOversell
<1> DEFINE q == Qty(t, v)
<1>4. CASE Reserve(t, v)
  <2> DEFINE new == [level[v] EXCEPT !.reserved = @ + q]
             prev == [new EXCEPT !.reserved = @ - q]
  <2>1. new \in Level /\ prev \in Level
    <3>1. new \in Level
      BY <1>2, <1>3 DEF Level
    <3> HIDE DEF new
    <3>2. prev \in Level
      BY <1>2, <3>1 DEF Level
    <3>3. QED
      BY <3>1, <3>2
  <2>2. Sound(new)
    BY <1>2, <1>3, <1>4 DEF Level, Sound, Reserve, UpdateRow, Admits
  <2>3. QED
    BY <1>1, <1>4, <2>1, <2>2, UpdateRowPreserves DEF Reserve
<1>5. CASE CommitReserved(t, v)
  <2> DEFINE new == [stock |-> level[v].stock - q, reserved |-> level[v].reserved - q]
             prev == [stock |-> new.stock + q, reserved |-> new.reserved + q]
  <2>1. new \in Level /\ prev \in Level
    BY <1>2, <1>3 DEF Level
  <2>2. Sound(new)
    BY <1>2, <1>3, <1>5 DEF Level, Sound, CommitReserved, UpdateRow, Admits
  <2>3. QED
    BY <1>1, <1>5, <2>1, <2>2, UpdateRowPreserves DEF CommitReserved
<1>6. CASE CommitDirect(t, v)
  <2> DEFINE new == [level[v] EXCEPT !.stock = @ - q]
             prev == [new EXCEPT !.stock = @ + q]
  <2>1. new \in Level /\ prev \in Level
    <3>1. new \in Level
      BY <1>2, <1>3 DEF Level
    <3> HIDE DEF new
    <3>2. prev \in Level
      BY <1>2, <3>1 DEF Level
    <3>3. QED
      BY <3>1, <3>2
  <2>2. Sound(new)
    BY <1>2, <1>3, <1>6 DEF Level, Sound, CommitDirect, UpdateRow, Admits
  <2>3. QED
    BY <1>1, <1>6, <2>1, <2>2, UpdateRowPreserves DEF CommitDirect
<1>7. CASE ReadBefore(t, v)
  <2>1. View(t, v) \in Level
    BY ViewSound
  <2>2. TypeOK'
    BY <1>7, <2>1 DEF IInv, TypeOK, ReadBefore
  <2>3. QED
    BY <1>7, <2>2 DEF IInv, TypeOK, NoOversell, LocksCoverDrafts,
                      LocksBelowTodo, TodoInCall, ReadBefore, Live
<1>8. CASE Release(t, v)
  <2> DEFINE new == [level[v] EXCEPT !.reserved = Less(@, q)]
             shown == [seen[t] EXCEPT !.reserved = Less(@, q)]
  <2>1. new \in Level /\ shown \in Level
    BY <1>2, <1>3 DEF Level, Less
  <2>2. Sound(new)
    BY <1>2, <1>3 DEF Level, Sound, Less
  <2>3. QED
    BY <1>1, <1>3, <1>8, <2>1, <2>2, UpdateRowPreserves DEF Release
<1>9. CASE Restock(t, v)
  <2> DEFINE new == [level[v] EXCEPT !.stock = @ + q]
             shown == [seen[t] EXCEPT !.stock = @ + q]
  <2>1. new \in Level /\ shown \in Level
    BY <1>2, <1>3 DEF Level
  <2>2. Sound(new)
    BY <1>2, <1>3 DEF Level, Sound
  <2>3. QED
    BY <1>1, <1>3, <1>9, <2>1, <2>2, UpdateRowPreserves DEF Restock
<1>10. CASE Adjust(t, v)
  <2> DEFINE new == [level[v] EXCEPT !.stock = AdjustedStock(call[t].op, @, q)]
  <2>1. new \in Level
    BY <1>2, <1>3 DEF Level, AdjustedStock
  <2>2. Sound(new)
    BY <1>2, <1>3, <1>10 DEF Level, Sound, Adjust, AdjustedStock, AdjustOps,
                             UpdateRow, Admits
  <2>3. QED
    BY <1>1, <1>3, <1>10, <2>1, <2>2, UpdateRowPreserves DEF Adjust
<1>11. QED
  BY <1>4, <1>5, <1>6, <1>7, <1>8, <1>9, <1>10

-----------------------------------------------------------------------------
(* The shop starts sound, with nobody running. *)
LEMMA InitInvariant == Init => IInv
<1> SUFFICES ASSUME Init PROVE IInv
  OBVIOUS
<1>1. base \in [Variants -> Level] /\ \A v \in Variants : Sound(base[v])
  BY InitLevelsAssumption DEF Init
<1>2. << >> \in Seq(Entry)
  BY EmptySeq
<1>3. TypeOK
  BY <1>1, <1>2 DEF Init, TypeOK, Level
<1>4. QED
  BY <1>1, <1>3 DEF Init, IInv, NoOversell, LocksCoverDrafts, LocksBelowTodo,
                    TodoInCall, NoCall

(* One case for each step of a transaction. *)
LEMMA NextInvariant == IInv /\ [Next]_stockVars => IInv'
<1> SUFFICES ASSUME IInv, [Next]_stockVars PROVE IInv'
  OBVIOUS
<1>1. CASE UNCHANGED stockVars
  BY <1>1 DEF stockVars, IInv, TypeOK, NoOversell, LocksCoverDrafts,
              LocksBelowTodo, TodoInCall
<1>2. CASE Next
  <2> PICK t \in Txs :
          \/ \E c \in Calls : Begin(t, c)
          \/ Statement(t) \/ Finish(t) \/ Refuse(t) \/ Abort(t)
    BY <1>2 DEF Next
  <2>1. CASE \E c \in Calls : Begin(t, c)
    BY <2>1, BeginPreserves
  <2>2. CASE Statement(t)
    BY <2>2, StatementPreserves
  <2>3. CASE Finish(t)
    BY <2>3, PublishPreserves DEF Finish, Live
  <2>4. CASE Refuse(t) \/ Abort(t)
    BY <2>4, DiscardPreserves DEF Refuse, NoRowMatches, Abort
  <2>5. QED
    BY <2>1, <2>2, <2>3, <2>4
<1>3. QED
  BY <1>1, <1>2

(* The strengthened invariant of the stock calls, of which the theorems below *)
(* are parts or consequences.                                                *)
THEOREM Invariance == Spec => []IInv
BY InitInvariant, NextInvariant, PTL DEF Spec

(* Every variable keeps its type: the counters stay integers, the ledgers    *)
(* sequences of well-formed rows, whatever calls run together.               *)
THEOREM TypeCorrect == Spec => []TypeOK
<1>1. IInv => TypeOK
  BY DEF IInv
<1>2. QED
  BY <1>1, Invariance, PTL

(* No oversell, for any number of variants and transactions: reserved stock  *)
(* is never negative and never exceeds the physical stock, committed or not. *)
THEOREM NeverOversells == Spec => []NoOversell
<1>1. IInv => NoOversell
  BY DEF IInv
<1>2. QED
  BY <1>1, Invariance, PTL

(* Isolation: a row nobody has locked is as committed, and a dead            *)
(* transaction holds no lock and leaves no ledger row behind.                *)
THEOREM LocksAreSound == Spec => []LocksCoverDrafts
<1>1. IInv => LocksCoverDrafts
  BY DEF IInv
<1>2. QED
  BY <1>1, Invariance, PTL

(* The sort by variantId prevents 40P01: waiting transactions ascend. *)
THEOREM NoStockDeadlock == Spec => []WaitsAscend
<1>1. IInv => WaitsAscend
  <2> SUFFICES ASSUME IInv, NEW t \in Txs, NEW v \in Variants, NEW w \in Variants,
                      Waits(t, v), owner[v] \in Txs, Waits(owner[v], w)
               PROVE  v < w
    BY DEF WaitsAscend
  <2>1. w \in todo[owner[v]]
    BY DEF Waits, Current
  <2>2. QED
    BY <2>1 DEF IInv, LocksBelowTodo
<1>2. QED
  BY <1>1, Invariance, PTL

-----------------------------------------------------------------------------
(* Induction over the naturals, for a set instead of a predicate: a least    *)
(* natural outside of the set would have a predecessor in it.                *)
LEMMA NatSetInduction ==
    ASSUME NEW P, 0 \in P, \A n \in P \cap Nat : n + 1 \in P
    PROVE  Nat \subseteq P
<1> DEFINE R == OpToRel(<, Nat)
           T == Nat \ P
<1>1. SUFFICES ASSUME T # {} PROVE FALSE
  OBVIOUS
<1>2. IsWellFoundedOn(R, Nat)
  BY NatLessThanWellFounded
<1>3. \A x, y \in Nat : y < x => <<y, x>> \in R
  BY DEF OpToRel
<1> HIDE DEF R
<1>4. PICK x \in T : \A y \in T : ~ (<<y, x>> \in R)
  <2>1. T \subseteq Nat
    OBVIOUS
  <2>2. QED
    BY <1>1, <1>2, <2>1, WFMin
<1>5. x \in Nat /\ x # 0
  OBVIOUS
<1>6. x - 1 \in Nat /\ x - 1 < x
  BY <1>5
<1>7. x - 1 \in P
  BY <1>3, <1>4, <1>5, <1>6
<1>8. PICK y \in P \cap Nat : y = x - 1
  BY <1>6, <1>7
<1>9. y + 1 \in P
  OBVIOUS
<1>10. QED
  BY <1>5, <1>8, <1>9

(* after is the sequence of levels that the rows lead through from l. *)
Replays(after, l, rows) ==
    after = [n \in 0 .. Len(rows) |->
               IF n = 0 THEN l ELSE Replay(after[n - 1], rows[n])]

(* Whatever a ledger row says, replaying it on a row gives a row. *)
LEMMA ReplayType ==
    ASSUME NEW l \in Level, NEW e \in Entry
    PROVE  Replay(l, e) \in Level
BY DEF Replay, Level, Entry, Less, AdjustedStock, Ops, OrderOps, AdjustOps

(* Replayed is defined: its recursion has a solution. *)
LEMMA ReplayExists ==
    ASSUME NEW l \in Level, NEW rows \in Seq(Entry)
    PROVE  \E after \in [0 .. Len(rows) -> Level] : Replays(after, l, rows)
<1> DEFINE N == Len(rows)
           Good(g, k) == \A n \in 0 .. N : n <= k =>
                            g[n] = IF n = 0 THEN l ELSE Replay(g[n - 1], rows[n])
           P == {k \in Nat : \E g \in [0 .. N -> Level] : Good(g, k)}
<1>1. N \in Nat /\ \A n \in 1 .. N : rows[n] \in Entry
  BY ElementOfSeq
<1>2. 0 \in P
  <2> DEFINE g == [n \in 0 .. N |-> l]
  <2>1. g \in [0 .. N -> Level] /\ Good(g, 0)
    BY <1>1
  <2>2. QED
    BY <2>1
<1>3. ASSUME NEW k \in P \cap Nat PROVE k + 1 \in P
  <2>1. PICK g \in [0 .. N -> Level] : Good(g, k)
    OBVIOUS
  <2> DEFINE h == [n \in 0 .. N |-> IF n = 0 THEN l ELSE Replay(g[n - 1], rows[n])]
  <2>2. h \in [0 .. N -> Level]
    <3>1. ASSUME NEW n \in 0 .. N PROVE h[n] \in Level
      <4>1. CASE n = 0
        BY <4>1
      <4>2. CASE n # 0
        <5>1. n \in 1 .. N /\ n - 1 \in 0 .. N
          BY <1>1, <4>2
        <5>2. g[n - 1] \in Level /\ rows[n] \in Entry
          BY <1>1, <5>1
        <5>3. Replay(g[n - 1], rows[n]) \in Level
          BY <5>2, ReplayType
        <5>4. QED
          BY <4>2, <5>3
      <4>3. QED
        BY <4>1, <4>2
    <3>2. QED
      BY <3>1
  <2>3. \A n \in 0 .. N : n <= k => h[n] = g[n]
    BY <2>1
  <2>4. Good(h, k + 1)
    <3> SUFFICES ASSUME NEW n \in 0 .. N, n <= k + 1, n # 0
                 PROVE  h[n] = Replay(h[n - 1], rows[n])
      OBVIOUS
    <3>1. n - 1 \in 0 .. N /\ n - 1 <= k
      BY <1>1
    <3>2. h[n - 1] = g[n - 1]
      BY <2>3, <3>1
    <3>3. QED
      BY <3>2
  <2> HIDE DEF h
  <2>5. \E x \in [0 .. N -> Level] : Good(x, k + 1)
    BY <2>2, <2>4
  <2> HIDE DEF Good
  <2>6. QED
    BY <2>5
<1> HIDE DEF P
<1>4. Nat \subseteq P
  BY <1>2, <1>3, NatSetInduction
<1>5. PICK g \in [0 .. N -> Level] : Good(g, N)
  BY <1>1, <1>4 DEF P
<1>6. g = [n \in 0 .. N |-> IF n = 0 THEN l ELSE Replay(g[n - 1], rows[n])]
  <2>1. \A n \in 0 .. N : g[n] = IF n = 0 THEN l ELSE Replay(g[n - 1], rows[n])
    BY <1>1, <1>5
  <2>2. g = [n \in 0 .. N |-> g[n]]
    OBVIOUS
  <2>3. QED
    BY <2>1, <2>2
<1>7. QED
  BY <1>6 DEF Replays

(* Any solution of the recursion gives Replayed. *)
LEMMA ReplayedUnique ==
    ASSUME NEW l \in Level, NEW rows \in Seq(Entry), NEW g, NEW m \in 0 .. Len(rows),
           g[0] = l, \A n \in 1 .. m : g[n] = Replay(g[n - 1], rows[n])
    PROVE  \A after : Replays(after, l, rows) => after[m] = g[m]
<1> SUFFICES ASSUME NEW after, Replays(after, l, rows) PROVE after[m] = g[m]
  OBVIOUS
<1> DEFINE P == {n \in Nat : n <= m => after[n] = g[n]}
<1>1. Len(rows) \in Nat
  OBVIOUS
<1>2. \A n \in 0 .. Len(rows) :
        after[n] = IF n = 0 THEN l ELSE Replay(after[n - 1], rows[n])
  BY DEF Replays
<1>3. 0 \in P
  BY <1>1, <1>2
<1>4. ASSUME NEW n \in P \cap Nat PROVE n + 1 \in P
  <2>1. SUFFICES ASSUME n + 1 <= m PROVE after[n + 1] = g[n + 1]
    OBVIOUS
  <2>2. n + 1 \in 1 .. m /\ n + 1 \in 0 .. Len(rows) /\ (n + 1) - 1 = n
    BY <1>1, <2>1
  <2>3. after[n + 1] = Replay(after[n], rows[n + 1])
    BY <1>2, <2>2
  <2>4. g[n + 1] = Replay(g[n], rows[n + 1])
    BY <2>2
  <2>5. after[n] = g[n]
    BY <2>1
  <2>6. QED
    BY <2>3, <2>4, <2>5
<1> HIDE DEF P
<1>5. Nat \subseteq P
  BY <1>3, <1>4, NatSetInduction
<1>6. QED
  BY <1>5 DEF P

(* Replayed is the last level of any solution. *)
LEMMA ReplayedIs ==
    ASSUME NEW l \in Level, NEW rows \in Seq(Entry), NEW after, Replays(after, l, rows)
    PROVE  Replayed(l, rows) = after[Len(rows)]
<1> DEFINE chosen == CHOOSE g : Replays(g, l, rows)
<1>1. Replays(chosen, l, rows)
  OBVIOUS
<1>2. Replayed(l, rows) = chosen[Len(rows)]
  BY DEF Replayed, Replays
<1> HIDE DEF chosen
<1>3. Len(rows) \in 0 .. Len(rows)
  OBVIOUS
<1>4. chosen[0] = l /\ \A n \in 1 .. Len(rows) : chosen[n] = Replay(chosen[n - 1], rows[n])
  BY <1>1 DEF Replays
<1>5. QED
  BY <1>2, <1>3, <1>4, ReplayedUnique

(* No ledger row, no change. *)
LEMMA ReplayedNone ==
    ASSUME NEW l \in Level
    PROVE  Replayed(l, << >>) = l
<1>1. << >> \in Seq(Entry) /\ Len(<< >>) = 0
  BY EmptySeq
<1>2. PICK after : Replays(after, l, << >>)
  BY <1>1, ReplayExists
<1>3. after[0] = l
  BY <1>1, <1>2 DEF Replays
<1>4. QED
  BY <1>1, <1>2, <1>3, ReplayedIs

(* One more ledger row, one more step of the replay. *)
LEMMA ReplayedAppend ==
    ASSUME NEW l \in Level, NEW rows \in Seq(Entry), NEW e \in Entry
    PROVE  Replayed(l, Append(rows, e)) = Replay(Replayed(l, rows), e)
<1> DEFINE more == Append(rows, e)
           N == Len(rows)
<1>1. /\ more \in Seq(Entry) /\ Len(more) = N + 1 /\ N \in Nat
      /\ \A n \in 1 .. N : more[n] = rows[n]
      /\ more[N + 1] = e
  OBVIOUS
<1>2. PICK g : Replays(g, l, more)
  BY <1>1, ReplayExists
<1> HIDE DEF more
<1>3. \A n \in 0 .. N + 1 : g[n] = IF n = 0 THEN l ELSE Replay(g[n - 1], more[n])
  BY <1>1, <1>2 DEF Replays
<1>4. g[0] = l /\ \A n \in 1 .. N : g[n] = Replay(g[n - 1], rows[n])
  BY <1>1, <1>3
<1>5. Replayed(l, rows) = g[N]
  <2>1. PICK after : Replays(after, l, rows)
    BY ReplayExists
  <2>2. after[N] = g[N]
    BY <1>1, <1>4, <2>1, ReplayedUnique
  <2>3. QED
    BY <2>1, <2>2, ReplayedIs
<1>6. Replayed(l, more) = g[N + 1]
  BY <1>1, <1>2, ReplayedIs
<1>7. g[N + 1] = Replay(g[N], e)
  BY <1>1, <1>3
<1>8. QED
  BY <1>5, <1>6, <1>7 DEF more

-----------------------------------------------------------------------------
(* A row appended to the second of two sequences is appended to both. *)
LEMMA ConcatAppend ==
    ASSUME NEW S, NEW first \in Seq(S), NEW second \in Seq(S), NEW e \in S
    PROVE  first \o Append(second, e) = Append(first \o second, e)
<1>1. <<e>> \in Seq(S)
  OBVIOUS
<1>2. Append(second, e) = second \o <<e>>
  BY AppendIsConcat, Zenon
<1>3. first \o second \in Seq(S)
  BY ConcatProperties, Zenon
<1>4. Append(first \o second, e) = (first \o second) \o <<e>>
  BY <1>3, AppendIsConcat, Zenon
<1>5. (first \o second) \o <<e>> = first \o (second \o <<e>>)
  BY <1>1, ConcatAssociative
<1>6. QED
  BY <1>2, <1>4, <1>5

(* From one of the initial levels the committed ledger leads to the committed *)
(* rows, and with the drafts of whoever holds a row to its newest version.    *)
LedgerExplains(init) ==
    \A v \in Variants :
        /\ base[v] = Replayed(init[v], ledger[v])
        /\ level[v] = Replayed(init[v], ledger[v] \o draft[v])

(* The ledger row an UPDATE inserts says what the UPDATE did. *)
LEMMA RowSaysUpdate ==
    ASSUME IInv, NEW t \in Txs, NEW v \in Variants,
           \/ Reserve(t, v) \/ CommitReserved(t, v) \/ CommitDirect(t, v)
           \/ Release(t, v) \/ Restock(t, v) \/ Adjust(t, v)
    PROVE  \E e \in Entry :
              /\ e.op = call[t].op /\ e.quantity = Qty(t, v)
              /\ UNCHANGED <<base, ledger>>
              /\ level' = [level EXCEPT ![v] = Replay(level[v], e)]
              /\ draft' = [draft EXCEPT ![v] = Append(@, e)]
<1>1. status[t] \in Live /\ v \in Current(t)
  BY DEF Live, Reserve, CommitReserved, CommitDirect, Release, Restock, Adjust
<1>2. Qty(t, v) \in Nat /\ call[t].op \in Ops
  BY <1>1, CurrentLine
<1>3. level[v] \in Level /\ seen[t] \in Level
  BY DEF IInv, TypeOK
<1> DEFINE q == Qty(t, v)
           row(prev, shown) == [op |-> call[t].op, quantity |-> q,
                                prev |-> prev, new |-> shown]
<1>4. \A prev, shown \in Level : row(prev, shown) \in Entry
  BY <1>2 DEF Entry
<1>5. ASSUME NEW new, NEW prev \in Level, NEW shown \in Level,
             UpdateRow(t, v, new, prev, shown), new = Replay(level[v], row(prev, shown))
      PROVE  \E e \in Entry :
                /\ e.op = call[t].op /\ e.quantity = q
                /\ UNCHANGED <<base, ledger>>
                /\ level' = [level EXCEPT ![v] = Replay(level[v], e)]
                /\ draft' = [draft EXCEPT ![v] = Append(@, e)]
  <2>1. /\ row(prev, shown).op = call[t].op /\ row(prev, shown).quantity = q
        /\ UNCHANGED <<base, ledger>>
        /\ level' = [level EXCEPT ![v] = Replay(level[v], row(prev, shown))]
        /\ draft' = [draft EXCEPT ![v] = Append(@, row(prev, shown))]
    BY <1>5 DEF UpdateRow
  <2>2. row(prev, shown) \in Entry
    BY <1>4
  <2> HIDE DEF row
  <2>3. QED
    BY <2>1, <2>2
<1>6. CASE Reserve(t, v)
  <2> DEFINE new == [level[v] EXCEPT !.reserved = @ + q]
             prev == [new EXCEPT !.reserved = @ - q]
  <2>1. new \in Level
    BY <1>2, <1>3 DEF Level
  <2>2. prev \in Level
    <3> HIDE DEF new
    <3>1. QED
      BY <1>2, <2>1 DEF Level
  <2>3. UpdateRow(t, v, new, prev, new) /\ call[t].op = "reserve"
    BY <1>6 DEF Reserve
  <2>4. new = Replay(level[v], row(prev, new))
    BY <2>3 DEF Replay
  <2> HIDE DEF new, prev, row
  <2>5. QED
    BY <1>5, <2>1, <2>2, <2>3, <2>4
<1>7. CASE CommitReserved(t, v)
  <2> DEFINE new == [stock |-> level[v].stock - q, reserved |-> level[v].reserved - q]
             prev == [stock |-> new.stock + q, reserved |-> new.reserved + q]
  <2>1. new \in Level /\ prev \in Level
    BY <1>2, <1>3 DEF Level
  <2>2. UpdateRow(t, v, new, prev, new) /\ call[t].op = "commitReserved"
    BY <1>7 DEF CommitReserved
  <2>3. new = Replay(level[v], row(prev, new))
    BY <2>2 DEF Replay
  <2> HIDE DEF new, prev, row
  <2>4. QED
    BY <1>5, <2>1, <2>2, <2>3
<1>8. CASE CommitDirect(t, v)
  <2> DEFINE new == [level[v] EXCEPT !.stock = @ - q]
             prev == [new EXCEPT !.stock = @ + q]
  <2>1. new \in Level
    BY <1>2, <1>3 DEF Level
  <2>2. prev \in Level
    <3> HIDE DEF new
    <3>1. QED
      BY <1>2, <2>1 DEF Level
  <2>3. UpdateRow(t, v, new, prev, new) /\ call[t].op = "commitDirect"
    BY <1>8 DEF CommitDirect
  <2>4. new = Replay(level[v], row(prev, new))
    BY <2>3 DEF Replay
  <2> HIDE DEF new, prev, row
  <2>5. QED
    BY <1>5, <2>1, <2>2, <2>3, <2>4
<1>9. CASE Release(t, v)
  <2> DEFINE new == [level[v] EXCEPT !.reserved = Less(@, q)]
             shown == [seen[t] EXCEPT !.reserved = Less(@, q)]
  <2>1. shown \in Level
    BY <1>2, <1>3 DEF Level, Less
  <2>2. UpdateRow(t, v, new, seen[t], shown) /\ call[t].op = "release"
    BY <1>9 DEF Release
  <2>3. new = Replay(level[v], row(seen[t], shown))
    BY <2>2 DEF Replay
  <2> HIDE DEF new, shown, row
  <2>4. QED
    BY <1>3, <1>5, <2>1, <2>2, <2>3
<1>10. CASE Restock(t, v)
  <2> DEFINE new == [level[v] EXCEPT !.stock = @ + q]
             shown == [seen[t] EXCEPT !.stock = @ + q]
  <2>1. shown \in Level
    BY <1>2, <1>3 DEF Level
  <2>2. UpdateRow(t, v, new, seen[t], shown) /\ call[t].op = "restock"
    BY <1>10 DEF Restock
  <2>3. new = Replay(level[v], row(seen[t], shown))
    BY <2>2 DEF Replay
  <2> HIDE DEF new, shown, row
  <2>4. QED
    BY <1>3, <1>5, <2>1, <2>2, <2>3
<1>11. CASE Adjust(t, v)
  <2> DEFINE new == [level[v] EXCEPT !.stock = AdjustedStock(call[t].op, @, q)]
  <2>1. new \in Level
    BY <1>2, <1>3 DEF Level, AdjustedStock
  <2>2. UpdateRow(t, v, new, seen[t], new) /\ call[t].op \in AdjustOps
    BY <1>11 DEF Adjust
  <2>3. new = Replay(level[v], row(seen[t], new))
    BY <2>2 DEF Replay, AdjustOps
  <2> HIDE DEF new, row
  <2>4. QED
    BY <1>3, <1>5, <2>1, <2>2, <2>3
<1>12. QED
  BY <1>6, <1>7, <1>8, <1>9, <1>10, <1>11

(* Every statement, COMMIT and ROLLBACK keeps rows and ledger together. *)
LEMMA LedgerExplainsStep ==
    ASSUME NEW init \in [Variants -> Level], IInv, LedgerExplains(init), [Next]_stockVars
    PROVE  LedgerExplains(init)'
<1>1. ASSUME UNCHANGED <<base, level, ledger, draft>>
      PROVE  LedgerExplains(init)'
  BY <1>1 DEF LedgerExplains
<1>2. ASSUME NEW v \in Variants, NEW e \in Entry,
             UNCHANGED <<base, ledger>>,
             level' = [level EXCEPT ![v] = Replay(level[v], e)],
             draft' = [draft EXCEPT ![v] = Append(@, e)]
      PROVE  LedgerExplains(init)'
  <2>1. ledger[v] \in Seq(Entry) /\ draft[v] \in Seq(Entry) /\ v \in DOMAIN level
        /\ v \in DOMAIN draft
    BY DEF IInv, TypeOK
  <2>2. ledger[v] \o Append(draft[v], e) = Append(ledger[v] \o draft[v], e)
    <3> DEFINE S == Entry
               first == ledger[v]
               second == draft[v]
    <3>1. first \in Seq(S) /\ second \in Seq(S) /\ e \in S
      BY <2>1
    <3> HIDE DEF S, first, second
    <3>2. first \o Append(second, e) = Append(first \o second, e)
      BY <3>1, ConcatAppend
    <3>3. QED
      BY <3>2 DEF first, second
  <2>3. ledger[v] \o draft[v] \in Seq(Entry)
    BY <2>1, ConcatProperties
  <2>4. Replayed(init[v], Append(ledger[v] \o draft[v], e))
          = Replay(Replayed(init[v], ledger[v] \o draft[v]), e)
    BY <2>3, ReplayedAppend
  <2>5. level'[v] = Replayed(init[v], ledger'[v] \o draft'[v])
    BY <1>2, <2>1, <2>2, <2>4 DEF LedgerExplains
  <2>6. \A w \in Variants \ {v} : level'[w] = level[w] /\ draft'[w] = draft[w]
    BY <1>2
  <2>7. QED
    BY <1>2, <2>5, <2>6 DEF LedgerExplains
<1>3. \A v \in Variants : ledger[v] \in Seq(Entry) /\ draft[v] \in Seq(Entry)
  BY DEF IInv, TypeOK
<1>4. \A v \in Variants : /\ ledger[v] \o << >> = ledger[v]
                          /\ (ledger[v] \o draft[v]) \o << >> = ledger[v] \o draft[v]
  BY <1>3, ConcatEmptySeq, ConcatProperties
<1>5. \A v \in Variants : owner[v] = NoTx => level[v] = base[v] /\ draft[v] = << >>
  BY DEF IInv, LocksCoverDrafts
<1>6. ASSUME NEW t \in Txs, Publish(t)
      PROVE  LedgerExplains(init)'
  <2>1. ASSUME NEW v \in Variants, owner[v] = t
        PROVE  /\ base'[v] = level[v] /\ level' = level
               /\ ledger'[v] = ledger[v] \o draft[v] /\ draft'[v] = << >>
    BY <1>6, <2>1 DEF Publish, View
  <2>2. ASSUME NEW v \in Variants, owner[v] # t
        PROVE  /\ base'[v] = base[v] /\ level' = level
               /\ ledger'[v] = ledger[v] /\ draft'[v] = draft[v]
    BY <1>6, <2>2 DEF Publish, View
  <2>3. QED
    BY <1>4, <2>1, <2>2 DEF LedgerExplains
<1>7. ASSUME NEW t \in Txs, Discard(t)
      PROVE  LedgerExplains(init)'
  <2>1. ASSUME NEW v \in Variants, owner[v] = t
        PROVE  level'[v] = base[v] /\ draft'[v] = << >>
    BY <1>7, <2>1 DEF Discard
  <2>2. ASSUME NEW v \in Variants, owner[v] # t
        PROVE  level'[v] = level[v] /\ draft'[v] = draft[v]
    BY <1>7, <2>2 DEF Discard
  <2>3. UNCHANGED <<base, ledger>>
    BY <1>7 DEF Discard
  <2>4. QED
    BY <1>4, <2>1, <2>2, <2>3 DEF LedgerExplains
<1>8. CASE UNCHANGED stockVars
  BY <1>1, <1>8 DEF stockVars
<1>9. CASE Next
  <2> PICK t \in Txs :
          \/ \E c \in Calls : Begin(t, c)
          \/ Statement(t) \/ Finish(t) \/ Refuse(t) \/ Abort(t)
    BY <1>9 DEF Next
  <2>1. CASE \E c \in Calls : Begin(t, c)
    BY <1>1, <2>1 DEF Begin
  <2>2. CASE Statement(t)
    <3> PICK v \in Variants :
          \/ Reserve(t, v) \/ CommitReserved(t, v) \/ CommitDirect(t, v)
          \/ ReadBefore(t, v) \/ Release(t, v) \/ Restock(t, v) \/ Adjust(t, v)
      BY <2>2 DEF Statement
    <3>1. CASE ReadBefore(t, v)
      BY <1>1, <3>1 DEF ReadBefore
    <3>2. CASE ~ReadBefore(t, v)
      <4>1. PICK e \in Entry :
                /\ UNCHANGED <<base, ledger>>
                /\ level' = [level EXCEPT ![v] = Replay(level[v], e)]
                /\ draft' = [draft EXCEPT ![v] = Append(@, e)]
        BY <3>2, RowSaysUpdate
      <4>2. QED
        BY <1>2, <4>1
    <3>3. QED
      BY <3>1, <3>2
  <2>3. CASE Finish(t)
    BY <1>6, <2>3 DEF Finish
  <2>4. CASE Refuse(t) \/ Abort(t)
    BY <1>7, <2>4 DEF Refuse, Abort
  <2>5. QED
    BY <2>1, <2>2, <2>3, <2>4
<1>10. QED
  BY <1>8, <1>9

(* The ledger explains the stock, for any calls and interleavings: replaying  *)
(* the types and quantities of the committed ledger rows from the initial     *)
(* levels gives the committed rows, however the "previous" and "new" columns  *)
(* of overlapping calls disagree.                                             *)
THEOREM LedgerExplainsStock == Spec => []LedgerReplays
<1> DEFINE Explained == \E init \in InitLevels : LedgerExplains(init)
<1>1. Init => Explained
  <2> SUFFICES ASSUME Init PROVE LedgerExplains(base)
    BY DEF Init
  <2>1. \A v \in Variants : base[v] \in Level
    BY InitLevelsAssumption DEF Init
  <2>2. \A v \in Variants : Replayed(base[v], << >>) = base[v]
    BY <2>1, ReplayedNone
  <2>3. << >> \o << >> = << >>
    OBVIOUS
  <2>4. QED
    BY <2>2, <2>3 DEF Init, LedgerExplains
<1>2. IInv /\ Explained /\ [Next]_stockVars => Explained'
  <2> SUFFICES ASSUME IInv, [Next]_stockVars, NEW init \in InitLevels, LedgerExplains(init)
               PROVE  LedgerExplains(init)'
    OBVIOUS
  <2>1. init \in [Variants -> Level]
    BY InitLevelsAssumption
  <2>2. QED
    BY <2>1, LedgerExplainsStep
<1>3. Explained => LedgerReplays
  BY DEF LedgerExplains, LedgerReplays
<1>4. QED
  BY <1>1, <1>2, <1>3, Invariance, PTL DEF Spec
-----------------------------------------------------------------------------
(* What the call of t makes of the committed row of v. *)
Effect(t, v) == Replay(base[v], [op |-> call[t].op, quantity |-> Qty(t, v)])

(* A transaction holds the rows of the lines it has updated and no others,   *)
(* and each of them has moved once, from the committed version, as the call  *)
(* says: COMMIT applies the whole call, and nothing else.                    *)
Exact ==
    /\ \A t \in Txs : todo[t] \subseteq Lines(call[t])
    /\ \A v \in Variants : owner[v] \in Txs =>
          /\ v \in Lines(call[owner[v]]) \ todo[owner[v]]
          /\ level[v] = Effect(owner[v], v)
    /\ \A t \in Txs : status[t] \in Live =>
          \A v \in Lines(call[t]) \ todo[t] : owner[v] = t

(* The UPDATE of a line locks its row and moves it from the committed version. *)
LEMMA UpdateMoves ==
    ASSUME IInv, Exact, NEW t \in Txs, NEW v \in Variants,
           \/ Reserve(t, v) \/ CommitReserved(t, v) \/ CommitDirect(t, v)
           \/ Release(t, v) \/ Restock(t, v) \/ Adjust(t, v)
    PROVE  /\ UNCHANGED <<base, call>> /\ v \in todo[t] /\ status[t] \in Live
           /\ owner' = [owner EXCEPT ![v] = t]
           /\ todo' = [todo EXCEPT ![t] = @ \ {v}]
           /\ status' = [status EXCEPT ![t] = "open"]
           /\ level' = [level EXCEPT ![v] = Effect(t, v)]
<1>1. /\ UNCHANGED <<base, call>> /\ owner[v] \in {NoTx, t}
      /\ owner' = [owner EXCEPT ![v] = t]
      /\ todo' = [todo EXCEPT ![t] = @ \ {v}]
      /\ status' = [status EXCEPT ![t] = "open"]
  BY DEF Reserve, CommitReserved, CommitDirect, Release, Restock, Adjust, UpdateRow
<1>2. v \in todo[t] /\ status[t] \in Live
  BY DEF Reserve, CommitReserved, CommitDirect, Release, Restock, Adjust, Current, Live
<1>3. level[v] = base[v]
  <2>1. owner[v] # t
    BY <1>2 DEF Exact
  <2>2. owner[v] = NoTx
    BY <1>1, <2>1
  <2>3. QED
    BY <2>2 DEF IInv, LocksCoverDrafts
<1>4. PICK e \in Entry : /\ e.op = call[t].op /\ e.quantity = Qty(t, v)
                         /\ level' = [level EXCEPT ![v] = Replay(level[v], e)]
  BY RowSaysUpdate
<1>5. Replay(level[v], e) = Effect(t, v)
  BY <1>3, <1>4 DEF Replay, Effect
<1>6. QED
  BY <1>1, <1>2, <1>4, <1>5

(* One case for each step of a transaction. *)
LEMMA ExactStep ==
    ASSUME IInv, Exact, [Next]_stockVars
    PROVE  Exact'
<1>1. CASE UNCHANGED stockVars
  BY <1>1 DEF stockVars, Exact, Effect, Qty
<1>2. ASSUME NEW t \in Txs, NEW c \in Calls, Begin(t, c)
      PROVE  Exact'
  <2>1. \A v \in Variants : owner[v] # t
    BY <1>2 DEF IInv, TypeOK, LocksCoverDrafts, Begin, Live
  <2>2. /\ call'[t] = c /\ todo'[t] = Lines(c) /\ UNCHANGED <<base, level, owner>>
        /\ \A u \in Txs \ {t} : /\ call'[u] = call[u] /\ todo'[u] = todo[u]
                                /\ status'[u] = status[u]
    BY <1>2 DEF IInv, TypeOK, Begin
  <2>3. QED
    BY <2>1, <2>2 DEF Exact, Effect, Qty
<1>3. ASSUME NEW t \in Txs, NEW v \in Variants, ReadBefore(t, v)
      PROVE  Exact'
  <2>1. /\ UNCHANGED <<base, level, owner, call, todo>> /\ status[t] \in Live
        /\ \A u \in Txs \ {t} : status'[u] = status[u]
    BY <1>3 DEF IInv, TypeOK, ReadBefore, Live
  <2>2. QED
    BY <2>1 DEF Exact, Effect, Qty
<1>4. ASSUME NEW t \in Txs, NEW v \in Variants,
             \/ Reserve(t, v) \/ CommitReserved(t, v) \/ CommitDirect(t, v)
             \/ Release(t, v) \/ Restock(t, v) \/ Adjust(t, v)
      PROVE  Exact'
  <2>1. /\ UNCHANGED <<base, call>> /\ v \in todo[t] /\ status[t] \in Live
        /\ owner' = [owner EXCEPT ![v] = t]
        /\ todo' = [todo EXCEPT ![t] = @ \ {v}]
        /\ status' = [status EXCEPT ![t] = "open"]
        /\ level' = [level EXCEPT ![v] = Effect(t, v)]
    BY <1>4, UpdateMoves
  <2>2. \A u \in Txs, w \in Variants : Effect(u, w)' = Effect(u, w)
    BY <2>1 DEF Effect, Qty
  <2>3. /\ owner'[v] = t /\ todo'[t] = todo[t] \ {v} /\ level'[v] = Effect(t, v)
        /\ \A w \in Variants \ {v} : owner'[w] = owner[w] /\ level'[w] = level[w]
        /\ \A u \in Txs \ {t} : todo'[u] = todo[u] /\ status'[u] = status[u]
    BY <2>1 DEF IInv, TypeOK
  <2>4. owner[v] \in {NoTx, t}
    BY <1>4 DEF Reserve, CommitReserved, CommitDirect, Release, Restock, Adjust, UpdateRow
  <2>5. v \in Lines(call[t])
    BY <2>1 DEF Exact
  <2> HIDE DEF Effect
  <2>6. \A u \in Txs : todo'[u] \subseteq Lines(call'[u])
    BY <2>1, <2>3 DEF Exact
  <2>7. ASSUME NEW w \in Variants, owner'[w] \in Txs
        PROVE  /\ w \in Lines(call'[owner'[w]]) \ todo'[owner'[w]]
               /\ level'[w] = Effect(owner[w], w)'
    BY <2>1, <2>2, <2>3, <2>5, <2>7 DEF Exact
  <2>8. ASSUME NEW u \in Txs, status'[u] \in Live,
               NEW w \in Lines(call'[u]) \ todo'[u]
        PROVE  owner'[w] = u
    <3>1. w \in Variants /\ status[u] \in Live
      BY <2>1, <2>3, <2>8 DEF Lines, IInv, TypeOK, NoCall, Live
    <3>2. CASE w = v
      BY <2>1, <2>3, <2>4, <2>8, <3>1, <3>2 DEF Exact
    <3>3. CASE w # v
      BY <2>1, <2>3, <2>8, <3>1, <3>3 DEF Exact
    <3>4. QED
      BY <3>2, <3>3
  <2>9. QED
    BY <2>6, <2>7, <2>8 DEF Exact
<1>5. ASSUME NEW t \in Txs, Publish(t) \/ Discard(t)
      PROVE  Exact'
  <2>1. /\ call' = call /\ status'[t] \notin Live
        /\ todo'[t] \subseteq todo[t]
        /\ \A u \in Txs \ {t} : todo'[u] = todo[u] /\ status'[u] = status[u]
    BY <1>5 DEF Publish, Discard, IInv, TypeOK, Live
  <2>2. \A w \in Variants : owner[w] = t => owner'[w] = NoTx
    BY <1>5 DEF Publish, Discard
  <2>3. \A w \in Variants : owner[w] # t => /\ owner'[w] = owner[w]
                                           /\ level'[w] = level[w]
                                           /\ base'[w] = base[w]
    BY <1>5 DEF Publish, Discard, View
  <2>4. ASSUME NEW w \in Variants, owner'[w] \in Txs
        PROVE  /\ w \in Lines(call'[owner'[w]]) \ todo'[owner'[w]]
               /\ level'[w] = Effect(owner[w], w)'
    BY <2>1, <2>2, <2>3, <2>4 DEF Exact, Effect, Qty
  <2>5. ASSUME NEW u \in Txs, status'[u] \in Live,
               NEW w \in Lines(call'[u]) \ todo'[u]
        PROVE  owner'[w] = u
    <3>1. w \in Variants /\ u # t
      BY <2>1, <2>5 DEF Lines, IInv, TypeOK, NoCall, Live
    <3>2. QED
      BY <2>1, <2>3, <2>5, <3>1 DEF Exact
  <2>6. QED
    BY <2>1, <2>4, <2>5 DEF Exact
<1>6. CASE Next
  <2> PICK t \in Txs :
          \/ \E c \in Calls : Begin(t, c)
          \/ Statement(t) \/ Finish(t) \/ Refuse(t) \/ Abort(t)
    BY <1>6 DEF Next
  <2>1. CASE Statement(t)
    BY <1>3, <1>4, <2>1 DEF Statement
  <2>2. CASE ~Statement(t)
    BY <1>2, <1>5, <2>2 DEF Finish, Refuse, Abort
  <2>3. QED
    BY <2>1, <2>2
<1>7. QED
  BY <1>1, <1>6

(* A stock call takes effect exactly once and as a whole. *)
THEOREM CallsAreExact == Spec => []Exact
<1>1. Init => Exact
  <2> SUFFICES ASSUME Init PROVE Exact
    OBVIOUS
  <2>1. \A v \in Variants : owner[v] \notin Txs
    BY DEF Init
  <2>2. \A t \in Txs : todo[t] = {} /\ status[t] \notin Live
    BY DEF Init, Live
  <2>3. QED
    BY <2>1, <2>2 DEF Exact
<1>2. IInv /\ Exact /\ [Next]_stockVars => Exact'
  BY ExactStep
<1>3. QED
  BY <1>1, <1>2, Invariance, PTL DEF Spec

(* COMMIT moves the rows of the lines of the call, and leaves the others. *)
LEMMA CommitAppliesCall ==
    ASSUME IInv, Exact, NEW t \in Txs, Finish(t), NEW v \in Variants
    PROVE  base'[v] = IF v \in Lines(call[t]) THEN Effect(t, v) ELSE base[v]
<1>1. status[t] \in Live /\ todo[t] = {} /\ base'[v] = View(t, v)
  BY DEF Finish, Publish, Live
<1>2. CASE v \in Lines(call[t])
  BY <1>1, <1>2 DEF Exact, View
<1>3. CASE v \notin Lines(call[t])
  BY <1>1, <1>3 DEF Exact, View
<1>4. QED
  BY <1>2, <1>3
=============================================================================
