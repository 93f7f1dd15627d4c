--------------------------- MODULE OrderTxProofs ---------------------------
(* Theorems about OrderTx, for any orders, requests and transactions. *)
EXTENDS OrderTx, StockMovementProofs, FiniteSetTheorems

-----------------------------------------------------------------------------
(* Induction on the subsets of a finite set. *)
LEMMA SubsetInduction ==
    ASSUME NEW S, IsFiniteSet(S), NEW P \in SUBSET (SUBSET S),
           \A T \in SUBSET S : (\A x \in T : T \ {x} \in P) => T \in P
    PROVE  P = SUBSET S
<1> DEFINE R == StrictSubsetOrdering(S)
           Q == (SUBSET S) \ P
<1>1. SUFFICES ASSUME Q # {} PROVE FALSE
  OBVIOUS
<1>2. IsWellFoundedOn(R, SUBSET S)
  BY FS_StrictSubsetOrderingWellFounded, FS_FiniteSubsetsOfFinite
<1>3. \A U, T \in SUBSET S : U \subseteq T /\ U # T => <<U, T>> \in R
  BY DEF StrictSubsetOrdering
<1> HIDE DEF R
<1>4. PICK T \in Q : \A U \in Q : ~ (<<U, T>> \in R)
  <2>1. Q \subseteq SUBSET S
    OBVIOUS
  <2>2. QED
    <3> HIDE DEF Q
    <3>1. QED
      BY <1>1, <1>2, <2>1, WFMin
<1>5. ASSUME NEW x \in T PROVE T \ {x} \in P
  <2>1. T \ {x} \in SUBSET S /\ T \ {x} # T
    OBVIOUS
  <2>2. QED
    BY <1>3, <1>4, <2>1
<1>6. QED
  BY <1>4, <1>5

(* The fold that defines a sum takes a chosen element at each step. *)
Chosen(s) == CHOOSE x \in s : TRUE

(* g holds the sum of f over each subset of S. *)
IsIter(g, f, S) ==
    g = [s \in SUBSET S |-> IF s = {} THEN 0
            ELSE f[Chosen(s)] + g[s \ {Chosen(s)}]]

(* A sum is the value of such a fold. *)
LEMMA SumUnfold ==
    ASSUME NEW f, NEW S
    PROVE  SumFunctionOnSet(f, S) = (CHOOSE g : IsIter(g, f, S))[S]
BY DEF SumFunctionOnSet, FoldFunctionOnSet, MapThenFoldSet, IsIter, Chosen

(* Every finite sum is defined. *)
LEMMA IterExists ==
    ASSUME NEW S, IsFiniteSet(S), NEW f, \A x \in S : f[x] \in Int
    PROVE  \E g \in [SUBSET S -> Int] : IsIter(g, f, S)
<1> DEFINE Upto(n) == {T \in SUBSET S : Cardinality(T) <= n}
           Good(g, n) == \A s \in Upto(n) :
              g[s] = IF s = {} THEN 0 ELSE f[Chosen(s)] + g[s \ {Chosen(s)}]
           P == {n \in Nat : \E g \in [SUBSET S -> Int] : Good(g, n)}
<1>0. \A s \in SUBSET S : s # {} => Chosen(s) \in s
  BY DEF Chosen
<1>1. \A s \in SUBSET S : /\ IsFiniteSet(s) /\ Cardinality(s) \in Nat
                          /\ Cardinality(s) <= Cardinality(S)
                          /\ \A x \in s : Cardinality(s \ {x}) = Cardinality(s) - 1
                          /\ Cardinality(s) = 0 <=> s = {}
  BY FS_Subset, FS_CardinalityType, FS_RemoveElement, FS_EmptySet
<1>2. 0 \in P
  <2> DEFINE g == [s \in SUBSET S |-> 0]
  <2>1. \A s \in Upto(0) : s = {}
    BY <1>1
  <2>2. g \in [SUBSET S -> Int] /\ Good(g, 0)
    BY <2>1
  <2>3. QED
    BY <2>2
<1>3. ASSUME NEW n \in P \cap Nat PROVE n + 1 \in P
  <2>1. PICK g \in [SUBSET S -> Int] : Good(g, n)
    OBVIOUS
  <2> DEFINE h == [s \in SUBSET S |-> IF s = {} THEN 0
                     ELSE f[Chosen(s)] + g[s \ {Chosen(s)}]]
  <2>2. h \in [SUBSET S -> Int]
    BY <1>0
  <2>3. \A s \in Upto(n) : h[s] = g[s]
    BY <2>1
  <2>4. \A s \in Upto(n + 1) : s # {} => s \ {Chosen(s)} \in Upto(n)
    BY <1>0, <1>1
  <2>5. Good(h, n + 1)
    <3> SUFFICES ASSUME NEW s \in Upto(n + 1), s # {}
                 PROVE  h[s] = f[Chosen(s)] + h[s \ {Chosen(s)}]
      OBVIOUS
    <3>1. h[s \ {Chosen(s)}] = g[s \ {Chosen(s)}]
      BY <2>3, <2>4
    <3>2. QED
      BY <3>1
  <2>6. n + 1 \in Nat
    OBVIOUS
  <2> HIDE DEF h, Good
  <2>7. QED
    BY <2>2, <2>5, <2>6
<1> HIDE DEF P
<1>4. Nat \subseteq P
  BY <1>2, <1>3, NatSetInduction
<1>5. Cardinality(S) \in P
  BY <1>1, <1>4
<1>6. PICK g \in [SUBSET S -> Int] : Good(g, Cardinality(S))
  BY <1>5 DEF P
<1>7. \A s \in SUBSET S : s \in Upto(Cardinality(S))
  BY <1>1
<1>8. \A s \in SUBSET S :
        g[s] = IF s = {} THEN 0 ELSE f[Chosen(s)] + g[s \ {Chosen(s)}]
  BY <1>6, <1>7
<1>9. IsIter(g, f, S)
  <2> DEFINE h == [s \in SUBSET S |-> IF s = {} THEN 0
                     ELSE f[Chosen(s)] + g[s \ {Chosen(s)}]]
  <2>1. \A s \in SUBSET S : h[s] = g[s]
    BY <1>8
  <2>2. g = h
    <3>1. DOMAIN g = DOMAIN h /\ g = [s \in SUBSET S |-> g[s]]
      OBVIOUS
    <3>2. QED
      BY <3>1, <1>8
  <2>3. QED
    BY <2>2 DEF IsIter
<1>10. QED
  BY <1>9

(* The same, of a function that may say more than the sums. *)
Unfolds(g, f, S) ==
    \A s \in SUBSET S :
        g[s] = IF s = {} THEN 0 ELSE f[Chosen(s)] + g[s \ {Chosen(s)}]

(* Two folds of the same terms agree. *)
LEMMA IterAgree ==
    ASSUME NEW S, IsFiniteSet(S), NEW f, NEW g, NEW h, Unfolds(g, f, S), Unfolds(h, f, S)
    PROVE  g[S] = h[S]
<1> DEFINE P == {T \in SUBSET S : g[T] = h[T]}
<1>1. ASSUME NEW T \in SUBSET S, \A x \in T : T \ {x} \in P
      PROVE  T \in P
  <2>1. CASE T = {}
    BY <2>1 DEF Unfolds
  <2>2. CASE T # {}
    <3>1. Chosen(T) \in T
      BY <2>2 DEF Chosen
    <3>2. QED
      BY <1>1, <2>2, <3>1 DEF Unfolds
  <2>3. QED
    BY <2>1, <2>2
<1>2. P = SUBSET S
  <2>1. P \in SUBSET (SUBSET S)
    OBVIOUS
  <2>2. \A T \in SUBSET S : (\A x \in T : T \ {x} \in P) => T \in P
    BY <1>1
  <2>3. IsFiniteSet(S)
    OBVIOUS
  <2> HIDE DEF P
  <2>4. QED
    BY ONLY <2>1, <2>2, <2>3, SubsetInduction
<1>3. S \in P
  BY ONLY <1>2
<1>4. QED
  BY <1>3

(* One fold gives the sums over all the subsets of S. *)
LEMMA SumIsIter ==
    ASSUME NEW S, IsFiniteSet(S), NEW f, \A x \in S : f[x] \in Int
    PROVE  \E g \in [SUBSET S -> Int] :
              IsIter(g, f, S) /\ \A T \in SUBSET S : g[T] = SumFunctionOnSet(f, T)
<1>1. PICK g \in [SUBSET S -> Int] : IsIter(g, f, S)
  BY IterExists
<1>2. ASSUME NEW T \in SUBSET S
      PROVE  g[T] = SumFunctionOnSet(f, T)
  <2> DEFINE h == CHOOSE k : IsIter(k, f, T)
  <2>1. IsFiniteSet(T)
    BY FS_Subset
  <2>2. IsIter(h, f, T)
    <3>1. \E k : IsIter(k, f, T)
      BY <2>1, IterExists
    <3>2. QED
      BY <3>1
  <2>3. SumFunctionOnSet(f, T) = h[T]
    BY SumUnfold
  <2> HIDE DEF h
  <2>4. Unfolds(g, f, T) /\ Unfolds(h, f, T)
    BY <1>1, <2>2 DEF IsIter, Unfolds
  <2>5. g[T] = h[T]
    BY ONLY <2>1, <2>4, IterAgree
  <2>6. QED
    BY <2>3, <2>5
<1>3. QED
  BY <1>1, <1>2

(* The sum over nothing. *)
LEMMA SumEmpty ==
    ASSUME NEW f
    PROVE  SumFunctionOnSet(f, {}) = 0
<1>1. IsFiniteSet({}) /\ \A x \in {} : f[x] \in Int
  BY FS_EmptySet
<1>2. PICK g \in [SUBSET {} -> Int] : IsIter(g, f, {})
  BY <1>1, IterExists
<1>3. PICK h \in [SUBSET {} -> Int] :
          IsIter(h, f, {}) /\ \A T \in SUBSET {} : h[T] = SumFunctionOnSet(f, T)
  BY <1>1, SumIsIter
<1>4. QED
  BY <1>3 DEF IsIter

(* A sum of integers is an integer. *)
LEMMA SumInt ==
    ASSUME NEW S, IsFiniteSet(S), NEW f, \A x \in S : f[x] \in Int
    PROVE  SumFunctionOnSet(f, S) \in Int
<1>1. PICK g \in [SUBSET S -> Int] :
          IsIter(g, f, S) /\ \A T \in SUBSET S : g[T] = SumFunctionOnSet(f, T)
  BY SumIsIter
<1>2. QED
  BY <1>1

(* Any element may be taken out first: the order of the fold is immaterial. *)
LEMMA SumRemove ==
    ASSUME NEW S, IsFiniteSet(S), NEW f, \A x \in S : f[x] \in Int, NEW e \in S
    PROVE  SumFunctionOnSet(f, S) = f[e] + SumFunctionOnSet(f, S \ {e})
<1>1. PICK g \in [SUBSET S -> Int] :
          IsIter(g, f, S) /\ \A T \in SUBSET S : g[T] = SumFunctionOnSet(f, T)
  BY SumIsIter
<1> DEFINE P == {T \in SUBSET S : \A x \in T : g[T] = f[x] + g[T \ {x}]}
<1>2. \A T \in SUBSET S : T # {} => g[T] = f[Chosen(T)] + g[T \ {Chosen(T)}]
  BY <1>1 DEF IsIter
<1>3. ASSUME NEW T \in SUBSET S, \A x \in T : T \ {x} \in P
      PROVE  T \in P
  <2> SUFFICES ASSUME NEW x \in T PROVE g[T] = f[x] + g[T \ {x}]
    OBVIOUS
  <2> DEFINE c == Chosen(T)
  <2>1. c \in T
    BY DEF Chosen
  <2>2. g[T] = f[c] + g[T \ {c}]
    BY <1>2
  <2> HIDE DEF c
  <2>3. CASE x = c
    BY <2>2, <2>3
  <2>4. CASE x # c
    <3>1. g[T \ {c}] = f[x] + g[(T \ {c}) \ {x}]
      BY <1>3, <2>1, <2>4
    <3>2. g[T \ {x}] = f[c] + g[(T \ {x}) \ {c}]
      BY <1>3, <2>1, <2>4
    <3>3. (T \ {c}) \ {x} = (T \ {x}) \ {c}
      OBVIOUS
    <3>4. PICK rest \in Int : rest = g[(T \ {c}) \ {x}]
      BY <1>1, <2>1
    <3>5. f[x] \in Int /\ f[c] \in Int
      BY <2>1
    <3>6. g[T \ {c}] = f[x] + rest /\ g[T \ {x}] = f[c] + rest
      BY <3>1, <3>2, <3>3, <3>4, Zenon
    <3>7. QED
      BY <2>2, <3>4, <3>5, <3>6
  <2>5. QED
    BY <2>3, <2>4
<1>4. P = SUBSET S
  <2>1. P \in SUBSET (SUBSET S)
    OBVIOUS
  <2>2. \A T \in SUBSET S : (\A x \in T : T \ {x} \in P) => T \in P
    BY <1>3
  <2>3. IsFiniteSet(S)
    OBVIOUS
  <2> HIDE DEF P
  <2>4. QED
    BY ONLY <2>1, <2>2, <2>3, SubsetInduction
<1>5. g[S] = f[e] + g[S \ {e}]
  BY <1>4 DEF P
<1>6. QED
  BY <1>1, <1>5

(* Equal terms, equal sums. *)
LEMMA SumSame ==
    ASSUME NEW S, IsFiniteSet(S), NEW f, NEW h, \A x \in S : f[x] \in Int /\ h[x] = f[x]
    PROVE  SumFunctionOnSet(h, S) = SumFunctionOnSet(f, S)
<1>1. PICK g \in [SUBSET S -> Int] :
          IsIter(g, f, S) /\ \A T \in SUBSET S : g[T] = SumFunctionOnSet(f, T)
  <2>1. \A x \in S : f[x] \in Int
    OBVIOUS
  <2>2. IsFiniteSet(S)
    OBVIOUS
  <2>3. QED
    BY ONLY <2>1, <2>2, SumIsIter
<1>2. \A x \in S : h[x] \in Int
  OBVIOUS
<1>3. PICK k \in [SUBSET S -> Int] :
          IsIter(k, h, S) /\ \A T \in SUBSET S : k[T] = SumFunctionOnSet(h, T)
  BY <1>2, SumIsIter
<1> DEFINE P == {T \in SUBSET S : k[T] = g[T]}
<1>4. ASSUME NEW T \in SUBSET S, \A x \in T : T \ {x} \in P
      PROVE  T \in P
  <2>1. CASE T = {}
    BY <1>1, <1>3, <2>1 DEF IsIter
  <2>2. CASE T # {}
    <3>1. Chosen(T) \in T
      BY <2>2 DEF Chosen
    <3>2. g[T] = f[Chosen(T)] + g[T \ {Chosen(T)}]
      BY <1>1, <2>2 DEF IsIter
    <3>3. k[T] = h[Chosen(T)] + k[T \ {Chosen(T)}]
      BY <1>3, <2>2 DEF IsIter
    <3>4. QED
      BY <1>4, <3>1, <3>2, <3>3
  <2>3. QED
    BY <2>1, <2>2
<1>5. P = SUBSET S
  <2>1. P \in SUBSET (SUBSET S)
    OBVIOUS
  <2>2. \A T \in SUBSET S : (\A x \in T : T \ {x} \in P) => T \in P
    BY <1>4
  <2>3. IsFiniteSet(S)
    OBVIOUS
  <2> HIDE DEF P
  <2>4. QED
    BY ONLY <2>1, <2>2, <2>3, SubsetInduction
<1>6. k[S] = g[S]
  BY <1>5 DEF P
<1>7. QED
  BY <1>1, <1>3, <1>6

(* A sum of naturals is a natural, and no term exceeds it. *)
LEMMA SumNat ==
    ASSUME NEW S, IsFiniteSet(S), NEW f, \A x \in S : f[x] \in Nat
    PROVE  /\ SumFunctionOnSet(f, S) \in Nat
           /\ \A x \in S : f[x] <= SumFunctionOnSet(f, S)
<1>1. PICK g \in [SUBSET S -> Int] :
          IsIter(g, f, S) /\ \A T \in SUBSET S : g[T] = SumFunctionOnSet(f, T)
  <2>1. \A x \in S : f[x] \in Int
    OBVIOUS
  <2>2. QED
    BY <2>1, SumIsIter, Zenon
<1> DEFINE P == {T \in SUBSET S : g[T] \in Nat}
<1>2. ASSUME NEW T \in SUBSET S, \A x \in T : T \ {x} \in P
      PROVE  T \in P
  <2>1. CASE T = {}
    BY <1>1, <2>1 DEF IsIter
  <2>2. CASE T # {}
    <3>1. Chosen(T) \in T
      BY <2>2 DEF Chosen
    <3>2. g[T] = f[Chosen(T)] + g[T \ {Chosen(T)}]
      BY <1>1, <2>2 DEF IsIter
    <3>3. f[Chosen(T)] \in Nat /\ g[T \ {Chosen(T)}] \in Nat
      BY <1>2, <3>1
    <3>4. QED
      BY <3>2, <3>3
  <2>3. QED
    BY <2>1, <2>2
<1>3. P = SUBSET S
  <2>1. P \in SUBSET (SUBSET S)
    OBVIOUS
  <2>2. \A T \in SUBSET S : (\A x \in T : T \ {x} \in P) => T \in P
    BY <1>2
  <2>3. IsFiniteSet(S)
    OBVIOUS
  <2> HIDE DEF P
  <2>4. QED
    BY ONLY <2>1, <2>2, <2>3, SubsetInduction
<1>4. \A T \in SUBSET S : SumFunctionOnSet(f, T) \in Nat
  BY <1>1, <1>3 DEF P
<1>5. ASSUME NEW x \in S
      PROVE  f[x] <= SumFunctionOnSet(f, S)
  <2>1. SumFunctionOnSet(f, S) = f[x] + SumFunctionOnSet(f, S \ {x})
    BY SumRemove
  <2>2. SumFunctionOnSet(f, S) \in Nat /\ SumFunctionOnSet(f, S \ {x}) \in Nat
    BY <1>4
  <2>3. QED
    BY <2>1, <2>2
<1>6. QED
  BY <1>4, <1>5

(* A sum of which one term changes. *)
LEMMA SumChange ==
    ASSUME NEW S, IsFiniteSet(S), NEW f, NEW h, NEW e \in S,
           \A x \in S : f[x] \in Int /\ h[x] \in Int, \A x \in S \ {e} : h[x] = f[x]
    PROVE  SumFunctionOnSet(h, S) = SumFunctionOnSet(f, S) - f[e] + h[e]
<1>1. IsFiniteSet(S \ {e})
  BY FS_RemoveElement
<1>2. SumFunctionOnSet(h, S \ {e}) = SumFunctionOnSet(f, S \ {e})
  BY <1>1, SumSame
<1>3. SumFunctionOnSet(f, S) = f[e] + SumFunctionOnSet(f, S \ {e})
  BY SumRemove
<1>4. SumFunctionOnSet(h, S) = h[e] + SumFunctionOnSet(h, S \ {e})
  BY SumRemove
<1>5. SumFunctionOnSet(f, S \ {e}) \in Int
  BY <1>1, SumInt
<1>6. QED
  BY <1>2, <1>3, <1>4, <1>5

(* A sum of one more term. *)
LEMMA SumAdd ==
    ASSUME NEW S, IsFiniteSet(S), NEW f, NEW h, NEW e, e \notin S, h[e] \in Int,
           \A x \in S : f[x] \in Int /\ h[x] = f[x]
    PROVE  SumFunctionOnSet(h, S \union {e}) = SumFunctionOnSet(f, S) + h[e]
<1>1. IsFiniteSet(S \union {e})
  BY FS_AddElement
<1>2. SumFunctionOnSet(h, S \union {e}) = h[e] + SumFunctionOnSet(h, (S \union {e}) \ {e})
  BY <1>1, SumRemove
<1>3. (S \union {e}) \ {e} = S
  OBVIOUS
<1>4. SumFunctionOnSet(h, S) = SumFunctionOnSet(f, S)
  BY SumSame
<1>5. PICK sum \in Int : sum = SumFunctionOnSet(f, S)
  BY SumInt
<1>6. SumFunctionOnSet(h, S \union {e}) = h[e] + sum
  BY <1>2, <1>3, <1>4, <1>5, Zenon
<1>7. QED
  BY <1>5, <1>6

(* A nonempty finite set of integers has a greatest element. *)
LEMMA FiniteMax ==
    ASSUME NEW S \in SUBSET Int, IsFiniteSet(S), S # {}
    PROVE  \E m \in S : \A x \in S : x <= m
<1> DEFINE P == {T \in SUBSET S : T # {} => \E m \in T : \A x \in T : x <= m}
<1>1. ASSUME NEW T \in SUBSET S, \A x \in T : T \ {x} \in P
      PROVE  T \in P
  <2> SUFFICES ASSUME T # {} PROVE \E m \in T : \A x \in T : x <= m
    OBVIOUS
  <2>1. PICK e \in T : TRUE
    OBVIOUS
  <2>2. CASE T \ {e} = {}
    BY <2>1, <2>2
  <2>3. CASE T \ {e} # {}
    <3>1. PICK m \in T \ {e} : \A x \in T \ {e} : x <= m
      BY <1>1, <2>1, <2>3
    <3>2. CASE e <= m
      BY <2>1, <3>1, <3>2
    <3>3. CASE ~(e <= m)
      <4>1. \A x \in T : x <= e
        BY <2>1, <3>1, <3>3
      <4>2. QED
        BY <2>1, <4>1
    <3>4. QED
      BY <3>2, <3>3
  <2>4. QED
    BY <2>2, <2>3
<1>2. P = SUBSET S
  <2>1. P \in SUBSET (SUBSET S)
    OBVIOUS
  <2>2. \A T \in SUBSET S : (\A x \in T : T \ {x} \in P) => T \in P
    BY <1>1
  <2>3. IsFiniteSet(S)
    OBVIOUS
  <2> HIDE DEF P
  <2>4. QED
    BY ONLY <2>1, <2>2, <2>3, SubsetInduction
<1>3. S \in P
  BY ONLY <1>2
<1>4. QED
  BY <1>3

-----------------------------------------------------------------------------
(* Every step of a request is a step of StockMovement, or leaves it alone. *)
LEMMA StepUsesStock ==
    ASSUME OrderNext
    PROVE  [Next]_stockVars
<1>1. CASE \E o \in Orders : ExpireLock(o)
  BY <1>1 DEF ExpireLock, stockVars
<1>2. ASSUME NEW t \in Txs, NEW r \in Requests, Start(t, r)
      PROVE  UNCHANGED stockVars
  BY <1>2 DEF Start
<1>3. ASSUME NEW t \in Txs, Fail(t)
      PROVE  [Next]_stockVars
  <2>1. CASE status[t] \in Live
    BY <1>3, <2>1 DEF Fail, Next, Abort
  <2>2. CASE status[t] \notin Live
    BY <1>3, <2>2 DEF Fail
  <2>3. QED
    BY <2>1, <2>2
<1>4. ASSUME NEW t \in Txs, OrderStep(t)
      PROVE  [Next]_stockVars
  <2>1. CASE \/ Peek(t) \/ TakeLock(t) \/ ReadOrder(t) \/ InsertPayment(t)
             \/ SkipCash(t) \/ MarkPayment(t) \/ DeleteItems(t) \/ AddItems(t)
             \/ WriteOrder(t)
    BY <2>1 DEF Peek, TakeLock, ReadOrder, InsertPayment, SkipCash, MarkPayment,
                DeleteItems, AddItems, WriteOrder
  <2>2. CASE CallStock(t)
    BY <2>2 DEF CallStock, Next
  <2>3. CASE StockStatement(t)
    BY <2>3 DEF StockStatement, Next
  <2>4. CASE Commit(t)
    <3>1. CASE status[t] = "open"
      BY <2>4, <3>1 DEF Commit, Next
    <3>2. CASE status[t] # "open"
      BY <2>4, <3>2 DEF Commit
    <3>3. QED
      BY <3>1, <3>2
  <2>5. CASE Reject(t)
    BY <2>5, <1>3 DEF Reject
  <2>6. QED
    BY <1>4, <2>1, <2>2, <2>3, <2>4, <2>5 DEF OrderStep
<1>5. ASSUME NEW t \in Txs, Die(t)
      PROVE  [Next]_stockVars
  BY <1>5, <1>3 DEF Die
<1>6. QED
  BY <1>1, <1>2, <1>4, <1>5 DEF OrderNext

(* The order flows implement StockMovement: whatever requests run together,  *)
(* in whatever order, with the payment lock or without it, what they do to   *)
(* the stock is what StockMovementService allows.                            *)
THEOREM OrdersUseStock == OrderSpec => StockProtocol
<1>1. OrderInit => Init
  BY DEF OrderInit
<1>2. [OrderNext]_vars => [Next]_stockVars
  BY StepUsesStock DEF vars, stockVars
<1>3. QED
  BY <1>1, <1>2, PTL DEF OrderSpec, StockProtocol, Spec

(* No order flow oversells: reservedQuantity stays between 0 and             *)
(* stockQuantity, for any number of requests, orders and variants.           *)
THEOREM OrdersNeverOversell == OrderSpec => []NoOversell
BY OrdersUseStock, NeverOversells, PTL DEF StockProtocol

-----------------------------------------------------------------------------
(* The flows whose UPDATE of the order either repeats a status check in its  *)
(* WHERE clause or leaves the status alone.                                  *)
GuardedKinds == {"pay", "cancel", "reconcile", "edit"}
Terminal == {"COMPLETED", "CANCELLED"}

(* Whoever has updated the row of o still runs, for o, and what it has       *)
(* written keeps the status of o if that status is final: nobody can change  *)
(* it before the COMMIT, since the row is locked.                            *)
HeldRow(o) ==
    LET t == rowOwner[o] IN
    /\ Running(t) /\ OrderOf(t) = o
    /\ wrote[t] # {}
    /\ \A row \in wrote[t] :
          /\ "status" \in DOMAIN row
          /\ orders[o].status \in Terminal => row.status = orders[o].status

GInv ==
    /\ DOMAIN outcome = Txs /\ DOMAIN request = Txs /\ DOMAIN wrote = Txs
    /\ rowOwner \in [Orders -> Txs \union {NoTx}]
    /\ \A o \in Orders : "status" \in DOMAIN orders[o]
    /\ \A o \in Orders : rowOwner[o] # NoTx => HeldRow(o)

Guarded == \A t \in Txs : Running(t) => request[t].kind \in GuardedKinds

(* What a guarded flow writes over a row keeps a final status. *)
LEMMA WrittenKeepsTerminal ==
    ASSUME GInv, Guarded, NEW t \in Txs, OrderOf(t) \in Orders, WriteOrder(t)
    PROVE  LET o == OrderOf(t)
               row == Written(request[t], saw[t], orders[o], paying[t] # {})
           IN  /\ "status" \in DOMAIN row
               /\ orders[o].status \in Terminal => row.status = orders[o].status
<1> DEFINE o == OrderOf(t)
           r == request[t]
           s == saw[t]
           row == Written(r, s, orders[o], paying[t] # {})
<1>1. r.kind \in GuardedKinds /\ "status" \in DOMAIN orders[o]
  BY DEF GInv, Guarded, WriteOrder, At
<1>2. orders[o].status \in WriteWhere(r, s)
  BY DEF WriteOrder, RowMatches
<1>3. CASE r.kind = "pay"
  BY <1>1, <1>2, <1>3 DEF WriteWhere, Written, Credited, Payable, Terminal
<1>4. CASE r.kind = "cancel"
  BY <1>1, <1>2, <1>4 DEF WriteWhere, Written, Cancellable, Terminal
<1>5. CASE r.kind = "edit"
  BY <1>1, <1>5 DEF Written
<1>6. CASE r.kind = "reconcile" /\ s.row.status = "CANCELLED"
  <2>1. row = [orders[o] EXCEPT !.paid = PaidWith(r, s)]
    BY <1>6 DEF Written, Fulfilled
  <2>2. QED
    BY <1>1, <2>1
<1>7. CASE r.kind = "reconcile" /\ s.row.status \in Fulfilled
  BY <1>1, <1>7 DEF Written, Credited, Fulfilled
<1>8. CASE r.kind = "reconcile" /\ s.row.status \notin Fulfilled \union {"CANCELLED"}
  BY <1>1, <1>2, <1>8 DEF WriteWhere, Written, Credited, Payable, Terminal
<1>9. QED
  BY <1>1, <1>3, <1>4, <1>5, <1>6, <1>7, <1>8 DEF GuardedKinds

(* The steps that touch neither the order rows nor their locks. *)
LEMMA QuietStepPreserves ==
    ASSUME GInv, UNCHANGED <<orders, rowOwner, wrote, outcome, request>>
    PROVE  GInv'
BY DEF GInv, HeldRow, Running, OrderOf

(* A request that starts has written nothing. *)
LEMMA StartPreserves ==
    ASSUME GInv, NEW t \in Txs, NEW r \in Requests, Start(t, r)
    PROVE  GInv'
<1>1. ~Running(t)
  BY DEF Start, Running
<1>2. \A o \in Orders : rowOwner[o] # t
  BY <1>1, NoTxAssumption DEF GInv, HeldRow
<1>3. UNCHANGED <<orders, rowOwner, wrote>>
  BY DEF Start, dbVars
<1>4. \A u \in Txs \ {t} : outcome'[u] = outcome[u] /\ request'[u] = request[u]
  BY DEF Start, GInv
<1>5. ASSUME NEW o \in Orders, rowOwner'[o] # NoTx
      PROVE  HeldRow(o)'
  <2>1. rowOwner[o] \in Txs \ {t} /\ HeldRow(o)
    BY <1>2, <1>3, <1>5 DEF GInv
  <2>2. QED
    BY <1>3, <1>4, <2>1 DEF HeldRow, Running, OrderOf
<1>6. QED
  BY <1>3, <1>5 DEF GInv, Start

(* The UPDATE of a guarded flow matches no final order, or keeps its status. *)
LEMMA WriteOrderPreserves ==
    ASSUME GInv, Guarded, NEW t \in Txs, WriteOrder(t)
    PROVE  GInv'
<1> DEFINE o == OrderOf(t)
           row == Written(request[t], saw[t], orders[o], paying[t] # {})
<1>1. UNCHANGED <<orders, outcome, request>>
  BY DEF WriteOrder
<1>2. wrote' = [wrote EXCEPT ![t] = {row}] /\ rowOwner' = [rowOwner EXCEPT ![o] = t]
  BY DEF WriteOrder
<1> HIDE DEF row
<1>3. ASSUME NEW x \in Orders, rowOwner'[x] # NoTx
      PROVE  HeldRow(x)'
  <2>1. CASE x = o
    <3>1. /\ "status" \in DOMAIN row
          /\ orders[o].status \in Terminal => row.status = orders[o].status
      BY <2>1, WrittenKeepsTerminal DEF row
    <3>2. rowOwner'[x] = t /\ wrote'[t] = {row}
      BY <1>2, <2>1 DEF GInv
    <3>3. Running(t)
      BY DEF WriteOrder, At
    <3>4. QED
      BY <1>1, <2>1, <3>1, <3>2, <3>3 DEF HeldRow, Running, OrderOf
  <2>2. CASE x # o
    <3>1. rowOwner'[x] = rowOwner[x] /\ HeldRow(x)
      BY <1>2, <1>3, <2>2 DEF GInv
    <3>2. rowOwner[x] # t
      BY <2>2, <3>1 DEF HeldRow
    <3>3. wrote'[rowOwner[x]] = wrote[rowOwner[x]]
      BY <1>2, <1>3, <3>1, <3>2 DEF GInv
    <3>4. QED
      BY <1>1, <3>1, <3>3 DEF HeldRow, Running, OrderOf
  <2>3. QED
    BY <2>1, <2>2
<1>4. rowOwner' \in [Orders -> Txs \union {NoTx}] /\ DOMAIN wrote' = Txs
  BY <1>2 DEF GInv
<1>5. QED
  BY <1>1, <1>3, <1>4 DEF GInv

(* The end of a request drops its locks; nobody else's row is touched. *)
LEMMA LeavePreserves ==
    ASSUME GInv, NEW t \in Txs, Leave(t), NEW end,
           outcome' = [outcome EXCEPT ![t] = end],
           \A o \in Orders : /\ "status" \in DOMAIN orders'[o]
                             /\ rowOwner[o] # t => orders'[o] = orders[o]
    PROVE  GInv'
<1>1. ASSUME NEW o \in Orders, rowOwner'[o] # NoTx
      PROVE  HeldRow(o)'
  <2>1. rowOwner[o] # t /\ rowOwner'[o] = rowOwner[o]
    BY <1>1 DEF Leave
  <2>2. HeldRow(o) /\ rowOwner[o] \in Txs \ {t}
    BY <1>1, <2>1 DEF GInv
  <2>3. /\ outcome'[rowOwner[o]] = outcome[rowOwner[o]]
        /\ wrote'[rowOwner[o]] = wrote[rowOwner[o]]
        /\ request' = request /\ orders'[o] = orders[o]
    BY <2>1, <2>2 DEF GInv, Leave
  <2>4. QED
    BY <2>1, <2>2, <2>3 DEF HeldRow, Running, OrderOf
<1>2. rowOwner' \in [Orders -> Txs \union {NoTx}]
  BY DEF GInv, Leave
<1>3. QED
  BY <1>1, <1>2 DEF GInv, Leave

(* A COMMIT publishes the rows it holds, which keep a final status. *)
LEMMA CommitKeepsTerminal ==
    ASSUME GInv, NEW t \in Txs, Commit(t), NEW o \in Orders
    PROVE  /\ "status" \in DOMAIN orders'[o]
           /\ rowOwner[o] # t => orders'[o] = orders[o]
           /\ orders[o].status \in Terminal => orders'[o].status = orders[o].status
<1>1. CASE rowOwner[o] = t
  <2>1. HeldRow(o)
    BY <1>1, NoTxAssumption DEF GInv
  <2>2. orders'[o] = CHOOSE row \in wrote[t] : TRUE
    BY <1>1 DEF Commit
  <2>3. orders'[o] \in wrote[t]
    BY <1>1, <2>1, <2>2 DEF HeldRow
  <2>4. QED
    BY <1>1, <2>1, <2>3 DEF HeldRow
<1>2. CASE rowOwner[o] # t
  BY <1>2 DEF Commit, GInv
<1>3. QED
  BY <1>1, <1>2

FinalStays == \A o \in Orders : orders[o].status \in {"COMPLETED", "CANCELLED"} =>
                                orders'[o].status = orders[o].status

(* A request that fails takes its UPDATE back. *)
LEMMA FailPreserves ==
    ASSUME GInv, NEW t \in Txs, Fail(t)
    PROVE  GInv' /\ FinalStays
<1>1. UNCHANGED orders /\ Leave(t) /\ outcome' = [outcome EXCEPT ![t] = "failed"]
  BY DEF Fail
<1>2. QED
  BY <1>1, LeavePreserves DEF GInv, FinalStays

(* One case for each statement of a request. *)
LEMMA GuardedStep == GInv /\ Guarded /\ [OrderNext]_vars => GInv' /\ FinalStays
<1> SUFFICES ASSUME GInv, Guarded, [OrderNext]_vars PROVE GInv' /\ FinalStays
  OBVIOUS
<1>1. ASSUME UNCHANGED <<orders, rowOwner, wrote, outcome, request>>
      PROVE  GInv' /\ FinalStays
  BY <1>1, QuietStepPreserves DEF FinalStays
<1>2. CASE UNCHANGED vars
  BY <1>1, <1>2 DEF vars, flowVars, dbVars
<1>3. CASE \E o \in Orders : ExpireLock(o)
  BY <1>1, <1>3 DEF ExpireLock, flowVars
<1>4. ASSUME NEW t \in Txs, NEW r \in Requests, Start(t, r)
      PROVE  GInv' /\ FinalStays
  BY <1>4, StartPreserves DEF Start, dbVars, FinalStays
<1>5. ASSUME NEW t \in Txs, Die(t)
      PROVE  GInv' /\ FinalStays
  BY <1>5, FailPreserves DEF Die
<1>6. ASSUME NEW t \in Txs, OrderStep(t)
      PROVE  GInv' /\ FinalStays
  <2>1. CASE \/ Peek(t) \/ TakeLock(t) \/ ReadOrder(t) \/ InsertPayment(t)
             \/ SkipCash(t) \/ MarkPayment(t) \/ CallStock(t) \/ StockStatement(t)
             \/ DeleteItems(t) \/ AddItems(t)
    BY <1>1, <2>1 DEF Peek, TakeLock, ReadOrder, InsertPayment, SkipCash,
                      MarkPayment, CallStock, StockStatement, DeleteItems,
                      AddItems, dbVars, flowVars
  <2>2. CASE WriteOrder(t)
    BY <2>2, WriteOrderPreserves DEF WriteOrder, FinalStays
  <2>3. CASE Commit(t)
    <3>1. Leave(t) /\ outcome' = [outcome EXCEPT ![t] = "committed"]
      BY <2>3 DEF Commit
    <3>2. GInv'
      BY <2>3, <3>1, CommitKeepsTerminal, LeavePreserves
    <3>3. QED
      BY <2>3, <3>2, CommitKeepsTerminal DEF FinalStays, Terminal
  <2>4. CASE Reject(t)
    BY <2>4, FailPreserves DEF Reject
  <2>5. QED
    BY <1>6, <2>1, <2>2, <2>3, <2>4 DEF OrderStep
<1>7. QED
  BY <1>2, <1>3, <1>4, <1>5, <1>6 DEF OrderNext

(* Nothing is locked or written at first. *)
LEMMA GuardedInit == OrderInit => GInv
<1> SUFFICES ASSUME OrderInit PROVE GInv
  OBVIOUS
<1>1. orders \in [Orders -> Row]
  BY InitShopsAssumption DEF OrderInit
<1>2. \A o \in Orders : "status" \in DOMAIN orders[o]
  BY <1>1 DEF Row
<1>3. rowOwner \in [Orders -> Txs \union {NoTx}] /\ \A o \in Orders : rowOwner[o] = NoTx
  BY DEF OrderInit
<1>4. DOMAIN outcome = Txs /\ DOMAIN request = Txs /\ DOMAIN wrote = Txs
  BY DEF OrderInit
<1>5. QED
  BY <1>2, <1>3, <1>4 DEF GInv

(* A running request is one of Requests. *)
Known == /\ DOMAIN request = Txs /\ DOMAIN outcome = Txs
         /\ \A t \in Txs : Running(t) => request[t] \in Requests

(* Whoever runs serves one of the Requests. *)
LEMMA KnownStep == Known /\ [OrderNext]_vars => Known'
<1> SUFFICES ASSUME Known, [OrderNext]_vars PROVE Known'
  OBVIOUS
<1>1. ASSUME UNCHANGED <<outcome, request>> PROVE Known'
  BY <1>1 DEF Known, Running
<1>2. ASSUME NEW t \in Txs, NEW end \in {"committed", "failed"},
             outcome' = [outcome EXCEPT ![t] = end], UNCHANGED request
      PROVE  Known'
  BY <1>2 DEF Known, Running
<1>3. CASE UNCHANGED vars
  BY <1>1, <1>3 DEF vars, flowVars
<1>4. CASE \E o \in Orders : ExpireLock(o)
  BY <1>1, <1>4 DEF ExpireLock, flowVars
<1>5. ASSUME NEW t \in Txs, NEW r \in Requests, Start(t, r) PROVE Known'
  BY <1>5 DEF Start, Known, Running
<1>6. ASSUME NEW t \in Txs, Fail(t) PROVE Known'
  <2>1. outcome' = [outcome EXCEPT ![t] = "failed"] /\ UNCHANGED request
    BY <1>6 DEF Fail, Leave
  <2>2. QED
    BY <1>2, <2>1
<1>7. ASSUME NEW t \in Txs, OrderStep(t) PROVE Known'
  <2>1. CASE \/ Peek(t) \/ TakeLock(t) \/ ReadOrder(t) \/ InsertPayment(t)
             \/ SkipCash(t) \/ MarkPayment(t) \/ CallStock(t) \/ StockStatement(t)
             \/ DeleteItems(t) \/ AddItems(t) \/ WriteOrder(t)
    BY <1>1, <2>1 DEF Peek, TakeLock, ReadOrder, InsertPayment, SkipCash,
                      MarkPayment, CallStock, StockStatement, DeleteItems,
                      AddItems, WriteOrder, flowVars
  <2>2. CASE Commit(t)
    <3>1. outcome' = [outcome EXCEPT ![t] = "committed"] /\ UNCHANGED request
      BY <2>2 DEF Commit, Leave
    <3>2. QED
      BY <1>2, <3>1
  <2>3. CASE Reject(t)
    BY <1>6, <2>3 DEF Reject
  <2>4. QED
    BY <1>7, <2>1, <2>2, <2>3 DEF OrderStep
<1>8. QED
  BY <1>3, <1>4, <1>5, <1>6, <1>7 DEF OrderNext, Die

(* COMPLETED and CANCELLED are final as long as only payments, transfers,    *)
(* cancellations and edits run, in any number and with any overlap, whether  *)
(* the payment lock holds or not: their UPDATE repeats the status check or   *)
(* leaves the status alone.  (Confirming, completing and matching by hand do *)
(* neither.)                                                                 *)
THEOREM GuardedFlowsKeepTerminal ==
    ASSUME \A r \in Requests : r.kind \in GuardedKinds
    PROVE  OrderSpec => TerminalStays
<1>1. OrderInit => Known
  BY DEF OrderInit, Known, Running
<1>2. Known => Guarded
  BY DEF Known, Guarded
<1>3. QED
  BY <1>1, <1>2, KnownStep, GuardedInit, GuardedStep, PTL
     DEF OrderSpec, TerminalStays, FinalStays

-----------------------------------------------------------------------------
(* The plan of a request.                                                    *)
Steps == {"peek", "lock", "read", "deleteItems", "addItems", "insert", "mark",
          "stock", "write"}
Early == {"peek", "lock", "read"}

(* The order in which a request of this kind makes its statements. *)
Rank(kind, step) ==
    CASE step = "peek"        -> 1
      [] step = "lock"        -> 2
      [] step = "read"        -> 3
      [] step = "deleteItems" -> 4
      [] step = "addItems"    -> 5
      [] step = "insert"      -> IF kind = "complete" THEN 7 ELSE 5
      [] step = "mark"        -> 7
      [] step = "write"       -> 8
      [] step = "stock"       -> IF kind = "cancel" THEN 9 ELSE 6

Ascends(kind, p) ==
    \A i, j \in 1 .. Len(p) : i < j => Rank(kind, p[i]) < Rank(kind, p[j])

(* A plan for a request of this kind, made of these steps. *)
IsPlan(kind, p, steps) == p \in Seq(Steps) /\ Ascends(kind, p) /\ Range(p) = steps

(* Ordered statements make a plan. *)
LEMMA PlanOfOne ==
    ASSUME NEW kind, NEW a \in Steps
    PROVE  IsPlan(kind, <<a>>, {a})
<1>1. Range(<<a>>) = {a} /\ <<a>> \in Seq(Steps) /\ Len(<<a>>) = 1
  BY DEF Range
<1>2. QED
  BY <1>1 DEF IsPlan, Ascends

(* Two of them. *)
LEMMA PlanOfTwo ==
    ASSUME NEW kind, NEW a \in Steps, NEW b \in Steps, Rank(kind, a) < Rank(kind, b)
    PROVE  IsPlan(kind, <<a, b>>, {a, b})
<1> DEFINE p == <<a, b>>
<1>1. Range(p) = {a, b} /\ p \in Seq(Steps) /\ Len(p) = 2
  BY DEF Range
<1>2. p[1] = a /\ p[2] = b
  OBVIOUS
<1> HIDE DEF p
<1>3. \A i, j \in 1 .. 2 : i < j => i = 1 /\ j = 2
  OBVIOUS
<1>4. Ascends(kind, p)
  BY <1>1, <1>2, <1>3 DEF Ascends
<1>5. QED
  BY <1>1, <1>4 DEF IsPlan, p

(* Three of them. *)
LEMMA PlanOfThree ==
    ASSUME NEW kind, NEW a \in Steps, NEW b \in Steps, NEW c \in Steps,
           Rank(kind, a) < Rank(kind, b), Rank(kind, b) < Rank(kind, c),
           Rank(kind, a) < Rank(kind, c)
    PROVE  IsPlan(kind, <<a, b, c>>, {a, b, c})
<1> DEFINE p == <<a, b, c>>
<1>1. Range(p) = {a, b, c} /\ p \in Seq(Steps) /\ Len(p) = 3
  BY DEF Range
<1>2. p[1] = a /\ p[2] = b /\ p[3] = c
  OBVIOUS
<1> HIDE DEF p
<1>3. \A i, j \in 1 .. 3 : i < j => (i = 1 /\ j = 2) \/ (i = 1 /\ j = 3) \/ (i = 2 /\ j = 3)
  OBVIOUS
<1>4. Ascends(kind, p)
  BY <1>1, <1>2, <1>3 DEF Ascends
<1>5. QED
  BY <1>1, <1>4 DEF IsPlan, p

(* The next statement is the first in order of those that are left. *)
LEMMA PopPlan ==
    ASSUME NEW kind, NEW p \in Seq(Steps), Ascends(kind, p), p # << >>
    PROVE  /\ Tail(p) \in Seq(Steps) /\ Ascends(kind, Tail(p))
           /\ Head(p) \in Range(p) /\ Range(Tail(p)) = Range(p) \ {Head(p)}
           /\ \A x \in Range(Tail(p)) : Rank(kind, Head(p)) < Rank(kind, x)
<1> DEFINE q == Tail(p)
<1>1. /\ Head(p) \in Steps /\ q \in Seq(Steps) /\ Len(q) = Len(p) - 1
      /\ \A i \in 1 .. Len(q) : q[i] = p[i + 1]
      /\ Head(p) = p[1] /\ Len(p) \in Nat \ {0}
      /\ DOMAIN p = 1 .. Len(p) /\ DOMAIN q = 1 .. Len(q)
  BY HeadTailProperties, EmptySeq, LenProperties
<1> HIDE DEF q
<1>2. Ascends(kind, q)
  <2>1. ASSUME NEW i \in 1 .. Len(q), NEW j \in 1 .. Len(q), i < j
        PROVE  Rank(kind, q[i]) < Rank(kind, q[j])
    <3>1. i + 1 \in 1 .. Len(p) /\ j + 1 \in 1 .. Len(p) /\ i + 1 < j + 1
      BY <1>1, <2>1
    <3>2. QED
      BY <1>1, <3>1 DEF Ascends
  <2>2. QED
    BY <2>1 DEF Ascends
<1>3. \A i \in 1 .. Len(q) : /\ q[i] \in Range(p) /\ i + 1 \in 1 .. Len(p)
                             /\ Rank(kind, Head(p)) < Rank(kind, q[i])
  <2>1. ASSUME NEW i \in 1 .. Len(q)
        PROVE  1 \in 1 .. Len(p) /\ i + 1 \in 1 .. Len(p) /\ 1 < i + 1
    BY <1>1
  <2>2. QED
    BY <1>1, <2>1 DEF Ascends, Range
<1>4. \A x \in Range(q) : x \in Range(p) /\ Rank(kind, Head(p)) < Rank(kind, x)
  BY <1>1, <1>3 DEF Range
<1>5. \A x \in Steps : ~(Rank(kind, x) < Rank(kind, x))
  BY DEF Rank, Steps
<1>6. Head(p) \notin Range(q)
  BY <1>1, <1>4, <1>5
<1>7. ASSUME NEW x \in Range(p), x # Head(p) PROVE x \in Range(q)
  <2>1. PICK i \in 1 .. Len(p) : x = p[i]
    BY <1>1 DEF Range
  <2>2. i # 1 /\ i - 1 \in 1 .. Len(q)
    BY <1>1, <1>7, <2>1
  <2>3. q[i - 1] = x
    BY <1>1, <2>1, <2>2
  <2>4. QED
    BY <1>1, <2>2, <2>3 DEF Range
<1>8. Head(p) \in Range(p)
  BY <1>1 DEF Range
<1>9. QED
  BY <1>1, <1>2, <1>4, <1>6, <1>7, <1>8 DEF q

(* No statement is left in an empty plan only. *)
LEMMA NothingLeft ==
    ASSUME NEW p \in Seq(Steps)
    PROVE  p = << >> <=> Range(p) = {}
<1>1. CASE p = << >>
  BY <1>1 DEF Range
<1>2. CASE p # << >>
  <2>1. Len(p) \in Nat \ {0} /\ DOMAIN p = 1 .. Len(p)
    BY <1>2, EmptySeq, LenProperties
  <2>2. p[1] \in Range(p)
    BY <2>1 DEF Range
  <2>3. QED
    BY <1>2, <2>2
<1>3. QED
  BY <1>1, <1>2

(* A request looks, locks and reads before it does anything else. *)
LEMMA PrologueIs ==
    ASSUME NEW kind \in Kinds
    PROVE  IsPlan(kind, Prologue[kind],
                  CASE kind = "match"    -> {"peek", "lock", "read"}
                    [] kind \in {"pay", "reconcile"} -> {"lock", "read"}
                    [] OTHER             -> {"read"})
<1>1. Rank(kind, "peek") = 1 /\ Rank(kind, "lock") = 2 /\ Rank(kind, "read") = 3
  BY DEF Rank
<1>2. {"peek", "lock", "read"} \subseteq Steps
  BY DEF Steps
<1>3. /\ IsPlan(kind, <<"read">>, {"read"})
      /\ IsPlan(kind, <<"lock", "read">>, {"lock", "read"})
      /\ IsPlan(kind, <<"peek", "lock", "read">>, {"peek", "lock", "read"})
  BY <1>1, <1>2, PlanOfOne, PlanOfTwo, PlanOfThree
<1>4. QED
  BY <1>3 DEF Kinds, Prologue

(* What is planned after the read, as a set. *)
Planned(r, s) ==
    {"write"}
    \union (IF StockOps(r, s) # {} THEN {"stock"} ELSE {})
    \union (IF \/ r.kind \in {"pay", "reconcile"}
               \/ r.kind = "cancel" /\ s.row.paid > 0
               \/ r.kind = "complete" /\ CollectsCash(r, s) THEN {"insert"} ELSE {})
    \union (IF r.kind = "match" THEN {"mark"} ELSE {})
    \union (IF r.kind = "edit" /\ r.lines # {} THEN {"deleteItems"} ELSE {})
    \union (IF r.kind = "create" \/ (r.kind = "edit" /\ r.lines # {})
            THEN {"addItems"} ELSE {})

(* The statements a request makes after it has read its order, in order. *)
LEMMA PlanAfterReadIs ==
    ASSUME NEW r, NEW s, r.kind \in Kinds
    PROVE  IsPlan(r.kind, PlanAfterRead(r, s), Planned(r, s))
<1> DEFINE k == r.kind
           moves == StockOps(r, s) # {}
<1>1. /\ Rank(k, "deleteItems") = 4 /\ Rank(k, "addItems") = 5
      /\ Rank(k, "insert") = (IF k = "complete" THEN 7 ELSE 5)
      /\ Rank(k, "mark") = 7 /\ Rank(k, "write") = 8
      /\ Rank(k, "stock") = (IF k = "cancel" THEN 9 ELSE 6)
  BY DEF Rank
<1>2. {"deleteItems", "addItems", "insert", "mark", "write", "stock"} \subseteq Steps
  BY DEF Steps
<1>3. CASE k = "create"
  <2>1. /\ IsPlan(k, <<"addItems", "stock", "write">>, {"addItems", "stock", "write"})
        /\ IsPlan(k, <<"addItems", "write">>, {"addItems", "write"})
    BY <1>1, <1>2, <1>3, PlanOfOne, PlanOfTwo, PlanOfThree
  <2>2. Planned(r, s) = IF moves THEN {"addItems", "stock", "write"}
                             ELSE {"addItems", "write"}
    BY <1>3 DEF Planned
  <2>3. PlanAfterRead(r, s) = IF moves THEN <<"addItems", "stock", "write">>
                              ELSE <<"addItems", "write">>
    BY <1>3 DEF PlanAfterRead
  <2>4. QED
    BY <2>1, <2>2, <2>3
<1>4. CASE k = "edit"
  <2>1. /\ IsPlan(k, <<"deleteItems", "addItems", "write">>, {"deleteItems", "addItems", "write"})
        /\ IsPlan(k, <<"write">>, {"write"}) /\ ~moves
    BY <1>1, <1>2, <1>4, PlanOfOne, PlanOfTwo, PlanOfThree DEF StockOps
  <2>2. QED
    BY <1>4, <2>1 DEF PlanAfterRead, Planned
<1>5. CASE k = "confirm"
  <2>1. IsPlan(k, <<"stock", "write">>, {"stock", "write"}) /\ moves
    BY <1>1, <1>2, <1>5, PlanOfOne, PlanOfTwo, PlanOfThree DEF StockOps
  <2>2. QED
    BY <1>5, <2>1 DEF PlanAfterRead, Planned
<1>6. CASE k = "match"
  <2>1. /\ IsPlan(k, <<"stock", "mark", "write">>, {"stock", "mark", "write"})
        /\ IsPlan(k, <<"mark", "write">>, {"mark", "write"})
    BY <1>1, <1>2, <1>6, PlanOfOne, PlanOfTwo, PlanOfThree
  <2>2. QED
    BY <1>6, <2>1 DEF PlanAfterRead, Planned
<1>7. CASE k = "cancel"
  <2>1. /\ IsPlan(k, <<"insert", "write", "stock">>, {"insert", "write", "stock"})
        /\ IsPlan(k, <<"insert", "write">>, {"insert", "write"})
        /\ IsPlan(k, <<"write", "stock">>, {"write", "stock"})
        /\ IsPlan(k, <<"write">>, {"write"})
    BY <1>1, <1>2, <1>7, PlanOfOne, PlanOfTwo, PlanOfThree
  <2>2. PlanAfterRead(r, s) = CancelPlan(r, s)
    BY <1>7 DEF PlanAfterRead
  <2>3. QED
    BY <1>7, <2>1, <2>2 DEF CancelPlan, Planned
<1>8. CASE k = "complete"
  <2>1. /\ IsPlan(k, <<"stock", "insert", "write">>, {"stock", "insert", "write"})
        /\ IsPlan(k, <<"stock", "write">>, {"stock", "write"})
        /\ IsPlan(k, <<"insert", "write">>, {"insert", "write"})
        /\ IsPlan(k, <<"write">>, {"write"})
    BY <1>1, <1>2, <1>8, PlanOfOne, PlanOfTwo, PlanOfThree
  <2>2. PlanAfterRead(r, s) = CompletePlan(r, s)
    BY <1>8 DEF PlanAfterRead
  <2>3. QED
    BY <1>8, <2>1, <2>2 DEF CompletePlan, Planned
<1>9. CASE k \in {"pay", "reconcile"}
  <2>1. /\ IsPlan(k, <<"insert", "stock", "write">>, {"insert", "stock", "write"})
        /\ IsPlan(k, <<"insert", "write">>, {"insert", "write"})
    BY <1>1, <1>2, <1>9, PlanOfOne, PlanOfTwo, PlanOfThree
  <2>2. QED
    BY <1>9, <2>1 DEF PlanAfterRead, Planned
<1>10. QED
  BY <1>3, <1>4, <1>5, <1>6, <1>7, <1>8, <1>9 DEF Kinds

-----------------------------------------------------------------------------
(* The flows, whatever overlaps: what each request has in hand is what its    *)
(* plan says it has done so far.                                             *)
Left(t) == Range(plan[t])
HasRead(t) == Running(t) /\ "read" \notin Left(t)
Did(t, step) == step \in Planned(request[t], saw[t]) \ Left(t)
AtMostOne(S) == \A x, y \in S : x = y
Sight == [row : Row, qty : [Variants -> Nat]]

(* The type of everything a request works with. *)
Typed ==
    /\ OrderTypeOK
    /\ DOMAIN items = Orders /\ \A o \in Orders : IsFiniteSet(items[o])
    /\ IsFiniteSet(payments)
    /\ plan \in [Txs -> Seq(Steps)]
    /\ saw \in [Txs -> Sight]
    /\ wrote \in [Txs -> SUBSET Row]
    /\ DOMAIN paying = Txs /\ DOMAIN adding = Txs /\ DOMAIN doomed = Txs
    /\ \A t \in Txs :
          /\ AtMostOne(paying[t]) /\ \A p \in paying[t] : p \in Payment(p.key)
          /\ AtMostOne(adding[t]) /\ \A b \in adding[t] : b.qty \in [Variants -> Nat]

(* t has changed nothing: no row is locked or written in its name. *)
HoldsNothing(t) ==
    /\ wrote[t] = {} /\ paying[t] = {} /\ adding[t] = {} /\ doomed[t] = {}
    /\ \A o \in Orders : rowOwner[o] # t /\ itemOwner[o] # t

(* A transaction that serves no request. *)
Outside(t) ==
    /\ HoldsNothing(t) /\ status[t] \notin Live
    /\ \A o \in Orders : lock[o] # t
    /\ outcome[t] = "idle" => status[t] = "new"

(* What is left to do follows from the read, and nothing is done out of order. *)
PlanOK(t) ==
    LET k == request[t].kind
        todos == Planned(request[t], saw[t]) IN
    /\ request[t] \in Requests
    /\ Ascends(k, plan[t])
    /\ "read" \in Left(t) => Left(t) \subseteq Early
    /\ "read" \notin Left(t) =>
          /\ Left(t) \subseteq todos
          /\ \A x \in todos \ Left(t), y \in Left(t) : Rank(k, x) < Rank(k, y)
          /\ saw[t].row.status \in Accepted[k]

(* The stock call under way is the one the read asks for. *)
StockFollows(t) ==
    IF Did(t, "stock")
    THEN /\ status[t] \in Live
         /\ call[t].op \in StockOps(request[t], saw[t])
         /\ call[t].items = StockItems(request[t], saw[t])
    ELSE status[t] = "new"

(* The payment row is the one the read asks for. *)
PaymentFollows(t) ==
    IF Did(t, "insert")
    THEN \/ paying[t] = {PaymentRow(request[t], saw[t])}
         \/ request[t].kind = "complete" /\ paying[t] = {}
    ELSE IF Did(t, "mark")
    THEN /\ paying[t] # {}
         /\ \A p \in paying[t] : /\ p.key = request[t].key
                                 /\ p.order = {OrderOf(t)}
                                 /\ p.status = "SUCCESS"
    ELSE paying[t] = {}

(* The row of the order is locked once it is written, and no other row. *)
RowFollows(t) ==
    /\ IF Did(t, "write") THEN rowOwner[OrderOf(t)] = t /\ wrote[t] # {}
       ELSE rowOwner[OrderOf(t)] # t /\ wrote[t] = {}
    /\ \A o \in Orders : rowOwner[o] = t => o = OrderOf(t)

(* The lines of the order are locked while they are rewritten, and no others. *)
ItemsFollow(t) ==
    /\ IF Did(t, "addItems")
       THEN /\ itemOwner[OrderOf(t)] = t
            /\ adding[t] = {[by |-> t, qty |-> NewLines(request[t])]}
       ELSE adding[t] = {}
    /\ ~Did(t, "deleteItems") => doomed[t] = {}
    /\ \A o \in Orders : itemOwner[o] = t =>
          o = OrderOf(t) /\ "addItems" \in Planned(request[t], saw[t])

Follows(t) == StockFollows(t) /\ PaymentFollows(t) /\ RowFollows(t) /\ ItemsFollow(t)

Local(t) ==
    /\ ~Running(t) => Outside(t)
    /\ Running(t) => PlanOK(t)
    /\ Running(t) /\ ~HasRead(t) => HoldsNothing(t) /\ status[t] = "new"
    /\ HasRead(t) => Follows(t)

FlowInv == Typed /\ \A t \in Txs : Local(t)

(* After the read nothing early is planned. *)
LEMMA PlannedLate ==
    ASSUME NEW r, NEW s
    PROVE  Planned(r, s) \subseteq Steps \ Early
BY DEF Planned, Steps, Early

(* A request is about an order. *)
LEMMA OrderExists ==
    ASSUME NEW t \in Txs, Running(t), Local(t)
    PROVE  request[t] \in Requests /\ OrderOf(t) \in Orders /\ request[t].kind \in Kinds
BY RequestsAssumption DEF Local, PlanOK, OrderOf

(* What t runs next leaves its plan. *)
LEMMA Popped ==
    ASSUME Typed, NEW t \in Txs, Local(t), NEW step, At(t, step), Pop(t)
    PROVE  /\ step \in Left(t) /\ Left(t)' = Left(t) \ {step}
           /\ plan' \in [Txs -> Seq(Steps)]
           /\ \A u \in Txs \ {t} : plan'[u] = plan[u]
           /\ Ascends(request[t].kind, plan'[t])
           /\ \A x \in Left(t) \ {step} : Rank(request[t].kind, step) < Rank(request[t].kind, x)
<1> DEFINE p == plan[t]
<1>1. p \in Seq(Steps) /\ p # << >> /\ Head(p) = step /\ Ascends(request[t].kind, p)
  BY DEF Typed, At, Local, PlanOK
<1>2. plan' = [plan EXCEPT ![t] = Tail(p)]
  BY DEF Pop
<1> HIDE DEF p
<1>3. /\ Tail(p) \in Seq(Steps) /\ Ascends(request[t].kind, Tail(p))
      /\ step \in Range(p) /\ Range(Tail(p)) = Range(p) \ {step}
      /\ \A x \in Range(Tail(p)) : Rank(request[t].kind, step) < Rank(request[t].kind, x)
  BY <1>1, PopPlan
<1>4. plan'[t] = Tail(p) /\ plan' \in [Txs -> Seq(Steps)]
      /\ \A u \in Txs \ {t} : plan'[u] = plan[u]
  BY <1>2, <1>3 DEF Typed
<1>5. QED
  BY <1>3, <1>4 DEF Left, p

(* Before the read t has nothing in hand, and its plan stays in order. *)
LEMMA EarlyStep ==
    ASSUME Typed, NEW t \in Txs, Local(t), NEW step \in {"peek", "lock"}, At(t, step), Pop(t),
           UNCHANGED <<outcome, request, saw>>
    PROVE  /\ Running(t) /\ ~HasRead(t) /\ "read" \in Left(t)'
           /\ HoldsNothing(t) /\ status[t] = "new" /\ PlanOK(t)'
<1>1. /\ step \in Left(t) /\ Left(t)' = Left(t) \ {step}
      /\ Ascends(request[t].kind, plan'[t])
  BY Popped
<1>2. "read" \in Left(t)
  BY <1>1, PlannedLate DEF At, Local, PlanOK, Early
<1>3. "read" \in Left(t)'
  BY <1>1, <1>2
<1>4. PlanOK(t)'
  BY <1>1, <1>2, <1>3 DEF At, Local, PlanOK, Left
<1>5. QED
  BY <1>2, <1>3, <1>4 DEF At, HasRead, Local

(* After the read, what t does next is planned and was not done before. *)
LEMMA LateStep ==
    ASSUME Typed, NEW t \in Txs, Local(t), NEW step \in Steps \ Early, At(t, step), Pop(t),
           UNCHANGED <<outcome, request, saw>>
    PROVE  /\ HasRead(t) /\ HasRead(t)' /\ PlanOK(t) /\ PlanOK(t)' /\ Follows(t)
           /\ step \in Planned(request[t], saw[t]) /\ ~Did(t, step) /\ Did(t, step)'
           /\ \A x : x # step => (Did(t, x)' <=> Did(t, x))
<1>1. /\ step \in Left(t) /\ Left(t)' = Left(t) \ {step}
      /\ Ascends(request[t].kind, plan'[t])
      /\ \A x \in Left(t) \ {step} : Rank(request[t].kind, step) < Rank(request[t].kind, x)
  BY Popped
<1>2. Running(t) /\ PlanOK(t)
  BY DEF At, Local
<1>3. "read" \notin Left(t) /\ "read" \notin Left(t)'
  BY <1>1, <1>2 DEF PlanOK
<1>4. Left(t) \subseteq Planned(request[t], saw[t]) /\ Follows(t)
  BY <1>2, <1>3 DEF PlanOK, Local, HasRead
<1>5. PlanOK(t)'
  <2>1. \A x \in Planned(request[t], saw[t]) \ Left(t)', y \in Left(t)' :
            Rank(request[t].kind, x) < Rank(request[t].kind, y)
    BY <1>1, <1>2, <1>3 DEF PlanOK
  <2>2. request'[t] = request[t] /\ saw'[t] = saw[t]
    OBVIOUS
  <2>3. QED
    BY <1>1, <1>2, <1>3, <1>4, <2>1, <2>2 DEF PlanOK
<1>6. \A x : Did(t, x)' <=> (x \in Planned(request[t], saw[t]) /\ x \notin Left(t)')
  BY DEF Did
<1>7. QED
  BY <1>1, <1>2, <1>3, <1>4, <1>5, <1>6 DEF HasRead, Running, Did

(* What the steps of others leave to u. *)
Keeps(u) ==
    /\ outcome'[u] = outcome[u] /\ request'[u] = request[u] /\ plan'[u] = plan[u]
    /\ saw'[u] = saw[u] /\ wrote'[u] = wrote[u] /\ paying'[u] = paying[u]
    /\ doomed'[u] = doomed[u] /\ adding'[u] = adding[u]
    /\ status'[u] = status[u] /\ call'[u] = call[u]
    /\ \A o \in Orders : /\ rowOwner'[o] = u <=> rowOwner[o] = u
                         /\ itemOwner'[o] = u <=> itemOwner[o] = u
                         /\ lock'[o] = u => lock[o] = u

(* What a request knows and holds depends on what it keeps only. *)
LEMMA LocalKept ==
    ASSUME NEW u \in Txs, Local(u), Keeps(u)
    PROVE  Local(u)'
<1>1. /\ Left(u)' = Left(u) /\ Running(u)' = Running(u) /\ HasRead(u)' = HasRead(u)
      /\ OrderOf(u)' = OrderOf(u) /\ \A x : Did(u, x)' = Did(u, x)
  BY DEF Keeps, Left, Running, HasRead, OrderOf, Did
<1>2. HoldsNothing(u) => HoldsNothing(u)'
  BY DEF Keeps, HoldsNothing
<1>3. Outside(u) => Outside(u)'
  BY <1>2 DEF Keeps, Outside
<1>4. PlanOK(u) => PlanOK(u)'
  BY <1>1 DEF Keeps, PlanOK
<1>5. ASSUME Follows(u), OrderOf(u) \in Orders PROVE Follows(u)'
  <2>1. StockFollows(u)'
    BY <1>1, <1>5 DEF Keeps, Follows, StockFollows
  <2>2. PaymentFollows(u)'
    BY <1>1, <1>5 DEF Keeps, Follows, PaymentFollows
  <2>3. RowFollows(u)'
    BY <1>1, <1>5 DEF Keeps, Follows, RowFollows
  <2>4. ItemsFollow(u)'
    BY <1>1, <1>5 DEF Keeps, Follows, ItemsFollow
  <2>5. QED
    BY <2>1, <2>2, <2>3, <2>4 DEF Follows
<1>6. Running(u) => OrderOf(u) \in Orders
  BY OrderExists
<1>7. HasRead(u) => Running(u)
  BY DEF HasRead
<1>8. status'[u] = status[u]
  BY DEF Keeps
<1>9. QED
  BY <1>1, <1>2, <1>3, <1>4, <1>5, <1>6, <1>7, <1>8 DEF Local

(* A stock statement of t is no business of the other transactions. *)
LEMMA StockKept ==
    ASSUME TypeOK, NEW t \in Txs, NEW u \in Txs \ {t},
           \/ UNCHANGED stockVars \/ (\E c \in Calls : Begin(t, c))
           \/ Statement(t) \/ Publish(t) \/ Discard(t)
    PROVE  status'[u] = status[u] /\ call'[u] = call[u]
<1>1. CASE UNCHANGED stockVars
  BY <1>1 DEF stockVars
<1>2. CASE \E c \in Calls : Begin(t, c)
  BY <1>2 DEF TypeOK, Begin
<1>3. CASE Statement(t)
  BY <1>3 DEF TypeOK, Statement, Reserve, CommitReserved, CommitDirect, ReadBefore,
              Release, Restock, Adjust, UpdateRow
<1>4. CASE Publish(t) \/ Discard(t)
  BY <1>4 DEF TypeOK, Publish, Discard
<1>5. QED
  BY <1>1, <1>2, <1>3, <1>4

(* The end of a request is no business of the others either. *)
LEMMA LeaveKeeps ==
    ASSUME TypeOK, Typed, NEW t \in Txs, NEW u \in Txs \ {t}, Leave(t), NEW end,
           outcome' = [outcome EXCEPT ![t] = end],
           UNCHANGED stockVars \/ Publish(t) \/ Discard(t)
    PROVE  Keeps(u)
<1>1. status'[u] = status[u] /\ call'[u] = call[u]
  BY StockKept
<1>2. u # NoTx /\ u # t
  BY NoTxAssumption
<1>3. \A o \in Orders : /\ rowOwner'[o] = u <=> rowOwner[o] = u
                        /\ itemOwner'[o] = u <=> itemOwner[o] = u
                        /\ lock'[o] = u => lock[o] = u
  BY <1>2 DEF Leave
<1>4. /\ outcome'[u] = outcome[u] /\ request'[u] = request[u] /\ plan'[u] = plan[u]
      /\ saw'[u] = saw[u] /\ wrote'[u] = wrote[u] /\ paying'[u] = paying[u]
      /\ doomed'[u] = doomed[u] /\ adding'[u] = adding[u]
  BY <1>2 DEF Leave, Typed, OrderTypeOK
<1>5. QED
  BY <1>1, <1>3, <1>4 DEF Keeps

(* The end of a request, well or not. *)
Ends(t) ==
    /\ Running(t) /\ Leave(t)
    /\ \E end \in {"committed", "failed"} : outcome' = [outcome EXCEPT ![t] = end]
    /\ UNCHANGED stockVars \/ Publish(t) \/ Discard(t)
    /\ status'[t] \notin Live

(* A request that fails changes no table. *)
LEMMA FailEnds ==
    ASSUME TypeOK, NEW t \in Txs, Running(t), Fail(t)
    PROVE  Ends(t) /\ UNCHANGED <<orders, items, payments>>
<1>1. outcome' = [outcome EXCEPT ![t] = "failed"]
  BY DEF Fail
<1>2. (UNCHANGED stockVars \/ Discard(t)) /\ status'[t] \notin Live
  BY DEF Fail, Discard, stockVars, Live, TypeOK
<1>3. QED
  BY <1>1, <1>2 DEF Ends, Fail

(* A commit ends its request. *)
LEMMA CommitEnds ==
    ASSUME TypeOK, NEW t \in Txs, Commit(t)
    PROVE  Ends(t)
<1>1. outcome' = [outcome EXCEPT ![t] = "committed"] /\ Running(t) /\ Leave(t)
  BY DEF Commit
<1>2. (UNCHANGED stockVars \/ Publish(t)) /\ status'[t] \notin Live
  BY DEF Commit, Finish, Publish, StockIdle, stockVars, Live, TypeOK
<1>3. QED
  BY <1>1, <1>2 DEF Ends

(* Every step of t keeps what the others know and hold. *)
LEMMA OthersKept ==
    ASSUME TypeOK, Typed, NEW t \in Txs, NEW u \in Txs \ {t},
           (\E r \in Requests : Start(t, r)) \/ OrderStep(t) \/ Die(t)
    PROVE  Keeps(u)
<1>1. u # NoTx /\ u # t
  BY NoTxAssumption
<1>2. ASSUME Ends(t) PROVE Keeps(u)
  BY <1>2, LeaveKeeps DEF Ends
<1>3. CASE Die(t) \/ Commit(t) \/ Reject(t)
  BY <1>2, <1>3, FailEnds, CommitEnds DEF Die, Reject
<1>4. CASE \E r \in Requests : Start(t, r)
  <2>1. PICK r \in Requests : Start(t, r)
    BY <1>4
  <2>2. QED
    BY <1>1, <2>1 DEF Start, stockVars, dbVars, Keeps, Typed, OrderTypeOK
<1>5. CASE Peek(t) \/ ReadOrder(t) \/ InsertPayment(t) \/ SkipCash(t) \/ MarkPayment(t)
  BY <1>1, <1>5 DEF Peek, ReadOrder, InsertPayment, SkipCash, MarkPayment, Pop,
                    stockVars, dbVars, Keeps, Typed, OrderTypeOK
<1>6. CASE CallStock(t)
  <2>1. status'[u] = status[u] /\ call'[u] = call[u]
    BY <1>6, StockKept DEF CallStock
  <2>2. QED
    BY <1>1, <1>6, <2>1 DEF CallStock, Pop, dbVars, Keeps, Typed
<1>7. CASE StockStatement(t)
  <2>1. status'[u] = status[u] /\ call'[u] = call[u]
    BY <1>7, StockKept DEF StockStatement
  <2>2. QED
    BY <1>7, <2>1 DEF StockStatement, dbVars, flowVars, Keeps
<1>8. CASE TakeLock(t) \/ WriteOrder(t)
  BY <1>1, <1>8 DEF TakeLock, WriteOrder, Pop, stockVars, Keeps, Typed, OrderTypeOK
<1>9. CASE DeleteItems(t)
  BY <1>1, <1>9 DEF DeleteItems, Pop, stockVars, Keeps, Typed, OrderTypeOK
<1>10. CASE AddItems(t)
  <2>1. itemOwner[OrderOf(t)] # u
    BY <1>1, <1>10 DEF AddItems
  <2>2. QED
    BY <1>1, <1>10, <2>1 DEF AddItems, Pop, stockVars, Keeps, Typed, OrderTypeOK
<1>11. QED
  BY <1>3, <1>4, <1>5, <1>6, <1>7, <1>8, <1>9, <1>10 DEF OrderStep

(* The sum of a function is the sum over its domain. *)
LEMMA SumOfFunction ==
    ASSUME NEW f
    PROVE  SumFunction(f) = SumFunctionOnSet(f, DOMAIN f)
BY DEF SumFunction

(* Quantities are natural numbers. *)
LEMMA QuantitiesType ==
    ASSUME Typed, NEW o \in Orders
    PROVE  ItemsOf(o) \in [Variants -> Nat]
<1>1. ASSUME NEW v \in Variants
      PROVE  SumFunction([b \in items[o] |-> b.qty[v]]) \in Nat
  <2> DEFINE f == [b \in items[o] |-> b.qty[v]]
  <2>1. DOMAIN f = items[o] /\ IsFiniteSet(items[o])
    BY DEF Typed
  <2>2. \A b \in items[o] : f[b] \in Nat
    BY DEF Typed, OrderTypeOK
  <2>3. SumFunction(f) = SumFunctionOnSet(f, items[o])
    BY <2>1, SumOfFunction
  <2> HIDE DEF f
  <2>4. SumFunctionOnSet(f, items[o]) \in Nat
    BY <2>1, <2>2, SumNat
  <2>5. QED
    BY <2>3, <2>4 DEF f
<1>2. QED
  BY <1>1 DEF ItemsOf

(* So is a price. *)
LEMMA PriceType ==
    ASSUME NEW qty \in [Variants -> Nat]
    PROVE  Price(qty) \in Nat
BY FiniteAssumption, SumNat DEF Price

(* New lines are lines of the request. *)
LEMMA NewLinesType ==
    ASSUME NEW r \in Requests, r.kind = "create" \/ r.lines # {}
    PROVE  NewLines(r) \in [Variants -> Nat]
<1>1. r.lines # {} /\ r.lines \subseteq [Variants -> Nat]
  BY RequestsAssumption
<1>2. QED
  BY <1>1 DEF NewLines

(* The payment row of a request is one. *)
LEMMA PaymentRowType ==
    ASSUME NEW r \in Requests, NEW s \in Sight
    PROVE  /\ PaymentRow(r, s) \in Payment(PaymentRow(r, s).key)
           /\ PaymentRow(r, s).status = "SUCCESS" /\ PaymentRow(r, s).order = {r.order}
<1>1. s.row.paid \in Int /\ s.row.total \in Int /\ r.amount \in Int /\ r.order \in Orders
  BY RequestsAssumption DEF Sight, Row
<1>2. QED
  BY <1>1 DEF PaymentRow, Payment

(* The row an UPDATE leaves is one of the table. *)
LEMMA WrittenType ==
    ASSUME NEW r \in Requests, NEW s \in Sight, NEW row \in Row, NEW cash \in BOOLEAN
    PROVE  Written(r, s, row, cash) \in Row
<1>1. /\ s.row.paid \in Int /\ s.row.total \in Nat /\ s.row.pay \in PayStatuses
      /\ PaidWith(r, s) \in Int /\ r.kind \in Kinds
  BY RequestsAssumption DEF Sight, Row, PaidWith
<1>2. \A next \in Statuses : Credited(r, s, row, next) \in Row
  BY <1>1 DEF Credited, Row, PayStatuses
<1>3. CASE r.kind = "create"
  <2>1. Price(NewLines(r)) \in Nat
    BY <1>3, NewLinesType, PriceType
  <2>2. QED
    BY <1>3, <2>1 DEF Written, Row, Statuses, PayStatuses
<1>4. CASE r.kind = "edit"
  <2>1. (IF r.lines = {} THEN s.row.total ELSE Price(NewLines(r))) \in Nat
    BY <1>1, NewLinesType, PriceType
  <2>2. QED
    BY <1>4, <2>1 DEF Written, Row
<1>5. CASE r.kind = "confirm"
  BY <1>5 DEF Written, Row, Statuses
<1>6. CASE r.kind = "pay"
  BY <1>2, <1>6 DEF Written, Statuses
<1>7. CASE r.kind = "reconcile"
  <2>1. CASE s.row.status = "CANCELLED"
    <3>1. Written(r, s, row, cash) = [row EXCEPT !.paid = PaidWith(r, s)]
      BY <1>7, <2>1 DEF Written, Fulfilled
    <3>2. QED
      BY <1>1, <3>1 DEF Row
  <2>2. CASE s.row.status \in Fulfilled
    <3>1. Written(r, s, row, cash) = Credited(r, s, row, row.status)
      BY <1>7, <2>2 DEF Written, Fulfilled
    <3>2. QED
      BY <1>2, <3>1 DEF Row
  <2>3. CASE s.row.status \notin Fulfilled \union {"CANCELLED"}
    <3>1. Written(r, s, row, cash) = Credited(r, s, row, IF Settles(r, s) THEN "PAID" ELSE "CONFIRMED")
      BY <1>7, <2>3 DEF Written
    <3>2. QED
      BY <1>2, <3>1 DEF Statuses
  <2>4. QED
    BY <2>1, <2>2, <2>3
<1>8. CASE r.kind = "match"
  <2>1. PICK next \in Statuses : Written(r, s, row, cash) = Credited(r, s, row, next)
    BY <1>8 DEF Written, Statuses, Row
  <2>2. QED
    BY <1>2, <2>1
<1>9. CASE r.kind = "cancel"
  BY <1>9 DEF Written, Row, Statuses, PayStatuses
<1>10. CASE r.kind = "complete"
  <2> DEFINE paid == IF cash THEN s.row.total ELSE s.row.paid
             pay == IF cash THEN "PAID" ELSE s.row.pay
  <2>1. paid \in Int /\ pay \in PayStatuses
    BY <1>1 DEF PayStatuses
  <2>2. Written(r, s, row, cash) =
            [row EXCEPT !.status = "COMPLETED", !.paid = paid, !.pay = pay]
    BY <1>10 DEF Written
  <2> HIDE DEF paid, pay
  <2>3. QED
    BY <2>1, <2>2 DEF Row, Statuses
<1>11. QED
  BY <1>1, <1>3, <1>4, <1>5, <1>6, <1>7, <1>8, <1>9, <1>10 DEF Kinds

(* A request that arrives has read and done nothing. *)
LEMMA StartLocal ==
    ASSUME Typed, NEW t \in Txs, Local(t), NEW r \in Requests, Start(t, r)
    PROVE  Typed' /\ Local(t)'
<1>1. ~Running(t) /\ Outside(t) /\ status[t] = "new"
  BY DEF Start, Local, Running, Outside
<1>2. /\ plan' = [plan EXCEPT ![t] = Prologue[r.kind]]
      /\ request' = [request EXCEPT ![t] = r]
      /\ outcome' = [outcome EXCEPT ![t] = "running"]
      /\ UNCHANGED <<stockVars, dbVars, saw, wrote, paying, doomed, adding>>
  BY DEF Start
<1>3. /\ Prologue[r.kind] \in Seq(Steps) /\ Ascends(r.kind, Prologue[r.kind])
      /\ "read" \in Range(Prologue[r.kind]) /\ Range(Prologue[r.kind]) \subseteq Early
  <2>1. r.kind \in Kinds
    BY RequestsAssumption
  <2>2. QED
    BY <2>1, PrologueIs DEF IsPlan, Early
<1>4. plan' \in [Txs -> Seq(Steps)] /\ plan'[t] = Prologue[r.kind]
  BY <1>2, <1>3 DEF Typed
<1>5. Typed'
  <2>1. request' \in [Txs -> Requests \union {NoRequest}]
        /\ outcome' \in [Txs -> {"idle", "running", "committed", "failed"}]
    BY <1>2 DEF Typed, OrderTypeOK
  <2>2. OrderTypeOK'
    BY <1>2, <2>1 DEF Typed, OrderTypeOK, dbVars
  <2>3. QED
    BY <1>2, <1>4, <2>2 DEF Typed, dbVars
<1>6. request'[t] = r /\ outcome'[t] = "running"
  BY <1>2 DEF Typed, OrderTypeOK
<1>7. Left(t)' = Range(Prologue[r.kind])
  BY <1>4 DEF Left
<1>8. Running(t)' /\ ~HasRead(t)' /\ PlanOK(t)'
  BY <1>3, <1>4, <1>6, <1>7 DEF Running, HasRead, PlanOK
<1>9. HoldsNothing(t)' /\ status'[t] = "new"
  BY <1>1, <1>2 DEF Outside, HoldsNothing, dbVars, stockVars
<1>10. QED
  BY <1>5, <1>8, <1>9 DEF Local

(* Looking and locking change no table. *)
LEMMA EarlyLocal ==
    ASSUME Typed, NEW t \in Txs, Local(t), Peek(t) \/ TakeLock(t)
    PROVE  Typed' /\ Local(t)'
<1>1. /\ At(t, "peek") \/ At(t, "lock")
      /\ Pop(t) /\ UNCHANGED <<outcome, request, saw, wrote, paying, doomed, adding>>
      /\ UNCHANGED <<stockVars, orders, rowOwner, items, itemOwner, payments>>
  BY DEF Peek, TakeLock, dbVars
<1>2. /\ Running(t) /\ "read" \in Left(t)' /\ HoldsNothing(t) /\ status[t] = "new"
      /\ PlanOK(t)'
  BY <1>1, EarlyStep
<1>3. plan' \in [Txs -> Seq(Steps)]
  BY <1>1, Popped
<1>4. lock' \in [Orders -> Txs \union {NoTx}]
  BY DEF Peek, TakeLock, dbVars, Typed, OrderTypeOK
<1>5. OrderTypeOK'
  BY <1>1, <1>4 DEF Typed, OrderTypeOK
<1>6. Typed'
  BY <1>1, <1>3, <1>5 DEF Typed
<1>7. HoldsNothing(t)' /\ status'[t] = "new" /\ Running(t)' /\ ~HasRead(t)'
  BY <1>1, <1>2 DEF HoldsNothing, stockVars, Running, HasRead
<1>8. QED
  BY <1>2, <1>6, <1>7 DEF Local

(* What is read decides the rest of the plan; nothing is done yet. *)
LEMMA ReadLocal ==
    ASSUME Typed, NEW t \in Txs, Local(t), ReadOrder(t)
    PROVE  /\ Typed' /\ Local(t)'
           /\ HasRead(t)' /\ saw'[t] = Seen(OrderOf(t)) /\ "lock" \notin Left(t)
           /\ \A x : ~Did(t, x)'
<1> DEFINE r == request[t]
           s == Seen(OrderOf(t))
           p == PlanAfterRead(r, s)
<1>1. /\ At(t, "read") /\ Accepts(r, s)
      /\ saw' = [saw EXCEPT ![t] = s] /\ plan' = [plan EXCEPT ![t] = p]
      /\ UNCHANGED <<stockVars, dbVars, outcome, request, wrote, paying, doomed, adding>>
  BY DEF ReadOrder
<1>2. Running(t) /\ PlanOK(t) /\ r \in Requests /\ OrderOf(t) \in Orders /\ r.kind \in Kinds
  BY <1>1, OrderExists DEF At, Local
<1>3. s \in Sight
  <2>1. orders[OrderOf(t)] \in Row
    BY <1>2 DEF Typed, OrderTypeOK
  <2>2. ItemsOf(OrderOf(t)) \in [Variants -> Nat]
    BY <1>2, QuantitiesType
  <2>3. QED
    BY <2>1, <2>2 DEF Seen, Sight
<1>4. s.row.status \in Accepted[r.kind]
  BY <1>1 DEF Accepts
<1>5. /\ plan[t] \in Seq(Steps) /\ plan[t] # << >> /\ Head(plan[t]) = "read"
      /\ Ascends(r.kind, plan[t])
  BY <1>1, <1>2 DEF At, PlanOK, Typed
<1>6. "read" \in Left(t) /\ "lock" \notin Left(t)
  <2>1. /\ Head(plan[t]) \in Range(plan[t])
        /\ Range(Tail(plan[t])) = Range(plan[t]) \ {Head(plan[t])}
        /\ \A x \in Range(Tail(plan[t])) : Rank(r.kind, Head(plan[t])) < Rank(r.kind, x)
    BY <1>5, PopPlan
  <2>2. ~(Rank(r.kind, "read") < Rank(r.kind, "lock"))
    BY DEF Rank
  <2>3. QED
    BY <1>5, <2>1, <2>2 DEF Left
<1>7. HoldsNothing(t) /\ status[t] = "new"
  BY <1>2, <1>6 DEF Local, HasRead
<1> HIDE DEF s, p
<1>8. p \in Seq(Steps) /\ Ascends(r.kind, p) /\ Range(p) = Planned(r, s)
  BY <1>2, PlanAfterReadIs DEF IsPlan, p
<1>9. plan' \in [Txs -> Seq(Steps)] /\ saw' \in [Txs -> Sight]
      /\ plan'[t] = p /\ saw'[t] = s /\ Left(t)' = Planned(r, s)
  BY <1>1, <1>3, <1>8 DEF Typed, Left
<1>10. Typed'
  <2>1. OrderTypeOK'
    BY <1>1 DEF Typed, OrderTypeOK, dbVars
  <2>2. QED
    BY <1>1, <1>9, <2>1 DEF Typed, dbVars
<1>11. "read" \notin Left(t)' /\ HasRead(t)' /\ Running(t)'
  BY <1>1, <1>2, <1>9, PlannedLate DEF Running, HasRead, Early
<1>12. PlanOK(t)'
  BY <1>1, <1>2, <1>4, <1>8, <1>9, <1>11 DEF PlanOK
<1>13. \A x : ~Did(t, x)'
  BY <1>1, <1>9 DEF Did
<1>14. Follows(t)'
  <2>1. HoldsNothing(t)' /\ status'[t] = "new"
    BY <1>1, <1>7 DEF HoldsNothing, stockVars, dbVars
  <2>2. OrderOf(t)' \in Orders
    BY <1>1, <1>2 DEF OrderOf
  <2>3. QED
    BY <1>13, <2>1, <2>2 DEF Follows, StockFollows, PaymentFollows, RowFollows,
                             ItemsFollow, HoldsNothing
<1>15. Local(t)'
  BY <1>11, <1>12, <1>14 DEF Local
<1>16. QED
  BY <1>6, <1>9, <1>10, <1>11, <1>13, <1>15 DEF s

(* The parts of Follows that a step does not touch. *)
LEMMA PartsKept ==
    ASSUME NEW t \in Txs, UNCHANGED <<request, saw>>, Follows(t)
    PROVE  /\ (Did(t, "stock")' <=> Did(t, "stock")) /\ UNCHANGED stockVars => StockFollows(t)'
           /\ /\ Did(t, "insert")' <=> Did(t, "insert")
              /\ Did(t, "mark")' <=> Did(t, "mark")
              /\ UNCHANGED paying
              => PaymentFollows(t)'
           /\ (Did(t, "write")' <=> Did(t, "write")) /\ UNCHANGED <<rowOwner, wrote>>
              => RowFollows(t)'
           /\ /\ Did(t, "addItems")' <=> Did(t, "addItems")
              /\ Did(t, "deleteItems")' <=> Did(t, "deleteItems")
              /\ UNCHANGED <<itemOwner, adding, doomed>>
              => ItemsFollow(t)'
<1>1. OrderOf(t)' = OrderOf(t)
  BY DEF OrderOf
<1>2. StockFollows(t) /\ PaymentFollows(t) /\ RowFollows(t) /\ ItemsFollow(t)
  BY DEF Follows
<1>3. ASSUME Did(t, "stock")' <=> Did(t, "stock"), UNCHANGED stockVars PROVE StockFollows(t)'
  BY <1>2, <1>3 DEF StockFollows, stockVars
<1>4. ASSUME Did(t, "insert")' <=> Did(t, "insert"), Did(t, "mark")' <=> Did(t, "mark"),
             UNCHANGED paying
      PROVE  PaymentFollows(t)'
  BY <1>1, <1>2, <1>4 DEF PaymentFollows
<1>5. ASSUME Did(t, "write")' <=> Did(t, "write"), UNCHANGED <<rowOwner, wrote>>
      PROVE  RowFollows(t)'
  BY <1>1, <1>2, <1>5 DEF RowFollows
<1>6. ASSUME Did(t, "addItems")' <=> Did(t, "addItems"),
             Did(t, "deleteItems")' <=> Did(t, "deleteItems"),
             UNCHANGED <<itemOwner, adding, doomed>>
      PROVE  ItemsFollow(t)'
  BY <1>1, <1>2, <1>6 DEF ItemsFollow
<1>7. QED
  BY <1>3, <1>4, <1>5, <1>6

(* A payment row is inserted, marked, or known to be there. *)
LEMMA PayLocal ==
    ASSUME Typed, NEW t \in Txs, Local(t), InsertPayment(t) \/ SkipCash(t) \/ MarkPayment(t)
    PROVE  Typed' /\ Local(t)'
<1> DEFINE r == request[t]
           row == PaymentRow(r, saw[t])
<1>1. PICK step \in {"insert", "mark"} :
        /\ At(t, step) /\ Pop(t)
        /\ UNCHANGED <<stockVars, dbVars, outcome, request, saw, wrote, doomed, adding>>
        /\ step = "mark" <=> MarkPayment(t)
  <2>1. CASE MarkPayment(t)
    BY <2>1 DEF MarkPayment
  <2>2. CASE ~MarkPayment(t)
    BY <2>2 DEF InsertPayment, SkipCash
  <2>3. QED
    BY <2>1, <2>2
<1>2. step \in Steps \ Early
  BY DEF Steps, Early
<1>3. /\ HasRead(t)' /\ PlanOK(t)' /\ Follows(t) /\ step \in Planned(r, saw[t])
      /\ Did(t, step)' /\ ~Did(t, step)
      /\ \A x : x # step => (Did(t, x)' <=> Did(t, x))
  BY <1>1, <1>2, LateStep
<1>4. /\ r \in Requests /\ saw[t] \in Sight /\ OrderOf(t) \in Orders
  BY <1>1, OrderExists DEF At, Typed
<1>5. step = "mark" => ~Did(t, "insert")
  BY <1>3 DEF Planned, Did
<1>6. step = "insert" => ~Did(t, "mark")
  BY <1>3 DEF Planned, Did
<1>7. paying[t] = {}
  BY <1>3, <1>5, <1>6 DEF Follows, PaymentFollows
<1> DEFINE new == paying'[t]
<1>8. /\ DOMAIN paying' = Txs /\ \A u \in Txs \ {t} : paying'[u] = paying[u]
      /\ AtMostOne(new) /\ \A p \in new : p \in Payment(p.key)
      /\ step = "insert" => new = {row} \/ (r.kind = "complete" /\ new = {})
      /\ step = "mark" => /\ new # {}
                          /\ \A p \in new : /\ p.key = r.key
                                            /\ p.order = {OrderOf(t)}
                                            /\ p.status = "SUCCESS"
  <2>1. CASE InsertPayment(t)
    <3>1. paying' = [paying EXCEPT ![t] = {row}] /\ row \in Payment(row.key) /\ At(t, "insert")
      BY <1>4, <2>1, PaymentRowType DEF InsertPayment
    <3>2. step = "insert"
      BY <1>1, <3>1 DEF At
    <3> HIDE DEF row
    <3>3. QED
      BY <3>1, <3>2 DEF AtMostOne, Typed
  <2>2. CASE SkipCash(t)
    <3>1. UNCHANGED paying /\ At(t, "insert") /\ r.kind = "complete"
      BY <2>2 DEF SkipCash
    <3>2. step = "insert"
      BY <1>1, <3>1 DEF At
    <3>3. QED
      BY <1>7, <3>1, <3>2 DEF AtMostOne, Typed
  <2>3. CASE MarkPayment(t)
    <3>1. PICK p \in payments :
            /\ p.key = r.key
            /\ paying' = [paying EXCEPT ![t] =
                 {[p EXCEPT !.status = "SUCCESS", !.order = {OrderOf(t)}]}]
      BY <2>3 DEF MarkPayment
    <3> DEFINE q == [p EXCEPT !.status = "SUCCESS", !.order = {OrderOf(t)}]
    <3>2. p \in Payment(p.key)
      BY DEF Typed, OrderTypeOK
    <3>3. /\ q.key = r.key /\ q.order = {OrderOf(t)} /\ q.status = "SUCCESS"
          /\ q \in Payment(q.key)
      BY <1>4, <3>1, <3>2 DEF Payment
    <3>4. paying' = [paying EXCEPT ![t] = {q}] /\ step = "mark"
      BY <1>1, <2>3, <3>1
    <3> HIDE DEF q
    <3>5. QED
      BY <3>3, <3>4 DEF AtMostOne, Typed
  <2>4. QED
    BY <2>1, <2>2, <2>3
<1> HIDE DEF new
<1> HIDE DEF row
<1>10. Typed'
  <2>1. plan' \in [Txs -> Seq(Steps)]
    BY <1>1, Popped
  <2>2. \A u \in Txs : AtMostOne(paying'[u]) /\ \A p \in paying'[u] : p \in Payment(p.key)
    BY <1>8 DEF Typed, new
  <2>3. OrderTypeOK'
    BY <1>1 DEF Typed, OrderTypeOK, dbVars
  <2>4. QED
    BY <1>1, <1>8, <2>1, <2>2, <2>3 DEF Typed, dbVars
<1>11. PaymentFollows(t)'
  <2>1. /\ OrderOf(t)' = OrderOf(t) /\ request'[t] = r /\ saw'[t] = saw[t]
        /\ row = PaymentRow(r, saw[t])
    BY <1>1 DEF OrderOf, row
  <2>2. CASE step = "insert"
    BY <1>3, <1>8, <2>1, <2>2 DEF PaymentFollows, new
  <2>3. CASE step = "mark"
    BY <1>3, <1>5, <1>8, <2>1, <2>3 DEF PaymentFollows, new
  <2>4. QED
    BY <2>2, <2>3
<1>12. Follows(t)'
  <2>1. StockFollows(t)' /\ RowFollows(t)' /\ ItemsFollow(t)'
    BY <1>1, <1>3, PartsKept DEF dbVars
  <2>2. QED
    BY <1>11, <2>1 DEF Follows
<1>13. QED
  BY <1>3, <1>10, <1>12 DEF Local, HasRead

(* The stock call begins once, as the read asks for. *)
LEMMA CallLocal ==
    ASSUME Typed, TypeOK, NEW t \in Txs, Local(t), CallStock(t)
    PROVE  Typed' /\ Local(t)'
<1>1. At(t, "stock") /\ Pop(t)
      /\ UNCHANGED <<dbVars, outcome, request, saw, wrote, paying, doomed, adding>>
  BY DEF CallStock
<1>2. "stock" \in Steps \ Early
  BY DEF Steps, Early
<1>3. /\ HasRead(t)' /\ PlanOK(t)' /\ Follows(t)
      /\ Did(t, "stock")' /\ ~Did(t, "stock")
      /\ \A x : x # "stock" => (Did(t, x)' <=> Did(t, x))
  BY <1>1, <1>2, LateStep
<1>4. PICK c \in Calls : /\ c.op \in StockOps(request[t], saw[t])
                         /\ c.items = StockItems(request[t], saw[t])
                         /\ Begin(t, c)
  BY DEF CallStock
<1>5. status'[t] = "open" /\ call'[t] = c
  BY <1>4 DEF Begin, TypeOK
<1>6. StockFollows(t)'
  BY <1>1, <1>3, <1>4, <1>5 DEF StockFollows, Live
<1>7. PaymentFollows(t)' /\ RowFollows(t)' /\ ItemsFollow(t)'
  BY <1>1, <1>3, PartsKept DEF dbVars
<1>8. Typed'
  <2>1. plan' \in [Txs -> Seq(Steps)]
    BY <1>1, Popped
  <2>2. OrderTypeOK'
    BY <1>1 DEF Typed, OrderTypeOK, dbVars
  <2>3. QED
    BY <1>1, <2>1, <2>2 DEF Typed, dbVars
<1>9. QED
  BY <1>3, <1>6, <1>7, <1>8 DEF Local, HasRead, Follows

(* Its statements change nothing else. *)
LEMMA StockLocal ==
    ASSUME Typed, TypeOK, NEW t \in Txs, Local(t), StockStatement(t)
    PROVE  Typed' /\ Local(t)'
<1>1. Running(t) /\ Statement(t) /\ UNCHANGED <<dbVars, flowVars>>
  BY DEF StockStatement
<1>2. status[t] \in Live /\ status'[t] \in Live /\ call'[t] = call[t]
  BY <1>1 DEF Statement, Reserve, CommitReserved, CommitDirect, ReadBefore,
              Release, Restock, Adjust, UpdateRow, TypeOK, Live
<1>3. HasRead(t)
  BY <1>1, <1>2 DEF Local, Live
<1>4. Follows(t) /\ Did(t, "stock")
  BY <1>2, <1>3 DEF Local, Follows, StockFollows, Live
<1>5. /\ UNCHANGED <<request, saw, plan, outcome>> /\ HasRead(t)' /\ Left(t)' = Left(t)
      /\ \A x : Did(t, x)' <=> Did(t, x)
  BY <1>1, <1>3 DEF flowVars, Did, Left, HasRead, Running
<1>6. StockFollows(t)'
  BY <1>2, <1>4, <1>5 DEF Follows, StockFollows
<1>7. PaymentFollows(t)' /\ RowFollows(t)' /\ ItemsFollow(t)'
  BY <1>1, <1>4, <1>5, PartsKept DEF dbVars, flowVars
<1>8. PlanOK(t)'
  BY <1>3, <1>5 DEF Local, PlanOK, HasRead
<1>9. Typed'
  BY <1>1 DEF Typed, OrderTypeOK, dbVars, flowVars
<1>10. QED
  BY <1>5, <1>6, <1>7, <1>8, <1>9 DEF Local, HasRead, Follows

(* The lines are deleted, and added again. *)
LEMMA ItemsLocal ==
    ASSUME Typed, NEW t \in Txs, Local(t), DeleteItems(t) \/ AddItems(t)
    PROVE  Typed' /\ Local(t)'
<1> DEFINE r == request[t]
           o == OrderOf(t)
<1>1. PICK step \in {"deleteItems", "addItems"} :
        /\ At(t, step) /\ Pop(t)
        /\ UNCHANGED <<stockVars, orders, rowOwner, items, payments, lock,
                       outcome, request, saw, wrote, paying>>
        /\ step = "addItems" <=> AddItems(t)
        /\ step = "deleteItems" => DeleteItems(t)
  <2>1. CASE AddItems(t)
    BY <2>1 DEF AddItems
  <2>2. CASE ~AddItems(t)
    BY <2>2 DEF DeleteItems
  <2>3. QED
    BY <2>1, <2>2
<1>2. step \in Steps \ Early
  BY DEF Steps, Early
<1>3. /\ HasRead(t)' /\ PlanOK(t)' /\ Follows(t) /\ step \in Planned(r, saw[t])
      /\ Did(t, step)' /\ ~Did(t, step)
      /\ \A x : x # step => (Did(t, x)' <=> Did(t, x))
  BY <1>1, <1>2, LateStep
<1>4. r \in Requests /\ o \in Orders
  BY <1>1, OrderExists DEF At
<1>5. "addItems" \in Planned(r, saw[t]) /\ (r.kind = "create" \/ r.lines # {})
  BY <1>3 DEF Planned
<1>6. plan' \in [Txs -> Seq(Steps)]
  BY <1>1, Popped
<1>7. ItemsFollow(t)
  BY <1>3 DEF Follows
<1>8. /\ itemOwner' \in [Orders -> Txs \union {NoTx}]
      /\ DOMAIN adding' = Txs /\ DOMAIN doomed' = Txs
      /\ \A u \in Txs : AtMostOne(adding'[u]) /\ \A b \in adding'[u] : b.qty \in [Variants -> Nat]
      /\ ItemsFollow(t)'
  <2>1. o' = o /\ request'[t] = r /\ saw'[t] = saw[t]
    BY <1>1 DEF OrderOf
  <2>2. CASE step = "deleteItems"
    <3>1. /\ doomed' = [doomed EXCEPT ![t] = items[o]] /\ UNCHANGED adding
          /\ itemOwner' = [itemOwner EXCEPT ![o] = IF @ = NoTx THEN t ELSE @]
      BY <1>1, <2>2 DEF DeleteItems
    <3>2. itemOwner' \in [Orders -> Txs \union {NoTx}]
      BY <3>1 DEF Typed, OrderTypeOK
    <3>3. \A x \in Orders : itemOwner'[x] = t => itemOwner[x] = t \/ x = o
      BY <3>1 DEF Typed, OrderTypeOK
    <3>4. Did(t, "addItems") => itemOwner'[o] = t
      BY <1>4, <1>7, <3>1 DEF ItemsFollow, Typed, OrderTypeOK
    <3>5. ItemsFollow(t)'
      BY <1>3, <1>5, <1>7, <2>1, <2>2, <3>1, <3>3, <3>4 DEF ItemsFollow
    <3>6. QED
      BY <3>1, <3>2, <3>5 DEF Typed
  <2>3. CASE step = "addItems"
    <3> DEFINE b == [by |-> t, qty |-> NewLines(r)]
    <3>1. /\ adding' = [adding EXCEPT ![t] = {b}] /\ UNCHANGED doomed
          /\ itemOwner' = [itemOwner EXCEPT ![o] = t]
      BY <1>1, <2>3 DEF AddItems
    <3>2. b.qty \in [Variants -> Nat]
      BY <1>4, <1>5, NewLinesType
    <3>3. adding'[t] = {b} /\ itemOwner'[o] = t
      BY <1>4, <3>1 DEF Typed, OrderTypeOK
    <3>4. \A x \in Orders : itemOwner'[x] = t => itemOwner[x] = t \/ x = o
      BY <3>1 DEF Typed, OrderTypeOK
    <3>5. itemOwner' \in [Orders -> Txs \union {NoTx}]
      BY <3>1 DEF Typed, OrderTypeOK
    <3>6. ItemsFollow(t)'
      BY <1>3, <1>5, <1>7, <2>1, <2>3, <3>1, <3>3, <3>4 DEF ItemsFollow
    <3> HIDE DEF b
    <3>7. \A u \in Txs : /\ AtMostOne(adding'[u])
                         /\ \A x \in adding'[u] : x.qty \in [Variants -> Nat]
      BY <3>1, <3>2, <3>3 DEF Typed, AtMostOne
    <3>8. QED
      BY <3>1, <3>5, <3>6, <3>7 DEF Typed
  <2>4. QED
    BY <2>2, <2>3
<1>9. Typed'
  <2>1. OrderTypeOK'
    BY <1>1, <1>8 DEF Typed, OrderTypeOK
  <2>2. QED
    BY <1>1, <1>6, <1>8, <2>1 DEF Typed
<1>10. Follows(t)'
  <2>1. StockFollows(t)' /\ PaymentFollows(t)' /\ RowFollows(t)'
    BY <1>1, <1>3, PartsKept
  <2>2. QED
    BY <1>8, <2>1 DEF Follows
<1>11. QED
  BY <1>3, <1>9, <1>10 DEF Local, HasRead

(* The UPDATE of the order locks its row. *)
LEMMA WriteLocal ==
    ASSUME Typed, NEW t \in Txs, Local(t), WriteOrder(t)
    PROVE  Typed' /\ Local(t)'
<1> DEFINE o == OrderOf(t)
           row == Written(request[t], saw[t], orders[o], paying[t] # {})
<1>1. /\ At(t, "write") /\ Pop(t) /\ rowOwner[o] = NoTx
      /\ rowOwner' = [rowOwner EXCEPT ![o] = t] /\ wrote' = [wrote EXCEPT ![t] = {row}]
      /\ UNCHANGED <<stockVars, orders, items, itemOwner, payments, lock,
                     outcome, request, saw, paying, doomed, adding>>
  BY DEF WriteOrder
<1>2. "write" \in Steps \ Early
  BY DEF Steps, Early
<1>3. /\ HasRead(t)' /\ PlanOK(t)' /\ Follows(t)
      /\ Did(t, "write")' /\ ~Did(t, "write")
      /\ \A x : x # "write" => (Did(t, x)' <=> Did(t, x))
  BY <1>1, <1>2, LateStep
<1>4. request[t] \in Requests /\ o \in Orders /\ saw[t] \in Sight /\ orders[o] \in Row
  BY <1>1, OrderExists DEF At, Typed, OrderTypeOK
<1>5. row \in Row
  BY <1>4, WrittenType
<1> HIDE DEF row
<1>6. /\ wrote' \in [Txs -> SUBSET Row] /\ wrote'[t] = {row}
      /\ rowOwner' \in [Orders -> Txs \union {NoTx}] /\ rowOwner'[o] = t
      /\ \A x \in Orders : rowOwner'[x] = t => rowOwner[x] = t \/ x = o
  BY <1>1, <1>4, <1>5 DEF Typed, OrderTypeOK
<1>7. RowFollows(t)'
  <2>1. o' = o
    BY <1>1 DEF OrderOf
  <2>2. QED
    BY <1>3, <1>6, <2>1 DEF Follows, RowFollows
<1>8. Follows(t)'
  <2>1. StockFollows(t)' /\ PaymentFollows(t)' /\ ItemsFollow(t)'
    BY <1>1, <1>3, PartsKept
  <2>2. QED
    BY <1>7, <2>1 DEF Follows
<1>9. Typed'
  <2>1. plan' \in [Txs -> Seq(Steps)]
    BY <1>1, Popped
  <2>2. OrderTypeOK'
    BY <1>1, <1>6 DEF Typed, OrderTypeOK
  <2>3. QED
    BY <1>1, <1>6, <2>1, <2>2 DEF Typed
<1>10. QED
  BY <1>3, <1>8, <1>9 DEF Local, HasRead

(* A request that has ended holds nothing. *)
LEMMA EndLocal ==
    ASSUME Typed, NEW t \in Txs, Ends(t)
    PROVE  Local(t)'
<1>1. PICK end \in {"committed", "failed"} : outcome' = [outcome EXCEPT ![t] = end]
  BY DEF Ends
<1>2. ~Running(t)' /\ outcome'[t] # "idle"
  BY <1>1 DEF Running, Typed, OrderTypeOK
<1>3. HoldsNothing(t)' /\ \A o \in Orders : lock'[o] # t
  BY NoTxAssumption DEF Ends, Leave, HoldsNothing, Typed
<1>4. QED
  BY <1>2, <1>3 DEF Local, Outside, HasRead, Ends

(* Nor does its end leave a table with another type. *)
LEMMA EndTyped ==
    ASSUME Typed, NEW t \in Txs, Ends(t),
           orders' \in [Orders -> Row], DOMAIN items' = Orders,
           \A o \in Orders : IsFiniteSet(items'[o]) /\ \A b \in items'[o] : b.qty \in [Variants -> Nat],
           IsFiniteSet(payments'), \A p \in payments' : p \in Payment(p.key)
    PROVE  Typed'
<1>1. Leave(t)
  BY DEF Ends
<1>2. /\ outcome' \in [Txs -> {"idle", "running", "committed", "failed"}]
      /\ request' \in [Txs -> Requests \union {NoRequest}] /\ saw' \in [Txs -> Sight]
  BY <1>1 DEF Ends, Leave, Typed, OrderTypeOK
<1>3. /\ rowOwner' \in [Orders -> Txs \union {NoTx}] /\ itemOwner' \in [Orders -> Txs \union {NoTx}]
      /\ lock' \in [Orders -> Txs \union {NoTx}]
  BY <1>1 DEF Leave, Typed, OrderTypeOK
<1>4. OrderTypeOK'
  BY <1>2, <1>3 DEF OrderTypeOK
<1>5. plan' \in [Txs -> Seq(Steps)] /\ wrote' \in [Txs -> SUBSET Row]
  BY <1>1 DEF Leave, Typed
<1>6. /\ DOMAIN paying' = Txs /\ DOMAIN adding' = Txs /\ DOMAIN doomed' = Txs
      /\ paying'[t] = {} /\ adding'[t] = {}
      /\ \A u \in Txs \ {t} : paying'[u] = paying[u] /\ adding'[u] = adding[u]
  BY <1>1 DEF Leave, Typed
<1>7. \A u \in Txs :
          /\ AtMostOne(paying'[u]) /\ \A p \in paying'[u] : p \in Payment(p.key)
          /\ AtMostOne(adding'[u]) /\ \A b \in adding'[u] : b.qty \in [Variants -> Nat]
  BY <1>6 DEF Typed, AtMostOne
<1>8. QED
  BY <1>2, <1>4, <1>5, <1>6, <1>7 DEF Typed

(* A set of at most one element is finite. *)
LEMMA AtMostOneFinite ==
    ASSUME NEW S, AtMostOne(S)
    PROVE  IsFiniteSet(S)
<1>1. CASE S = {}
  BY <1>1, FS_EmptySet
<1>2. CASE S # {}
  <2>1. PICK x \in S : TRUE
    BY <1>2
  <2>2. S = {x}
    BY <2>1 DEF AtMostOne
  <2>3. QED
    BY <2>2, FS_Singleton
<1>3. QED
  BY <1>1, <1>2

(* Whoever holds a row of orders has written it. *)
LEMMA HolderWrote ==
    ASSUME Typed, NEW t \in Txs, Local(t), NEW o \in Orders, rowOwner[o] = t
    PROVE  HasRead(t) /\ OrderOf(t) = o /\ Did(t, "write") /\ wrote[t] # {}
<1>1. ~HoldsNothing(t)
  BY DEF HoldsNothing
<1>2. HasRead(t)
  BY <1>1 DEF Local, Outside
<1>3. QED
  BY <1>2 DEF Local, Follows, RowFollows

(* A commit writes rows of the tables. *)
LEMMA CommitTyped ==
    ASSUME Typed, TypeOK, NEW t \in Txs, Local(t), Commit(t)
    PROVE  Typed'
<1>1. Ends(t)
  BY CommitEnds
<1>2. /\ orders' = [o \in Orders |->
            IF rowOwner[o] = t THEN CHOOSE row \in wrote[t] : TRUE ELSE orders[o]]
      /\ items' = [o \in Orders |->
            IF itemOwner[o] = t THEN (items[o] \ doomed[t]) \union adding[t] ELSE items[o]]
      /\ payments' = {p \in payments : \A q \in paying[t] : q.key # p.key} \union paying[t]
  BY DEF Commit
<1>3. orders' \in [Orders -> Row]
  <2>1. ASSUME NEW o \in Orders, rowOwner[o] = t
        PROVE  (CHOOSE row \in wrote[t] : TRUE) \in Row
    <3>1. wrote[t] # {} /\ wrote[t] \subseteq Row
      BY <2>1, HolderWrote DEF Typed
    <3>2. QED
      BY <3>1
  <2>2. QED
    BY <1>2, <2>1 DEF Typed, OrderTypeOK
<1>4. ASSUME NEW o \in Orders
      PROVE  IsFiniteSet(items'[o]) /\ \A b \in items'[o] : b.qty \in [Variants -> Nat]
  <2>1. IsFiniteSet(items[o] \ doomed[t]) /\ IsFiniteSet(adding[t]) /\ IsFiniteSet(items[o])
    BY AtMostOneFinite, FS_Difference DEF Typed
  <2>2. IsFiniteSet((items[o] \ doomed[t]) \union adding[t])
    BY <2>1, FS_Union
  <2>3. \A b \in items[o] \union adding[t] : b.qty \in [Variants -> Nat]
    BY DEF Typed, OrderTypeOK
  <2>4. items'[o] = IF itemOwner[o] = t THEN (items[o] \ doomed[t]) \union adding[t] ELSE items[o]
    BY <1>2
  <2>5. QED
    BY <2>1, <2>2, <2>3, <2>4
<1>5. IsFiniteSet(payments')
  <2> DEFINE rest == {p \in payments : \A q \in paying[t] : q.key # p.key}
  <2>1. IsFiniteSet(rest) /\ IsFiniteSet(paying[t])
    BY AtMostOneFinite, FS_Subset DEF Typed
  <2>2. QED
    BY <1>2, <2>1, FS_Union
<1>6. \A p \in payments' : p \in Payment(p.key)
  BY <1>2 DEF Typed, OrderTypeOK
<1>7. DOMAIN items' = Orders
  BY <1>2
<1>8. QED
  BY <1>1, <1>3, <1>4, <1>5, <1>6, <1>7, EndTyped

(* One case for each statement of a request. *)
LEMMA FlowStep ==
    ASSUME TypeOK, FlowInv, [OrderNext]_vars
    PROVE  FlowInv'
<1>1. Typed /\ \A t \in Txs : Local(t)
  BY DEF FlowInv
<1>2. ASSUME NEW t \in Txs, Typed', Local(t)', \A u \in Txs \ {t} : Keeps(u)
      PROVE  FlowInv'
  BY <1>1, <1>2, LocalKept DEF FlowInv
<1>3. ASSUME Typed', \A u \in Txs : Keeps(u)
      PROVE  FlowInv'
  BY <1>1, <1>3, LocalKept DEF FlowInv
<1>4. CASE UNCHANGED vars
  <2>1. Typed'
    BY <1>1, <1>4 DEF vars, flowVars, dbVars, Typed, OrderTypeOK
  <2>2. \A u \in Txs : Keeps(u)
    BY <1>4 DEF vars, flowVars, dbVars, stockVars, Keeps
  <2>3. QED
    BY <1>3, <2>1, <2>2
<1>5. CASE \E o \in Orders : ExpireLock(o)
  <2>1. PICK o \in Orders : ExpireLock(o)
    BY <1>5
  <2>2. lock' \in [Orders -> Txs \union {NoTx}] /\ \A x \in Orders : lock'[x] \in {lock[x], NoTx}
    BY <1>1, <2>1 DEF ExpireLock, Typed, OrderTypeOK
  <2>3. Typed'
    BY <1>1, <2>1, <2>2 DEF ExpireLock, flowVars, Typed, OrderTypeOK
  <2>4. \A u \in Txs : Keeps(u)
    BY <2>1, <2>2, NoTxAssumption DEF ExpireLock, flowVars, stockVars, Keeps
  <2>5. QED
    BY <1>3, <2>3, <2>4
<1>6. ASSUME NEW t \in Txs, (\E r \in Requests : Start(t, r)) \/ OrderStep(t) \/ Die(t)
      PROVE  FlowInv'
  <2>1. \A u \in Txs \ {t} : Keeps(u)
    BY <1>1, <1>6, OthersKept
  <2>2. ASSUME Running(t), Fail(t) PROVE Typed' /\ Local(t)'
    <3>1. Ends(t) /\ UNCHANGED <<orders, items, payments>>
      BY <2>2, FailEnds
    <3>2. Local(t)'
      BY <1>1, <3>1, EndLocal
    <3>3. Typed'
      BY <1>1, <3>1, EndTyped DEF Typed, OrderTypeOK
    <3>4. QED
      BY <3>2, <3>3
  <2>3. CASE Die(t) \/ Reject(t)
    BY <1>2, <2>1, <2>2, <2>3 DEF Die, Reject
  <2>4. CASE \E r \in Requests : Start(t, r)
    BY <1>1, <1>2, <2>1, <2>4, StartLocal
  <2>5. CASE Peek(t) \/ TakeLock(t)
    BY <1>1, <1>2, <2>1, <2>5, EarlyLocal
  <2>6. CASE ReadOrder(t)
    BY <1>1, <1>2, <2>1, <2>6, ReadLocal
  <2>7. CASE InsertPayment(t) \/ SkipCash(t) \/ MarkPayment(t)
    BY <1>1, <1>2, <2>1, <2>7, PayLocal
  <2>8. CASE CallStock(t)
    BY <1>1, <1>2, <2>1, <2>8, CallLocal
  <2>9. CASE StockStatement(t)
    BY <1>1, <1>2, <2>1, <2>9, StockLocal
  <2>10. CASE DeleteItems(t) \/ AddItems(t)
    BY <1>1, <1>2, <2>1, <2>10, ItemsLocal
  <2>11. CASE WriteOrder(t)
    BY <1>1, <1>2, <2>1, <2>11, WriteLocal
  <2>12. CASE Commit(t)
    BY <1>1, <1>2, <2>1, <2>12, CommitTyped, CommitEnds, EndLocal
  <2>13. QED
    BY <1>6, <2>3, <2>4, <2>5, <2>6, <2>7, <2>8, <2>9, <2>10, <2>11, <2>12 DEF OrderStep
<1>7. QED
  BY <1>4, <1>5, <1>6 DEF OrderNext

(* No request has arrived at first. *)
LEMMA FlowInit ==
    ASSUME OrderInit
    PROVE  FlowInv
<1>1. PICK shop \in InitShops :
          orders = shop.orders /\ items = shop.items /\ payments = shop.payments
  BY DEF OrderInit
<1>2. /\ rowOwner = [o \in Orders |-> NoTx] /\ itemOwner = [o \in Orders |-> NoTx]
      /\ lock = [o \in Orders |-> NoTx] /\ outcome = [t \in Txs |-> "idle"]
      /\ request = [t \in Txs |-> NoRequest] /\ plan = [t \in Txs |-> << >>]
      /\ saw = [t \in Txs |-> NothingSeen] /\ wrote = [t \in Txs |-> {}]
      /\ paying = [t \in Txs |-> {}] /\ doomed = [t \in Txs |-> {}]
      /\ adding = [t \in Txs |-> {}] /\ status = [t \in Txs |-> "new"]
  BY DEF OrderInit, Init
<1>3. /\ orders \in [Orders -> Row] /\ IsFiniteSet(payments)
      /\ \A o \in Orders : IsFiniteSet(items[o]) /\ \A b \in items[o] : b.qty \in [Variants -> Nat]
      /\ \A p \in payments : p \in Payment(p.key)
  BY <1>1, InitShopsAssumption
<1>4. OrderTypeOK
  BY <1>2, <1>3 DEF OrderTypeOK
<1>5. NothingSeen \in Sight
  BY DEF NothingSeen, Sight, Row, Statuses, PayStatuses
<1>6. DOMAIN items = Orders
  BY <1>1, InitShopsAssumption
<1>7. Typed
  BY <1>2, <1>3, <1>4, <1>5, <1>6 DEF Typed, AtMostOne
<1>8. \A t \in Txs : Local(t)
  BY <1>2, NoTxAssumption DEF Local, Running, HasRead, Outside, HoldsNothing, Live
<1>9. QED
  BY <1>7, <1>8 DEF FlowInv

(* Whatever overlaps, whether the payment lock holds or not: the tables keep *)
(* their types and each request has done exactly what its plan says.         *)
LEMMA FlowInvariance == OrderSpec => []FlowInv
<1>1. OrderInit => FlowInv
  BY FlowInit
<1>2. TypeOK /\ FlowInv /\ [OrderNext]_vars => FlowInv'
  BY FlowStep
<1>3. QED
  BY <1>1, <1>2, OrdersUseStock, TypeCorrect, PTL DEF OrderSpec, StockProtocol

(* No interleaving of requests, timeouts and expired locks leaves a row of    *)
(* orders, order_items or payment_transactions, or a lock, with a value the   *)
(* columns do not have: no status outside the enum, no quantity or total     *)
(* below zero, no payment of an order that does not exist.                   *)
THEOREM OrderTypeCorrect == OrderSpec => []OrderTypeOK
<1>1. FlowInv => OrderTypeOK
  BY DEF FlowInv, Typed
<1>2. QED
  BY <1>1, FlowInvariance, PTL

-----------------------------------------------------------------------------
(* The unique index on (workspaceId, idempotencyKey): no two payment rows,   *)
(* committed or about to be, have one key, except the row that a manual      *)
(* match is marking.  A row that is still PENDING is a bank transfer.        *)
UniqueKeys == \A p, q \in payments : p.key = q.key => p = q
Keys ==
    /\ UniqueKeys
    /\ \A t \in Txs, u \in Txs : t # u =>
          \A p \in paying[t], q \in paying[u] : p.key # q.key
    /\ \A t \in Txs : Running(t) /\ request[t].kind # "match" =>
          \A p \in paying[t] : ~KeyTaken(p.key)
    /\ \A p \in payments : p.status = "PENDING" =>
          \A r \in Requests : r.kind = "match" /\ r.key = p.key => r.amount = p.amount

(* Only a request that runs has a payment row in hand. *)
LEMMA PayerRuns ==
    ASSUME FlowInv, NEW t \in Txs, paying[t] # {}
    PROVE  HasRead(t) /\ Running(t) /\ Follows(t)
<1>1. ~HoldsNothing(t)
  BY DEF HoldsNothing
<1>2. QED
  BY <1>1 DEF FlowInv, Local, Outside, HasRead

(* What a payment row in hand says. *)
LEMMA PayingRow ==
    ASSUME FlowInv, NEW t \in Txs, NEW p \in paying[t]
    PROVE  /\ p.status = "SUCCESS"
           /\ \/ p = PaymentRow(request[t], saw[t])
              \/ p.key = request[t].key /\ request[t].kind = "match"
<1>1. Follows(t) /\ Running(t)
  BY PayerRuns
<1>2. CASE Did(t, "insert")
  <2>1. p = PaymentRow(request[t], saw[t])
    BY <1>1, <1>2 DEF Follows, PaymentFollows
  <2>2. saw[t] \in Sight /\ request[t] \in Requests
    BY <1>1, OrderExists DEF FlowInv, Typed
  <2>3. QED
    BY <2>1, <2>2, PaymentRowType
<1>3. CASE ~Did(t, "insert")
  <2>1. Did(t, "mark") /\ p.key = request[t].key /\ p.status = "SUCCESS"
    BY <1>1, <1>3 DEF Follows, PaymentFollows
  <2>2. request[t].kind = "match"
    BY <2>1 DEF Did, Planned
  <2>3. QED
    BY <2>1, <2>2
<1>4. QED
  BY <1>2, <1>3

(* Steps that leave the payments alone, or drop those in hand. *)
LEMMA KeysKept ==
    ASSUME Keys, UNCHANGED payments,
           \A u \in Txs : \/ paying'[u] = {}
                          \/ /\ paying'[u] = paying[u] /\ request'[u] = request[u]
                             /\ Running(u)' => Running(u)
    PROVE  Keys'
<1>1. UniqueKeys'
  BY DEF Keys, UniqueKeys
<1>2. \A t \in Txs : paying'[t] \subseteq paying[t]
  OBVIOUS
<1>3. \A t \in Txs, u \in Txs : t # u => \A p \in paying'[t], q \in paying'[u] : p.key # q.key
  BY <1>2 DEF Keys
<1>4. \A t \in Txs : Running(t)' /\ request'[t].kind # "match" =>
          \A p \in paying'[t] : ~KeyTaken(p.key)'
  BY DEF Keys, KeyTaken
<1>5. QED
  BY <1>1, <1>3, <1>4 DEF Keys

(* An INSERT takes a key that nobody has. *)
LEMMA KeysPaid ==
    ASSUME FlowInv, Keys, NEW t \in Txs, InsertPayment(t) \/ MarkPayment(t)
    PROVE  Keys'
<1>1. PICK key :
        /\ UNCHANGED <<payments, outcome, request>> /\ Running(t)
        /\ ~KeyHeldByOther(t, key) /\ \A p \in paying'[t] : p.key = key
        /\ \A u \in Txs \ {t} : paying'[u] = paying[u]
        /\ request[t].kind = "match" \/ ~KeyTaken(key)
  <2>1. CASE InsertPayment(t)
    BY <2>1 DEF InsertPayment, dbVars, At, FlowInv, Typed
  <2>2. CASE MarkPayment(t)
    <3>1. "mark" \in Planned(request[t], saw[t])
      <4>1. At(t, "mark") /\ Pop(t) /\ UNCHANGED <<outcome, request, saw>> /\ Local(t) /\ Typed
        BY <2>2 DEF MarkPayment, FlowInv
      <4>2. QED
        BY <4>1, LateStep DEF Steps, Early
    <3>2. request[t].kind = "match"
      BY <3>1 DEF Planned
    <3>3. PICK p \in payments :
            /\ p.key = request[t].key
            /\ paying' = [paying EXCEPT ![t] =
                 {[p EXCEPT !.status = "SUCCESS", !.order = {OrderOf(t)}]}]
      BY <2>2 DEF MarkPayment
    <3>4. p \in Payment(p.key)
      BY DEF FlowInv, Typed, OrderTypeOK
    <3>5. /\ \A q \in paying'[t] : q.key = request[t].key
          /\ \A u \in Txs \ {t} : paying'[u] = paying[u]
      BY <3>3, <3>4 DEF FlowInv, Typed, Payment
    <3>6. QED
      BY <2>2, <3>2, <3>5 DEF MarkPayment, dbVars, At
  <2>3. QED
    BY <2>1, <2>2
<1>2. \A u \in Txs \ {t} : \A p \in paying[u] : p.key # key
  BY <1>1, PayerRuns DEF KeyHeldByOther
<1>3. \A u \in Txs, w \in Txs : u # w => \A p \in paying'[u], q \in paying'[w] : p.key # q.key
  BY <1>1, <1>2 DEF Keys
<1>4. \A u \in Txs : Running(u)' /\ request'[u].kind # "match" =>
          \A p \in paying'[u] : ~KeyTaken(p.key)'
  BY <1>1 DEF Keys, KeyTaken, Running
<1>5. QED
  BY <1>1, <1>3, <1>4 DEF Keys, UniqueKeys

(* A COMMIT replaces the row it has marked and adds the one it has inserted. *)
LEMMA KeysCommit ==
    ASSUME FlowInv, Keys, NEW t \in Txs, Commit(t)
    PROVE  Keys'
<1>1. /\ payments' = {p \in payments : \A q \in paying[t] : q.key # p.key} \union paying[t]
      /\ Leave(t) /\ outcome' = [outcome EXCEPT ![t] = "committed"]
  BY DEF Commit
<1>2. /\ paying'[t] = {} /\ UNCHANGED request
      /\ \A u \in Txs \ {t} : paying'[u] = paying[u] /\ outcome'[u] = outcome[u]
  BY <1>1 DEF Leave, FlowInv, Typed, OrderTypeOK
<1>3. UniqueKeys'
  BY <1>1 DEF Keys, UniqueKeys, FlowInv, Typed, AtMostOne
<1>4. \A u \in Txs, w \in Txs : u # w => \A p \in paying'[u], q \in paying'[w] : p.key # q.key
  BY <1>2 DEF Keys
<1>5. ASSUME NEW u \in Txs, Running(u)', request'[u].kind # "match", NEW p \in paying'[u]
      PROVE  ~KeyTaken(p.key)'
  <2>1. u # t /\ p \in paying[u] /\ Running(u) /\ request[u].kind # "match"
    BY <1>2, <1>5 DEF Running
  <2>2. ~KeyTaken(p.key) /\ \A q \in paying[t] : q.key # p.key
    BY <2>1 DEF Keys
  <2>3. QED
    BY <1>1, <2>2 DEF KeyTaken
<1>6. \A p \in payments' : p.status = "PENDING" => p \in payments
  BY <1>1, PayingRow
<1>7. QED
  BY <1>3, <1>4, <1>5, <1>6 DEF Keys

(* One case for each statement that touches the payments. *)
LEMMA KeysStep ==
    ASSUME TypeOK, FlowInv, Keys, [OrderNext]_vars
    PROVE  Keys'
<1>1. ASSUME UNCHANGED <<payments, paying, outcome, request>> PROVE Keys'
  BY <1>1, KeysKept DEF Running
<1>2. CASE UNCHANGED vars
  BY <1>1, <1>2 DEF vars, flowVars, dbVars
<1>3. CASE \E o \in Orders : ExpireLock(o)
  BY <1>1, <1>3 DEF ExpireLock, flowVars
<1>4. ASSUME NEW t \in Txs, NEW r \in Requests, Start(t, r)
      PROVE  Keys'
  <2>1. paying[t] = {}
    BY <1>4, PayerRuns DEF Start, Running
  <2>2. /\ UNCHANGED <<payments, paying>>
        /\ \A u \in Txs \ {t} : request'[u] = request[u] /\ outcome'[u] = outcome[u]
    BY <1>4 DEF Start, dbVars, FlowInv, Typed, OrderTypeOK
  <2>3. QED
    BY <2>1, <2>2, KeysKept DEF Running
<1>5. ASSUME NEW t \in Txs, Running(t), Fail(t)
      PROVE  Keys'
  <2>1. /\ UNCHANGED <<payments, request>> /\ Leave(t) /\ outcome' = [outcome EXCEPT ![t] = "failed"]
    BY <1>5 DEF Fail, Leave
  <2>2. /\ paying'[t] = {}
        /\ \A u \in Txs \ {t} : paying'[u] = paying[u] /\ outcome'[u] = outcome[u]
    BY <2>1 DEF Leave, FlowInv, Typed, OrderTypeOK
  <2>3. QED
    BY <2>1, <2>2, KeysKept DEF Running
<1>6. ASSUME NEW t \in Txs, OrderStep(t)
      PROVE  Keys'
  <2>1. CASE \/ Peek(t) \/ TakeLock(t) \/ ReadOrder(t) \/ SkipCash(t) \/ CallStock(t)
             \/ StockStatement(t) \/ DeleteItems(t) \/ AddItems(t) \/ WriteOrder(t)
    BY <1>1, <2>1 DEF Peek, TakeLock, ReadOrder, SkipCash, CallStock, StockStatement,
                      DeleteItems, AddItems, WriteOrder, dbVars, flowVars
  <2>2. CASE InsertPayment(t) \/ MarkPayment(t)
    BY <2>2, KeysPaid
  <2>3. CASE Commit(t)
    BY <2>3, KeysCommit
  <2>4. CASE Reject(t)
    BY <1>5, <2>4 DEF Reject
  <2>5. QED
    BY <1>6, <2>1, <2>2, <2>3, <2>4 DEF OrderStep
<1>7. QED
  BY <1>2, <1>3, <1>4, <1>5, <1>6 DEF OrderNext, Die

(* The shop starts with a unique index. *)
LEMMA KeysInit ==
    ASSUME OrderInit
    PROVE  Keys
<1>1. PICK shop \in InitShops : payments = shop.payments
  BY DEF OrderInit
<1>2. \A t \in Txs : paying[t] = {}
  BY DEF OrderInit
<1>3. UniqueKeys
  BY <1>1, InitShopsAssumption DEF UniqueKeys
<1>4. \A p \in payments : p.status = "PENDING" =>
          \A r \in Requests : r.kind = "match" /\ r.key = p.key => r.amount = p.amount
  BY <1>1, InitShopsAssumption
<1>5. QED
  BY <1>2, <1>3, <1>4 DEF Keys

(* The keys stay apart, whatever overlaps. *)
LEMMA KeysInvariance == OrderSpec => []Keys
<1>1. OrderInit => Keys
  BY KeysInit
<1>2. TypeOK /\ FlowInv /\ Keys /\ [OrderNext]_vars => Keys'
  BY KeysStep
<1>3. QED
  BY <1>1, <1>2, FlowInvariance, OrdersUseStock, TypeCorrect, PTL
     DEF OrderSpec, StockProtocol

(* Whatever overlaps, the same click, transfer or webhook is booked once: no *)
(* two rows of payment_transactions have the same idempotency key.           *)
THEOREM PaymentsAreUnique == OrderSpec => []UniqueKeys
<1>1. Keys => UniqueKeys
  BY DEF Keys
<1>2. QED
  BY <1>1, KeysInvariance, PTL

-----------------------------------------------------------------------------
(* The flows, when nobody overlaps: the kinds of request that take no payment *)
(* lock run alone on their order and on their transfer, and the lock does not *)
(* expire under its holder.                                                  *)
LockKinds == {"pay", "reconcile"}
NobodyOverlaps == ~LockMayExpire /\ Kinds \ LockKinds \subseteq Alone

(* Two requests that run together on one order, or with one key, take the    *)
(* payment lock.                                                             *)
Exclusive ==
    \A t \in Txs, u \in Txs :
        /\ t # u /\ Running(t) /\ Running(u)
        /\ OrderOf(t) = OrderOf(u) \/ request[t].key = request[u].key
        => request[t].kind \in LockKinds /\ request[u].kind \in LockKinds

(* Once taken, the lock is held to the end. *)
LockHeld ==
    \A t \in Txs : Running(t) /\ request[t].kind \in LockKinds /\ "lock" \notin Left(t)
        => lock[OrderOf(t)] = t

Apart == Exclusive /\ LockHeld

(* A request that has read its order is alone with it: whoever else is about  *)
(* the same order waits for the payment lock still.                          *)
LEMMA OnlyOne ==
    ASSUME FlowInv, Apart, NEW t \in Txs, NEW u \in Txs, t # u,
           HasRead(t), Running(u), OrderOf(t) = OrderOf(u)
    PROVE  ~HasRead(u) /\ request[t].kind \in LockKinds /\ request[u].kind \in LockKinds
<1>1. Running(t) /\ request[t].kind \in LockKinds /\ request[u].kind \in LockKinds
  BY DEF Apart, Exclusive, HasRead
<1>2. \A x \in {t, u} : HasRead(x) => "lock" \notin Left(x)
  BY PlannedLate DEF FlowInv, Local, PlanOK, HasRead, Early
<1>3. lock[OrderOf(t)] = t
  BY <1>1, <1>2 DEF Apart, LockHeld
<1>4. QED
  BY <1>1, <1>2, <1>3 DEF Apart, LockHeld

(* A statement of a plan other than the read. *)
Pops(t, step) == At(t, step) /\ Pop(t) /\ UNCHANGED <<outcome, request, saw>>

(* The statement each action makes. *)
LEMMA ActionPops ==
    ASSUME NEW t \in Txs
    PROVE  /\ Peek(t) => Pops(t, "peek")
           /\ TakeLock(t) => Pops(t, "lock")
           /\ InsertPayment(t) \/ SkipCash(t) => Pops(t, "insert")
           /\ MarkPayment(t) => Pops(t, "mark")
           /\ CallStock(t) => Pops(t, "stock")
           /\ DeleteItems(t) => Pops(t, "deleteItems")
           /\ AddItems(t) => Pops(t, "addItems")
           /\ WriteOrder(t) => Pops(t, "write")
BY DEF Pops, Peek, TakeLock, InsertPayment, SkipCash, MarkPayment, CallStock,
       DeleteItems, AddItems, WriteOrder

(* Nobody takes a lock away from its holder. *)
LEMMA LocksKept ==
    ASSUME NEW t \in Txs, NEW u \in Txs \ {t}, NEW o \in Orders, lock[o] = u, FlowInv,
           (\E r \in Requests : Start(t, r)) \/ OrderStep(t) \/ Die(t)
    PROVE  lock'[o] = u
<1>1. CASE TakeLock(t)
  BY <1>1, NoTxAssumption DEF TakeLock, FlowInv, Typed, OrderTypeOK
<1>2. CASE Commit(t) \/ Reject(t) \/ Die(t)
  BY <1>2 DEF Commit, Reject, Die, Fail, Leave
<1>3. CASE \/ (\E r \in Requests : Start(t, r)) \/ Peek(t) \/ ReadOrder(t) \/ InsertPayment(t)
           \/ SkipCash(t) \/ MarkPayment(t) \/ CallStock(t) \/ StockStatement(t)
           \/ DeleteItems(t) \/ AddItems(t) \/ WriteOrder(t)
  BY <1>3 DEF Start, Peek, ReadOrder, InsertPayment, SkipCash, MarkPayment, CallStock,
              StockStatement, DeleteItems, AddItems, WriteOrder, dbVars
<1>4. QED
  BY <1>1, <1>2, <1>3 DEF OrderStep

(* A request is let in alone, or takes the lock. *)
LEMMA ApartStart ==
    ASSUME NobodyOverlaps, FlowInv, Apart, NEW t \in Txs, NEW r \in Requests, Start(t, r)
    PROVE  Exclusive'
<1>1. /\ outcome' = [outcome EXCEPT ![t] = "running"]
      /\ request' = [request EXCEPT ![t] = r]
      /\ \A u \in Txs : Running(u) /\ {r.kind, request[u].kind} \intersect Alone # {}
          => OrderOf(u) # r.order /\ request[u].key # r.key
  BY DEF Start
<1>2. /\ request'[t] = r
      /\ \A u \in Txs \ {t} : request'[u] = request[u] /\ (Running(u)' <=> Running(u))
  BY <1>1 DEF FlowInv, Typed, OrderTypeOK, Running
<1>3. ASSUME NEW u \in Txs \ {t}, Running(u)',
             OrderOf(t)' = OrderOf(u)' \/ request'[t].key = request'[u].key
      PROVE  request'[t].kind \in LockKinds /\ request'[u].kind \in LockKinds
  <2>1. Running(u) /\ (r.order = OrderOf(u) \/ r.key = request[u].key)
    BY <1>2, <1>3 DEF OrderOf
  <2>2. r.kind \notin Alone /\ request[u].kind \notin Alone
    BY <1>1, <2>1
  <2>3. r.kind \in Kinds /\ request[u].kind \in Kinds
    BY <2>1, OrderExists, RequestsAssumption DEF FlowInv
  <2>4. QED
    BY <1>2, <2>2, <2>3 DEF NobodyOverlaps
<1>4. \A u \in Txs \ {t} : OrderOf(u)' = OrderOf(u)
  BY <1>2 DEF OrderOf
<1>5. ASSUME NEW u \in Txs, NEW w \in Txs, u # w, Running(u)', Running(w)',
             OrderOf(u)' = OrderOf(w)' \/ request'[u].key = request'[w].key
      PROVE  request'[u].kind \in LockKinds /\ request'[w].kind \in LockKinds
  <2>1. CASE u = t
    BY <1>3, <1>5, <2>1
  <2>2. CASE w = t
    BY <1>3, <1>5, <2>2
  <2>3. CASE u # t /\ w # t
    BY <1>2, <1>4, <1>5, <2>3 DEF Apart, Exclusive
  <2>4. QED
    BY <2>1, <2>2, <2>3
<1>6. QED
  BY <1>5 DEF Exclusive

(* Those that run on go on as they were. *)
LEMMA ExclusiveKept ==
    ASSUME Exclusive, UNCHANGED request, \A u \in Txs : Running(u)' => Running(u)
    PROVE  Exclusive'
BY DEF Exclusive, OrderOf

(* The lock of t itself, at each of its steps. *)
LEMMA OwnLock ==
    ASSUME TypeOK, FlowInv, Apart, NEW t \in Txs,
           (\E r \in Requests : Start(t, r)) \/ OrderStep(t) \/ Die(t),
           Running(t)', request'[t].kind \in LockKinds, "lock" \notin Left(t)'
    PROVE  lock'[OrderOf(t)'] = t
<1>1. Typed /\ Local(t)
  BY DEF FlowInv
<1>2. ASSUME NEW step \in Steps \ {"lock"}, Pops(t, step), UNCHANGED lock
      PROVE  lock'[OrderOf(t)'] = t
  <2>1. /\ Left(t)' = Left(t) \ {step} /\ OrderOf(t)' = OrderOf(t) /\ Running(t)
        /\ request'[t] = request[t]
    BY <1>1, <1>2, Popped DEF Pops, OrderOf, At
  <2>2. QED
    BY <1>2, <2>1 DEF Apart, LockHeld
<1>3. CASE \/ Peek(t) \/ InsertPayment(t) \/ SkipCash(t) \/ MarkPayment(t) \/ CallStock(t)
           \/ DeleteItems(t) \/ AddItems(t) \/ WriteOrder(t)
  <2>1. UNCHANGED lock
    BY <1>3 DEF Peek, InsertPayment, SkipCash, MarkPayment, CallStock, DeleteItems,
                AddItems, WriteOrder, dbVars
  <2>2. PICK step \in Steps \ {"lock"} : Pops(t, step)
    BY <1>3, ActionPops DEF Steps
  <2>3. QED
    BY <1>2, <2>1, <2>2
<1>4. CASE TakeLock(t)
  <2>1. OrderOf(t)' = OrderOf(t) /\ Running(t)
    BY <1>4 DEF TakeLock, OrderOf, At
  <2>2. OrderOf(t) \in Orders
    BY <1>1, <2>1, OrderExists
  <2>3. QED
    BY <1>1, <1>4, <2>1, <2>2 DEF TakeLock, Typed, OrderTypeOK
<1>5. CASE ReadOrder(t)
  <2>1. "lock" \notin Left(t)
    BY <1>1, <1>5, ReadLocal
  <2>2. /\ OrderOf(t)' = OrderOf(t) /\ Running(t) /\ UNCHANGED lock
        /\ request'[t] = request[t]
    BY <1>5 DEF ReadOrder, OrderOf, At, dbVars
  <2>3. QED
    BY <2>1, <2>2 DEF Apart, LockHeld
<1>6. CASE StockStatement(t)
  BY <1>6 DEF StockStatement, flowVars, dbVars, Apart, LockHeld, OrderOf, Running, Left
<1>7. CASE \E r \in Requests : Start(t, r)
  <2>1. PICK r \in Requests : Start(t, r)
    BY <1>7
  <2>2. request'[t] = r /\ plan'[t] = Prologue[r.kind]
    BY <1>1, <2>1 DEF Start, Typed, OrderTypeOK
  <2>3. r.kind \in Kinds /\ r.kind \in LockKinds
    BY <2>2, RequestsAssumption
  <2>4. "lock" \in Range(Prologue[r.kind])
    BY <2>3, PrologueIs DEF IsPlan, LockKinds
  <2>5. QED
    BY <2>2, <2>4 DEF Left
<1>8. CASE Commit(t) \/ Reject(t) \/ Die(t)
  <2>1. Local(t)' /\ Ends(t)
    BY <1>1, <1>8, CommitEnds, FailEnds, EndLocal DEF Reject, Die
  <2>2. QED
    BY <1>1, <2>1 DEF Ends, Running, Typed, OrderTypeOK
<1>9. QED
  BY <1>3, <1>4, <1>5, <1>6, <1>7, <1>8 DEF OrderStep

(* One case for each kind of step. *)
LEMMA ApartStep ==
    ASSUME NobodyOverlaps, TypeOK, FlowInv, Apart, [OrderNext]_vars
    PROVE  Apart'
<1>1. CASE UNCHANGED vars
  <2>1. Exclusive'
    BY <1>1, ExclusiveKept DEF vars, flowVars, Apart, Running
  <2>2. LockHeld'
    BY <1>1 DEF vars, flowVars, dbVars, Apart, LockHeld, Running, OrderOf, Left
  <2>3. QED
    BY <2>1, <2>2 DEF Apart
<1>2. CASE \E o \in Orders : ExpireLock(o)
  BY <1>2 DEF ExpireLock, NobodyOverlaps
<1>3. ASSUME NEW t \in Txs, (\E r \in Requests : Start(t, r)) \/ OrderStep(t) \/ Die(t)
      PROVE  Apart'
  <2>1. Exclusive'
    <3>1. CASE \E r \in Requests : Start(t, r)
      BY <3>1, ApartStart
    <3>2. ASSUME NEW end \in {"committed", "failed"}, UNCHANGED request,
                 outcome' = [outcome EXCEPT ![t] = end]
          PROVE  Exclusive'
      <4>1. \A u \in Txs : Running(u)' => Running(u)
        BY <3>2 DEF Running, FlowInv, Typed, OrderTypeOK
      <4>2. QED
        BY <3>2, <4>1, ExclusiveKept DEF Apart
    <3>3. CASE Commit(t) \/ Reject(t) \/ Die(t)
      <4>1. Ends(t)
        BY <3>3, CommitEnds, FailEnds DEF Reject, Die
      <4>2. QED
        BY <3>2, <4>1 DEF Ends, Leave
    <3>4. ASSUME UNCHANGED <<outcome, request>> PROVE Exclusive'
      BY <3>4, ExclusiveKept DEF Apart, Running
    <3>5. CASE ReadOrder(t) \/ StockStatement(t)
      BY <3>4, <3>5 DEF ReadOrder, StockStatement, flowVars
    <3>6. ASSUME NEW step \in Steps, Pops(t, step) PROVE Exclusive'
      BY <3>4, <3>6 DEF Pops
    <3>7. QED
      BY <1>3, <3>1, <3>3, <3>5, <3>6, ActionPops DEF OrderStep, Steps
  <2>2. LockHeld'
    <3>1. ASSUME NEW u \in Txs, Running(u)', request'[u].kind \in LockKinds,
                 "lock" \notin Left(u)'
          PROVE  lock'[OrderOf(u)'] = u
      <4>1. CASE u = t
        BY <1>3, <3>1, <4>1, OwnLock
      <4>2. CASE u # t
        <5>1. Keeps(u)
          BY <1>3, <4>2, OthersKept DEF FlowInv
        <5>2. /\ Running(u) /\ request'[u] = request[u] /\ OrderOf(u)' = OrderOf(u)
              /\ Left(u)' = Left(u)
          BY <3>1, <5>1 DEF Keeps, Running, OrderOf, Left
        <5>3. lock[OrderOf(u)] = u /\ OrderOf(u) \in Orders
          BY <3>1, <5>2, OrderExists DEF Apart, LockHeld, FlowInv
        <5>4. QED
          BY <1>3, <4>2, <5>2, <5>3, LocksKept
      <4>3. QED
        BY <4>1, <4>2
    <3>2. QED
      BY <3>1 DEF LockHeld
  <2>3. QED
    BY <2>1, <2>2 DEF Apart
<1>4. QED
  BY <1>1, <1>2, <1>3 DEF OrderNext

(* What a request has read stays true until it commits. *)
SawNow == \A t \in Txs : HasRead(t) => saw[t] = Seen(OrderOf(t))

(* Its UPDATE changes the row it has read. *)
WroteNow ==
    \A t \in Txs : HasRead(t) /\ Did(t, "write") =>
        /\ wrote[t] = {Written(request[t], saw[t], saw[t].row, paying[t] # {})}
        /\ saw[t].row.status \in WriteWhere(request[t], saw[t])

(* Its DELETE removes all the lines there are. *)
DoomedNow ==
    \A t \in Txs : HasRead(t) /\ Did(t, "deleteItems") => doomed[t] = items[OrderOf(t)]

Fresh == SawNow /\ WroteNow /\ DoomedNow

(* Whoever rewrites the lines of an order serves a request about it. *)
LEMMA RewriterRuns ==
    ASSUME FlowInv, NEW t \in Txs, NEW o \in Orders, rowOwner[o] = t \/ itemOwner[o] = t
    PROVE  HasRead(t) /\ Running(t) /\ OrderOf(t) = o
<1>1. ~HoldsNothing(t)
  BY DEF HoldsNothing
<1>2. HasRead(t)
  BY <1>1 DEF FlowInv, Local, Outside
<1>3. QED
  BY <1>2 DEF FlowInv, Local, Follows, RowFollows, ItemsFollow, HasRead

(* Only a commit changes the orders and their lines. *)
LEMMA TablesKept ==
    ASSUME NEW t \in Txs, (\E r \in Requests : Start(t, r)) \/ OrderStep(t) \/ Die(t), ~Commit(t)
    PROVE  UNCHANGED <<orders, items, payments>>
BY DEF OrderStep, Start, Die, Peek, TakeLock, ReadOrder, InsertPayment, SkipCash, MarkPayment,
       CallStock, StockStatement, DeleteItems, AddItems, WriteOrder, Reject, Fail, dbVars

(* A commit changes one order only. *)
LEMMA CommitChanges ==
    ASSUME FlowInv, NEW t \in Txs, Commit(t), NEW o \in Orders, OrderOf(t) # o
    PROVE  orders'[o] = orders[o] /\ items'[o] = items[o]
<1>1. rowOwner[o] # t /\ itemOwner[o] # t
  BY RewriterRuns
<1>2. QED
  BY <1>1 DEF Commit, FlowInv, Typed, OrderTypeOK

(* Nobody changes an order under a request that has read it. *)
LEMMA Undisturbed ==
    ASSUME FlowInv, Apart, NEW t \in Txs, NEW u \in Txs \ {t}, HasRead(u),
           (\E r \in Requests : Start(t, r)) \/ OrderStep(t) \/ Die(t)
    PROVE  orders'[OrderOf(u)] = orders[OrderOf(u)] /\ items'[OrderOf(u)] = items[OrderOf(u)]
<1>1. CASE ~Commit(t)
  BY <1>1, TablesKept
<1>2. CASE Commit(t)
  <2>1. HasRead(t) /\ Running(t)
    BY <1>2, NothingLeft DEF Commit, HasRead, Left, FlowInv, Typed
  <2>2. OrderOf(u) # OrderOf(t)
    BY <2>1, OnlyOne DEF HasRead
  <2>3. Running(u) /\ OrderOf(u) \in Orders
    BY OrderExists DEF FlowInv, HasRead
  <2>4. QED
    BY <1>2, <2>2, <2>3, CommitChanges
<1>3. QED
  BY <1>1, <1>2

(* What t itself reads, writes and deletes. *)
LEMMA OwnFresh ==
    ASSUME TypeOK, FlowInv, Apart, Fresh, NEW t \in Txs, OrderStep(t), HasRead(t)'
    PROVE  /\ saw'[t] = Seen(OrderOf(t))'
           /\ Did(t, "write")' =>
                /\ wrote'[t] = {Written(request'[t], saw'[t], saw'[t].row, paying'[t] # {})}
                /\ saw'[t].row.status \in WriteWhere(request'[t], saw'[t])
           /\ Did(t, "deleteItems")' => doomed'[t] = items'[OrderOf(t)']
<1>1. Typed /\ Local(t)
  BY DEF FlowInv
<1>2. ~(Commit(t) \/ Reject(t))
  <2>1. Ends(t) => ~HasRead(t)'
    BY <1>1, EndLocal DEF Ends, HasRead, Running, Typed, OrderTypeOK
  <2>2. QED
    BY <2>1, CommitEnds, FailEnds DEF Reject
<1>3. UNCHANGED <<orders, items>>
  BY <1>2, TablesKept
<1>4. CASE ReadOrder(t)
  <2>1. saw'[t] = Seen(OrderOf(t)) /\ \A x : ~Did(t, x)'
    BY <1>1, <1>4, ReadLocal
  <2>2. OrderOf(t)' = OrderOf(t)
    BY <1>4 DEF ReadOrder, OrderOf
  <2>3. QED
    BY <1>3, <2>1, <2>2 DEF Seen, ItemsOf
<1>5. CASE StockStatement(t)
  <2>1. /\ UNCHANGED <<outcome, request, plan, saw, wrote, paying, doomed>>
    BY <1>5 DEF StockStatement, flowVars
  <2>2. OrderOf(t)' = OrderOf(t) /\ HasRead(t) /\ \A x : Did(t, x)' <=> Did(t, x)
    BY <2>1 DEF OrderOf, HasRead, Running, Left, Did
  <2>3. QED
    BY <1>3, <2>1, <2>2 DEF Fresh, SawNow, WroteNow, DoomedNow, Seen, ItemsOf
<1>6. ASSUME NEW step \in {"peek", "lock"}, Pops(t, step) PROVE FALSE
  BY <1>1, <1>6, EarlyStep DEF Pops, HasRead
<1>7. ASSUME NEW step \in Steps \ Early, Pops(t, step)
      PROVE  /\ HasRead(t) /\ step \in Planned(request[t], saw[t])
             /\ saw[t] = Seen(OrderOf(t)) /\ saw'[t] = Seen(OrderOf(t))'
             /\ OrderOf(t)' = OrderOf(t) /\ request'[t] = request[t] /\ saw'[t] = saw[t]
             /\ \A x : x # step => (Did(t, x)' <=> Did(t, x))
             /\ step \in {"insert", "mark"} => ~Did(t, "write")
  <2>1. /\ HasRead(t) /\ PlanOK(t) /\ step \in Planned(request[t], saw[t])
        /\ \A x : x # step => (Did(t, x)' <=> Did(t, x))
        /\ step \in Left(t)
    BY <1>1, <1>7, LateStep, Popped DEF Pops
  <2>2. OrderOf(t)' = OrderOf(t) /\ saw[t] = Seen(OrderOf(t))
    BY <1>7, <2>1 DEF Pops, OrderOf, Fresh, SawNow
  <2>3. Seen(OrderOf(t))' = Seen(OrderOf(t))
    BY <1>3, <2>2 DEF Seen, ItemsOf
  <2>4. ASSUME step \in {"insert", "mark"}, Did(t, "write") PROVE FALSE
    <3>1. Rank(request[t].kind, "write") < Rank(request[t].kind, step)
      BY <2>1, <2>4 DEF PlanOK, Did, HasRead
    <3>2. QED
      BY <2>4, <3>1 DEF Rank
  <2>5. QED
    BY <1>7, <2>1, <2>2, <2>3, <2>4 DEF Pops
<1>8. CASE InsertPayment(t) \/ SkipCash(t) \/ MarkPayment(t)
  <2>1. PICK step \in {"insert", "mark"} : Pops(t, step)
    BY <1>8, ActionPops
  <2>2. step \in Steps \ Early
    BY DEF Steps, Early
  <2>3. UNCHANGED doomed
    BY <1>8 DEF InsertPayment, SkipCash, MarkPayment
  <2>4. ~Did(t, "write")'
    BY <1>7, <2>1, <2>2
  <2>5. QED
    BY <1>3, <1>7, <2>1, <2>2, <2>3, <2>4 DEF Fresh, DoomedNow
<1>9. CASE CallStock(t) \/ AddItems(t)
  <2>1. PICK step \in {"stock", "addItems"} : Pops(t, step)
    BY <1>9, ActionPops
  <2>2. step \in Steps \ Early
    BY DEF Steps, Early
  <2>3. UNCHANGED <<doomed, wrote, paying>>
    BY <1>9 DEF CallStock, AddItems
  <2>4. QED
    BY <1>3, <1>7, <2>1, <2>2, <2>3 DEF Fresh, WroteNow, DoomedNow
<1>10. CASE DeleteItems(t)
  <2>1. Pops(t, "deleteItems") /\ "deleteItems" \in Steps \ Early
    BY <1>10, ActionPops DEF Steps, Early
  <2>2. doomed'[t] = items[OrderOf(t)] /\ UNCHANGED <<wrote, paying>>
    BY <1>1, <1>10 DEF DeleteItems, Typed
  <2>3. QED
    BY <1>3, <1>7, <2>1, <2>2 DEF Fresh, WroteNow
<1>11. CASE WriteOrder(t)
  <2>1. Pops(t, "write") /\ "write" \in Steps \ Early
    BY <1>11, ActionPops DEF Steps, Early
  <2>2. HasRead(t) /\ saw[t].row = orders[OrderOf(t)]
    BY <1>7, <2>1 DEF Seen
  <2>3. /\ wrote'[t] = {Written(request[t], saw[t], orders[OrderOf(t)], paying[t] # {})}
        /\ orders[OrderOf(t)].status \in WriteWhere(request[t], saw[t])
        /\ UNCHANGED <<doomed, paying>>
    BY <1>1, <1>11 DEF WriteOrder, RowMatches, Typed
  <2>4. QED
    BY <1>3, <1>7, <2>1, <2>2, <2>3 DEF Fresh, DoomedNow
<1>12. QED
  BY <1>2, <1>4, <1>5, <1>6, <1>8, <1>9, <1>10, <1>11, ActionPops DEF OrderStep

(* What the others have read stays true as well. *)
LEMMA FreshStep ==
    ASSUME NobodyOverlaps, TypeOK, FlowInv, Apart, Fresh, [OrderNext]_vars
    PROVE  Fresh'
<1>1. ASSUME NEW u \in Txs, Keeps(u), HasRead(u)',
             orders'[OrderOf(u)] = orders[OrderOf(u)], items'[OrderOf(u)] = items[OrderOf(u)]
      PROVE  /\ saw'[u] = Seen(OrderOf(u))'
             /\ Did(u, "write")' =>
                  /\ wrote'[u] = {Written(request'[u], saw'[u], saw'[u].row, paying'[u] # {})}
                  /\ saw'[u].row.status \in WriteWhere(request'[u], saw'[u])
             /\ Did(u, "deleteItems")' => doomed'[u] = items'[OrderOf(u)']
  <2>1. /\ HasRead(u) /\ OrderOf(u)' = OrderOf(u)
        /\ \A x : Did(u, x)' <=> Did(u, x)
    BY <1>1 DEF Keeps, HasRead, Running, Left, OrderOf, Did
  <2>2. Seen(OrderOf(u))' = Seen(OrderOf(u))
    BY <1>1, <2>1 DEF Seen, ItemsOf
  <2>3. QED
    BY <1>1, <2>1, <2>2 DEF Keeps, Fresh, SawNow, WroteNow, DoomedNow
<1>2. CASE UNCHANGED vars
  <2>1. \A u \in Txs : Keeps(u)
    BY <1>2 DEF vars, flowVars, dbVars, stockVars, Keeps
  <2>2. UNCHANGED <<orders, items>>
    BY <1>2 DEF vars, dbVars
  <2>3. QED
    BY <1>1, <2>1, <2>2 DEF Fresh, SawNow, WroteNow, DoomedNow
<1>3. CASE \E o \in Orders : ExpireLock(o)
  BY <1>3 DEF ExpireLock, NobodyOverlaps
<1>4. ASSUME NEW t \in Txs, (\E r \in Requests : Start(t, r)) \/ OrderStep(t) \/ Die(t)
      PROVE  Fresh'
  <2>1. ASSUME NEW u \in Txs \ {t}, HasRead(u)'
        PROVE  /\ Keeps(u) /\ orders'[OrderOf(u)] = orders[OrderOf(u)]
               /\ items'[OrderOf(u)] = items[OrderOf(u)]
    <3>1. Keeps(u)
      BY <1>4, OthersKept DEF FlowInv
    <3>2. HasRead(u)
      BY <2>1, <3>1 DEF Keeps, HasRead, Running, Left
    <3>3. QED
      BY <1>4, <3>1, <3>2, Undisturbed
  <2>2. ASSUME HasRead(t)' PROVE OrderStep(t)
    <3>1. CASE Die(t)
      <4>1. Ends(t)
        BY <3>1, FailEnds DEF Die
      <4>2. QED
        BY <2>2, <4>1 DEF Ends, HasRead, Running, FlowInv, Typed, OrderTypeOK
    <3>2. CASE \E r \in Requests : Start(t, r)
      <4>1. PICK r \in Requests : Start(t, r)
        BY <3>2
      <4>2. plan'[t] = Prologue[r.kind]
        BY <4>1 DEF Start, FlowInv, Typed
      <4>3. "read" \in Range(Prologue[r.kind])
        <5>1. r.kind \in Kinds
          BY RequestsAssumption
        <5>2. QED
          BY <5>1, PrologueIs DEF IsPlan
      <4>4. QED
        BY <2>2, <4>2, <4>3 DEF HasRead, Left
    <3>3. QED
      BY <1>4, <3>1, <3>2
  <2>3. QED
    BY <1>1, <2>1, <2>2, OwnFresh DEF Fresh, SawNow, WroteNow, DoomedNow
<1>5. QED
  BY <1>2, <1>3, <1>4 DEF OrderNext

(* The transfer that a manual match has looked at stays PENDING, and its      *)
(* order is not cancelled, until it commits.                                 *)
Peeked ==
    \A t \in Txs : Running(t) /\ request[t].kind = "match" /\ "peek" \notin Left(t)
        => Peekable(request[t])

(* What it marks is worth what was asked. *)
MarkedNow ==
    \A t \in Txs : HasRead(t) /\ Did(t, "mark") =>
        \A p \in paying[t] : p.amount = request[t].amount

Marks == Peeked /\ MarkedNow

(* The key of a payment is its request's, or one that the code makes. *)
LEMMA PaymentKey ==
    ASSUME FlowInv, NEW t \in Txs, NEW p \in paying[t]
    PROVE  p.key = request[t].key \/ p.key[1] \in {"refund", "cod"}
BY PayingRow DEF PaymentRow

(* The commits of others leave a transfer and its order to the match. *)
LEMMA PeekedStays ==
    ASSUME FlowInv, Apart, NEW t \in Txs, NEW u \in Txs \ {t}, Running(u),
           request[u].kind = "match", Peekable(request[u]), request'[u] = request[u],
           (\E r \in Requests : Start(t, r)) \/ OrderStep(t) \/ Die(t)
    PROVE  Peekable(request[u])'
<1>1. CASE ~Commit(t)
  BY <1>1, TablesKept DEF Peekable
<1>2. CASE Commit(t)
  <2>1. Running(t) /\ request[u] \in Requests /\ OrderOf(u) \in Orders
    BY <1>2, OrderExists DEF Commit, FlowInv
  <2>2. OrderOf(t) # OrderOf(u) /\ request[t].key # request[u].key
    BY <2>1 DEF Apart, Exclusive, LockKinds
  <2>3. orders'[OrderOf(u)] = orders[OrderOf(u)]
    BY <1>2, <2>1, <2>2, CommitChanges
  <2>4. PICK p \in payments : p.key = request[u].key /\ p.status = "PENDING"
    BY DEF Peekable
  <2>5. \A q \in paying[t] : q.key # p.key
    BY <2>1, <2>2, <2>4, PaymentKey, RequestsAssumption
  <2>6. p \in payments'
    BY <1>2, <2>5 DEF Commit
  <2>7. QED
    BY <2>3, <2>4, <2>6 DEF Peekable, OrderOf
<1>3. QED
  BY <1>1, <1>2

(* What t itself has looked at and marked. *)
LEMMA OwnMarks ==
    ASSUME TypeOK, FlowInv, Keys, Apart, Marks, NEW t \in Txs, OrderStep(t), Running(t)'
    PROVE  /\ request'[t].kind = "match" /\ "peek" \notin Left(t)' => Peekable(request[t])'
           /\ HasRead(t)' /\ Did(t, "mark")' => \A p \in paying'[t] : p.amount = request'[t].amount
<1>1. Typed /\ Local(t)
  BY DEF FlowInv
<1>2. ~(Commit(t) \/ Reject(t))
  <2>1. Ends(t) => ~Running(t)'
    BY <1>1 DEF Ends, Running, Typed, OrderTypeOK
  <2>2. QED
    BY <2>1, CommitEnds, FailEnds DEF Reject
<1>3. UNCHANGED <<orders, payments>> /\ UNCHANGED request
  <2>1. UNCHANGED request
    BY <1>2, ActionPops DEF OrderStep, Pops, ReadOrder, StockStatement, flowVars
  <2>2. QED
    BY <1>2, <2>1, TablesKept
<1>4. Peekable(request[t])' = Peekable(request[t])
  BY <1>3 DEF Peekable
<1>5. CASE ReadOrder(t)
  <2>1. \A x : ~Did(t, x)'
    BY <1>1, <1>5, ReadLocal
  <2>2. "peek" \notin Left(t) /\ Running(t)
    <3>1. /\ plan[t] \in Seq(Steps) /\ plan[t] # << >> /\ Head(plan[t]) = "read"
          /\ Ascends(request[t].kind, plan[t]) /\ Running(t)
      BY <1>1, <1>5 DEF ReadOrder, At, Local, PlanOK, Typed
    <3>2. /\ Range(Tail(plan[t])) = Range(plan[t]) \ {Head(plan[t])}
          /\ \A x \in Range(Tail(plan[t])) : Rank(request[t].kind, Head(plan[t])) < Rank(request[t].kind, x)
      BY <3>1, PopPlan
    <3>3. ~(Rank(request[t].kind, "read") < Rank(request[t].kind, "peek"))
      BY DEF Rank
    <3>4. QED
      BY <3>1, <3>2, <3>3 DEF Left
  <2>3. QED
    BY <1>3, <1>4, <2>1, <2>2 DEF Marks, Peeked
<1>6. CASE StockStatement(t)
  <2>1. UNCHANGED <<outcome, request, plan, saw, paying>>
    BY <1>6 DEF StockStatement, flowVars
  <2>2. /\ HasRead(t)' = HasRead(t) /\ Running(t) /\ Left(t)' = Left(t)
        /\ Did(t, "mark")' = Did(t, "mark")
    BY <2>1 DEF HasRead, Running, Left, Did
  <2>3. QED
    BY <1>4, <2>1, <2>2 DEF Marks, Peeked, MarkedNow
<1>7. ASSUME NEW step \in Steps, Pops(t, step)
      PROVE  Running(t) /\ (step # "peek" /\ "peek" \notin Left(t)' => "peek" \notin Left(t))
  BY <1>1, <1>7, Popped DEF Pops, At
<1>8. CASE Peek(t)
  <2>1. ~HasRead(t)' /\ Peekable(request[t])
    BY <1>1, <1>8, ActionPops, EarlyStep DEF Pops, HasRead, Peek
  <2>2. QED
    BY <1>4, <2>1
<1>9. CASE TakeLock(t)
  <2>1. ~HasRead(t)' /\ Pops(t, "lock") /\ "lock" \in Steps
    BY <1>1, <1>9, ActionPops, EarlyStep DEF Pops, HasRead, Steps
  <2>2. QED
    BY <1>3, <1>4, <1>7, <2>1 DEF Marks, Peeked
<1>10. ASSUME NEW step \in Steps \ (Early \union {"mark"}), Pops(t, step),
              paying'[t] = paying[t] \/ step = "insert"
       PROVE  /\ request'[t].kind = "match" /\ "peek" \notin Left(t)' => Peekable(request[t])'
              /\ HasRead(t)' /\ Did(t, "mark")' => \A p \in paying'[t] : p.amount = request'[t].amount
  <2>1. HasRead(t) /\ (Did(t, "mark")' <=> Did(t, "mark")) /\ step \in Planned(request[t], saw[t])
    BY <1>1, <1>10, LateStep DEF Pops
  <2>2. step = "insert" => ~Did(t, "mark")
    BY <2>1 DEF Planned, Did
  <2>3. step # "peek"
    BY <1>10 DEF Early
  <2>4. QED
    BY <1>3, <1>4, <1>7, <1>10, <2>1, <2>2, <2>3 DEF Marks, Peeked, MarkedNow
<1>11. CASE InsertPayment(t) \/ SkipCash(t)
  BY <1>10, <1>11, ActionPops DEF Steps, Early
<1>12. CASE CallStock(t) \/ DeleteItems(t) \/ AddItems(t) \/ WriteOrder(t)
  <2>1. UNCHANGED paying
    BY <1>12 DEF CallStock, DeleteItems, AddItems, WriteOrder
  <2>2. PICK step \in Steps \ (Early \union {"mark"}) : Pops(t, step)
    BY <1>12, ActionPops DEF Steps, Early
  <2>3. QED
    BY <1>10, <2>1, <2>2
<1>13. CASE MarkPayment(t)
  <2>1. Pops(t, "mark") /\ "mark" \in Steps \ Early
    BY <1>13, ActionPops DEF Steps, Early
  <2>2. "mark" \in Planned(request[t], saw[t]) /\ "mark" \in Left(t) /\ HasRead(t)
    BY <1>1, <2>1, LateStep, Popped DEF Pops
  <2>3. request[t].kind = "match"
    BY <2>2 DEF Planned
  <2>4. "peek" \notin Left(t) /\ Running(t) /\ request[t] \in Requests
    BY <1>1, <2>2, PlannedLate, OrderExists DEF Local, PlanOK, HasRead, Early
  <2>5. PICK p \in payments : p.key = request[t].key /\ p.status = "PENDING"
    BY <2>3, <2>4 DEF Marks, Peeked, Peekable
  <2>6. p.amount = request[t].amount
    BY <2>3, <2>4, <2>5 DEF Keys
  <2>7. PICK q \in payments :
          /\ q.key = request[t].key
          /\ paying' = [paying EXCEPT ![t] = {[q EXCEPT !.status = "SUCCESS", !.order = {OrderOf(t)}]}]
    BY <1>13 DEF MarkPayment
  <2>8. q = p /\ q \in Payment(q.key)
    BY <2>5, <2>7 DEF Keys, UniqueKeys, Typed, OrderTypeOK, FlowInv
  <2>9. paying'[t] = {[q EXCEPT !.status = "SUCCESS", !.order = {OrderOf(t)}]}
    BY <1>1, <2>7 DEF Typed
  <2>10. \A x \in paying'[t] : x.amount = request[t].amount
    BY <2>6, <2>8, <2>9 DEF Payment
  <2>11. QED
    BY <1>3, <1>4, <2>3, <2>4, <2>10 DEF Marks, Peeked
<1>14. QED
  BY <1>2, <1>5, <1>6, <1>8, <1>9, <1>11, <1>12, <1>13 DEF OrderStep

(* One case for each kind of step. *)
LEMMA MarksStep ==
    ASSUME NobodyOverlaps, TypeOK, FlowInv, Keys, Apart, Marks, [OrderNext]_vars
    PROVE  Marks'
<1>1. CASE UNCHANGED vars
  BY <1>1 DEF vars, flowVars, dbVars, Marks, Peeked, MarkedNow, Peekable, HasRead, Running,
              Left, Did
<1>2. CASE \E o \in Orders : ExpireLock(o)
  BY <1>2 DEF ExpireLock, NobodyOverlaps
<1>3. ASSUME NEW t \in Txs, (\E r \in Requests : Start(t, r)) \/ OrderStep(t) \/ Die(t)
      PROVE  Marks'
  <2>1. ASSUME NEW u \in Txs, Running(u)'
        PROVE  /\ request'[u].kind = "match" /\ "peek" \notin Left(u)' => Peekable(request[u])'
               /\ HasRead(u)' /\ Did(u, "mark")' =>
                    \A p \in paying'[u] : p.amount = request'[u].amount
    <3>1. CASE u # t
      <4>1. Keeps(u)
        BY <1>3, <3>1, OthersKept DEF FlowInv
      <4>2. /\ Running(u) /\ request'[u] = request[u] /\ Left(u)' = Left(u)
            /\ HasRead(u)' = HasRead(u) /\ Did(u, "mark")' = Did(u, "mark")
            /\ paying'[u] = paying[u]
        BY <2>1, <4>1 DEF Keeps, Running, Left, HasRead, Did
      <4>3. ASSUME request[u].kind = "match", "peek" \notin Left(u)
            PROVE  Peekable(request[u])'
        BY <1>3, <3>1, <4>2, <4>3, PeekedStays DEF Marks, Peeked
      <4>4. QED
        BY <4>2, <4>3 DEF Marks, MarkedNow
    <3>2. CASE u = t /\ OrderStep(t)
      BY <2>1, <3>2, OwnMarks
    <3>3. CASE u = t /\ Die(t)
      <4>1. Ends(t)
        BY <3>3, FailEnds DEF Die
      <4>2. QED
        BY <2>1, <3>3, <4>1 DEF Ends, Running, FlowInv, Typed, OrderTypeOK
    <3>4. CASE u = t /\ \E r \in Requests : Start(t, r)
      <4>1. PICK r \in Requests : Start(t, r)
        BY <3>4
      <4>2. plan'[t] = Prologue[r.kind] /\ request'[t] = r
        BY <4>1 DEF Start, FlowInv, Typed, OrderTypeOK
      <4>3. /\ "read" \in Range(Prologue[r.kind])
            /\ r.kind = "match" => "peek" \in Range(Prologue[r.kind])
        <5>1. r.kind \in Kinds
          BY RequestsAssumption
        <5>2. QED
          BY <5>1, PrologueIs DEF IsPlan
      <4>4. QED
        BY <3>4, <4>2, <4>3 DEF HasRead, Left
    <3>5. QED
      BY <1>3, <3>1, <3>2, <3>3, <3>4
  <2>2. QED
    BY <2>1 DEF Marks, Peeked, MarkedNow, HasRead
<1>4. QED
  BY <1>1, <1>2, <1>3 DEF OrderNext

(* A number that is the only one of its sum. *)
LEMMA SumSingle ==
    ASSUME NEW f, NEW e, f[e] \in Int
    PROVE  SumFunctionOnSet(f, {e}) = f[e]
<1>1. IsFiniteSet({}) /\ {} \union {e} = {e}
  BY FS_EmptySet
<1>2. SumFunctionOnSet(f, {} \union {e}) = SumFunctionOnSet(f, {}) + f[e]
  BY <1>1, SumAdd
<1>3. SumFunctionOnSet(f, {}) = 0
  BY SumEmpty
<1>4. QED
  BY <1>1, <1>2, <1>3

(* An order that does not exist yet has no lines and no money. *)
AbsentEmpty ==
    \A o \in Orders : orders[o].status = "ABSENT" => items[o] = {} /\ orders[o].paid = 0

(* The lines an order has once the request has committed. *)
NewQty(r, s) ==
    IF r.kind = "create" \/ (r.kind = "edit" /\ r.lines # {}) THEN NewLines(r) ELSE s.qty

(* A commit has done all that was planned. *)
LEMMA CommitDidAll ==
    ASSUME FlowInv, Fresh, NEW t \in Txs, Commit(t)
    PROVE  /\ HasRead(t) /\ Running(t) /\ request[t] \in Requests /\ OrderOf(t) \in Orders
           /\ request[t].kind \in Kinds /\ Follows(t)
           /\ saw[t] = Seen(OrderOf(t)) /\ saw[t] \in Sight
           /\ saw[t].row.status \in Accepted[request[t].kind]
           /\ \A x : Did(t, x) <=> x \in Planned(request[t], saw[t])
<1>1. Running(t) /\ Left(t) = {}
  BY NothingLeft DEF Commit, FlowInv, Typed, Left
<1>2. HasRead(t)
  BY <1>1 DEF HasRead
<1>3. Follows(t) /\ PlanOK(t)
  BY <1>1, <1>2 DEF FlowInv, Local
<1>4. \A x : Did(t, x) <=> x \in Planned(request[t], saw[t])
  BY <1>1 DEF Did
<1>5. saw[t].row.status \in Accepted[request[t].kind]
  BY <1>1, <1>3 DEF PlanOK
<1>6. QED
  BY <1>1, <1>2, <1>3, <1>4, <1>5, OrderExists DEF Fresh, SawNow, FlowInv, Typed

(* It leaves one order changed: its row as it was written over what was read. *)
LEMMA CommitRow ==
    ASSUME FlowInv, Fresh, NEW t \in Txs, Commit(t)
    PROVE  /\ orders' = [orders EXCEPT ![OrderOf(t)] =
                            Written(request[t], saw[t], saw[t].row, paying[t] # {})]
           /\ saw[t].row = orders[OrderOf(t)]
           /\ saw[t].row.status \in WriteWhere(request[t], saw[t])
<1> DEFINE o == OrderOf(t)
           row == Written(request[t], saw[t], saw[t].row, paying[t] # {})
<1>1. HasRead(t) /\ o \in Orders /\ Follows(t) /\ saw[t] = Seen(o) /\ Did(t, "write")
  BY CommitDidAll DEF Planned
<1>2. \A x \in Orders : rowOwner[x] = t <=> x = o
  BY <1>1 DEF Follows, RowFollows
<1>3. wrote[t] = {row} /\ saw[t].row.status \in WriteWhere(request[t], saw[t])
  BY <1>1 DEF Fresh, WroteNow
<1> DEFINE chosen == CHOOSE x \in wrote[t] : TRUE
<1>4. orders' = [x \in Orders |-> IF rowOwner[x] = t THEN chosen ELSE orders[x]]
  BY DEF Commit
<1> HIDE DEF row
<1>5. chosen = row
  BY <1>3
<1> HIDE DEF chosen, o
<1>6. orders' = [x \in Orders |-> IF x = o THEN row ELSE orders[x]]
  BY <1>2, <1>4, <1>5
<1>7. orders' = [orders EXCEPT ![o] = row]
  BY <1>6 DEF FlowInv, Typed, OrderTypeOK
<1>8. QED
  BY <1>1, <1>3, <1>7 DEF row, o, Seen

(* And its lines, if it has rewritten them. *)
LEMMA CommitItems ==
    ASSUME FlowInv, Fresh, AbsentEmpty, NEW t \in Txs, Commit(t)
    PROVE  /\ ItemsOf(OrderOf(t))' = NewQty(request[t], saw[t])
           /\ saw[t].qty = ItemsOf(OrderOf(t))
           /\ NewQty(request[t], saw[t]) \in [Variants -> Nat]
           /\ \A x \in Orders \ {OrderOf(t)} : ItemsOf(x)' = ItemsOf(x)
           /\ NewQty(request[t], saw[t]) # saw[t].qty => request[t].kind \in {"create", "edit"}
           /\ request[t].kind \notin {"create", "edit"} =>
                \A x \in Orders : items'[x] = items[x]
<1> DEFINE o == OrderOf(t)
           r == request[t]
           s == saw[t]
           b == [by |-> t, qty |-> NewLines(r)]
<1>1. /\ HasRead(t) /\ o \in Orders /\ Follows(t) /\ s = Seen(o) /\ r \in Requests
      /\ s.row.status \in Accepted[r.kind] /\ s \in Sight
      /\ \A x : Did(t, x) <=> x \in Planned(r, s)
  BY CommitDidAll
<1>2. s.qty = ItemsOf(o) /\ s.row = orders[o]
  BY <1>1 DEF Seen
<1>3. OrderOf(t)' = o
  BY DEF Commit, Leave, OrderOf
<1>4. \A x \in Orders \ {o} : items'[x] = items[x]
  BY CommitChanges
<1>5. items'[o] = IF itemOwner[o] = t THEN (items[o] \ doomed[t]) \union adding[t] ELSE items[o]
  BY <1>1 DEF Commit
<1>6. CASE r.kind = "create" \/ (r.kind = "edit" /\ r.lines # {})
  <2>1. "addItems" \in Planned(r, s)
    BY <1>6 DEF Planned
  <2>2. itemOwner[o] = t /\ adding[t] = {b}
    BY <1>1, <2>1 DEF Follows, ItemsFollow
  <2>3. items[o] \ doomed[t] = {}
    <3>1. CASE r.kind = "create"
      <4>1. s.row.status = "ABSENT"
        BY <1>1, <3>1 DEF Accepted
      <4>2. QED
        BY <1>1, <1>2, <4>1 DEF AbsentEmpty
    <3>2. CASE r.kind = "edit" /\ r.lines # {}
      <4>1. Did(t, "deleteItems")
        BY <1>1, <3>2 DEF Planned
      <4>2. QED
        BY <1>1, <4>1 DEF Fresh, DoomedNow
    <3>3. QED
      BY <1>6, <3>1, <3>2
  <2>4. items'[o] = {b}
    BY <1>5, <2>2, <2>3
  <2>5. NewLines(r) \in [Variants -> Nat]
    BY <1>1, <1>6, NewLinesType
  <2>6. ASSUME NEW v \in Variants
        PROVE  SumFunction([x \in {b} |-> x.qty[v]]) = NewLines(r)[v]
    <3> DEFINE f == [x \in {b} |-> x.qty[v]]
    <3>1. f[b] = NewLines(r)[v] /\ f[b] \in Int /\ DOMAIN f = {b}
      BY <2>5
    <3> HIDE DEF f
    <3>2. SumFunction(f) = SumFunctionOnSet(f, {b})
      BY <3>1, SumOfFunction
    <3>3. SumFunctionOnSet(f, {b}) = f[b]
      BY <3>1, SumSingle
    <3>4. QED
      BY <3>1, <3>2, <3>3 DEF f
  <2>7. ItemsOf(o)' = NewLines(r)
    <3>1. ItemsOf(o)' = [v \in Variants |-> SumFunction([x \in items'[o] |-> x.qty[v]])]
      BY <1>3 DEF ItemsOf
    <3> HIDE DEF b
    <3>2. QED
      BY <2>4, <2>5, <2>6, <3>1
  <2>8. NewQty(r, s) = NewLines(r) /\ r.kind \in {"create", "edit"}
    BY <1>6 DEF NewQty
  <2>9. \A x \in Orders \ {o} : ItemsOf(x)' = ItemsOf(x)
    BY <1>4 DEF ItemsOf
  <2>10. QED
    BY <1>2, <2>5, <2>7, <2>8, <2>9
<1>7. CASE ~(r.kind = "create" \/ (r.kind = "edit" /\ r.lines # {}))
  <2>1. "addItems" \notin Planned(r, s)
    BY <1>7 DEF Planned
  <2>2. itemOwner[o] # t
    BY <1>1, <2>1 DEF Follows, ItemsFollow
  <2>3. items'[o] = items[o]
    BY <1>5, <2>2
  <2>4. \A x \in Orders : items'[x] = items[x]
    BY <1>4, <2>3
  <2>5. \A x \in Orders : ItemsOf(x)' = ItemsOf(x)
    BY <2>4 DEF ItemsOf
  <2>6. ItemsOf(o)' = ItemsOf(o)
    BY <1>1, <1>3, <2>4 DEF ItemsOf
  <2>7. NewQty(r, s) = s.qty /\ s.qty \in [Variants -> Nat]
    BY <1>1, <1>7 DEF NewQty, Sight
  <2>8. QED
    BY <1>2, <2>4, <2>5, <2>6, <2>7
<1>8. QED
  BY <1>6, <1>7

(* What the stock calls of a request do to its order: goods are set aside as  *)
(* it becomes CONFIRMED, leave the shelf as it is sold, and come back.       *)
Moves(ops, old, new) ==
    \/ /\ ops = {}
       /\ old \in Sold <=> new \in Sold
       /\ old = "CONFIRMED" <=> new = "CONFIRMED"
    \/ /\ ops = {"reserve"}
       /\ old \notin Sold \union {"CONFIRMED"} /\ new = "CONFIRMED"
    \/ /\ ops = {"commitReserved"}
       /\ old = "CONFIRMED" /\ new \in Sold
    \/ /\ ops = {"commitDirect"}
       /\ old \notin Sold \union {"CONFIRMED"} /\ new \in Sold
    \/ /\ ops = {"release"}
       /\ old = "CONFIRMED" /\ new \notin Sold \union {"CONFIRMED"}
    \/ /\ ops = {"restock"}
       /\ old \in Sold /\ new \notin Sold \union {"CONFIRMED"}

(* Each kind of request writes the status that its stock call calls for. *)
LEMMA StatusMoves ==
    ASSUME NEW r \in Requests, NEW s \in Sight, NEW cash \in BOOLEAN,
           s.row.status \in Accepted[r.kind], s.row.status \in WriteWhere(r, s)
    PROVE  Moves(StockOps(r, s), s.row.status, Written(r, s, s.row, cash).status)
<1>1. r.kind \in Kinds /\ r.confirmNow \in BOOLEAN
  BY RequestsAssumption
<1>2. s.row \in Row /\ s.row.status \in Statuses
  BY DEF Sight, Row
<1>3. \A next \in Statuses : Credited(r, s, s.row, next).status = next
  BY <1>2 DEF Credited, Row
<1>4. CASE r.kind = "create"
  BY <1>1, <1>4 DEF Accepted, StockOps, Written, Moves, Sold
<1>5. CASE r.kind = "edit"
  BY <1>2, <1>5 DEF Accepted, StockOps, Written, Moves, Sold, Row
<1>6. CASE r.kind = "confirm"
  BY <1>2, <1>6 DEF Accepted, StockOps, Written, Moves, Sold, Row
<1>7. CASE r.kind = "pay"
  <2>1. s.row.status \in {"DRAFT", "CONFIRMED"}
    BY <1>7 DEF Accepted, Payable
  <2>2. Written(r, s, s.row, cash).status = IF Settles(r, s) THEN "PAID" ELSE "CONFIRMED"
    BY <1>3, <1>7 DEF Written, Statuses
  <2>3. StockOps(r, s) = PayStockOps(r, s)
    BY <1>7 DEF StockOps
  <2>4. QED
    BY <2>1, <2>2, <2>3 DEF PayStockOps, Sale, Moves, Sold
<1>8. CASE r.kind = "reconcile"
  <2>1. StockOps(r, s) = ReconcileStockOps(r, s)
    BY <1>8 DEF StockOps
  <2>2. CASE s.row.status = "CANCELLED"
    <3>1. Written(r, s, s.row, cash) = [s.row EXCEPT !.paid = PaidWith(r, s)]
      BY <1>8, <2>2 DEF Written, Fulfilled
    <3>2. Written(r, s, s.row, cash).status = s.row.status
      BY <1>2, <3>1 DEF Row
    <3>3. StockOps(r, s) = {}
      BY <2>1, <2>2 DEF ReconcileStockOps
    <3>4. QED
      BY <3>2, <3>3 DEF Moves
  <2>3. CASE s.row.status \in Fulfilled
    <3>1. Written(r, s, s.row, cash).status = s.row.status
      BY <1>2, <1>3, <1>8, <2>3 DEF Written, Fulfilled
    <3>2. StockOps(r, s) = {}
      BY <2>1, <2>3 DEF ReconcileStockOps
    <3>3. QED
      BY <3>1, <3>2 DEF Moves
  <2>4. CASE s.row.status \notin Fulfilled \union {"CANCELLED"}
    <3>1. Written(r, s, s.row, cash).status = IF Settles(r, s) THEN "PAID" ELSE "CONFIRMED"
      BY <1>3, <1>8, <2>4 DEF Written, Statuses
    <3>2. s.row.status \in {"DRAFT", "CONFIRMED", "PAID"}
      BY <1>2, <1>8, <2>4 DEF Accepted, Existing, Statuses, Fulfilled
    <3>3. s.row.status = "PAID" => Settles(r, s)
      BY <1>8, <2>4 DEF WriteWhere, Payable
    <3>4. QED
      BY <2>1, <2>4, <3>1, <3>2, <3>3 DEF ReconcileStockOps, Sale, Moves, Sold
  <2>5. QED
    BY <2>2, <2>3, <2>4
<1>9. CASE r.kind = "match"
  <2>1. StockOps(r, s) = MatchStockOps(r, s)
    BY <1>9 DEF StockOps
  <2>2. Written(r, s, s.row, cash).status =
            IF Settles(r, s) /\ s.row.status \notin Fulfilled \union {"PAID"}
            THEN "PAID" ELSE s.row.status
    BY <1>2, <1>3, <1>9 DEF Written, Statuses
  <2>3. QED
    BY <2>1, <2>2 DEF MatchStockOps, Sale, Moves, Sold, Fulfilled
<1>10. CASE r.kind = "cancel"
  <2>1. StockOps(r, s) = CancelStockOps(s) /\ Written(r, s, s.row, cash).status = "CANCELLED"
    BY <1>2, <1>10 DEF StockOps, Written, Row
  <2>2. s.row.status \in {"DRAFT", "CONFIRMED", "PAID", "SHIPPING"}
    BY <1>10 DEF Accepted, Cancellable
  <2>3. QED
    BY <2>1, <2>2 DEF CancelStockOps, Moves, Sold
<1>11. CASE r.kind = "complete"
  <2>1. /\ StockOps(r, s) = IF s.row.status = "CONFIRMED" THEN {"commitReserved"} ELSE {}
        /\ Written(r, s, s.row, cash).status = "COMPLETED"
    BY <1>2, <1>11 DEF StockOps, Written, Row
  <2>2. s.row.status \in {"SHIPPING", "PAID", "CONFIRMED"}
    BY <1>11 DEF Accepted, Completable
  <2>3. QED
    BY <2>1, <2>2 DEF Moves, Sold
<1>12. QED
  BY <1>1, <1>4, <1>5, <1>6, <1>7, <1>8, <1>9, <1>10, <1>11 DEF Kinds

(* The goods of its call are the lines of the order, before and after. *)
LEMMA LinesMoved ==
    ASSUME NEW r \in Requests, NEW s \in Sight, NEW cash \in BOOLEAN,
           s.row.status \in Accepted[r.kind]
    PROVE  /\ s.row.status \in Sold \union {"CONFIRMED"} => StockItems(r, s) = s.qty
           /\ Written(r, s, s.row, cash).status \in Sold \union {"CONFIRMED"}
                => NewQty(r, s) = StockItems(r, s)
<1>1. CASE r.kind = "create"
  BY <1>1 DEF Accepted, Sold, NewQty, StockItems
<1>2. CASE r.kind = "edit"
  <2>1. s.row.status = "DRAFT"
    BY <1>2 DEF Accepted
  <2>2. s.row \in Row
    BY DEF Sight
  <2>3. Written(r, s, s.row, cash).status = "DRAFT"
    BY <1>2, <2>1, <2>2 DEF Written, Row
  <2>4. QED
    BY <2>1, <2>3 DEF Sold
<1>3. CASE r.kind \notin {"create", "edit"}
  BY <1>3 DEF NewQty, StockItems
<1>4. QED
  BY <1>1, <1>2, <1>3

(* A commit moves the stock as the call that was planned says. *)
LEMMA CommitMoves ==
    ASSUME IInv, Exact, FlowInv, Fresh, NEW t \in Txs, Commit(t), NEW v \in Variants,
           StockItems(request[t], saw[t]) \in [Variants -> Nat]
    PROVE  /\ StockOps(request[t], saw[t]) = {} => base'[v] = base[v]
           /\ \A op \in StockOps(request[t], saw[t]) :
                base'[v] = Replay(base[v], [op |-> op,
                                            quantity |-> StockItems(request[t], saw[t])[v]])
<1> DEFINE ops == StockOps(request[t], saw[t])
           qty == StockItems(request[t], saw[t])
<1>1. StockFollows(t) /\ StockIdle(t) /\ (Did(t, "stock") <=> ops # {})
  <2>1. Did(t, "stock") <=> "stock" \in Planned(request[t], saw[t])
    BY CommitDidAll
  <2>2. "stock" \in Planned(request[t], saw[t]) <=> ops # {}
    BY DEF Planned
  <2>3. QED
    BY <2>1, <2>2, CommitDidAll DEF Follows, Commit
<1>2. IF status[t] = "open" THEN Finish(t) ELSE UNCHANGED stockVars
  BY DEF Commit
<1> HIDE DEF ops, qty
<1>3. CASE ops = {}
  BY <1>1, <1>2, <1>3 DEF StockFollows, stockVars, ops
<1>4. CASE ops # {}
  <2>1. /\ status[t] = "open" /\ call[t].op \in ops /\ call[t].items = qty
        /\ Finish(t) /\ todo[t] = {}
    BY <1>1, <1>2, <1>4 DEF StockFollows, StockIdle, Live, ops, qty
  <2>2. base'[v] = IF v \in Lines(call[t]) THEN Effect(t, v) ELSE base[v]
    BY <2>1, CommitAppliesCall
  <2>3. qty[v] \in Nat /\ DOMAIN qty = Variants /\ Qty(t, v) = qty[v]
    BY <2>1 DEF qty, Qty
  <2>4. Effect(t, v) = Replay(base[v], [op |-> call[t].op, quantity |-> qty[v]])
    BY <2>3 DEF Effect
  <2>5. ops = {call[t].op} /\ call[t].op \in OrderOps
    BY <2>1 DEF ops, StockOps, PayStockOps, ReconcileStockOps, MatchStockOps, CancelStockOps,
                Sale, OrderOps
  <2>6. base[v] \in Level /\ Sound(base[v])
    BY DEF IInv, TypeOK, NoOversell
  <2>7. CASE v \notin Lines(call[t])
    <3>1. qty[v] = 0
      BY <2>1, <2>3, <2>7 DEF Lines
    <3>2. Replay(base[v], [op |-> call[t].op, quantity |-> 0]) = base[v]
      BY <2>5, <2>6 DEF Replay, Level, Sound, Less, OrderOps
    <3>3. QED
      BY <2>2, <2>5, <2>7, <3>1, <3>2 DEF ops, qty
  <2>8. QED
    BY <2>2, <2>4, <2>5, <2>7 DEF ops, qty
<1>5. QED
  BY <1>3, <1>4 DEF ops, qty

(* What the orders in some statuses hold is a sum of natural numbers. *)
LEMMA UnitsType ==
    ASSUME Typed, NEW v \in Variants, NEW statuses
    PROVE  /\ UnitsIn(v, statuses) \in Nat
           /\ \A o \in Orders : orders[o].status \in statuses
                => ItemsOf(o)[v] <= UnitsIn(v, statuses)
<1> DEFINE f == [o \in Orders |-> IF orders[o].status \in statuses THEN ItemsOf(o)[v] ELSE 0]
<1>1. DOMAIN f = Orders /\ IsFiniteSet(Orders) /\ \A o \in Orders : f[o] \in Nat
  BY FiniteAssumption, QuantitiesType
<1>2. UnitsIn(v, statuses) = SumFunction(f)
  BY DEF UnitsIn
<1>3. \A o \in Orders : orders[o].status \in statuses => f[o] = ItemsOf(o)[v]
  OBVIOUS
<1> HIDE DEF f
<1>4. UnitsIn(v, statuses) = SumFunctionOnSet(f, Orders)
  BY <1>1, <1>2, SumOfFunction
<1>5. QED
  BY <1>1, <1>3, <1>4, SumNat

(* A commit moves the lines of its order from one status to another. *)
LEMMA UnitsMove ==
    ASSUME FlowInv, Fresh, AbsentEmpty, NEW t \in Txs, Commit(t), NEW v \in Variants, NEW statuses,
           NEW new, new = Written(request[t], saw[t], saw[t].row, paying[t] # {}).status
    PROVE  UnitsIn(v, statuses)' =
              UnitsIn(v, statuses)
                - (IF saw[t].row.status \in statuses THEN saw[t].qty[v] ELSE 0)
                + (IF new \in statuses THEN NewQty(request[t], saw[t])[v] ELSE 0)
<1> DEFINE o == OrderOf(t)
           f == [x \in Orders |-> IF orders[x].status \in statuses THEN ItemsOf(x)[v] ELSE 0]
           h == [x \in Orders |-> IF orders'[x].status \in statuses THEN (ItemsOf(x)')[v] ELSE 0]
           old == IF saw[t].row.status \in statuses THEN saw[t].qty[v] ELSE 0
           next == IF new \in statuses THEN NewQty(request[t], saw[t])[v] ELSE 0
<1>1. o \in Orders /\ OrderOf(t)' = o
  BY CommitDidAll DEF Commit, Leave, OrderOf
<1>2. /\ orders' = [orders EXCEPT ![o] = Written(request[t], saw[t], saw[t].row, paying[t] # {})]
      /\ saw[t].row = orders[o]
  BY CommitRow
<1>3. /\ ItemsOf(o)' = NewQty(request[t], saw[t]) /\ saw[t].qty = ItemsOf(o)
      /\ NewQty(request[t], saw[t]) \in [Variants -> Nat]
      /\ \A x \in Orders \ {o} : ItemsOf(x)' = ItemsOf(x)
  BY CommitItems
<1>4. /\ orders'[o].status = new
      /\ \A x \in Orders \ {o} : orders'[x] = orders[x]
  BY <1>1, <1>2 DEF FlowInv, Typed, OrderTypeOK
<1>5. UnitsIn(v, statuses) = SumFunction(f) /\ UnitsIn(v, statuses)' = SumFunction(h)
  BY DEF UnitsIn
<1>6. DOMAIN f = Orders /\ DOMAIN h = Orders
  OBVIOUS
<1>7. UnitsIn(v, statuses) = SumFunctionOnSet(f, Orders)
  BY <1>5, <1>6, SumOfFunction
<1>8. UnitsIn(v, statuses)' = SumFunctionOnSet(h, Orders)
  BY <1>5, <1>6, SumOfFunction
<1>9. \A x \in Orders : ItemsOf(x) \in [Variants -> Nat]
  BY QuantitiesType DEF FlowInv
<1>10. \A x \in Orders : f[x] \in Int
  BY <1>9
<1>11. f[o] = old
  BY <1>1, <1>2, <1>3
<1>12. h[o] = next /\ next \in Int
  <2>1. (ItemsOf(o)')[v] = NewQty(request[t], saw[t])[v]
    BY <1>3
  <2>2. h[o] = IF orders'[o].status \in statuses THEN (ItemsOf(o)')[v] ELSE 0
    BY <1>1
  <2>3. QED
    BY <1>3, <1>4, <2>1, <2>2
<1>13. \A x \in Orders \ {o} : h[x] = f[x]
  BY <1>3, <1>4
<1> HIDE DEF f, h, old, next, o
<1>14. \A x \in Orders : h[x] \in Int
  BY <1>10, <1>12, <1>13
<1>15. SumFunctionOnSet(h, Orders) = SumFunctionOnSet(f, Orders) - f[o] + h[o]
  <2>1. IsFiniteSet(Orders) /\ o \in Orders
    BY <1>1, FiniteAssumption DEF o
  <2>2. \A x \in Orders : f[x] \in Int /\ h[x] \in Int
    BY <1>10, <1>14
  <2>3. QED
    BY ONLY <2>1, <2>2, <1>13, SumChange
<1>16. QED
  BY <1>7, <1>8, <1>11, <1>12, <1>15 DEF old, next

(* What the calls of an order make of a row. *)
LEMMA ReplaySays ==
    ASSUME NEW stock \in Int, NEW kept \in Nat, NEW q \in Nat
    PROVE  /\ Replay([stock |-> stock, reserved |-> kept], [op |-> "reserve", quantity |-> q])
                = [stock |-> stock, reserved |-> kept + q]
           /\ Replay([stock |-> stock, reserved |-> kept],
                     [op |-> "commitReserved", quantity |-> q])
                = [stock |-> stock - q, reserved |-> kept - q]
           /\ Replay([stock |-> stock, reserved |-> kept],
                     [op |-> "commitDirect", quantity |-> q])
                = [stock |-> stock - q, reserved |-> kept]
           /\ q <= kept =>
                Replay([stock |-> stock, reserved |-> kept], [op |-> "release", quantity |-> q])
                  = [stock |-> stock, reserved |-> kept - q]
           /\ Replay([stock |-> stock, reserved |-> kept], [op |-> "restock", quantity |-> q])
                = [stock |-> stock + q, reserved |-> kept]
BY DEF Replay, Less

(* The stock and the orders, as a whole. *)
StockBooks == StockConserved /\ ReservedMatchesOrders

(* A commit moves the goods and the order together. *)
LEMMA StockBooksCommit ==
    ASSUME IInv, Exact, FlowInv, Fresh, AbsentEmpty, StockBooks, NEW t \in Txs, Commit(t)
    PROVE  StockBooks'
<1> DEFINE r == request[t]
           s == saw[t]
           old == s.row.status
           new == Written(r, s, s.row, paying[t] # {}).status
           qty == StockItems(r, s)
<1>1. r \in Requests /\ s \in Sight /\ old \in Accepted[r.kind]
  BY CommitDidAll
<1>2. old \in WriteWhere(r, s)
  BY CommitRow
<1>3. Moves(StockOps(r, s), old, new)
  <2> HIDE DEF r, s
  <2>1. (paying[t] # {}) \in BOOLEAN
    OBVIOUS
  <2>2. QED
    BY <1>1, <1>2, <2>1, StatusMoves
<1>4. /\ old \in Sold \union {"CONFIRMED"} => qty = s.qty
      /\ new \in Sold \union {"CONFIRMED"} => NewQty(r, s) = qty
  <2> HIDE DEF r, s
  <2>1. (paying[t] # {}) \in BOOLEAN
    OBVIOUS
  <2>2. QED
    BY <1>1, <2>1, LinesMoved
<1>5. qty \in [Variants -> Nat]
  BY <1>1, NewLinesType DEF StockItems, Sight
<1>6. ASSUME NEW v \in Variants
      PROVE  /\ base'[v].stock + UnitsIn(v, Sold)' = Supply[v]
             /\ base'[v].reserved = UnitsIn(v, {"CONFIRMED"})'
  <2>1. base[v] \in Level
    BY DEF IInv, TypeOK
  <2>2. PICK sold \in Nat : sold = UnitsIn(v, Sold)
    BY UnitsType DEF FlowInv
  <2>3. PICK kept \in Nat : kept = UnitsIn(v, {"CONFIRMED"}) 
    BY UnitsType DEF FlowInv
  <2>4. PICK q \in Nat : q = qty[v]
    BY <1>5
  <2>5. old = "CONFIRMED" => q <= kept
    <3>1. OrderOf(t) \in Orders /\ s.row = orders[OrderOf(t)]
      BY CommitDidAll, CommitRow
    <3>2. s.qty = ItemsOf(OrderOf(t))
      BY CommitItems
    <3>3. orders[OrderOf(t)].status \in {"CONFIRMED"} => ItemsOf(OrderOf(t))[v] <= kept
      BY <2>3, <3>1, UnitsType DEF FlowInv
    <3>4. QED
      BY <1>4, <2>4, <3>1, <3>2, <3>3
  <2>6. base[v].stock + sold = Supply[v] /\ base[v].reserved = kept
    BY <2>2, <2>3 DEF StockBooks, StockConserved, ReservedMatchesOrders
  <2>7. /\ StockOps(r, s) = {} => base'[v] = base[v]
        /\ \A op \in StockOps(r, s) : base'[v] = Replay(base[v], [op |-> op, quantity |-> q])
    BY <1>5, <2>4, CommitMoves
  <2>8. ASSUME NEW statuses
        PROVE  UnitsIn(v, statuses)' = UnitsIn(v, statuses)
                  - (IF old \in statuses THEN s.qty[v] ELSE 0)
                  + (IF new \in statuses THEN NewQty(r, s)[v] ELSE 0)
    BY UnitsMove
  <2> HIDE DEF r, s, old, new, qty
  <2>9. UnitsIn(v, {"CONFIRMED"})' =
            kept - (IF old \in {"CONFIRMED"} THEN s.qty[v] ELSE 0)
                 + (IF new \in {"CONFIRMED"} THEN NewQty(r, s)[v] ELSE 0)
    BY <2>3, <2>8
  <2>10. UnitsIn(v, Sold)' = sold - (IF old \in Sold THEN q ELSE 0)
                                  + (IF new \in Sold THEN q ELSE 0)
    BY <1>4, <2>2, <2>4, <2>8
  <2>11. UnitsIn(v, {"CONFIRMED"})' = kept - (IF old = "CONFIRMED" THEN q ELSE 0)
                                           + (IF new = "CONFIRMED" THEN q ELSE 0)
    BY <1>4, <2>4, <2>9
  <2>12. PICK stock \in Int : stock = base[v].stock
    BY <2>1 DEF Level
  <2>13. base[v] = [stock |-> stock, reserved |-> kept]
    BY <2>1, <2>6, <2>12 DEF Level
  <2>14. "CONFIRMED" \notin Sold
    BY DEF Sold
  <2>15. CASE StockOps(r, s) = {}
    <3>1. old \in Sold <=> new \in Sold
      BY <1>3, <2>15 DEF Moves
    <3>2. old = "CONFIRMED" <=> new = "CONFIRMED"
      BY <1>3, <2>15 DEF Moves
    <3>3. base'[v] = base[v]
      BY <2>7, <2>15
    <3>4. UnitsIn(v, Sold)' = sold /\ UnitsIn(v, {"CONFIRMED"})' = kept
      BY <2>10, <2>11, <3>1, <3>2
    <3>5. QED
      BY <2>6, <3>3, <3>4
  <2> DEFINE l == [stock |-> stock, reserved |-> kept]
             After(op) == Replay(l, [op |-> op, quantity |-> q])
  <2>16. /\ After("reserve") = [stock |-> stock, reserved |-> kept + q]
         /\ After("commitReserved") = [stock |-> stock - q, reserved |-> kept - q]
         /\ After("commitDirect") = [stock |-> stock - q, reserved |-> kept]
         /\ q <= kept => After("release") = [stock |-> stock, reserved |-> kept - q]
         /\ After("restock") = [stock |-> stock + q, reserved |-> kept]
         /\ \A op \in StockOps(r, s) : base'[v] = After(op)
    <3>1. \A op \in StockOps(r, s) : base'[v] = After(op)
      BY <2>7, <2>13
    <3>2. stock \in Int /\ kept \in Nat /\ q \in Nat
      OBVIOUS
    <3>3. /\ After("reserve") = [stock |-> stock, reserved |-> kept + q]
          /\ After("commitReserved") = [stock |-> stock - q, reserved |-> kept - q]
          /\ After("commitDirect") = [stock |-> stock - q, reserved |-> kept]
          /\ q <= kept => After("release") = [stock |-> stock, reserved |-> kept - q]
          /\ After("restock") = [stock |-> stock + q, reserved |-> kept]
      BY ONLY <3>2, ReplaySays, Zenon
    <3> HIDE DEF l, After
    <3>4. QED
      BY <3>1, <3>3
  <2> HIDE DEF l, After
  <2>17. CASE StockOps(r, s) = {"reserve"}
    <3>1. base'[v] = [stock |-> stock, reserved |-> kept + q]
      BY <2>16, <2>17
    <3>2. old \notin Sold \union {"CONFIRMED"} /\ new = "CONFIRMED"
      BY <1>3, <2>17 DEF Moves
    <3>3. UnitsIn(v, Sold)' = sold /\ UnitsIn(v, {"CONFIRMED"})' = kept + q
      BY <2>10, <2>11, <2>14, <3>2
    <3>4. QED
      BY <2>6, <2>12, <3>1, <3>3
  <2>18. CASE StockOps(r, s) = {"commitReserved"}
    <3>1. base'[v] = [stock |-> stock - q, reserved |-> kept - q]
      BY <2>16, <2>18
    <3>2. old = "CONFIRMED" /\ new \in Sold
      BY <1>3, <2>18 DEF Moves
    <3>3. UnitsIn(v, Sold)' = sold + q /\ UnitsIn(v, {"CONFIRMED"})' = kept - q
      BY <2>10, <2>11, <2>14, <3>2
    <3>4. QED
      BY <2>6, <2>12, <3>1, <3>3
  <2>19. CASE StockOps(r, s) = {"commitDirect"}
    <3>1. base'[v] = [stock |-> stock - q, reserved |-> kept]
      BY <2>16, <2>19
    <3>2. old \notin Sold \union {"CONFIRMED"} /\ new \in Sold
      BY <1>3, <2>19 DEF Moves
    <3>3. UnitsIn(v, Sold)' = sold + q /\ UnitsIn(v, {"CONFIRMED"})' = kept
      BY <2>10, <2>11, <2>14, <3>2
    <3>4. QED
      BY <2>6, <2>12, <3>1, <3>3
  <2>20. CASE StockOps(r, s) = {"release"}
    <3>1. old = "CONFIRMED" /\ new \notin Sold \union {"CONFIRMED"}
      BY <1>3, <2>20 DEF Moves
    <3>2. base'[v] = [stock |-> stock, reserved |-> kept - q]
      BY <2>5, <2>16, <2>20, <3>1
    <3>3. UnitsIn(v, Sold)' = sold /\ UnitsIn(v, {"CONFIRMED"})' = kept - q
      BY <2>10, <2>11, <2>14, <3>1
    <3>4. QED
      BY <2>6, <2>12, <3>2, <3>3
  <2>21. CASE StockOps(r, s) = {"restock"}
    <3>1. base'[v] = [stock |-> stock + q, reserved |-> kept]
      BY <2>16, <2>21
    <3>2. old \in Sold /\ new \notin Sold \union {"CONFIRMED"}
      BY <1>3, <2>21 DEF Moves
    <3>3. UnitsIn(v, Sold)' = sold - q /\ UnitsIn(v, {"CONFIRMED"})' = kept
      BY <2>10, <2>11, <2>14, <3>2
    <3>4. QED
      BY <2>6, <2>12, <3>1, <3>3
  <2>22. QED
    BY <1>3, <2>15, <2>17, <2>18, <2>19, <2>20, <2>21 DEF Moves
<1>7. QED
  BY <1>6 DEF StockBooks, StockConserved, ReservedMatchesOrders

(* The rows in hand that credit an order. *)
Credit(t) == {p \in paying[t] : p.key[1] # "refund"}

(* A commit credits its own order with the row in hand, which no other row   *)
(* stands for, and leaves the credits of the other orders.                   *)
LEMMA CreditsCommit ==
    ASSUME FlowInv, Keys, Fresh, Marks, NEW t \in Txs, Commit(t), NEW x \in Orders
    PROVE  /\ Credits(x)' = Credits(x) \union (IF x = OrderOf(t) THEN Credit(t) ELSE {})
           /\ \A p \in Credit(t) : p \notin Credits(x)
<1>1. /\ payments' = {p \in payments : \A q \in paying[t] : q.key # p.key} \union paying[t]
      /\ HasRead(t) /\ Running(t) /\ OrderOf(t) \in Orders /\ Left(t) = {}
      /\ request[t] \in Requests /\ saw[t] \in Sight
  BY CommitDidAll, NothingLeft DEF Commit, Left, FlowInv, Typed
<1>2. ASSUME NEW q \in paying[t]
      PROVE  q.status = "SUCCESS" /\ q.order = {OrderOf(t)}
  <2>1. PaymentFollows(t)
    BY <1>1 DEF FlowInv, Local, Follows
  <2>2. CASE Did(t, "insert")
    BY <1>1, <2>1, <2>2, PaymentRowType DEF PaymentFollows, OrderOf
  <2>3. CASE ~Did(t, "insert")
    BY <2>1, <2>3 DEF PaymentFollows
  <2>4. QED
    BY <2>2, <2>3
<1>3. ASSUME NEW q \in paying[t], NEW p \in payments, p.key = q.key
      PROVE  p.status = "PENDING"
  <2>1. request[t].kind = "match"
    BY <1>1, <1>3 DEF Keys, KeyTaken
  <2>2. q.key = request[t].key
    BY <2>1, PayingRow DEF PaymentRow
  <2>3. Peekable(request[t])
    BY <1>1, <2>1 DEF Marks, Peeked
  <2>4. QED
    BY <1>3, <2>2, <2>3 DEF Peekable, Keys, UniqueKeys
<1>4. {x} = {OrderOf(t)} <=> x = OrderOf(t)
  OBVIOUS
<1>5. ASSUME NEW p
      PROVE  p \in Credits(x)' <=>
                p \in Credits(x) \union (IF x = OrderOf(t) THEN Credit(t) ELSE {})
  <2>1. p \in Credits(x) => \A q \in paying[t] : q.key # p.key
    BY <1>3 DEF Credits
  <2>2. p \in Credits(x)' <=> /\ p \in payments' /\ p.order = {x} /\ p.status = "SUCCESS"
                              /\ p.key[1] # "refund"
    BY DEF Credits
  <2>3. QED
    BY <1>1, <1>2, <1>4, <2>1, <2>2 DEF Credits, Credit
<1>6. \A p \in Credit(t) : p \notin Credits(x)
  BY <1>2, <1>3 DEF Credit, Credits
<1>7. QED
  BY <1>5, <1>6

(* Its row says so: paidAmount moves by the amount of the row in hand. *)
LEMMA PaidCommit ==
    ASSUME FlowInv, Fresh, Marks, AbsentEmpty, NEW t \in Txs, Commit(t),
           NEW row, row = Written(request[t], saw[t], saw[t].row, paying[t] # {})
    PROVE  /\ Credit(t) = {} => row.paid = saw[t].row.paid
           /\ \A p \in Credit(t) : row.paid = saw[t].row.paid + p.amount /\ p.amount \in Int
<1> DEFINE r == request[t]
           s == saw[t]
<1>1. /\ HasRead(t) /\ Follows(t) /\ r \in Requests /\ r.kind \in Kinds /\ s \in Sight
      /\ s.row.status \in Accepted[r.kind]
      /\ \A x : Did(t, x) <=> x \in Planned(r, s)
  BY CommitDidAll
<1>2. /\ s.row \in Row /\ s.row.paid \in Int /\ s.row.total \in Int /\ r.amount \in Int
      /\ r.key[1] \notin {"refund", "cod"}
  BY <1>1, RequestsAssumption DEF Sight, Row
<1>3. PaymentFollows(t)
  BY <1>1 DEF Follows
<1>4. row = Written(r, s, s.row, paying[t] # {})
  OBVIOUS
<1>5. \A next : Credited(r, s, s.row, next).paid = s.row.paid + r.amount
  BY <1>2 DEF Credited, PaidWith, Row
<1>6. CASE r.kind = "create"
  <2>1. paying[t] = {}
    BY <1>1, <1>3, <1>6 DEF PaymentFollows, Planned
  <2>2. s.row.paid = 0
    <3>1. s.row = orders[OrderOf(t)] /\ s.row.status = "ABSENT" /\ OrderOf(t) \in Orders
      BY <1>1, <1>6, CommitRow, CommitDidAll DEF Accepted
    <3>2. QED
      BY <3>1 DEF AbsentEmpty
  <2>3. row.paid = 0
    BY <1>4, <1>6 DEF Written
  <2>4. QED
    BY <2>1, <2>2, <2>3 DEF Credit
<1>7. CASE r.kind \in {"edit", "confirm"}
  <2>1. paying[t] = {}
    BY <1>1, <1>3, <1>7 DEF PaymentFollows, Planned
  <2>2. row.paid = s.row.paid
    BY <1>2, <1>4, <1>7 DEF Written, Row
  <2>3. QED
    BY <2>1, <2>2 DEF Credit
<1>8. CASE r.kind \in {"pay", "reconcile"}
  <2>1. paying[t] = {PaymentRow(r, s)}
    BY <1>1, <1>3, <1>8 DEF PaymentFollows, Planned
  <2>2. PaymentRow(r, s).amount = r.amount /\ PaymentRow(r, s).key = r.key
    BY <1>8 DEF PaymentRow
  <2>3. row.paid = s.row.paid + r.amount
    BY <1>2, <1>4, <1>5, <1>8 DEF Written, PaidWith, Row
  <2>4. QED
    BY <1>2, <2>1, <2>2, <2>3 DEF Credit
<1>9. CASE r.kind = "match"
  <2>1. Did(t, "mark") /\ ~Did(t, "insert")
    BY <1>1, <1>9 DEF Planned
  <2>2. paying[t] # {} /\ \A p \in paying[t] : p.key = r.key /\ p.amount = r.amount
    BY <1>1, <1>3, <2>1 DEF PaymentFollows, Marks, MarkedNow
  <2>3. row.paid = s.row.paid + r.amount
    BY <1>4, <1>5, <1>9 DEF Written
  <2>4. QED
    BY <1>2, <2>2, <2>3 DEF Credit
<1>10. CASE r.kind = "cancel"
  <2>1. \A p \in paying[t] : p = PaymentRow(r, s)
    BY <1>1, <1>3, <1>10 DEF PaymentFollows, Planned
  <2>2. PaymentRow(r, s).key[1] = "refund"
    BY <1>10 DEF PaymentRow
  <2>3. row.paid = s.row.paid
    BY <1>2, <1>4, <1>10 DEF Written, Row
  <2>4. QED
    BY <2>1, <2>2, <2>3 DEF Credit
<1>11. CASE r.kind = "complete"
  <2>1. paying[t] = {} \/ paying[t] = {PaymentRow(r, s)}
    BY <1>1, <1>3, <1>11 DEF PaymentFollows, Planned
  <2>2. PaymentRow(r, s).key[1] = "cod" /\ PaymentRow(r, s).amount = s.row.total - s.row.paid
    BY <1>11 DEF PaymentRow
  <2>3. row.paid = IF paying[t] # {} THEN s.row.total ELSE s.row.paid
    BY <1>2, <1>4, <1>11 DEF Written, Row
  <2>4. CASE paying[t] = {}
    BY <2>3, <2>4 DEF Credit
  <2>5. CASE paying[t] = {PaymentRow(r, s)}
    BY <1>2, <2>2, <2>3, <2>5 DEF Credit
  <2>6. QED
    BY <2>1, <2>4, <2>5
<1>12. QED
  BY <1>1, <1>6, <1>7, <1>8, <1>9, <1>10, <1>11 DEF Kinds

(* The credits of an order are finitely many integers. *)
LEMMA CreditsType ==
    ASSUME Typed, NEW o \in Orders
    PROVE  IsFiniteSet(Credits(o)) /\ \A p \in Credits(o) : p.amount \in Int
<1>1. Credits(o) \subseteq payments
  BY DEF Credits
<1>2. IsFiniteSet(Credits(o))
  BY <1>1, FS_Subset DEF Typed
<1>3. \A p \in payments : p.amount \in Int
  BY DEF Typed, OrderTypeOK, Payment
<1>4. QED
  BY <1>1, <1>2, <1>3

(* So the sum of the credits moves with paidAmount. *)
LEMMA PaidBooksCommit ==
    ASSUME FlowInv, Keys, Fresh, Marks, AbsentEmpty, PaidMatchesPayments, NEW t \in Txs, Commit(t)
    PROVE  PaidMatchesPayments'
<1> DEFINE o == OrderOf(t)
           row == Written(request[t], saw[t], saw[t].row, paying[t] # {})
<1>1. o \in Orders /\ orders' = [orders EXCEPT ![o] = row] /\ saw[t].row = orders[o]
  BY CommitDidAll, CommitRow
<1>2. /\ Credit(t) = {} => row.paid = saw[t].row.paid
      /\ \A p \in Credit(t) : row.paid = saw[t].row.paid + p.amount /\ p.amount \in Int
  BY PaidCommit
<1>3. orders'[o] = row /\ \A x \in Orders \ {o} : orders'[x] = orders[x]
  BY <1>1 DEF FlowInv, Typed, OrderTypeOK
<1> HIDE DEF row
<1>4. ASSUME NEW x \in Orders
      PROVE  orders'[x].paid = SumFunction([p \in Credits(x)' |-> p.amount])
  <2> DEFINE f == [p \in Credits(x) |-> p.amount]
             h == [p \in Credits(x)' |-> p.amount]
  <2>1. /\ Credits(x)' = Credits(x) \union (IF x = o THEN Credit(t) ELSE {})
        /\ \A p \in Credit(t) : p \notin Credits(x)
    BY CreditsCommit
  <2>2. orders[x].paid = SumFunction(f)
    BY DEF PaidMatchesPayments
  <2>3. CASE x # o \/ Credit(t) = {}
    <3>1. Credits(x)' = Credits(x)
      BY <2>1, <2>3
    <3>2. orders'[x].paid = orders[x].paid
      BY <1>1, <1>2, <1>3, <2>3
    <3>3. QED
      BY <2>2, <3>1, <3>2
  <2>4. CASE x = o /\ Credit(t) # {}
    <3>1. PICK p \in Credit(t) : Credit(t) = {p}
      BY <2>4 DEF Credit, FlowInv, Typed, AtMostOne
    <3>2. Credits(x)' = Credits(x) \union {p} /\ p \notin Credits(x) /\ p.amount \in Int
      BY <1>2, <2>1, <2>4, <3>1
    <3>3. /\ IsFiniteSet(Credits(x))
          /\ \A q \in Credits(x) : f[q] \in Int /\ h[q] = f[q]
          /\ h[p] = p.amount /\ DOMAIN f = Credits(x) /\ DOMAIN h = Credits(x) \union {p}
      BY <3>2, CreditsType DEF FlowInv
    <3> HIDE DEF f, h
    <3>4. SumFunctionOnSet(h, Credits(x) \union {p}) = SumFunctionOnSet(f, Credits(x)) + h[p]
      BY <3>2, <3>3, SumAdd
    <3>5. SumFunction(f) = SumFunctionOnSet(f, Credits(x))
      BY <3>3, SumOfFunction
    <3>6. SumFunction(h) = SumFunctionOnSet(h, Credits(x) \union {p})
      BY <3>3, SumOfFunction
    <3>7. orders'[x].paid = orders[x].paid + p.amount
      BY <1>1, <1>2, <1>3, <2>4
    <3>8. orders'[x].paid = SumFunction(h)
      BY <2>2, <3>3, <3>4, <3>5, <3>6, <3>7
    <3>9. QED
      BY <3>8 DEF h
  <2>5. QED
    BY <2>3, <2>4
<1>5. QED
  BY <1>4 DEF PaidMatchesPayments

(* What the row of an order says after any request: the order exists, and is  *)
(* paid if it says so.                                                       *)
LEMMA RowAfter ==
    ASSUME NEW r \in Requests, NEW s \in Sight, NEW cash \in BOOLEAN,
           s.row.status \in Accepted[r.kind],
           NEW row, row = Written(r, s, s.row, cash)
    PROVE  /\ row.status # "ABSENT"
           /\ /\ s.row.status = "PAID" => s.row.paid >= s.row.total
              /\ row.status = "PAID"
              => row.paid >= row.total
<1>1. r.kind \in Kinds /\ r.amount \in Nat
  BY RequestsAssumption
<1>2. /\ s.row \in Row /\ s.row.status \in Statuses /\ s.row.paid \in Int /\ s.row.total \in Nat
      /\ row = Written(r, s, s.row, cash)
  BY DEF Sight, Row
<1>3. ASSUME NEW next, row = Credited(r, s, s.row, next)
      PROVE  row.status = next /\ row.paid = s.row.paid + r.amount /\ row.total = s.row.total
  BY <1>2, <1>3 DEF Credited, PaidWith, Row
<1>4. Settles(r, s) <=> s.row.paid + r.amount >= s.row.total
  BY DEF Settles, PaidWith
<1>5. CASE r.kind = "create"
  <2>1. row = [status |-> IF r.confirmNow THEN "CONFIRMED" ELSE "DRAFT",
               total |-> Price(NewLines(r)), paid |-> 0, pay |-> "UNPAID"]
    BY <1>2, <1>5 DEF Written
  <2>2. s.row.status = "ABSENT"
    BY <1>5 DEF Accepted
  <2>3. QED
    BY <1>5, <2>1, <2>2
<1>6. CASE r.kind = "edit"
  <2>1. row = [s.row EXCEPT !.total = IF r.lines = {} THEN s.row.total ELSE Price(NewLines(r))]
    BY <1>2, <1>6 DEF Written
  <2>2. s.row.status = "DRAFT"
    BY <1>6 DEF Accepted
  <2>3. QED
    BY <1>2, <1>6, <2>1, <2>2 DEF Row
<1>7. CASE r.kind = "confirm"
  <2>1. row = [s.row EXCEPT !.status = "CONFIRMED"]
    BY <1>2, <1>7 DEF Written
  <2>2. s.row.status = "DRAFT"
    BY <1>7 DEF Accepted
  <2>3. QED
    BY <1>2, <1>7, <2>1, <2>2 DEF Row
<1>8. CASE r.kind = "pay"
  <2>1. row = Credited(r, s, s.row, IF Settles(r, s) THEN "PAID" ELSE "CONFIRMED")
    BY <1>2, <1>8 DEF Written
  <2>2. s.row.status \in {"DRAFT", "CONFIRMED"}
    BY <1>8 DEF Accepted, Payable
  <2>3. QED
    BY <1>3, <1>4, <1>8, <2>1, <2>2
<1>9. CASE r.kind = "reconcile"
  <2>1. s.row.status # "ABSENT"
    BY <1>9 DEF Accepted, Existing
  <2>2. CASE s.row.status = "CANCELLED"
    <3>1. row = [s.row EXCEPT !.paid = PaidWith(r, s)]
      BY <1>2, <1>9, <2>2 DEF Written, Fulfilled
    <3>2. QED
      BY <1>2, <1>9, <2>2, <3>1 DEF Row
  <2>3. CASE s.row.status \in Fulfilled
    <3>1. row = Credited(r, s, s.row, s.row.status)
      BY <1>2, <1>9, <2>3 DEF Written, Fulfilled
    <3>2. s.row.status \notin {"ABSENT", "PAID", "CANCELLED"}
      BY <2>3 DEF Fulfilled
    <3>3. QED
      BY <1>3, <1>9, <3>1, <3>2
  <2>4. CASE s.row.status \notin Fulfilled \union {"CANCELLED"}
    <3>1. row = Credited(r, s, s.row, IF Settles(r, s) THEN "PAID" ELSE "CONFIRMED")
      BY <1>2, <1>9, <2>4 DEF Written
    <3>2. s.row.status \notin {"COMPLETED", "CANCELLED"}
      BY <2>4 DEF Fulfilled
    <3>3. QED
      BY <1>3, <1>4, <1>9, <3>1, <3>2
  <2>5. QED
    BY <2>2, <2>3, <2>4
<1>10. CASE r.kind = "match"
  <2>1. s.row.status # "ABSENT"
    BY <1>10 DEF Accepted, Existing
  <2>2. CASE Settles(r, s) /\ s.row.status \notin Fulfilled \union {"PAID"}
    <3>1. row = Credited(r, s, s.row, "PAID")
      BY <1>2, <1>10, <2>2 DEF Written
    <3>2. s.row.status # "COMPLETED"
      BY <2>2 DEF Fulfilled
    <3>3. QED
      BY <1>3, <1>4, <1>10, <2>2, <3>1, <3>2
  <2>3. CASE ~(Settles(r, s) /\ s.row.status \notin Fulfilled \union {"PAID"})
    <3>1. row = Credited(r, s, s.row, s.row.status)
      BY <1>2, <1>10, <2>3 DEF Written
    <3>2. row.status = s.row.status /\ row.paid = s.row.paid + r.amount /\ row.total = s.row.total
      BY <1>3, <3>1
    <3>3. QED
      BY <1>1, <1>2, <1>10, <2>1, <3>2
  <2>4. QED
    BY <2>2, <2>3
<1>11. CASE r.kind = "cancel"
  <2>1. row = [s.row EXCEPT !.status = "CANCELLED",
                            !.pay = IF s.row.paid > 0 THEN "REFUNDED" ELSE @]
    BY <1>2, <1>11 DEF Written
  <2>2. s.row.status \in {"DRAFT", "CONFIRMED", "PAID", "SHIPPING"}
    BY <1>11 DEF Accepted, Cancellable
  <2>3. row.status = "CANCELLED" /\ row.total = s.row.total
    BY <1>2, <2>1 DEF Row
  <2>4. QED
    BY <1>11, <2>2, <2>3
<1>12. CASE r.kind = "complete"
  <2>1. row = [s.row EXCEPT !.status = "COMPLETED",
                            !.paid = IF cash THEN s.row.total ELSE s.row.paid,
                            !.pay = IF cash THEN "PAID" ELSE s.row.pay]
    BY <1>2, <1>12 DEF Written
  <2>2. s.row.status \in {"SHIPPING", "PAID", "CONFIRMED"}
    BY <1>12 DEF Accepted, Completable
  <2>3. row.status = "COMPLETED" /\ row.total = s.row.total
    BY <1>2, <2>1 DEF Row
  <2>4. QED
    BY <1>12, <2>2, <2>3
<1>13. QED
  BY <1>1, <1>5, <1>6, <1>7, <1>8, <1>9, <1>10, <1>11, <1>12 DEF Kinds

(* A request of the plan leaves its order in such a row. *)
LEMMA RowCommitted ==
    ASSUME FlowInv, Fresh, NEW t \in Txs, Commit(t), NEW o \in Orders, o = OrderOf(t)
    PROVE  /\ orders'[o].status # "ABSENT"
           /\ /\ orders[o].status = "PAID" => orders[o].paid >= orders[o].total
              /\ orders'[o].status = "PAID"
              => orders'[o].paid >= orders'[o].total
<1> DEFINE r == request[t]
           s == saw[t]
           cash == paying[t] # {}
           row == Written(r, s, s.row, cash)
<1>1. /\ r \in Requests /\ s \in Sight /\ s.row.status \in Accepted[r.kind] /\ Running(t)
  BY CommitDidAll
<1>2. orders' = [orders EXCEPT ![o] = row] /\ s.row = orders[o]
  BY CommitRow
<1>3. orders'[o] = row
  BY <1>2 DEF FlowInv, Typed, OrderTypeOK
<1>4. cash \in BOOLEAN
  OBVIOUS
<1> HIDE DEF r, s, cash
<1>5. row = Written(r, s, s.row, cash)
  OBVIOUS
<1> HIDE DEF row
<1>6. /\ row.status # "ABSENT"
      /\ /\ s.row.status = "PAID" => s.row.paid >= s.row.total
         /\ row.status = "PAID"
         => row.paid >= row.total
  BY <1>1, <1>4, <1>5, RowAfter
<1>7. QED
  BY <1>2, <1>3, <1>6

(* The rows of the orders, one by one. *)
LEMMA RowsCommit ==
    ASSUME FlowInv, Fresh, AbsentEmpty, NEW t \in Txs, Commit(t)
    PROVE  /\ AbsentEmpty'
           /\ PaidCoversTotal => PaidCoversTotal'
<1> DEFINE o == OrderOf(t)
<1>1. o \in Orders
  BY CommitDidAll
<1>2. \A x \in Orders \ {o} : orders'[x] = orders[x] /\ items'[x] = items[x]
  BY CommitChanges
<1>3. orders'[o].status # "ABSENT"
  BY <1>1, RowCommitted
<1>4. AbsentEmpty'
  BY <1>2, <1>3 DEF AbsentEmpty
<1>5. ASSUME PaidCoversTotal PROVE PaidCoversTotal'
  <2>1. orders'[o].status = "PAID" => orders'[o].paid >= orders'[o].total
    BY <1>1, <1>5, RowCommitted DEF PaidCoversTotal
  <2>2. QED
    BY <1>2, <1>5, <2>1 DEF PaidCoversTotal
<1>6. QED
  BY <1>4, <1>5

(* All that the flows rely on, when nobody overlaps. *)
Serial == FlowInv /\ Keys /\ Apart /\ Fresh /\ Marks /\ AbsentEmpty

(* Only a commit changes the tables of the shop. *)
LEMMA OnlyCommits ==
    ASSUME [OrderNext]_vars, \A t \in Txs : ~Commit(t)
    PROVE  UNCHANGED <<orders, items, payments, base>>
<1>1. CASE UNCHANGED vars
  BY <1>1 DEF vars, dbVars, stockVars
<1>2. CASE \E o \in Orders : ExpireLock(o)
  BY <1>2 DEF ExpireLock, stockVars
<1>3. ASSUME NEW t \in Txs, (\E r \in Requests : Start(t, r)) \/ OrderStep(t) \/ Die(t)
      PROVE  UNCHANGED <<orders, items, payments, base>>
  <2>1. UNCHANGED <<orders, items, payments>>
    BY <1>3, TablesKept
  <2>2. UNCHANGED stockVars => UNCHANGED base
    BY DEF stockVars
  <2>3. CASE \/ (\E r \in Requests : Start(t, r)) \/ Peek(t) \/ TakeLock(t) \/ ReadOrder(t)
             \/ InsertPayment(t) \/ SkipCash(t) \/ MarkPayment(t) \/ DeleteItems(t)
             \/ AddItems(t) \/ WriteOrder(t)
    BY <2>1, <2>2, <2>3 DEF Start, Peek, TakeLock, ReadOrder, InsertPayment, SkipCash, MarkPayment,
                      DeleteItems, AddItems, WriteOrder
  <2>4. CASE CallStock(t)
    BY <2>1, <2>4 DEF CallStock, Begin
  <2>5. CASE StockStatement(t)
    BY <2>1, <2>5 DEF StockStatement, Statement, Reserve, CommitReserved, CommitDirect, ReadBefore,
                Release, Restock, Adjust, UpdateRow
  <2>6. CASE Reject(t) \/ Die(t)
    BY <2>1, <2>2, <2>6 DEF Reject, Die, Fail, Discard
  <2>7. QED
    BY <1>3, <2>1, <2>3, <2>4, <2>5, <2>6 DEF OrderStep
<1>4. QED
  BY <1>1, <1>2, <1>3 DEF OrderNext

(* Nobody has started yet. *)
LEMMA SerialInit ==
    ASSUME OrderInit
    PROVE  Serial
<1>1. \A t \in Txs : ~Running(t)
  BY DEF OrderInit, Running
<1>2. Apart /\ Fresh /\ Marks
  BY <1>1 DEF Apart, Exclusive, LockHeld, Fresh, SawNow, WroteNow, DoomedNow, Marks, Peeked,
              MarkedNow, HasRead
<1>3. AbsentEmpty
  <2>1. PICK shop \in InitShops : orders = shop.orders /\ items = shop.items
    BY DEF OrderInit
  <2>2. \A o \in Orders : shop.orders[o].status = "ABSENT" =>
            shop.items[o] = {} /\ shop.orders[o].paid = 0
    BY InitShopsAssumption
  <2>3. QED
    BY <2>1, <2>2 DEF AbsentEmpty
<1>4. QED
  BY <1>2, <1>3, FlowInit, KeysInit DEF Serial

(* Each part of it is kept. *)
LEMMA SerialStep ==
    ASSUME NobodyOverlaps, TypeOK, Serial, [OrderNext]_vars
    PROVE  Serial'
<1>1. FlowInv' /\ Keys' /\ Apart'
  BY FlowStep, KeysStep, ApartStep DEF Serial
<1>2. Fresh' /\ Marks'
  BY FreshStep, MarksStep DEF Serial
<1>3. AbsentEmpty'
  <2>1. CASE \A t \in Txs : ~Commit(t)
    BY <2>1, OnlyCommits DEF Serial, AbsentEmpty
  <2>2. CASE \E t \in Txs : Commit(t)
    BY <2>2, RowsCommit DEF Serial
  <2>3. QED
    BY <2>1, <2>2
<1>4. QED
  BY <1>1, <1>2, <1>3 DEF Serial

(* They hold of every run, with the invariants of the stock. *)
LEMMA SerialInvariance ==
    ASSUME NobodyOverlaps
    PROVE  OrderSpec => [](IInv /\ Exact /\ Serial)
<1>1. OrderInit => Serial
  BY SerialInit
<1>2. TypeOK /\ Serial /\ [OrderNext]_vars => Serial'
  BY SerialStep
<1>3. QED
  BY <1>1, <1>2, OrdersUseStock, TypeCorrect, Invariance, CallsAreExact, PTL
     DEF OrderSpec, StockProtocol

(* The goods and the orders move together, in every step. *)
LEMMA StockBooksStep ==
    ASSUME IInv, Exact, Serial, StockBooks, [OrderNext]_vars
    PROVE  StockBooks'
<1>1. CASE \A t \in Txs : ~Commit(t)
  <2>1. UNCHANGED <<orders, items, base>>
    BY <1>1, OnlyCommits
  <2>2. ASSUME NEW v, NEW statuses
        PROVE  UnitsIn(v, statuses)' = UnitsIn(v, statuses)
    BY <2>1 DEF UnitsIn, ItemsOf
  <2>3. QED
    BY <2>1, <2>2 DEF StockBooks, StockConserved, ReservedMatchesOrders
<1>2. CASE \E t \in Txs : Commit(t)
  BY <1>2, StockBooksCommit DEF Serial
<1>3. QED
  BY <1>1, <1>2

(* Goods leave the shelf exactly once per order that is sold, and come back   *)
(* when it is cancelled: if the books of the shop are right at first, what is *)
(* on the shelf plus what the PAID, SHIPPING and COMPLETED orders hold is     *)
(* what was supplied, after any number of requests of any kind that do not    *)
(* overlap on an order.                                                      *)
THEOREM GoodsAreConserved ==
    ASSUME NobodyOverlaps
    PROVE  OrderSpec /\ StockBooks => []StockConserved
<1>1. IInv /\ Exact /\ Serial /\ StockBooks /\ [OrderNext]_vars => StockBooks'
  BY StockBooksStep
<1>2. StockBooks => StockConserved
  BY DEF StockBooks
<1>3. QED
  BY <1>1, <1>2, SerialInvariance, PTL DEF OrderSpec

(* Under the same conditions reservedQuantity is what the CONFIRMED orders    *)
(* hold: no reservation outlives its order, and none is made twice.          *)
THEOREM ReservationsMatchOrders ==
    ASSUME NobodyOverlaps
    PROVE  OrderSpec /\ StockBooks => []ReservedMatchesOrders
<1>1. IInv /\ Exact /\ Serial /\ StockBooks /\ [OrderNext]_vars => StockBooks'
  BY StockBooksStep
<1>2. StockBooks => ReservedMatchesOrders
  BY DEF StockBooks
<1>3. QED
  BY <1>1, <1>2, SerialInvariance, PTL DEF OrderSpec

(* paidAmount stays the sum of the successful payments of the order, whoever  *)
(* books them: the payment endpoint, the transfer matcher, a manual match or  *)
(* cash on delivery.                                                         *)
THEOREM PaymentsAddUp ==
    ASSUME NobodyOverlaps
    PROVE  OrderSpec /\ PaidMatchesPayments => []PaidMatchesPayments
<1>1. Serial /\ PaidMatchesPayments /\ [OrderNext]_vars => PaidMatchesPayments'
  <2> SUFFICES ASSUME Serial, PaidMatchesPayments, [OrderNext]_vars
               PROVE  PaidMatchesPayments'
    OBVIOUS
  <2>1. CASE \A t \in Txs : ~Commit(t)
    <3>1. UNCHANGED <<orders, payments>>
      BY <2>1, OnlyCommits
    <3>2. QED
      BY <3>1 DEF PaidMatchesPayments, Credits
  <2>2. CASE \E t \in Txs : Commit(t)
    BY <2>2, PaidBooksCommit DEF Serial
  <2>3. QED
    BY <2>1, <2>2
<1>2. QED
  BY <1>1, SerialInvariance, PTL DEF OrderSpec

(* An order that says PAID has been paid its total. *)
THEOREM PaidIsCovered ==
    ASSUME NobodyOverlaps
    PROVE  OrderSpec /\ PaidCoversTotal => []PaidCoversTotal
<1>1. Serial /\ PaidCoversTotal /\ [OrderNext]_vars => PaidCoversTotal'
  <2> SUFFICES ASSUME Serial, PaidCoversTotal, [OrderNext]_vars
               PROVE  PaidCoversTotal'
    OBVIOUS
  <2>1. CASE \A t \in Txs : ~Commit(t)
    BY <2>1, OnlyCommits DEF PaidCoversTotal
  <2>2. CASE \E t \in Txs : Commit(t)
    BY <2>2, RowsCommit DEF Serial
  <2>3. QED
    BY <2>1, <2>2
<1>2. QED
  BY <1>1, SerialInvariance, PTL DEF OrderSpec

(* What t is about to do after its read is planned and not done yet. *)
LEMMA NextStep ==
    ASSUME FlowInv, NEW t \in Txs, NEW step \in Steps \ Early, At(t, step)
    PROVE  /\ HasRead(t) /\ Running(t) /\ Follows(t) /\ PlanOK(t) /\ step \in Left(t)
           /\ step \in Planned(request[t], saw[t]) /\ ~Did(t, step)
           /\ request[t] \in Requests
<1>1. plan[t] \in Seq(Steps) /\ plan[t] # << >> /\ Head(plan[t]) = step /\ Running(t) /\ PlanOK(t)
  BY DEF FlowInv, Typed, Local, At
<1>2. step \in Left(t)
  BY <1>1, PopPlan DEF Left, PlanOK
<1>3. "read" \notin Left(t)
  BY <1>1, <1>2 DEF PlanOK
<1>4. QED
  BY <1>1, <1>2, <1>3 DEF HasRead, Did, PlanOK, FlowInv, Local

(* Nobody waits for the row or for the lines of an order. *)
LEMMA NoOrderWait ==
    ASSUME FlowInv, Apart, NEW t \in Txs, NEW u \in Txs
    PROVE  /\ ~(At(t, "write") /\ rowOwner[OrderOf(t)] = u)
           /\ ~(At(t, "addItems") /\ itemOwner[OrderOf(t)] = u /\ u # t)
<1>1. ASSUME At(t, "write"), rowOwner[OrderOf(t)] = u PROVE FALSE
  <2>1. HasRead(t) /\ Running(t) /\ Follows(t) /\ ~Did(t, "write")
    BY <1>1, NextStep DEF Steps, Early
  <2>2. u # t
    BY <1>1, <2>1 DEF Follows, RowFollows
  <2>3. OrderOf(t) \in Orders
    BY <2>1, OrderExists DEF FlowInv
  <2>4. HasRead(u) /\ Running(u) /\ OrderOf(u) = OrderOf(t)
    BY <1>1, <2>3, RewriterRuns
  <2>5. QED
    BY <2>1, <2>2, <2>4, OnlyOne
<1>2. ASSUME At(t, "addItems"), itemOwner[OrderOf(t)] = u, u # t PROVE FALSE
  <2>1. HasRead(t) /\ Running(t)
    BY <1>2, NextStep DEF Steps, Early
  <2>2. OrderOf(t) \in Orders
    BY <2>1, OrderExists DEF FlowInv
  <2>3. HasRead(u) /\ Running(u) /\ OrderOf(u) = OrderOf(t)
    BY <1>2, <2>2, RewriterRuns
  <2>4. QED
    BY <1>2, <2>1, <2>3, OnlyOne
<1>3. QED
  BY <1>1, <1>2

(* Whoever waits for a payment key has nothing in hand, and waits for a       *)
(* request that has its payment row in hand.                                 *)
LEMMA KeyWait ==
    ASSUME FlowInv, Apart, NEW t \in Txs, NEW u \in Txs, u # t, NEW p \in paying[u],
           \/ At(t, "insert") /\ PaymentRow(request[t], saw[t]).key = p.key
           \/ At(t, "mark") /\ request[t].key = p.key
    PROVE  status[t] = "new" /\ paying[t] = {}
<1>1. HasRead(u) /\ Running(u) /\ request[u] \in Requests
  <2>1. HasRead(u) /\ Running(u)
    BY PayerRuns
  <2>2. QED
    BY <2>1, OrderExists DEF FlowInv
<1>2. CASE At(t, "mark") /\ request[t].key = p.key
  <2>1. Running(t) /\ "mark" \in Planned(request[t], saw[t]) /\ request[t] \in Requests
    BY <1>2, NextStep DEF Steps, Early
  <2>2. request[t].kind = "match"
    BY <2>1 DEF Planned
  <2>3. request[u].key = request[t].key
    BY <1>2, <2>1, PaymentKey, RequestsAssumption
  <2>4. request[t].kind \in LockKinds
    BY <1>1, <2>1, <2>3 DEF Apart, Exclusive
  <2>5. QED
    BY <2>2, <2>4 DEF LockKinds
<1>3. CASE At(t, "insert") /\ PaymentRow(request[t], saw[t]).key = p.key
  <2>1. /\ HasRead(t) /\ Running(t) /\ Follows(t) /\ PlanOK(t) /\ request[t] \in Requests
        /\ "insert" \in Left(t) /\ "insert" \in Planned(request[t], saw[t])
        /\ ~Did(t, "insert")
    BY <1>3, NextStep DEF Steps, Early
  <2>2. request[t].kind \in {"pay", "reconcile", "cancel", "complete"}
    BY <2>1 DEF Planned
  <2>3. OrderOf(u) # OrderOf(t)
    BY <1>1, <2>1, OnlyOne
  <2>4. request[t].kind \notin {"cancel", "complete"}
    <3>1. SUFFICES ASSUME request[t].kind \in {"cancel", "complete"} PROVE FALSE
      OBVIOUS
    <3>2. p.key \in {<<"refund", OrderOf(t)>>, <<"cod", OrderOf(t)>>}
      BY <1>3, <3>1 DEF PaymentRow, OrderOf
    <3>3. p.key # request[u].key
      BY <1>1, <3>2, RequestsAssumption
    <3>4. p.key = PaymentRow(request[u], saw[u]).key
      BY <3>3, PayingRow
    <3>5. p.key[2] = OrderOf(u)
      BY <3>3, <3>4 DEF PaymentRow, OrderOf
    <3>6. QED
      BY <2>3, <3>2, <3>5
  <2>5. request[t].kind \in {"pay", "reconcile"}
    BY <2>2, <2>4
  <2>6. ~Did(t, "stock") /\ ~Did(t, "mark")
    <3>1. Did(t, "stock") => Rank(request[t].kind, "stock") < Rank(request[t].kind, "insert")
      BY <2>1 DEF PlanOK, Did, HasRead
    <3>2. ~(Rank(request[t].kind, "stock") < Rank(request[t].kind, "insert"))
      BY <2>5 DEF Rank
    <3>3. QED
      BY <2>5, <3>1, <3>2 DEF Did, Planned
  <2>7. QED
    BY <2>1, <2>6 DEF Follows, StockFollows, PaymentFollows
<1>4. QED
  BY <1>2, <1>3

(* A stock row of the holder is waited for. *)
StockWait(t, u) == \E v \in Variants : Waits(t, v) /\ owner[v] = u

(* A request waits for a stock row, or before it has anything. *)
LEMMA WaitKinds ==
    ASSUME FlowInv, Apart, NEW t \in Txs, NEW u \in Txs, WaitsFor(t, u)
    PROVE  \/ StockWait(t, u)
           \/ status[t] = "new" /\ paying[t] = {} /\ paying[u] # {}
<1>1. CASE StockWait(t, u)
  BY <1>1
<1>2. CASE ~StockWait(t, u)
  <2>1. PICK p \in paying[u] :
          /\ u # t
          /\ \/ At(t, "insert") /\ PaymentRow(request[t], saw[t]).key = p.key
             \/ At(t, "mark") /\ request[t].key = p.key
    BY <1>2, NoOrderWait DEF WaitsFor, StockWait
  <2>2. QED
    BY <2>1, KeyWait
<1>3. QED
  BY <1>1, <1>2

(* Those that wait in a ring would wait for ever greater variants. *)
LEMMA NoRing ==
    ASSUME IInv, WaitsAscend, FlowInv, Apart
    PROVE  NoWaitCycle
<1>1. SUFFICES ASSUME NEW S \in SUBSET Txs, S # {}, \A t \in S : \E u \in S : WaitsFor(t, u)
               PROVE  FALSE
  BY DEF NoWaitCycle
<1> DEFINE W == {v \in Variants : \E t \in S : Waits(t, v) /\ owner[v] \in S}
<1>2. ASSUME NEW t \in S, status[t] \in Live \/ paying[t] # {}
      PROVE  \E v \in W : Waits(t, v)
  <2>1. PICK u \in S : WaitsFor(t, u)
    BY <1>1
  <2>2. StockWait(t, u)
    BY <1>2, <2>1, WaitKinds DEF Live
  <2>3. QED
    BY <2>2 DEF StockWait
<1>3. ASSUME NEW v \in W
      PROVE  \E w \in W : v < w
  <2>1. PICK t \in S : Waits(t, v) /\ owner[v] \in S
    OBVIOUS
  <2>2. status[owner[v]] \in Live
    BY <2>1, NoTxAssumption DEF IInv, LocksCoverDrafts
  <2>3. PICK w \in W : Waits(owner[v], w)
    BY <1>2, <2>1, <2>2
  <2>4. v < w
    BY <2>1, <2>3 DEF WaitsAscend
  <2>5. QED
    BY <2>4
<1>4. W # {}
  <2>1. PICK t \in S, u \in S : WaitsFor(t, u)
    BY <1>1
  <2>2. CASE StockWait(t, u)
    BY <2>2 DEF StockWait
  <2>3. CASE paying[u] # {}
    BY <1>2, <2>3
  <2>4. QED
    BY <2>1, <2>2, <2>3, WaitKinds
<1>5. IsFiniteSet(W) /\ W \in SUBSET Int
  <2>1. W \subseteq Variants
    OBVIOUS
  <2> HIDE DEF W
  <2>2. QED
    BY <2>1, FiniteAssumption, VariantsAssumption, FS_Subset
<1> HIDE DEF W
<1>6. PICK m \in W : \A v \in W : v <= m
  BY <1>4, <1>5, FiniteMax
<1>7. PICK w \in W : m < w
  BY <1>3
<1>8. QED
  BY <1>5, <1>6, <1>7

(* No 40P01: when nobody overlaps on an order, the row locks, the rewritten   *)
(* lines, the payment keys and the stock rows together never close a cycle   *)
(* of waiting requests, however many run and whatever orders share a variant. *)
THEOREM RequestsNeverDeadlock ==
    ASSUME NobodyOverlaps
    PROVE  OrderSpec => []NoWaitCycle
<1>1. IInv /\ WaitsAscend /\ Serial => NoWaitCycle
  BY NoRing DEF Serial
<1>2. QED
  BY <1>1, SerialInvariance, OrdersUseStock, NoStockDeadlock, PTL DEF StockProtocol
=============================================================================
