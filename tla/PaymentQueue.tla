----------------------------- MODULE PaymentQueue -----------------------------
(***************************************************************************)
(* A bank transfer's way from the webhook to the books.  The bank reports  *)
(* a transfer, perhaps again; the webhook adds a job under the transfer's  *)
(* id and always answers 200; a worker of CommerceReconciliationProcessor  *)
(* takes the job, finds the order the memo names, takes the order's        *)
(* payment lock in Redis and lets AutoReconciliationMatcher enter it in    *)
(* one transaction.  A transfer without an order is entered as PENDING,    *)
(* and a clerk gives it to an order (ManualMatchService) under the same    *)
(* lock.  TransferBook says what all of it promises.                       *)
(*                                                                         *)
(* What the transaction does to the order's status and to the stock is in  *)
(* OrderTx; here an order is its paidAmount.                               *)
(***************************************************************************)
EXTENDS Naturals

CONSTANTS Transfers,      \* the bank's transfers into the shop's account
          Orders,         \* orders of the workspace
          NoOrder,        \* the memo names no order, or none that exists
          OrderOf,        \* OrderOf[t]: the order that t's memo names
          Amount,         \* Amount[t]
          Workers,        \* concurrent jobs of the processor
          Clerks,         \* requests that match by hand
          Nobody,
          Attempts,       \* job.opts.attempts
          MaxStalls,      \* how often the queue gives a dead server's job out again
          MaxDeliveries,  \* bound: how often the bank reports a transfer
          MaxMishaps,     \* bound: faults in one behaviour
          Faults          \* what may go wrong, see FaultKinds

FaultKinds ==
  { "queue",      \* the queue cannot be reached from the webhook
    "failure",    \* a query of a worker or a clerk fails
    "crash",      \* a server dies under a job or a request
    "stall",      \* a live worker does not renew its job's lock
    "lapse" }     \* a transaction outlives the payment lock

Parties == Workers \cup Clerks

ASSUME QueueAssumption ==
  /\ Workers \cap Clerks = {}
  /\ Nobody \notin Parties \cup Transfers
  /\ NoOrder \notin Orders
  /\ {"open", "pending"} \cap Orders = {}
  /\ OrderOf \in [Transfers -> Orders \cup {NoOrder}]
  /\ Amount \in [Transfers -> Nat \ {0}]
  /\ Attempts \in Nat \ {0}
  /\ MaxStalls \in Nat /\ MaxDeliveries \in Nat /\ MaxMishaps \in Nat
  /\ Faults \subseteq FaultKinds

VARIABLES
  entry,     \* the PaymentTransaction of t: "open" (none), "pending", or its order
  paid,      \* paid[o]: Order.paidAmount
  lock,      \* lock[o]: who holds the order's payment lock
  job,       \* job[t]: "none", "waiting", "active" or "failed"
  owner,     \* owner[t]: the worker whose token the active job has
  failures,  \* failures[t]: attemptsMade
  stalls,    \* stalls[t]: how often the job was taken back
  at,        \* at[p]: where worker or clerk p is
  subject,   \* subject[p]: the transfer p works on, or Nobody
  target,    \* target[p]: the order p works on, or NoOrder
  seen,      \* seen[p]: the paidAmount p's transaction read
  failed,    \* failed[p]: p's attempt has thrown
  overrun,   \* history: the orders whose lock a transaction outlived
  told,      \* history: told[t], how often the bank reported t
  unqueued,  \* history: the transfers that a failed queue.add lost
  mishaps    \* how many faults there were

books == <<entry, paid>>
queue == <<job, owner, failures, stalls>>
party == <<at, subject, target, seen, failed>>
world == <<overrun, told, unqueued>>
vars == <<books, lock, queue, party, world, mishaps>>

Book == INSTANCE TransferBook
          WITH Transfers <- Transfers, Orders <- Orders, Amount <- Amount,
               entry <- entry, paid <- paid, overrun <- overrun

Mishap(kind) == kind \in Faults /\ mishaps < MaxMishaps /\ mishaps' = mishaps + 1

Goto(p, place) == at' = [at EXCEPT ![p] = place]

Leave(p) ==
  /\ Goto(p, "idle")
  /\ subject' = [subject EXCEPT ![p] = Nobody]
  /\ target' = [target EXCEPT ![p] = NoOrder]
  /\ seen' = [seen EXCEPT ![p] = 0]
  /\ failed' = [failed EXCEPT ![p] = FALSE]

\* p believes that it holds the lock of its order.
Holding == {"locked", "booking", "unlocking"}
Held(o) == \E p \in Parties : lock[o] = p /\ at[p] \in Holding /\ target[p] = o

Init ==
  /\ Book!Init
  /\ lock = [o \in Orders |-> Nobody]
  /\ job = [t \in Transfers |-> "none"]
  /\ owner = [t \in Transfers |-> Nobody]
  /\ failures = [t \in Transfers |-> 0]
  /\ stalls = [t \in Transfers |-> 0]
  /\ at = [p \in Parties |-> "idle"]
  /\ subject = [p \in Parties |-> Nobody]
  /\ target = [p \in Parties |-> NoOrder]
  /\ seen = [p \in Parties |-> 0]
  /\ failed = [p \in Parties |-> FALSE]
  /\ told = [t \in Transfers |-> 0]
  /\ unqueued = {}
  /\ mishaps = 0

-----------------------------------------------------------------------------
(* PaymentWebhooksController.handleWebhook *)

\* queue.add: an id the queue still knows, be it of a failed job, is not
\* added again; a completed job is forgotten (removeOnComplete).
Enqueue(t) ==
  IF job[t] = "none"
  THEN /\ job' = [job EXCEPT ![t] = "waiting"]
       /\ failures' = [failures EXCEPT ![t] = 0]
       /\ stalls' = [stalls EXCEPT ![t] = 0]
       /\ UNCHANGED owner
  ELSE UNCHANGED queue

Report(t) ==
  /\ told[t] < MaxDeliveries
  /\ told' = [told EXCEPT ![t] = @ + 1]
  /\ Enqueue(t)
  /\ UNCHANGED <<books, lock, party, overrun, unqueued, mishaps>>

\* The error of queue.add is swallowed; the bank reads 200.
ReportLost(t) ==
  /\ Mishap("queue")
  /\ told[t] < MaxDeliveries
  /\ told' = [told EXCEPT ![t] = @ + 1]
  /\ unqueued' = unqueued \cup {t}
  /\ UNCHANGED <<books, lock, queue, party, overrun>>

-----------------------------------------------------------------------------
(* CommerceReconciliationProcessor.process *)

\* The queue gives the job to w, which parses the memo and finds the order.
Take(w, t) ==
  /\ at[w] = "idle"
  /\ job[t] = "waiting"
  /\ job' = [job EXCEPT ![t] = "active"]
  /\ owner' = [owner EXCEPT ![t] = w]
  /\ subject' = [subject EXCEPT ![w] = t]
  /\ target' = [target EXCEPT ![w] = OrderOf[t]]
  /\ Goto(w, IF OrderOf[t] = NoOrder THEN "holding" ELSE "begun")
  /\ UNCHANGED <<books, lock, failures, stalls, seen, failed, world, mishaps>>

\* recordPendingUnmatchedTransaction: a row that exists, before the insert or
\* at its unique index, makes it a DUPLICATE.
Hold(w) ==
  /\ at[w] = "holding"
  /\ entry' = IF entry[subject[w]] = "open" THEN [entry EXCEPT ![subject[w]] = "pending"] ELSE entry
  /\ Goto(w, "ending")
  /\ UNCHANGED <<paid, lock, queue, subject, target, seen, failed, world, mishaps>>

\* SET NX
Free(o) == lock[o] = Nobody

\* A slip: a worker that finds the lock busy returns.
BusyReturns(p) == UNCHANGED failed
\* The worker throws, which costs the job an attempt; the clerk reads an error.
Busy(p) == failed' = [failed EXCEPT ![p] = TRUE]

AcquireLock(p) ==
  /\ at[p] = "begun"
  /\ IF Free(target[p])
     THEN /\ lock' = [lock EXCEPT ![target[p]] = p]
          /\ Goto(p, "locked")
          /\ UNCHANGED failed
     ELSE Busy(p) /\ Goto(p, "ending") /\ UNCHANGED lock
  /\ UNCHANGED <<books, queue, subject, target, seen, world, mishaps>>

\* The transaction's reads: the worker looks for the transfer's row, the
\* clerk does not look again.
ReadOrder(p) ==
  /\ at[p] = "locked"
  /\ IF p \in Workers /\ entry[subject[p]] # "open"
     THEN Goto(p, "unlocking") /\ UNCHANGED seen
     ELSE Goto(p, "booking") /\ seen' = [seen EXCEPT ![p] = paid[target[p]]]
  /\ UNCHANGED <<books, lock, queue, subject, target, failed, world, mishaps>>

\* A slip: the unique index is not there.
FreshAlways(p) == TRUE
\* The insert meets the unique index; a clerk updates the row whatever it is.
Fresh(p) == p \in Clerks \/ entry[subject[p]] = "open"

\* The transaction's writes and its commit, or, at the index, its rollback.
Commit(p) ==
  /\ at[p] = "booking"
  /\ IF Fresh(p)
     THEN /\ entry' = [entry EXCEPT ![subject[p]] = target[p]]
          /\ paid' = [paid EXCEPT ![target[p]] = seen[p] + Amount[subject[p]]]
     ELSE UNCHANGED books
  /\ Goto(p, "unlocking")
  /\ seen' = [seen EXCEPT ![p] = 0]
  /\ UNCHANGED <<lock, queue, subject, target, failed, world, mishaps>>

Fail(p) ==
  /\ Mishap("failure")
  /\ at[p] \in {"holding", "begun", "locked", "booking"}
  /\ Goto(p, IF at[p] \in Holding THEN "unlocking" ELSE "ending")
  /\ failed' = [failed EXCEPT ![p] = TRUE]
  /\ seen' = [seen EXCEPT ![p] = 0]
  /\ UNCHANGED <<books, lock, queue, subject, target, world>>

\* releaseLock in finally: the key is deleted if it still holds p's token.
Release(p) ==
  /\ at[p] = "unlocking"
  /\ lock' = IF lock[target[p]] = p THEN [lock EXCEPT ![target[p]] = Nobody] ELSE lock
  /\ Goto(p, "ending")
  /\ UNCHANGED <<books, queue, subject, target, seen, failed, world, mishaps>>

\* A slip: the last failure retries as well.
RetriesForever(t) == "waiting"
\* A slip: a failed job is removed like a completed one (removeOnFail).
Forgotten(t) == IF failures[t] + 1 < Attempts THEN "waiting" ELSE "none"
AfterFailure(t) == IF failures[t] + 1 < Attempts THEN "waiting" ELSE "failed"

\* The queue moves the job, unless it has given it to somebody else; a clerk
\* has none.
End(p) ==
  /\ at[p] = "ending"
  /\ LET t == subject[p] IN
     IF owner[t] # p THEN UNCHANGED queue
     ELSE /\ owner' = [owner EXCEPT ![t] = Nobody]
          /\ IF failed[p]
             THEN /\ job' = [job EXCEPT ![t] = AfterFailure(t)]
                  /\ failures' = [failures EXCEPT ![t] = @ + 1]
             ELSE job' = [job EXCEPT ![t] = "none"] /\ failures' = [failures EXCEPT ![t] = 0]
          /\ UNCHANGED stalls
  /\ Leave(p)
  /\ UNCHANGED <<books, lock, world, mishaps>>

-----------------------------------------------------------------------------
(* ManualMatchService.manualMatchTransaction *)

Choose(c, t, o) ==
  /\ at[c] = "idle"
  /\ entry[t] = "pending"
  /\ subject' = [subject EXCEPT ![c] = t]
  /\ target' = [target EXCEPT ![c] = o]
  /\ Goto(c, "begun")
  /\ UNCHANGED <<books, lock, queue, seen, failed, world, mishaps>>

-----------------------------------------------------------------------------
(* Servers and keys *)

\* The lock stays behind, and the job stays active.
Crash(p) ==
  /\ Mishap("crash")
  /\ at[p] # "idle"
  /\ Leave(p)
  /\ UNCHANGED <<books, lock, queue, world>>

\* Somebody runs t's job with the token the queue knows.
Working(t) == \E w \in Workers : owner[t] = w /\ subject[w] = t

\* The stalled checker: of a dead worker, or of a live one that goes on.
TakeBack(t) ==
  /\ job[t] = "active"
  /\ job' = [job EXCEPT ![t] = IF stalls[t] < MaxStalls THEN "waiting" ELSE "failed"]
  /\ stalls' = [stalls EXCEPT ![t] = @ + 1]
  /\ owner' = [owner EXCEPT ![t] = Nobody]
  /\ UNCHANGED <<books, lock, failures, party, world>>
StallDead(t) == ~ Working(t) /\ TakeBack(t) /\ UNCHANGED mishaps
StallLive(t) == Mishap("stall") /\ Working(t) /\ TakeBack(t)

\* The lock's TTL ends: that of a dead holder, or of one whose transaction goes on.
Expire(o) ==
  /\ lock[o] # Nobody
  /\ lock' = [lock EXCEPT ![o] = Nobody]
  /\ UNCHANGED <<books, queue, party, told, unqueued>>
ExpireDead(o) == ~ Held(o) /\ Expire(o) /\ UNCHANGED <<overrun, mishaps>>
Lapse(o) == Mishap("lapse") /\ Held(o) /\ Expire(o) /\ overrun' = overrun \cup {o}

-----------------------------------------------------------------------------
Bank == \E t \in Transfers : Report(t) \/ ReportLost(t)

Step(p) == AcquireLock(p) \/ ReadOrder(p) \/ Commit(p) \/ Release(p) \/ End(p)

System ==
  \/ \E w \in Workers : Hold(w) \/ \E t \in Transfers : Take(w, t)
  \/ \E p \in Parties : Step(p)
  \/ \E t \in Transfers : StallDead(t)
  \/ \E o \in Orders : ExpireDead(o)

Fault ==
  \/ \E p \in Parties : Fail(p) \/ Crash(p)
  \/ \E t \in Transfers : StallLive(t)
  \/ \E o \in Orders : Lapse(o)

Next ==
  \/ Bank
  \/ System
  \/ Fault
  \/ \E c \in Clerks, t \in Transfers, o \in Orders : Choose(c, t, o)

Spec == Init /\ [][Next]_vars

\* The servers run, the queue gives out jobs and looks for stalled ones, and
\* Redis lets keys end.
Fairness ==
  /\ \A p \in Parties : WF_vars(Step(p))
  /\ \A w \in Workers : WF_vars(Hold(w))
  /\ \A t \in Transfers : WF_vars(\E w \in Workers : Take(w, t)) /\ WF_vars(StallDead(t))
  /\ \A o \in Orders : WF_vars(ExpireDead(o))

FairSpec == Spec /\ Fairness

-----------------------------------------------------------------------------
(* Properties *)

TypeOK ==
  /\ entry \in [Transfers -> Orders \cup {"open", "pending"}]
  /\ paid \in [Orders -> Nat]
  /\ lock \in [Orders -> Parties \cup {Nobody}]
  /\ job \in [Transfers -> {"none", "waiting", "active", "failed"}]
  /\ owner \in [Transfers -> Workers \cup {Nobody}]
  /\ failures \in [Transfers -> 0 .. Attempts]
  /\ stalls \in [Transfers -> 0 .. MaxStalls + 1]
  /\ at \in [Parties -> {"idle", "holding", "begun", "ending"} \cup Holding]
  /\ subject \in [Parties -> Transfers \cup {Nobody}]
  /\ target \in [Parties -> Orders \cup {NoOrder}]
  /\ seen \in [Parties -> Nat]
  /\ failed \in [Parties -> BOOLEAN]
  /\ told \in [Transfers -> 0 .. MaxDeliveries]
  /\ overrun \subseteq Orders
  /\ unqueued \subseteq Transfers
  /\ mishaps \in 0 .. MaxMishaps

(***************************************************************************)
(* A transfer the bank reported does not vanish: it is entered, or the     *)
(* queue has its job, or its job is among the failed ones, or the queue    *)
(* could not be reached when it was reported.                              *)
(***************************************************************************)
NothingVanishes ==
  \A t \in Transfers :
    told[t] > 0 => entry[t] # "open" \/ job[t] # "none" \/ t \in unqueued

(***************************************************************************)
(* Reconciliation keeps what TransferBook promises, however often a        *)
(* transfer is reported and its job is run, for one clerk at a time.       *)
(***************************************************************************)
KeepsTheBook == Book!Spec

(***************************************************************************)
(* Every transfer the bank reported ends up entered, or among the failed   *)
(* jobs, or was lost on the way to the queue.                              *)
(***************************************************************************)
Settles ==
  \A t \in Transfers :
    told[t] > 0 ~> entry[t] # "open" \/ job[t] = "failed" \/ t \in unqueued

=============================================================================
