-------------------------- MODULE PaymentQueueProofs --------------------------
(***************************************************************************)
(* PaymentQueue for every number of transfers, orders, workers, attempts,  *)
(* repeated reports and faults: no transfer vanishes, and, with one clerk, *)
(* reconciliation implements TransferBook.                                 *)
(***************************************************************************)
EXTENDS PaymentQueue, TLAPS

-----------------------------------------------------------------------------
(* The inductive invariant. *)

\* Whoever is busy works on a transfer, and holds or wants the lock of an order.
BusyOn ==
  \A p \in Parties :
    /\ at[p] # "idle" => subject[p] \in Transfers
    /\ at[p] = "begun" \/ at[p] \in Holding => target[p] \in Orders
    /\ at[p] = "holding" => p \in Workers

\* A job somebody holds is active; one that can still run has an attempt and a
\* stall left.
JobsCounted ==
  \A t \in Transfers :
    /\ owner[t] # Nobody => job[t] = "active"
    /\ job[t] \in {"waiting", "active"} => failures[t] < Attempts /\ stalls[t] <= MaxStalls

\* Whoever believes to hold the payment lock holds it, unless it lapsed.
HolderHasLock ==
  \A p \in Parties :
    at[p] \in Holding /\ target[p] \notin overrun => lock[target[p]] = p

\* The paidAmount a transaction read is still the order's.
SeenIsPaid ==
  \A p \in Parties :
    at[p] = "booking" /\ target[p] \notin overrun => seen[p] = paid[target[p]]

\* A worker that is done without an error has entered its transfer, or found it
\* entered.
DoneIsEntered ==
  \A w \in Workers :
    at[w] \in {"unlocking", "ending"} /\ ~failed[w] => entry[subject[w]] # "open"

IInv ==
  /\ TypeOK /\ BusyOn /\ JobsCounted /\ HolderHasLock /\ SeenIsPaid /\ DoneIsEntered
  /\ NothingVanishes

\* The transfer a clerk works on is unmatched until the clerk commits.
ClerkIsPending ==
  \A c \in Clerks :
    at[c] \in {"begun", "locked", "booking"} => entry[subject[c]] = "pending"

USE QueueAssumption DEF Parties, Holding

-----------------------------------------------------------------------------
(* One lemma for each part, one case for each action. *)

\* The types.
LEMMA TypeStep ==
  ASSUME TypeOK, BusyOn, JobsCounted, [Next]_vars
  PROVE  TypeOK'
<1>1. ASSUME NEW t \in Transfers, Report(t) PROVE TypeOK'
  BY <1>1 DEF TypeOK, BusyOn, JobsCounted, Report, Enqueue, books, queue, party
<1>2. ASSUME NEW t \in Transfers, ReportLost(t) PROVE TypeOK'
  BY <1>2 DEF TypeOK, BusyOn, JobsCounted, ReportLost, Mishap, books, queue, party
<1>3. ASSUME NEW w \in Workers, NEW t \in Transfers, Take(w, t) PROVE TypeOK'
  BY <1>3 DEF TypeOK, BusyOn, JobsCounted, Take, Goto, books, world
<1>4. ASSUME NEW w \in Workers, Hold(w) PROVE TypeOK'
  BY <1>4 DEF TypeOK, BusyOn, JobsCounted, Hold, Goto, queue, world
<1>5. ASSUME NEW p \in Parties, AcquireLock(p) PROVE TypeOK'
  <2>1. target[p] \in Orders
    BY <1>5 DEF BusyOn, AcquireLock
  <2>2. CASE Free(target[p])
    BY <1>5, <2>1, <2>2 DEF TypeOK, AcquireLock, Goto, books, queue, world
  <2>3. CASE ~Free(target[p])
    BY <1>5, <2>1, <2>3 DEF TypeOK, AcquireLock, Busy, Goto, books, queue, world
  <2>. QED
    BY <2>2, <2>3
<1>6. ASSUME NEW p \in Parties, ReadOrder(p) PROVE TypeOK'
  BY <1>6 DEF TypeOK, BusyOn, JobsCounted, ReadOrder, Goto, books, queue, world
<1>7. ASSUME NEW p \in Parties, Commit(p) PROVE TypeOK'
  BY <1>7 DEF TypeOK, BusyOn, JobsCounted, Commit, Fresh, Goto, books, queue, world
<1>8. ASSUME NEW p \in Parties, Release(p) PROVE TypeOK'
  BY <1>8 DEF TypeOK, BusyOn, JobsCounted, Release, Goto, books, queue, world
<1>9. ASSUME NEW p \in Parties, End(p) PROVE TypeOK'
  BY <1>9 DEF TypeOK, BusyOn, JobsCounted, End, AfterFailure, Leave, Goto, books, queue, world
<1>10. ASSUME NEW c \in Clerks, NEW t \in Transfers, NEW o \in Orders, Choose(c, t, o) PROVE TypeOK'
  BY <1>10 DEF TypeOK, BusyOn, JobsCounted, Choose, Goto, books, queue, world
<1>11. ASSUME NEW p \in Parties, Fail(p) PROVE TypeOK'
  BY <1>11 DEF TypeOK, BusyOn, JobsCounted, Fail, Mishap, Goto, books, queue, world
<1>12. ASSUME NEW p \in Parties, Crash(p) PROVE TypeOK'
  BY <1>12 DEF TypeOK, BusyOn, JobsCounted, Crash, Mishap, Leave, Goto, books, queue, world
<1>13. ASSUME NEW t \in Transfers, StallDead(t) PROVE TypeOK'
  BY <1>13 DEF TypeOK, BusyOn, JobsCounted, StallDead, TakeBack, books, party, world
<1>14. ASSUME NEW t \in Transfers, StallLive(t) PROVE TypeOK'
  BY <1>14 DEF TypeOK, BusyOn, JobsCounted, StallLive, Mishap, TakeBack, books, party, world
<1>15. ASSUME NEW o \in Orders, ExpireDead(o) PROVE TypeOK'
  BY <1>15 DEF TypeOK, BusyOn, JobsCounted, ExpireDead, Held, Expire, books, queue, party
<1>16. ASSUME NEW o \in Orders, Lapse(o) PROVE TypeOK'
  BY <1>16 DEF TypeOK, BusyOn, JobsCounted, Lapse, Mishap, Held, Expire, books, queue, party
<1>17. CASE UNCHANGED vars
  BY <1>17 DEF TypeOK, BusyOn, JobsCounted, vars, books, queue, party, world
<1>. QED
  BY <1>1, <1>2, <1>3, <1>4, <1>5, <1>6, <1>7, <1>8, <1>9, <1>10, <1>11, <1>12, <1>13, <1>14,
     <1>15, <1>16, <1>17 DEF Next, Bank, System, Fault, Step

\* A party takes its transfer and its order at once.
LEMMA BusyOnStep ==
  ASSUME TypeOK, BusyOn, [Next]_vars
  PROVE  BusyOn'
<1>1. ASSUME NEW t \in Transfers, Report(t) PROVE BusyOn'
  BY <1>1 DEF TypeOK, BusyOn, Report, Enqueue, books, queue, party
<1>2. ASSUME NEW t \in Transfers, ReportLost(t) PROVE BusyOn'
  BY <1>2 DEF TypeOK, BusyOn, ReportLost, Mishap, books, queue, party
<1>3. ASSUME NEW w \in Workers, NEW t \in Transfers, Take(w, t) PROVE BusyOn'
  BY <1>3 DEF TypeOK, BusyOn, Take, Goto, books, world
<1>4. ASSUME NEW w \in Workers, Hold(w) PROVE BusyOn'
  BY <1>4 DEF TypeOK, BusyOn, Hold, Goto, queue, world
<1>5. ASSUME NEW p \in Parties, AcquireLock(p) PROVE BusyOn'
  BY <1>5 DEF TypeOK, BusyOn, AcquireLock, Free, Busy, Goto, books, queue, world
<1>6. ASSUME NEW p \in Parties, ReadOrder(p) PROVE BusyOn'
  BY <1>6 DEF TypeOK, BusyOn, ReadOrder, Goto, books, queue, world
<1>7. ASSUME NEW p \in Parties, Commit(p) PROVE BusyOn'
  BY <1>7 DEF TypeOK, BusyOn, Commit, Fresh, Goto, books, queue, world
<1>8. ASSUME NEW p \in Parties, Release(p) PROVE BusyOn'
  BY <1>8 DEF TypeOK, BusyOn, Release, Goto, books, queue, world
<1>9. ASSUME NEW p \in Parties, End(p) PROVE BusyOn'
  BY <1>9 DEF TypeOK, BusyOn, End, AfterFailure, Leave, Goto, books, queue, world
<1>10. ASSUME NEW c \in Clerks, NEW t \in Transfers, NEW o \in Orders, Choose(c, t, o) PROVE BusyOn'
  BY <1>10 DEF TypeOK, BusyOn, Choose, Goto, books, queue, world
<1>11. ASSUME NEW p \in Parties, Fail(p) PROVE BusyOn'
  BY <1>11 DEF TypeOK, BusyOn, Fail, Mishap, Goto, books, queue, world
<1>12. ASSUME NEW p \in Parties, Crash(p) PROVE BusyOn'
  BY <1>12 DEF TypeOK, BusyOn, Crash, Mishap, Leave, Goto, books, queue, world
<1>13. ASSUME NEW t \in Transfers, StallDead(t) PROVE BusyOn'
  BY <1>13 DEF TypeOK, BusyOn, StallDead, TakeBack, books, party, world
<1>14. ASSUME NEW t \in Transfers, StallLive(t) PROVE BusyOn'
  BY <1>14 DEF TypeOK, BusyOn, StallLive, Mishap, TakeBack, books, party, world
<1>15. ASSUME NEW o \in Orders, ExpireDead(o) PROVE BusyOn'
  BY <1>15 DEF TypeOK, BusyOn, ExpireDead, Held, Expire, books, queue, party
<1>16. ASSUME NEW o \in Orders, Lapse(o) PROVE BusyOn'
  BY <1>16 DEF TypeOK, BusyOn, Lapse, Mishap, Held, Expire, books, queue, party
<1>17. CASE UNCHANGED vars
  BY <1>17 DEF TypeOK, BusyOn, vars, books, queue, party, world
<1>. QED
  BY <1>1, <1>2, <1>3, <1>4, <1>5, <1>6, <1>7, <1>8, <1>9, <1>10, <1>11, <1>12, <1>13, <1>14,
     <1>15, <1>16, <1>17 DEF Next, Bank, System, Fault, Step

\* A failure or a stall that was the last ends the job.
LEMMA JobsCountedStep ==
  ASSUME TypeOK, BusyOn, JobsCounted, [Next]_vars
  PROVE  JobsCounted'
<1>1. ASSUME NEW t \in Transfers, Report(t) PROVE JobsCounted'
  BY <1>1 DEF TypeOK, BusyOn, JobsCounted, Report, Enqueue, books, queue, party
<1>2. ASSUME NEW t \in Transfers, ReportLost(t) PROVE JobsCounted'
  BY <1>2 DEF TypeOK, BusyOn, JobsCounted, ReportLost, Mishap, books, queue, party
<1>3. ASSUME NEW w \in Workers, NEW t \in Transfers, Take(w, t) PROVE JobsCounted'
  BY <1>3 DEF TypeOK, BusyOn, JobsCounted, Take, Goto, books, world
<1>4. ASSUME NEW w \in Workers, Hold(w) PROVE JobsCounted'
  BY <1>4 DEF TypeOK, BusyOn, JobsCounted, Hold, Goto, queue, world
<1>5. ASSUME NEW p \in Parties, AcquireLock(p) PROVE JobsCounted'
  BY <1>5 DEF TypeOK, BusyOn, JobsCounted, AcquireLock, Free, Busy, Goto, books, queue, world
<1>6. ASSUME NEW p \in Parties, ReadOrder(p) PROVE JobsCounted'
  BY <1>6 DEF TypeOK, BusyOn, JobsCounted, ReadOrder, Goto, books, queue, world
<1>7. ASSUME NEW p \in Parties, Commit(p) PROVE JobsCounted'
  BY <1>7 DEF TypeOK, BusyOn, JobsCounted, Commit, Fresh, Goto, books, queue, world
<1>8. ASSUME NEW p \in Parties, Release(p) PROVE JobsCounted'
  BY <1>8 DEF TypeOK, BusyOn, JobsCounted, Release, Goto, books, queue, world
<1>9. ASSUME NEW p \in Parties, End(p) PROVE JobsCounted'
  BY <1>9 DEF TypeOK, BusyOn, JobsCounted, End, AfterFailure, Leave, Goto, books, queue, world
<1>10. ASSUME NEW c \in Clerks, NEW t \in Transfers, NEW o \in Orders, Choose(c, t, o) PROVE JobsCounted'
  BY <1>10 DEF TypeOK, BusyOn, JobsCounted, Choose, Goto, books, queue, world
<1>11. ASSUME NEW p \in Parties, Fail(p) PROVE JobsCounted'
  BY <1>11 DEF TypeOK, BusyOn, JobsCounted, Fail, Mishap, Goto, books, queue, world
<1>12. ASSUME NEW p \in Parties, Crash(p) PROVE JobsCounted'
  BY <1>12 DEF TypeOK, BusyOn, JobsCounted, Crash, Mishap, Leave, Goto, books, queue, world
<1>13. ASSUME NEW t \in Transfers, StallDead(t) PROVE JobsCounted'
  BY <1>13 DEF TypeOK, BusyOn, JobsCounted, StallDead, TakeBack, books, party, world
<1>14. ASSUME NEW t \in Transfers, StallLive(t) PROVE JobsCounted'
  BY <1>14 DEF TypeOK, BusyOn, JobsCounted, StallLive, Mishap, TakeBack, books, party, world
<1>15. ASSUME NEW o \in Orders, ExpireDead(o) PROVE JobsCounted'
  BY <1>15 DEF TypeOK, BusyOn, JobsCounted, ExpireDead, Held, Expire, books, queue, party
<1>16. ASSUME NEW o \in Orders, Lapse(o) PROVE JobsCounted'
  BY <1>16 DEF TypeOK, BusyOn, JobsCounted, Lapse, Mishap, Held, Expire, books, queue, party
<1>17. CASE UNCHANGED vars
  BY <1>17 DEF TypeOK, BusyOn, JobsCounted, vars, books, queue, party, world
<1>. QED
  BY <1>1, <1>2, <1>3, <1>4, <1>5, <1>6, <1>7, <1>8, <1>9, <1>10, <1>11, <1>12, <1>13, <1>14,
     <1>15, <1>16, <1>17 DEF Next, Bank, System, Fault, Step

\* Only the holder releases, and what lapses is noted.
LEMMA HolderHasLockStep ==
  ASSUME TypeOK, BusyOn, HolderHasLock, [Next]_vars
  PROVE  HolderHasLock'
<1>1. ASSUME NEW t \in Transfers, Report(t) PROVE HolderHasLock'
  BY <1>1 DEF TypeOK, BusyOn, HolderHasLock, Report, Enqueue, books, queue, party
<1>2. ASSUME NEW t \in Transfers, ReportLost(t) PROVE HolderHasLock'
  BY <1>2 DEF TypeOK, BusyOn, HolderHasLock, ReportLost, Mishap, books, queue, party
<1>3. ASSUME NEW w \in Workers, NEW t \in Transfers, Take(w, t) PROVE HolderHasLock'
  BY <1>3 DEF TypeOK, BusyOn, HolderHasLock, Take, Goto, books, world
<1>4. ASSUME NEW w \in Workers, Hold(w) PROVE HolderHasLock'
  BY <1>4 DEF TypeOK, BusyOn, HolderHasLock, Hold, Goto, queue, world
<1>5. ASSUME NEW p \in Parties, AcquireLock(p) PROVE HolderHasLock'
  BY <1>5 DEF TypeOK, BusyOn, HolderHasLock, AcquireLock, Free, Busy, Goto, books, queue, world
<1>6. ASSUME NEW p \in Parties, ReadOrder(p) PROVE HolderHasLock'
  BY <1>6 DEF TypeOK, BusyOn, HolderHasLock, ReadOrder, Goto, books, queue, world
<1>7. ASSUME NEW p \in Parties, Commit(p) PROVE HolderHasLock'
  BY <1>7 DEF TypeOK, BusyOn, HolderHasLock, Commit, Fresh, Goto, books, queue, world
<1>8. ASSUME NEW p \in Parties, Release(p) PROVE HolderHasLock'
  BY <1>8 DEF TypeOK, BusyOn, HolderHasLock, Release, Goto, books, queue, world
<1>9. ASSUME NEW p \in Parties, End(p) PROVE HolderHasLock'
  BY <1>9 DEF TypeOK, BusyOn, HolderHasLock, End, AfterFailure, Leave, Goto, books, queue, world
<1>10. ASSUME NEW c \in Clerks, NEW t \in Transfers, NEW o \in Orders, Choose(c, t, o) PROVE HolderHasLock'
  BY <1>10 DEF TypeOK, BusyOn, HolderHasLock, Choose, Goto, books, queue, world
<1>11. ASSUME NEW p \in Parties, Fail(p) PROVE HolderHasLock'
  BY <1>11 DEF TypeOK, BusyOn, HolderHasLock, Fail, Mishap, Goto, books, queue, world
<1>12. ASSUME NEW p \in Parties, Crash(p) PROVE HolderHasLock'
  BY <1>12 DEF TypeOK, BusyOn, HolderHasLock, Crash, Mishap, Leave, Goto, books, queue, world
<1>13. ASSUME NEW t \in Transfers, StallDead(t) PROVE HolderHasLock'
  BY <1>13 DEF TypeOK, BusyOn, HolderHasLock, StallDead, TakeBack, books, party, world
<1>14. ASSUME NEW t \in Transfers, StallLive(t) PROVE HolderHasLock'
  BY <1>14 DEF TypeOK, BusyOn, HolderHasLock, StallLive, Mishap, TakeBack, books, party, world
<1>15. ASSUME NEW o \in Orders, ExpireDead(o) PROVE HolderHasLock'
  BY <1>15 DEF TypeOK, BusyOn, HolderHasLock, ExpireDead, Held, Expire, books, queue, party
<1>16. ASSUME NEW o \in Orders, Lapse(o) PROVE HolderHasLock'
  BY <1>16 DEF TypeOK, BusyOn, HolderHasLock, Lapse, Mishap, Held, Expire, books, queue, party
<1>17. CASE UNCHANGED vars
  BY <1>17 DEF TypeOK, BusyOn, HolderHasLock, vars, books, queue, party, world
<1>. QED
  BY <1>1, <1>2, <1>3, <1>4, <1>5, <1>6, <1>7, <1>8, <1>9, <1>10, <1>11, <1>12, <1>13, <1>14,
     <1>15, <1>16, <1>17 DEF Next, Bank, System, Fault, Step

\* Nobody else books on the order.
LEMMA SeenIsPaidStep ==
  ASSUME TypeOK, BusyOn, HolderHasLock, SeenIsPaid, [Next]_vars
  PROVE  SeenIsPaid'
<1>1. ASSUME NEW t \in Transfers, Report(t) PROVE SeenIsPaid'
  BY <1>1 DEF TypeOK, BusyOn, HolderHasLock, SeenIsPaid, Report, Enqueue, books, queue, party
<1>2. ASSUME NEW t \in Transfers, ReportLost(t) PROVE SeenIsPaid'
  BY <1>2 DEF TypeOK, BusyOn, HolderHasLock, SeenIsPaid, ReportLost, Mishap, books, queue, party
<1>3. ASSUME NEW w \in Workers, NEW t \in Transfers, Take(w, t) PROVE SeenIsPaid'
  BY <1>3 DEF TypeOK, BusyOn, HolderHasLock, SeenIsPaid, Take, Goto, books, world
<1>4. ASSUME NEW w \in Workers, Hold(w) PROVE SeenIsPaid'
  BY <1>4 DEF TypeOK, BusyOn, HolderHasLock, SeenIsPaid, Hold, Goto, queue, world
<1>5. ASSUME NEW p \in Parties, AcquireLock(p) PROVE SeenIsPaid'
  BY <1>5 DEF TypeOK, BusyOn, HolderHasLock, SeenIsPaid, AcquireLock, Free, Busy, Goto, books, queue, world
<1>6. ASSUME NEW p \in Parties, ReadOrder(p) PROVE SeenIsPaid'
  BY <1>6 DEF TypeOK, BusyOn, HolderHasLock, SeenIsPaid, ReadOrder, Goto, books, queue, world
<1>7. ASSUME NEW p \in Parties, Commit(p) PROVE SeenIsPaid'
  BY <1>7 DEF TypeOK, BusyOn, HolderHasLock, SeenIsPaid, Commit, Fresh, Goto, books, queue, world
<1>8. ASSUME NEW p \in Parties, Release(p) PROVE SeenIsPaid'
  BY <1>8 DEF TypeOK, BusyOn, HolderHasLock, SeenIsPaid, Release, Goto, books, queue, world
<1>9. ASSUME NEW p \in Parties, End(p) PROVE SeenIsPaid'
  BY <1>9 DEF TypeOK, BusyOn, HolderHasLock, SeenIsPaid, End, AfterFailure, Leave, Goto, books, queue, world
<1>10. ASSUME NEW c \in Clerks, NEW t \in Transfers, NEW o \in Orders, Choose(c, t, o) PROVE SeenIsPaid'
  BY <1>10 DEF TypeOK, BusyOn, HolderHasLock, SeenIsPaid, Choose, Goto, books, queue, world
<1>11. ASSUME NEW p \in Parties, Fail(p) PROVE SeenIsPaid'
  BY <1>11 DEF TypeOK, BusyOn, HolderHasLock, SeenIsPaid, Fail, Mishap, Goto, books, queue, world
<1>12. ASSUME NEW p \in Parties, Crash(p) PROVE SeenIsPaid'
  BY <1>12 DEF TypeOK, BusyOn, HolderHasLock, SeenIsPaid, Crash, Mishap, Leave, Goto, books, queue, world
<1>13. ASSUME NEW t \in Transfers, StallDead(t) PROVE SeenIsPaid'
  BY <1>13 DEF TypeOK, BusyOn, HolderHasLock, SeenIsPaid, StallDead, TakeBack, books, party, world
<1>14. ASSUME NEW t \in Transfers, StallLive(t) PROVE SeenIsPaid'
  BY <1>14 DEF TypeOK, BusyOn, HolderHasLock, SeenIsPaid, StallLive, Mishap, TakeBack, books, party, world
<1>15. ASSUME NEW o \in Orders, ExpireDead(o) PROVE SeenIsPaid'
  BY <1>15 DEF TypeOK, BusyOn, HolderHasLock, SeenIsPaid, ExpireDead, Held, Expire, books, queue, party
<1>16. ASSUME NEW o \in Orders, Lapse(o) PROVE SeenIsPaid'
  BY <1>16 DEF TypeOK, BusyOn, HolderHasLock, SeenIsPaid, Lapse, Mishap, Held, Expire, books, queue, party
<1>17. CASE UNCHANGED vars
  BY <1>17 DEF TypeOK, BusyOn, HolderHasLock, SeenIsPaid, vars, books, queue, party, world
<1>. QED
  BY <1>1, <1>2, <1>3, <1>4, <1>5, <1>6, <1>7, <1>8, <1>9, <1>10, <1>11, <1>12, <1>13, <1>14,
     <1>15, <1>16, <1>17 DEF Next, Bank, System, Fault, Step

\* An entry is never taken back.
LEMMA DoneIsEnteredStep ==
  ASSUME TypeOK, BusyOn, DoneIsEntered, [Next]_vars
  PROVE  DoneIsEntered'
<1>1. ASSUME NEW t \in Transfers, Report(t) PROVE DoneIsEntered'
  BY <1>1 DEF TypeOK, BusyOn, DoneIsEntered, Report, Enqueue, books, queue, party
<1>2. ASSUME NEW t \in Transfers, ReportLost(t) PROVE DoneIsEntered'
  BY <1>2 DEF TypeOK, BusyOn, DoneIsEntered, ReportLost, Mishap, books, queue, party
<1>3. ASSUME NEW w \in Workers, NEW t \in Transfers, Take(w, t) PROVE DoneIsEntered'
  BY <1>3 DEF TypeOK, BusyOn, DoneIsEntered, Take, Goto, books, world
<1>4. ASSUME NEW w \in Workers, Hold(w) PROVE DoneIsEntered'
  BY <1>4 DEF TypeOK, BusyOn, DoneIsEntered, Hold, Goto, queue, world
<1>5. ASSUME NEW p \in Parties, AcquireLock(p) PROVE DoneIsEntered'
  BY <1>5 DEF TypeOK, BusyOn, DoneIsEntered, AcquireLock, Free, Busy, Goto, books, queue, world
<1>6. ASSUME NEW p \in Parties, ReadOrder(p) PROVE DoneIsEntered'
  BY <1>6 DEF TypeOK, BusyOn, DoneIsEntered, ReadOrder, Goto, books, queue, world
<1>7. ASSUME NEW p \in Parties, Commit(p) PROVE DoneIsEntered'
  BY <1>7 DEF TypeOK, BusyOn, DoneIsEntered, Commit, Fresh, Goto, books, queue, world
<1>8. ASSUME NEW p \in Parties, Release(p) PROVE DoneIsEntered'
  BY <1>8 DEF TypeOK, BusyOn, DoneIsEntered, Release, Goto, books, queue, world
<1>9. ASSUME NEW p \in Parties, End(p) PROVE DoneIsEntered'
  BY <1>9 DEF TypeOK, BusyOn, DoneIsEntered, End, AfterFailure, Leave, Goto, books, queue, world
<1>10. ASSUME NEW c \in Clerks, NEW t \in Transfers, NEW o \in Orders, Choose(c, t, o) PROVE DoneIsEntered'
  BY <1>10 DEF TypeOK, BusyOn, DoneIsEntered, Choose, Goto, books, queue, world
<1>11. ASSUME NEW p \in Parties, Fail(p) PROVE DoneIsEntered'
  BY <1>11 DEF TypeOK, BusyOn, DoneIsEntered, Fail, Mishap, Goto, books, queue, world
<1>12. ASSUME NEW p \in Parties, Crash(p) PROVE DoneIsEntered'
  BY <1>12 DEF TypeOK, BusyOn, DoneIsEntered, Crash, Mishap, Leave, Goto, books, queue, world
<1>13. ASSUME NEW t \in Transfers, StallDead(t) PROVE DoneIsEntered'
  BY <1>13 DEF TypeOK, BusyOn, DoneIsEntered, StallDead, TakeBack, books, party, world
<1>14. ASSUME NEW t \in Transfers, StallLive(t) PROVE DoneIsEntered'
  BY <1>14 DEF TypeOK, BusyOn, DoneIsEntered, StallLive, Mishap, TakeBack, books, party, world
<1>15. ASSUME NEW o \in Orders, ExpireDead(o) PROVE DoneIsEntered'
  BY <1>15 DEF TypeOK, BusyOn, DoneIsEntered, ExpireDead, Held, Expire, books, queue, party
<1>16. ASSUME NEW o \in Orders, Lapse(o) PROVE DoneIsEntered'
  BY <1>16 DEF TypeOK, BusyOn, DoneIsEntered, Lapse, Mishap, Held, Expire, books, queue, party
<1>17. CASE UNCHANGED vars
  BY <1>17 DEF TypeOK, BusyOn, DoneIsEntered, vars, books, queue, party, world
<1>. QED
  BY <1>1, <1>2, <1>3, <1>4, <1>5, <1>6, <1>7, <1>8, <1>9, <1>10, <1>11, <1>12, <1>13, <1>14,
     <1>15, <1>16, <1>17 DEF Next, Bank, System, Fault, Step

\* A job disappears only when its transfer is entered.
LEMMA NothingVanishesStep ==
  ASSUME TypeOK, BusyOn, DoneIsEntered, NothingVanishes, [Next]_vars
  PROVE  NothingVanishes'
<1>1. ASSUME NEW t \in Transfers, Report(t) PROVE NothingVanishes'
  BY <1>1 DEF TypeOK, BusyOn, DoneIsEntered, NothingVanishes, Report, Enqueue, books, queue, party
<1>2. ASSUME NEW t \in Transfers, ReportLost(t) PROVE NothingVanishes'
  BY <1>2 DEF TypeOK, BusyOn, DoneIsEntered, NothingVanishes, ReportLost, Mishap, books, queue, party
<1>3. ASSUME NEW w \in Workers, NEW t \in Transfers, Take(w, t) PROVE NothingVanishes'
  BY <1>3 DEF TypeOK, BusyOn, DoneIsEntered, NothingVanishes, Take, Goto, books, world
<1>4. ASSUME NEW w \in Workers, Hold(w) PROVE NothingVanishes'
  BY <1>4 DEF TypeOK, BusyOn, DoneIsEntered, NothingVanishes, Hold, Goto, queue, world
<1>5. ASSUME NEW p \in Parties, AcquireLock(p) PROVE NothingVanishes'
  BY <1>5 DEF TypeOK, BusyOn, DoneIsEntered, NothingVanishes, AcquireLock, Free, Busy, Goto, books, queue, world
<1>6. ASSUME NEW p \in Parties, ReadOrder(p) PROVE NothingVanishes'
  BY <1>6 DEF TypeOK, BusyOn, DoneIsEntered, NothingVanishes, ReadOrder, Goto, books, queue, world
<1>7. ASSUME NEW p \in Parties, Commit(p) PROVE NothingVanishes'
  BY <1>7 DEF TypeOK, BusyOn, DoneIsEntered, NothingVanishes, Commit, Fresh, Goto, books, queue, world
<1>8. ASSUME NEW p \in Parties, Release(p) PROVE NothingVanishes'
  BY <1>8 DEF TypeOK, BusyOn, DoneIsEntered, NothingVanishes, Release, Goto, books, queue, world
<1>9. ASSUME NEW p \in Parties, End(p) PROVE NothingVanishes'
  BY <1>9 DEF TypeOK, BusyOn, DoneIsEntered, NothingVanishes, End, AfterFailure, Leave, Goto, books, queue, world
<1>10. ASSUME NEW c \in Clerks, NEW t \in Transfers, NEW o \in Orders, Choose(c, t, o) PROVE NothingVanishes'
  BY <1>10 DEF TypeOK, BusyOn, DoneIsEntered, NothingVanishes, Choose, Goto, books, queue, world
<1>11. ASSUME NEW p \in Parties, Fail(p) PROVE NothingVanishes'
  BY <1>11 DEF TypeOK, BusyOn, DoneIsEntered, NothingVanishes, Fail, Mishap, Goto, books, queue, world
<1>12. ASSUME NEW p \in Parties, Crash(p) PROVE NothingVanishes'
  BY <1>12 DEF TypeOK, BusyOn, DoneIsEntered, NothingVanishes, Crash, Mishap, Leave, Goto, books, queue, world
<1>13. ASSUME NEW t \in Transfers, StallDead(t) PROVE NothingVanishes'
  BY <1>13 DEF TypeOK, BusyOn, DoneIsEntered, NothingVanishes, StallDead, TakeBack, books, party, world
<1>14. ASSUME NEW t \in Transfers, StallLive(t) PROVE NothingVanishes'
  BY <1>14 DEF TypeOK, BusyOn, DoneIsEntered, NothingVanishes, StallLive, Mishap, TakeBack, books, party, world
<1>15. ASSUME NEW o \in Orders, ExpireDead(o) PROVE NothingVanishes'
  BY <1>15 DEF TypeOK, BusyOn, DoneIsEntered, NothingVanishes, ExpireDead, Held, Expire, books, queue, party
<1>16. ASSUME NEW o \in Orders, Lapse(o) PROVE NothingVanishes'
  BY <1>16 DEF TypeOK, BusyOn, DoneIsEntered, NothingVanishes, Lapse, Mishap, Held, Expire, books, queue, party
<1>17. CASE UNCHANGED vars
  BY <1>17 DEF TypeOK, BusyOn, DoneIsEntered, NothingVanishes, vars, books, queue, party, world
<1>. QED
  BY <1>1, <1>2, <1>3, <1>4, <1>5, <1>6, <1>7, <1>8, <1>9, <1>10, <1>11, <1>12, <1>13, <1>14,
     <1>15, <1>16, <1>17 DEF Next, Bank, System, Fault, Step

\* With one clerk, only that clerk gives an unmatched transfer to an order.
LEMMA ClerkIsPendingStep ==
  ASSUME TypeOK, BusyOn, ClerkIsPending, \A c, d \in Clerks : c = d, [Next]_vars
  PROVE  ClerkIsPending'
<1>1. ASSUME NEW t \in Transfers, Report(t) PROVE ClerkIsPending'
  BY <1>1 DEF TypeOK, BusyOn, ClerkIsPending, Report, Enqueue, books, queue, party
<1>2. ASSUME NEW t \in Transfers, ReportLost(t) PROVE ClerkIsPending'
  BY <1>2 DEF TypeOK, BusyOn, ClerkIsPending, ReportLost, Mishap, books, queue, party
<1>3. ASSUME NEW w \in Workers, NEW t \in Transfers, Take(w, t) PROVE ClerkIsPending'
  BY <1>3 DEF TypeOK, BusyOn, ClerkIsPending, Take, Goto, books, world
<1>4. ASSUME NEW w \in Workers, Hold(w) PROVE ClerkIsPending'
  BY <1>4 DEF TypeOK, BusyOn, ClerkIsPending, Hold, Goto, queue, world
<1>5. ASSUME NEW p \in Parties, AcquireLock(p) PROVE ClerkIsPending'
  BY <1>5 DEF TypeOK, BusyOn, ClerkIsPending, AcquireLock, Free, Busy, Goto, books, queue, world
<1>6. ASSUME NEW p \in Parties, ReadOrder(p) PROVE ClerkIsPending'
  BY <1>6 DEF TypeOK, BusyOn, ClerkIsPending, ReadOrder, Goto, books, queue, world
<1>7. ASSUME NEW p \in Parties, Commit(p) PROVE ClerkIsPending'
  BY <1>7 DEF TypeOK, BusyOn, ClerkIsPending, Commit, Fresh, Goto, books, queue, world
<1>8. ASSUME NEW p \in Parties, Release(p) PROVE ClerkIsPending'
  BY <1>8 DEF TypeOK, BusyOn, ClerkIsPending, Release, Goto, books, queue, world
<1>9. ASSUME NEW p \in Parties, End(p) PROVE ClerkIsPending'
  BY <1>9 DEF TypeOK, BusyOn, ClerkIsPending, End, AfterFailure, Leave, Goto, books, queue, world
<1>10. ASSUME NEW c \in Clerks, NEW t \in Transfers, NEW o \in Orders, Choose(c, t, o) PROVE ClerkIsPending'
  BY <1>10 DEF TypeOK, BusyOn, ClerkIsPending, Choose, Goto, books, queue, world
<1>11. ASSUME NEW p \in Parties, Fail(p) PROVE ClerkIsPending'
  BY <1>11 DEF TypeOK, BusyOn, ClerkIsPending, Fail, Mishap, Goto, books, queue, world
<1>12. ASSUME NEW p \in Parties, Crash(p) PROVE ClerkIsPending'
  BY <1>12 DEF TypeOK, BusyOn, ClerkIsPending, Crash, Mishap, Leave, Goto, books, queue, world
<1>13. ASSUME NEW t \in Transfers, StallDead(t) PROVE ClerkIsPending'
  BY <1>13 DEF TypeOK, BusyOn, ClerkIsPending, StallDead, TakeBack, books, party, world
<1>14. ASSUME NEW t \in Transfers, StallLive(t) PROVE ClerkIsPending'
  BY <1>14 DEF TypeOK, BusyOn, ClerkIsPending, StallLive, Mishap, TakeBack, books, party, world
<1>15. ASSUME NEW o \in Orders, ExpireDead(o) PROVE ClerkIsPending'
  BY <1>15 DEF TypeOK, BusyOn, ClerkIsPending, ExpireDead, Held, Expire, books, queue, party
<1>16. ASSUME NEW o \in Orders, Lapse(o) PROVE ClerkIsPending'
  BY <1>16 DEF TypeOK, BusyOn, ClerkIsPending, Lapse, Mishap, Held, Expire, books, queue, party
<1>17. CASE UNCHANGED vars
  BY <1>17 DEF TypeOK, BusyOn, ClerkIsPending, vars, books, queue, party, world
<1>. QED
  BY <1>1, <1>2, <1>3, <1>4, <1>5, <1>6, <1>7, <1>8, <1>9, <1>10, <1>11, <1>12, <1>13, <1>14,
     <1>15, <1>16, <1>17 DEF Next, Bank, System, Fault, Step

-----------------------------------------------------------------------------
(* The theorems. *)

\* No transfer is known and nobody is busy.
LEMMA InitIInv == Init => IInv /\ ClerkIsPending
BY DEF Init, IInv, TypeOK, BusyOn, JobsCounted, HolderHasLock, SeenIsPaid, DoneIsEntered,
       NothingVanishes, ClerkIsPending, Book!Init

\* Every step keeps all the parts.
LEMMA NextIInv == IInv /\ [Next]_vars => IInv'
BY TypeStep, BusyOnStep, JobsCountedStep, HolderHasLockStep, SeenIsPaidStep,
   DoneIsEnteredStep, NothingVanishesStep DEF IInv

\* The invariant.
LEMMA AlwaysIInv == Spec => []IInv
<1>1. Init => IInv
  BY InitIInv
<1>. QED
  BY <1>1, NextIInv, PTL DEF Spec

\* Every variable keeps its type: no job has more failures than attempts, and
\* none is taken back more often than the queue allows.
THEOREM QueueTypeCorrect == Spec => []TypeOK
<1>1. IInv => TypeOK
  BY DEF IInv
<1>. QED
  BY <1>1, AlwaysIInv, PTL

\* A transfer the webhook acknowledged is in the books, in the queue, among the
\* failed jobs, or was reported while the queue could not be reached.
THEOREM NoTransferVanishes == Spec => []NothingVanishes
<1>1. IInv => NothingVanishes
  BY DEF IInv
<1>. QED
  BY <1>1, AlwaysIInv, PTL

-----------------------------------------------------------------------------
(* The refinement. *)

\* A commit enters the transfer and adds its amount, or rolls back.
LEMMA CommitCredits ==
  ASSUME IInv, ClerkIsPending, NEW p \in Parties, Commit(p)
  PROVE  \/ Book!Credit(subject[p], target[p]) /\ subject[p] \in Transfers /\ target[p] \in Orders
         \/ UNCHANGED Book!book
<1>1. subject[p] \in Transfers /\ target[p] \in Orders
  BY DEF IInv, BusyOn, Commit
<1>2. CASE Fresh(p)
  <2>1. entry[subject[p]] \in {"open", "pending"}
    BY <1>2 DEF Fresh, ClerkIsPending, Commit
  <2>2. paid' = [paid EXCEPT ![target[p]] = seen[p] + Amount[subject[p]]]
    BY <1>2 DEF Commit
  <2>3. \A q \in Orders \ {target[p]} : paid'[q] = paid[q]
    BY <2>2 DEF IInv, TypeOK
  <2>4. target[p] \notin overrun => paid'[target[p]] = paid[target[p]] + Amount[subject[p]]
    BY <1>1, <2>2 DEF IInv, TypeOK, SeenIsPaid, Commit
  <2>5. entry' = [entry EXCEPT ![subject[p]] = target[p]] /\ UNCHANGED overrun
    BY <1>2 DEF Commit, world
  <2>. QED
    BY <1>1, <2>1, <2>3, <2>4, <2>5 DEF Book!Credit
<1>3. CASE ~Fresh(p)
  BY <1>3 DEF Commit, books, world, Book!book
<1>. QED
  BY <1>2, <1>3

\* A job without an order enters its transfer, unless it is entered.
LEMMA HoldHolds ==
  ASSUME IInv, NEW w \in Workers, Hold(w)
  PROVE  \/ Book!Hold(subject[w]) /\ subject[w] \in Transfers
         \/ UNCHANGED Book!book
<1>1. subject[w] \in Transfers
  BY DEF IInv, BusyOn, Hold
<1>. QED
  BY <1>1 DEF Hold, world, Book!Hold, Book!book

\* Every step of the queue is a step of the book or leaves it alone.
LEMMA BookStep ==
  ASSUME IInv, ClerkIsPending, [Next]_vars
  PROVE  [Book!Next]_(Book!book)
<1>1. ASSUME NEW w \in Workers, Hold(w) PROVE [Book!Next]_(Book!book)
  BY <1>1, HoldHolds DEF Book!Next
<1>2. ASSUME NEW p \in Parties, Commit(p) PROVE [Book!Next]_(Book!book)
  BY <1>2, CommitCredits DEF Book!Next
<1>3. ASSUME NEW o \in Orders, Lapse(o) PROVE [Book!Next]_(Book!book)
  BY <1>3 DEF Lapse, Expire, books, Book!Next, Book!Overrun
<1>4. ASSUME Bank PROVE UNCHANGED Book!book
  BY <1>4 DEF Bank, Report, ReportLost, books, Book!book
<1>5. ASSUME NEW w \in Workers, NEW t \in Transfers, Take(w, t) PROVE UNCHANGED Book!book
  BY <1>5 DEF Take, books, world, Book!book
<1>6. ASSUME NEW p \in Parties, AcquireLock(p) \/ ReadOrder(p) PROVE UNCHANGED Book!book
  BY <1>6 DEF AcquireLock, ReadOrder, books, world, Book!book
<1>7. ASSUME NEW p \in Parties, Release(p) \/ End(p) PROVE UNCHANGED Book!book
  BY <1>7 DEF Release, End, books, world, Book!book
<1>8. ASSUME NEW p \in Parties, Fail(p) \/ Crash(p) PROVE UNCHANGED Book!book
  BY <1>8 DEF Fail, Crash, books, world, Book!book
<1>9. ASSUME NEW t \in Transfers, StallDead(t) \/ StallLive(t) PROVE UNCHANGED Book!book
  BY <1>9 DEF StallDead, StallLive, TakeBack, books, world, Book!book
<1>10. ASSUME NEW o \in Orders, ExpireDead(o) PROVE UNCHANGED Book!book
  BY <1>10 DEF ExpireDead, Expire, books, Book!book
<1>11. ASSUME NEW c \in Clerks, NEW t \in Transfers, NEW o \in Orders, Choose(c, t, o)
       PROVE  UNCHANGED Book!book
  BY <1>11 DEF Choose, books, world, Book!book
<1>12. CASE UNCHANGED vars
  BY <1>12 DEF vars, books, world, Book!book
<1>. QED
  BY <1>1, <1>2, <1>3, <1>4, <1>5, <1>6, <1>7, <1>8, <1>9, <1>10, <1>11, <1>12
     DEF Next, System, Fault, Step

\* With one clerk at a time, whatever the bank repeats and the servers do,
\* reconciliation implements TransferBook: a transfer is entered once, and while
\* no transaction outlives its payment lock the order gets exactly its amount.
THEOREM ReconciliationKeepsTheBook ==
  ASSUME \A c, d \in Clerks : c = d
  PROVE  Spec => KeepsTheBook
<1>1. Init => ClerkIsPending /\ Book!Init
  BY InitIInv DEF Init
<1>2. IInv /\ ClerkIsPending /\ [Next]_vars => ClerkIsPending' /\ [Book!Next]_(Book!book)
  BY ClerkIsPendingStep, BookStep DEF IInv
<1>. QED
  BY <1>1, <1>2, AlwaysIInv, PTL DEF Spec, KeepsTheBook, Book!Spec

===============================================================================
