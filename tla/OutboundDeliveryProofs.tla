----------------------- MODULE OutboundDeliveryProofs -----------------------
(* Theorems about OutboundDelivery, for any set of messages, conversations, *)
(* workers and faults.                                                      *)
EXTENDS OutboundDelivery, SequenceTheorems, TLAPS

(* A worker is idle exactly when it serves no message. *)
IdleServesNone == \A w \in Workers : pc[w] = "idle" <=> serving[w] = NoMessage

(* Every waiting job is in the queue once. *)
QueueIsWaiting ==
  \A i \in 1 .. Len(queue) :
    /\ job[queue[i]] = "waiting"
    /\ \A j \in 1 .. Len(queue) : queue[i] = queue[j] => i = j

(* A job is held by the worker that serves it; a worker serves a job it does *)
(* not hold only after the queue took the job from it.                       *)
OwnerServes ==
  /\ \A m \in Messages :
       owner[m] # NoWorker => job[m] = "active" /\ serving[owner[m]] = m
  /\ \A w \in Workers :
       serving[w] # NoMessage => owner[serving[w]] = w \/ serving[w] \in overtaken

(* A job exists only for a created row; an externalId only for a served one. *)
RowsKnown ==
  /\ \A m \in Messages :
       /\ job[m] = "none" <=> status[m] = "absent"
       /\ external[m] => status[m] \notin {"absent", "PENDING"}
  /\ \A w \in Workers : serving[w] # NoMessage => job[serving[w]] # "none"

(* A job that may still be served has an attempt left. *)
AttemptsLeft ==
  \A m \in Messages : job[m] \in {"completed", "failed", "lost"} \/ failures[m] < Attempts

(* Whoever is sending holds the lock, unless it expired. *)
SenderHoldsLock ==
  \A w \in Workers : Sending(w) /\ w \notin late => lock[ConvOf[serving[w]]] = w

(* A worker that is done has settled its row. *)
DoneIsSettled == \A w \in Workers : pc[w] = "done" => status[serving[w]] # "PENDING"

(* Until a job is taken from a running worker: whoever may still send a copy, *)
(* or has just sent it, found no externalId, and every copy before is a stray. *)
CopiesCounted ==
  \A m \in Messages \ overtaken :
    /\ sent[m] <= 1 + strays[m]
    /\ \A w \in Workers :
         serving[w] = m =>
           /\ pc[w] \in {"unbound", "lock", "send", "mark", "caught"} => ~ external[m]
           /\ pc[w] \in {"unbound", "lock", "send", "caught"} => sent[m] <= strays[m]
    /\ \/ \E w \in Workers : serving[w] = m /\ pc[w] = "mark"
       \/ sent[m] <= strays[m] \/ external[m] \/ status[m] = "deleted"

IInv ==
  /\ TypeOK /\ IdleServesNone /\ QueueIsWaiting /\ OwnerServes /\ RowsKnown
  /\ AttemptsLeft /\ SenderHoldsLock /\ DoneIsSettled /\ CompletedIsSettled
  /\ CopiesCounted

USE OutboundAssumption

-----------------------------------------------------------------------------
(* A worker that is not idle serves a message. *)
LEMMA Served ==
  ASSUME IInv
  PROVE  \A w \in Workers : pc[w] # "idle" => serving[w] \in Messages
BY DEF IInv, TypeOK, IdleServesNone

(* Its message was created and has a job. *)
LEMMA ServedIsKnown ==
  ASSUME IInv, NEW w \in Workers, pc[w] # "idle"
  PROVE  serving[w] \in Messages /\ job[serving[w]] # "none" /\ status[serving[w]] # "absent"
<1>1. serving[w] \in Messages
  BY Served
<1>2. \A m \in Messages : job[m] = "none" <=> status[m] = "absent"
  BY DEF IInv, RowsKnown
<1>3. serving[w] # NoMessage => job[serving[w]] # "none"
  BY DEF IInv, RowsKnown
<1> QED
  BY <1>1, <1>2, <1>3

(* A worker returns only its own job. *)
LEMMA OwnedIsActive ==
  ASSUME IInv, NEW m \in Messages, NEW w \in Workers, owner[m] = w
  PROVE  job[m] = "active"
BY DEF IInv, OwnerServes

(* A new row is PENDING, and nothing was sent of it. *)
LEMMA CreatePreserves ==
  ASSUME IInv, NEW m \in Messages, Create(m)
  PROVE  IInv'
<1> USE DEF Create, Created, workers, history
<1>0. TypeOK /\ \A x \in Workers : pc[x] # "idle" => serving[x] \in Messages
  BY Served DEF IInv
<1>1. TypeOK'
  BY <1>0 DEF TypeOK, Labels, Statuses, JobStates
<1>2. IdleServesNone'
  BY <1>0 DEF IInv, TypeOK, IdleServesNone
<1>3. QueueIsWaiting'
  BY <1>0 DEF IInv, TypeOK, QueueIsWaiting, RowsKnown
<1>4. OwnerServes'
  BY <1>0 DEF IInv, TypeOK, OwnerServes, IdleServesNone, RowsKnown
<1>5. RowsKnown'
  BY <1>0 DEF IInv, TypeOK, RowsKnown
<1>6. AttemptsLeft'
  BY <1>0 DEF IInv, TypeOK, AttemptsLeft, RowsKnown
<1>7. SenderHoldsLock'
  BY <1>0 DEF IInv, TypeOK, SenderHoldsLock, Sending
<1>8. DoneIsSettled'
  BY <1>0 DEF IInv, TypeOK, DoneIsSettled, RowsKnown
<1>9. CompletedIsSettled'
  BY <1>0 DEF IInv, TypeOK, CompletedIsSettled, DoneIsSettled, RowsKnown
<1>10. CopiesCounted'
  BY <1>0 DEF IInv, TypeOK, CopiesCounted, RowsKnown, OwnerServes
<1> QED
  BY <1>1, <1>2, <1>3, <1>4, <1>5, <1>6, <1>7, <1>8, <1>9, <1>10 DEF IInv

(* The new job joins the end of the queue. *)
LEMMA EnqueuePreserves ==
  ASSUME IInv, NEW m \in Messages, Enqueue(m)
  PROVE  IInv'
<1> USE DEF Enqueue, rows, workers, history
<1>0. TypeOK /\ \A x \in Workers : pc[x] # "idle" => serving[x] \in Messages
  BY Served DEF IInv
<1>1. TypeOK'
  <2>1. queue' \in Seq(Messages)
    BY <1>0 DEF TypeOK
  <2> QED
    BY <1>0, <2>1 DEF TypeOK, JobStates
<1>2. IdleServesNone'
  BY <1>0 DEF IInv, TypeOK, IdleServesNone
<1>3. QueueIsWaiting'
  BY <1>0 DEF IInv, TypeOK, QueueIsWaiting
<1>4. OwnerServes'
  BY <1>0 DEF IInv, TypeOK, OwnerServes, IdleServesNone
<1>5. RowsKnown'
  BY <1>0 DEF IInv, TypeOK, RowsKnown
<1>6. AttemptsLeft'
  BY <1>0 DEF IInv, TypeOK, AttemptsLeft
<1>7. SenderHoldsLock'
  BY <1>0 DEF IInv, TypeOK, SenderHoldsLock, Sending
<1>8. DoneIsSettled'
  BY <1>0 DEF IInv, TypeOK, DoneIsSettled, RowsKnown
<1>9. CompletedIsSettled'
  BY <1>0 DEF IInv, TypeOK, CompletedIsSettled, DoneIsSettled, RowsKnown
<1>10. CopiesCounted'
  BY <1>0 DEF IInv, TypeOK, CopiesCounted, RowsKnown, OwnerServes
<1> QED
  BY <1>1, <1>2, <1>3, <1>4, <1>5, <1>6, <1>7, <1>8, <1>9, <1>10 DEF IInv

(* A lost event leaves a row without a job. *)
LEMMA LoseEventPreserves ==
  ASSUME IInv, NEW m \in Messages, LoseEvent(m)
  PROVE  IInv'
<1> USE DEF LoseEvent, rows, workers, history
<1>0. TypeOK /\ \A x \in Workers : pc[x] # "idle" => serving[x] \in Messages
  BY Served DEF IInv
<1>1. TypeOK'
  BY <1>0 DEF TypeOK, Labels, Statuses, JobStates
<1>2. IdleServesNone'
  BY <1>0 DEF IInv, TypeOK, IdleServesNone
<1>3. QueueIsWaiting'
  BY <1>0 DEF IInv, TypeOK, QueueIsWaiting
<1>4. OwnerServes'
  BY <1>0 DEF IInv, TypeOK, OwnerServes, IdleServesNone
<1>5. RowsKnown'
  BY <1>0 DEF IInv, TypeOK, RowsKnown
<1>6. AttemptsLeft'
  BY <1>0 DEF IInv, TypeOK, AttemptsLeft
<1>7. SenderHoldsLock'
  BY <1>0 DEF IInv, TypeOK, SenderHoldsLock, Sending
<1>8. DoneIsSettled'
  BY <1>0 DEF IInv, TypeOK, DoneIsSettled, RowsKnown
<1>9. CompletedIsSettled'
  BY <1>0 DEF IInv, TypeOK, CompletedIsSettled, DoneIsSettled, RowsKnown
<1>10. CopiesCounted'
  BY <1>0 DEF IInv, TypeOK, CopiesCounted, RowsKnown, OwnerServes
<1> QED
  BY <1>1, <1>2, <1>3, <1>4, <1>5, <1>6, <1>7, <1>8, <1>9, <1>10 DEF IInv

(* A deleted row drops out of every clause about its message. *)
LEMMA DeletePreserves ==
  ASSUME IInv, NEW m \in Messages, Delete(m)
  PROVE  IInv'
<1> USE DEF Delete, jobs, workers, history
<1>0. TypeOK /\ \A x \in Workers : pc[x] # "idle" => serving[x] \in Messages
  BY Served DEF IInv
<1>1. TypeOK'
  BY <1>0 DEF TypeOK, Labels, Statuses, JobStates
<1>2. IdleServesNone'
  BY <1>0 DEF IInv, TypeOK, IdleServesNone
<1>3. QueueIsWaiting'
  BY <1>0 DEF IInv, TypeOK, QueueIsWaiting
<1>4. OwnerServes'
  BY <1>0 DEF IInv, TypeOK, OwnerServes, IdleServesNone
<1>5. RowsKnown'
  BY <1>0 DEF IInv, TypeOK, RowsKnown
<1>6. AttemptsLeft'
  BY <1>0 DEF IInv, TypeOK, AttemptsLeft
<1>7. SenderHoldsLock'
  BY <1>0 DEF IInv, TypeOK, SenderHoldsLock, Sending
<1>8. DoneIsSettled'
  BY <1>0 DEF IInv, TypeOK, DoneIsSettled, RowsKnown
<1>9. CompletedIsSettled'
  BY <1>0 DEF IInv, TypeOK, CompletedIsSettled, DoneIsSettled, RowsKnown
<1>10. CopiesCounted'
  BY <1>0 DEF IInv, TypeOK, CopiesCounted, RowsKnown, OwnerServes
<1> QED
  BY <1>1, <1>2, <1>3, <1>4, <1>5, <1>6, <1>7, <1>8, <1>9, <1>10 DEF IInv

(* A receipt moves a row that has an externalId, and no other. *)
LEMMA ReceiptPreserves ==
  ASSUME IInv, NEW m \in Messages, Receipt(m)
  PROVE  IInv'
<1> USE DEF Receipt, jobs, workers, history
<1>0. TypeOK /\ \A x \in Workers : pc[x] # "idle" => serving[x] \in Messages
  BY Served DEF IInv
<1>1. TypeOK'
  BY <1>0 DEF TypeOK, Labels, Statuses, JobStates
<1>2. IdleServesNone'
  BY <1>0 DEF IInv, TypeOK, IdleServesNone
<1>3. QueueIsWaiting'
  BY <1>0 DEF IInv, TypeOK, QueueIsWaiting
<1>4. OwnerServes'
  BY <1>0 DEF IInv, TypeOK, OwnerServes, IdleServesNone
<1>5. RowsKnown'
  BY <1>0 DEF IInv, TypeOK, RowsKnown
<1>6. AttemptsLeft'
  BY <1>0 DEF IInv, TypeOK, AttemptsLeft
<1>7. SenderHoldsLock'
  BY <1>0 DEF IInv, TypeOK, SenderHoldsLock, Sending
<1>8. DoneIsSettled'
  BY <1>0 DEF IInv, TypeOK, DoneIsSettled, RowsKnown
<1>9. CompletedIsSettled'
  BY <1>0 DEF IInv, TypeOK, CompletedIsSettled, DoneIsSettled, RowsKnown
<1>10. CopiesCounted'
  BY <1>0 DEF IInv, TypeOK, CopiesCounted, RowsKnown, OwnerServes
<1> QED
  BY <1>1, <1>2, <1>3, <1>4, <1>5, <1>6, <1>7, <1>8, <1>9, <1>10 DEF IInv

(* The job at the head was held by nobody; now its worker serves it. *)
LEMMA TakePreserves ==
  ASSUME IInv, NEW w \in Workers, Take(w)
  PROVE  IInv'
<1> USE DEF Take, Goto, rows
<1>0. TypeOK /\ \A x \in Workers : pc[x] # "idle" => serving[x] \in Messages
  BY Served DEF IInv
<1>a. /\ Head(queue) \in Messages /\ Head(queue) = queue[1] /\ Len(queue) \in Nat \ {0}
      /\ Tail(queue) \in Seq(Messages)
  BY <1>0 DEF TypeOK
<1>b. job[Head(queue)] = "waiting"
  BY <1>a DEF IInv, QueueIsWaiting
<1>c. /\ owner[Head(queue)] = NoWorker /\ status[Head(queue)] # "absent"
      /\ failures[Head(queue)] < Attempts
  BY <1>0, <1>a, <1>b DEF IInv, TypeOK, OwnerServes, RowsKnown, AttemptsLeft
<1>d. /\ job' = [job EXCEPT ![Head(queue)] = "active"]
      /\ owner' = [owner EXCEPT ![Head(queue)] = w]
      /\ serving' = [serving EXCEPT ![w] = Head(queue)]
      /\ made' = [made EXCEPT ![w] = failures[Head(queue)]]
  OBVIOUS
<1>1. TypeOK'
  <2>1. /\ job' \in [Messages -> JobStates]
        /\ owner' \in [Messages -> Workers \cup {NoWorker}]
    BY <1>0, <1>a, <1>d DEF TypeOK, JobStates
  <2>3. serving' \in [Workers -> Messages \cup {NoMessage}]
    BY <1>0, <1>a, <1>d DEF TypeOK
  <2>4. made' \in [Workers -> 0 .. Attempts]
    <3>1. failures[Head(queue)] \in 0 .. Attempts
      BY <1>0, <1>a DEF TypeOK
    <3> QED
      BY <1>0, <1>d, <3>1 DEF TypeOK
  <2>2. pc' \in [Workers -> Labels]
    BY <1>0 DEF TypeOK, Labels
  <2> QED
    BY <1>0, <1>a, <2>1, <2>2, <2>3, <2>4 DEF TypeOK
<1>2. IdleServesNone'
  BY <1>0 DEF IInv, TypeOK, IdleServesNone
<1>3. QueueIsWaiting'
  BY <1>0 DEF IInv, TypeOK, QueueIsWaiting
<1>4. OwnerServes'
  BY <1>0, <1>a, <1>b, <1>c, <1>d DEF IInv, TypeOK, OwnerServes, IdleServesNone
<1>5. RowsKnown'
  BY <1>0, <1>a, <1>c, <1>d DEF IInv, TypeOK, RowsKnown
<1>6. AttemptsLeft'
  BY <1>0, <1>a, <1>c, <1>d DEF IInv, TypeOK, AttemptsLeft
<1>7. SenderHoldsLock'
  BY <1>0 DEF IInv, TypeOK, SenderHoldsLock, Sending
<1>8. DoneIsSettled'
  BY <1>0 DEF IInv, TypeOK, DoneIsSettled, RowsKnown
<1>9. CompletedIsSettled'
  BY <1>0 DEF IInv, TypeOK, CompletedIsSettled, DoneIsSettled, RowsKnown
<1>10. CopiesCounted'
  BY <1>0 DEF IInv, TypeOK, CopiesCounted, RowsKnown, OwnerServes
<1> QED
  BY <1>1, <1>2, <1>3, <1>4, <1>5, <1>6, <1>7, <1>8, <1>9, <1>10 DEF IInv

(* Whoever goes on past the read found no externalId. *)
LEMMA ReadPreserves ==
  ASSUME IInv, NEW w \in Workers, Read(w)
  PROVE  IInv'
<1> USE DEF Read, Goto, Recorded, rows, jobs, history
<1>0. TypeOK /\ \A x \in Workers : pc[x] # "idle" => serving[x] \in Messages
  BY Served DEF IInv
<1>1. TypeOK'
  BY <1>0 DEF TypeOK, Labels, Statuses, JobStates
<1>2. IdleServesNone'
  BY <1>0 DEF IInv, TypeOK, IdleServesNone
<1>3. QueueIsWaiting'
  BY <1>0 DEF IInv, TypeOK, QueueIsWaiting
<1>4. OwnerServes'
  BY <1>0 DEF IInv, TypeOK, OwnerServes, IdleServesNone
<1>5. RowsKnown'
  BY <1>0 DEF IInv, TypeOK, RowsKnown
<1>6. AttemptsLeft'
  BY <1>0 DEF IInv, TypeOK, AttemptsLeft
<1>7. SenderHoldsLock'
  BY <1>0 DEF IInv, TypeOK, SenderHoldsLock, Sending
<1>8. DoneIsSettled'
  BY <1>0 DEF IInv, TypeOK, DoneIsSettled, RowsKnown
<1>9. CompletedIsSettled'
  BY <1>0 DEF IInv, TypeOK, CompletedIsSettled, DoneIsSettled, RowsKnown
<1>10. CopiesCounted'
  BY <1>0 DEF IInv, TypeOK, CopiesCounted, RowsKnown, OwnerServes
<1> QED
  BY <1>1, <1>2, <1>3, <1>4, <1>5, <1>6, <1>7, <1>8, <1>9, <1>10 DEF IInv

(* Nothing was sent, and the row becomes FAILED. *)
LEMMA FailTerminalPreserves ==
  ASSUME IInv, NEW w \in Workers, FailTerminal(w)
  PROVE  IInv'
<1> USE DEF FailTerminal, Goto, Written, WriteFails, rows, jobs, history
<1>0. TypeOK /\ \A x \in Workers : pc[x] # "idle" => serving[x] \in Messages
  BY Served DEF IInv
<1>a. serving[w] \in Messages /\ job[serving[w]] # "none" /\ status[serving[w]] # "absent"
  <2>1. pc[w] # "idle"
    OBVIOUS
  <2> QED
    BY <2>1, ServedIsKnown
<1>1. TypeOK'
  BY <1>0 DEF TypeOK, Labels, Statuses, JobStates
<1>2. IdleServesNone'
  BY <1>0 DEF IInv, TypeOK, IdleServesNone
<1>3. QueueIsWaiting'
  BY <1>0 DEF IInv, TypeOK, QueueIsWaiting
<1>4. OwnerServes'
  BY <1>0 DEF IInv, TypeOK, OwnerServes, IdleServesNone
<1>5. RowsKnown'
  <2>1. external' = external
    BY <1>0, <1>a DEF TypeOK
  <2> QED
    BY <1>0, <1>a, <2>1 DEF IInv, TypeOK, RowsKnown
<1>6. AttemptsLeft'
  BY <1>0 DEF IInv, TypeOK, AttemptsLeft
<1>7. SenderHoldsLock'
  BY <1>0 DEF IInv, TypeOK, SenderHoldsLock, Sending
<1>8. DoneIsSettled'
  BY <1>0 DEF IInv, TypeOK, DoneIsSettled, RowsKnown
<1>9. CompletedIsSettled'
  BY <1>0 DEF IInv, TypeOK, CompletedIsSettled, DoneIsSettled, RowsKnown
<1>10. CopiesCounted'
  <2> SUFFICES ASSUME NEW m \in Messages \ overtaken
               PROVE  CopiesCounted!(m)'
    BY DEF CopiesCounted
  <2>1. \A v \in Workers : v # w => pc'[v] = pc[v]
    BY <1>0 DEF TypeOK
  <2>2. pc[w] = "unbound" /\ pc'[w] \in {"done", "throw"}
    BY <1>0, <1>a DEF TypeOK
  <2>3. UNCHANGED <<serving, sent, strays, overtaken, external>> /\ (status[m] = "deleted" => status'[m] = "deleted")
    BY <1>0, <1>a DEF TypeOK
  <2> HIDE DEF FailTerminal, Written, WriteFails
  <2>4. CASE serving[w] = m
    <3>0. owner[m] = w
      BY <1>0, <2>4 DEF IInv, OwnerServes
    <3>1. \A v \in Workers : serving[v] = m => v = w
      BY <1>0, <3>0 DEF IInv, OwnerServes
    <3> QED
      BY <1>0, <2>1, <2>2, <2>3, <2>4, <3>1 DEF IInv, CopiesCounted, TypeOK
  <2>5. CASE serving[w] # m
    BY <1>0, <2>1, <2>3, <2>5 DEF IInv, CopiesCounted, TypeOK
  <2> QED
    BY <2>4, <2>5
<1> QED
  BY <1>1, <1>2, <1>3, <1>4, <1>5, <1>6, <1>7, <1>8, <1>9, <1>10 DEF IInv

(* The lock was free, or the worker sends nothing. *)
LEMMA LockPreserves ==
  ASSUME IInv, NEW w \in Workers, Lock(w)
  PROVE  IInv'
<1> USE DEF Lock, Goto, rows, jobs, history
<1>0. TypeOK /\ \A x \in Workers : pc[x] # "idle" => serving[x] \in Messages
  BY Served DEF IInv
<1>1. TypeOK'
  <2>1. lock' \in [Convs -> Workers \cup {NoWorker, Orphan}]
    BY <1>0 DEF TypeOK
  <2>2. pc' \in [Workers -> Labels]
    BY <1>0 DEF TypeOK, Labels
  <2> QED
    BY <1>0, <2>1, <2>2 DEF TypeOK
<1>2. IdleServesNone'
  BY <1>0 DEF IInv, TypeOK, IdleServesNone
<1>3. QueueIsWaiting'
  BY <1>0 DEF IInv, TypeOK, QueueIsWaiting
<1>4. OwnerServes'
  BY <1>0 DEF IInv, TypeOK, OwnerServes, IdleServesNone
<1>5. RowsKnown'
  BY <1>0 DEF IInv, TypeOK, RowsKnown
<1>6. AttemptsLeft'
  BY <1>0 DEF IInv, TypeOK, AttemptsLeft
<1>7. SenderHoldsLock'
  <2> SUFFICES ASSUME NEW v \in Workers, Sending(v)', v \notin late'
               PROVE  lock'[ConvOf[serving[v]]] = v
    BY DEF SenderHoldsLock
  <2>1. ConvOf[serving[w]] \in Convs
    BY <1>0
  <2>2. CASE v = w
    BY <2>1, <2>2, <1>0 DEF TypeOK, Sending
  <2>3. CASE v # w
    <3>1. Sending(v) /\ lock[ConvOf[serving[v]]] = v
      BY <2>3, <1>0 DEF IInv, TypeOK, SenderHoldsLock, Sending
    <3> QED
      BY <3>1, <2>1, <1>0 DEF TypeOK, Sending
  <2> QED
    BY <2>2, <2>3
<1>8. DoneIsSettled'
  BY <1>0 DEF IInv, TypeOK, DoneIsSettled, RowsKnown
<1>9. CompletedIsSettled'
  BY <1>0 DEF IInv, TypeOK, CompletedIsSettled, DoneIsSettled, RowsKnown
<1>10. CopiesCounted'
  <2> SUFFICES ASSUME NEW m \in Messages \ overtaken
               PROVE  CopiesCounted!(m)'
    BY DEF CopiesCounted
  <2>1. \A v \in Workers : v # w => pc'[v] = pc[v]
    BY <1>0 DEF TypeOK
  <2>2. pc[w] = "lock" /\ pc'[w] \in {"send", "throw"}
    BY <1>0 DEF TypeOK
  <2>3. UNCHANGED <<serving, sent, strays, overtaken, external>> /\ (status[m] = "deleted" => status'[m] = "deleted")
    BY <1>0 DEF TypeOK
  <2> HIDE DEF Lock
  <2>4. CASE serving[w] = m
    <3>0. owner[m] = w
      BY <1>0, <2>4 DEF IInv, OwnerServes
    <3>1. \A v \in Workers : serving[v] = m => v = w
      BY <1>0, <3>0 DEF IInv, OwnerServes
    <3> QED
      BY <1>0, <2>1, <2>2, <2>3, <2>4, <3>1 DEF IInv, CopiesCounted, TypeOK
  <2>5. CASE serving[w] # m
    BY <1>0, <2>1, <2>3, <2>5 DEF IInv, CopiesCounted, TypeOK
  <2> QED
    BY <2>4, <2>5
<1> QED
  BY <1>1, <1>2, <1>3, <1>4, <1>5, <1>6, <1>7, <1>8, <1>9, <1>10 DEF IInv

(* The copy just accepted is the one the worker is about to record. *)
LEMMA SendPreserves ==
  ASSUME IInv, NEW w \in Workers, Send(w)
  PROVE  IInv'
<1> USE DEF Send, Goto, CountStray, rows, jobs
<1>0. TypeOK /\ \A x \in Workers : pc[x] # "idle" => serving[x] \in Messages
  BY Served DEF IInv
<1>1. TypeOK'
  <2>1. sent' \in [Messages -> Nat]
    <3>1. sent' = sent \/ sent' = [sent EXCEPT ![serving[w]] = sent[serving[w]] + 1]
      OBVIOUS
    <3> QED
      BY <1>0, <3>1 DEF TypeOK
  <2>3. strays' \in [Messages -> Nat]
    BY <1>0 DEF TypeOK
  <2>2. pc' \in [Workers -> Labels]
    BY <1>0 DEF TypeOK, Labels
  <2> QED
    BY <1>0, <2>1, <2>2, <2>3 DEF TypeOK
<1>2. IdleServesNone'
  BY <1>0 DEF IInv, TypeOK, IdleServesNone
<1>3. QueueIsWaiting'
  BY <1>0 DEF IInv, TypeOK, QueueIsWaiting
<1>4. OwnerServes'
  BY <1>0 DEF IInv, TypeOK, OwnerServes, IdleServesNone
<1>5. RowsKnown'
  BY <1>0 DEF IInv, TypeOK, RowsKnown
<1>6. AttemptsLeft'
  BY <1>0 DEF IInv, TypeOK, AttemptsLeft
<1>7. SenderHoldsLock'
  BY <1>0 DEF IInv, TypeOK, SenderHoldsLock, Sending
<1>8. DoneIsSettled'
  BY <1>0 DEF IInv, TypeOK, DoneIsSettled, RowsKnown
<1>9. CompletedIsSettled'
  BY <1>0 DEF IInv, TypeOK, CompletedIsSettled, DoneIsSettled, RowsKnown
<1>10. CopiesCounted'
  <2> SUFFICES ASSUME NEW m \in Messages \ overtaken
               PROVE  CopiesCounted!(m)'
    BY DEF CopiesCounted
  <2>1. \A v \in Workers : v # w => pc'[v] = pc[v]
    BY <1>0 DEF TypeOK
  <2>2. UNCHANGED <<serving, overtaken, status, external>>
    OBVIOUS
  <2>3. CASE serving[w] = m
    <3>0. owner[m] = w
      BY <1>0, <2>3 DEF IInv, OwnerServes
    <3>1. \A v \in Workers : serving[v] = m => v = w
      BY <1>0, <3>0 DEF IInv, OwnerServes
    <3>2. ~ external[m] /\ sent[m] <= strays[m]
      BY <1>0, <2>3 DEF IInv, CopiesCounted
    <3>3. \/ pc'[w] = "mark" /\ sent'[m] = sent[m] + 1 /\ strays'[m] = strays[m]
          \/ pc'[w] = "caught" /\ sent'[m] = sent[m] + 1 /\ strays'[m] = strays[m] + 1
          \/ pc'[w] = "caught" /\ sent'[m] = sent[m] /\ strays'[m] = strays[m]
      BY <1>0, <2>3 DEF TypeOK
    <3>4. sent[m] \in Nat /\ strays[m] \in Nat
      BY <1>0 DEF TypeOK
    <3> HIDE DEF Send
    <3> QED
      BY <2>2, <2>3, <3>1, <3>2, <3>3, <3>4
  <2>4. CASE serving[w] # m
    <3>1. sent'[m] = sent[m] /\ strays'[m] = strays[m]
      BY <1>0, <2>4 DEF TypeOK
    <3> HIDE DEF Send
    <3> QED
      BY <1>0, <2>1, <2>2, <2>4, <3>1 DEF IInv, CopiesCounted, TypeOK
  <2> QED
    BY <2>3, <2>4
<1> QED
  BY <1>1, <1>2, <1>3, <1>4, <1>5, <1>6, <1>7, <1>8, <1>9, <1>10 DEF IInv

(* The copy is recorded, or it becomes a stray. *)
LEMMA MarkPreserves ==
  ASSUME IInv, NEW w \in Workers, Mark(w)
  PROVE  IInv'
<1> USE DEF Mark, Goto, Written, WriteFails, CountStray, rows, jobs
<1>0. TypeOK /\ \A x \in Workers : pc[x] # "idle" => serving[x] \in Messages
  BY Served DEF IInv
<1>a. serving[w] \in Messages /\ job[serving[w]] # "none" /\ status[serving[w]] # "absent"
  <2>1. pc[w] # "idle"
    OBVIOUS
  <2> QED
    BY <2>1, ServedIsKnown
<1>b. \/ status' = status /\ external' = external
      \/ /\ status' = [status EXCEPT ![serving[w]] = "SENT"]
         /\ external' = external \/ external' = [external EXCEPT ![serving[w]] = TRUE]
  OBVIOUS
<1>1. TypeOK'
  <2>1. strays' \in [Messages -> Nat]
    BY <1>0 DEF TypeOK
  <2>2. pc' \in [Workers -> Labels]
    BY <1>0 DEF TypeOK, Labels
  <2>3. status' \in [Messages -> Statuses] /\ external' \in [Messages -> BOOLEAN]
    BY <1>0 DEF TypeOK, Statuses
  <2> QED
    BY <1>0, <2>1, <2>2, <2>3 DEF TypeOK
<1>2. IdleServesNone'
  BY <1>0 DEF IInv, TypeOK, IdleServesNone
<1>3. QueueIsWaiting'
  BY <1>0 DEF IInv, TypeOK, QueueIsWaiting
<1>4. OwnerServes'
  BY <1>0 DEF IInv, TypeOK, OwnerServes, IdleServesNone
<1>5. RowsKnown'
  BY <1>0, <1>a, <1>b DEF IInv, TypeOK, RowsKnown
<1>6. AttemptsLeft'
  BY <1>0 DEF IInv, TypeOK, AttemptsLeft
<1>7. SenderHoldsLock'
  BY <1>0 DEF IInv, TypeOK, SenderHoldsLock, Sending
<1>8. DoneIsSettled'
  <2>1. \A x \in Workers \ {w} : pc'[x] = pc[x]
    BY <1>0 DEF TypeOK
  <2>2. serving' = serving
    OBVIOUS
  <2>3. \A m \in Messages : status'[m] = status[m] \/ status'[m] = "SENT"
    BY <1>0, <1>a, <1>b DEF TypeOK
  <2>4. pc'[w] = "done" => status'[serving[w]] = "SENT"
    BY <1>0, <1>a DEF TypeOK
  <2>5. \A x \in Workers : pc[x] = "done" => status[serving[x]] # "PENDING"
    BY DEF IInv, DoneIsSettled
  <2> HIDE DEF Mark
  <2> QED
    BY <1>0, <2>1, <2>2, <2>3, <2>4, <2>5 DEF DoneIsSettled
<1>9. CompletedIsSettled'
  BY <1>0 DEF IInv, TypeOK, CompletedIsSettled, DoneIsSettled, RowsKnown
<1>10. CopiesCounted'
  <2> SUFFICES ASSUME NEW m \in Messages \ overtaken
               PROVE  CopiesCounted!(m)'
    BY DEF CopiesCounted
  <2>1. CASE Written(serving[w], "SENT", TRUE) /\ Goto(w, "done") /\ UNCHANGED strays
    BY <1>0, <2>1 DEF IInv, TypeOK, OwnerServes, CopiesCounted
  <2>2. CASE Written(serving[w], "SENT", FALSE) /\ Goto(w, "done") /\ CountStray(serving[w])
    BY <1>0, <2>2 DEF IInv, TypeOK, OwnerServes, CopiesCounted
  <2>3. CASE WriteFails(serving[w]) /\ Goto(w, "caught") /\ CountStray(serving[w])
    BY <1>0, <2>3 DEF IInv, TypeOK, OwnerServes, CopiesCounted
  <2> QED
    BY <2>1, <2>2, <2>3
<1> QED
  BY <1>1, <1>2, <1>3, <1>4, <1>5, <1>6, <1>7, <1>8, <1>9, <1>10 DEF IInv

(* The worker has nothing unrecorded left to account for. *)
LEMMA CaughtPreserves ==
  ASSUME IInv, NEW w \in Workers, Caught(w)
  PROVE  IInv'
<1> USE DEF Caught, Goto, Written, IsFinalAttempt, rows, jobs, history
<1>0. TypeOK /\ \A x \in Workers : pc[x] # "idle" => serving[x] \in Messages
  BY Served DEF IInv
<1>1. TypeOK'
  BY <1>0 DEF TypeOK, Labels, Statuses, JobStates
<1>2. IdleServesNone'
  BY <1>0 DEF IInv, TypeOK, IdleServesNone
<1>3. QueueIsWaiting'
  BY <1>0 DEF IInv, TypeOK, QueueIsWaiting
<1>4. OwnerServes'
  BY <1>0 DEF IInv, TypeOK, OwnerServes, IdleServesNone
<1>5. RowsKnown'
  BY <1>0 DEF IInv, TypeOK, RowsKnown
<1>6. AttemptsLeft'
  BY <1>0 DEF IInv, TypeOK, AttemptsLeft
<1>7. SenderHoldsLock'
  BY <1>0 DEF IInv, TypeOK, SenderHoldsLock, Sending
<1>8. DoneIsSettled'
  BY <1>0 DEF IInv, TypeOK, DoneIsSettled, RowsKnown
<1>9. CompletedIsSettled'
  BY <1>0 DEF IInv, TypeOK, CompletedIsSettled, DoneIsSettled, RowsKnown
<1>10. CopiesCounted'
  BY <1>0 DEF IInv, TypeOK, CopiesCounted, RowsKnown, OwnerServes
<1> QED
  BY <1>1, <1>2, <1>3, <1>4, <1>5, <1>6, <1>7, <1>8, <1>9, <1>10 DEF IInv

(* A worker that returns settled its row before. *)
LEMMA ReturnPreserves ==
  ASSUME IInv, NEW w \in Workers, Return(w)
  PROVE  IInv'
<1> USE DEF Return, Owns, Release, LeftTo, Leave, rows, history
<1>0. TypeOK /\ \A x \in Workers : pc[x] # "idle" => serving[x] \in Messages
  BY Served DEF IInv
<1>a. serving[w] \in Messages /\ job[serving[w]] # "none" /\ status[serving[w]] # "absent"
  <2>1. pc[w] # "idle"
    OBVIOUS
  <2> QED
    BY <2>1, ServedIsKnown
<1>b. Owns(w) => job[serving[w]] = "active"
  BY <1>a, OwnedIsActive
<1>c. \/ ~ Owns(w) /\ job' = job /\ owner' = owner
      \/ /\ Owns(w)
         /\ \E s \in {"completed"} : job' = [job EXCEPT ![serving[w]] = s]
         /\ owner' = [owner EXCEPT ![serving[w]] = NoWorker]
  OBVIOUS
<1>d. /\ pc' = [pc EXCEPT ![w] = "idle"]
      /\ serving' = [serving EXCEPT ![w] = NoMessage]
      /\ late' = late /\ overtaken' = overtaken
      /\ \A c \in Convs : lock'[c] = lock[c] \/ lock[c] = w
  OBVIOUS
<1>1. TypeOK'
  <2>1. job' \in [Messages -> JobStates] /\ owner' \in [Messages -> Workers \cup {NoWorker}]
    <3>1. job \in [Messages -> JobStates] /\ owner \in [Messages -> Workers \cup {NoWorker}]
      BY <1>0 DEF TypeOK
    <3>2. "completed" \in JobStates
      BY DEF JobStates
    <3>3. /\ job' = job \/ job' = [job EXCEPT ![serving[w]] = "completed"]
          /\ owner' = owner \/ owner' = [owner EXCEPT ![serving[w]] = NoWorker]
      OBVIOUS
    <3> HIDE DEF Return
    <3> QED
      BY <3>1, <3>2, <3>3
  <2>2. lock' \in [Convs -> Workers \cup {NoWorker, Orphan}]
    <3>1. Release(w)
      OBVIOUS
    <3> HIDE DEF Return
    <3> QED
      BY <1>0, <3>1 DEF TypeOK
  <2>3. /\ pc' \in [Workers -> Labels]
        /\ serving' \in [Workers -> Messages \cup {NoMessage}]
    <3> HIDE DEF Return
    <3> QED
      BY <1>0, <1>d DEF TypeOK, Labels
  <2> QED
    BY <1>0, <2>1, <2>2, <2>3 DEF TypeOK
<1>2. IdleServesNone'
  BY <1>0 DEF IInv, TypeOK, IdleServesNone
<1>3. QueueIsWaiting'
  BY <1>0, <1>a, <1>b, <1>c DEF IInv, TypeOK, QueueIsWaiting
<1>4. OwnerServes'
  <2> HIDE DEF Return
  <2> QED
    BY <1>0, <1>a, <1>b, <1>c, <1>d DEF IInv, TypeOK, OwnerServes, IdleServesNone
<1>5. RowsKnown'
  BY <1>0, <1>a, <1>c DEF IInv, TypeOK, RowsKnown
<1>6. AttemptsLeft'
  BY <1>0 DEF IInv, TypeOK, AttemptsLeft
<1>7. SenderHoldsLock'
  <2> HIDE DEF Return
  <2> QED
    BY <1>0, <1>d, OutboundAssumption DEF IInv, TypeOK, SenderHoldsLock, Sending
<1>8. DoneIsSettled'
  BY <1>0 DEF IInv, TypeOK, DoneIsSettled, RowsKnown
<1>9. CompletedIsSettled'
  BY <1>0 DEF IInv, TypeOK, CompletedIsSettled, DoneIsSettled, RowsKnown
<1>10. CopiesCounted'
  BY <1>0 DEF IInv, TypeOK, CopiesCounted, RowsKnown, OwnerServes
<1> QED
  BY <1>1, <1>2, <1>3, <1>4, <1>5, <1>6, <1>7, <1>8, <1>9, <1>10 DEF IInv

(* A failed attempt was one of those left. *)
LEMMA ThrowPreserves ==
  ASSUME IInv, NEW w \in Workers, Throw(w)
  PROVE  IInv'
<1> USE DEF Throw, Owns, Release, LeftTo, Leave, Counted, RetriesLeft, rows, history
<1>0. TypeOK /\ \A x \in Workers : pc[x] # "idle" => serving[x] \in Messages
  BY Served DEF IInv
<1>a. serving[w] \in Messages /\ job[serving[w]] # "none" /\ status[serving[w]] # "absent"
  <2>1. pc[w] # "idle"
    OBVIOUS
  <2> QED
    BY <2>1, ServedIsKnown
<1>b. Owns(w) => job[serving[w]] = "active"
  BY <1>0, <1>a DEF IInv, OwnerServes
<1>c. \/ ~ Owns(w) /\ job' = job /\ owner' = owner
      \/ /\ Owns(w)
         /\ \E s \in {"delayed", "failed"} : job' = [job EXCEPT ![serving[w]] = s]
         /\ owner' = [owner EXCEPT ![serving[w]] = NoWorker]
  OBVIOUS
<1>d. /\ pc' = [pc EXCEPT ![w] = "idle"]
      /\ serving' = [serving EXCEPT ![w] = NoMessage]
      /\ late' = late /\ overtaken' = overtaken
      /\ \A c \in Convs : lock'[c] = lock[c] \/ lock[c] = w
  OBVIOUS
<1>1. TypeOK'
  <2>1. job' \in [Messages -> JobStates] /\ owner' \in [Messages -> Workers \cup {NoWorker}]
    BY <1>0, <1>a, <1>c DEF TypeOK, JobStates
  <2>2. failures' \in [Messages -> 0 .. Attempts]
    <3>1. Owns(w) => failures[serving[w]] + 1 \in 0 .. Attempts
      <4>1. failures[serving[w]] \in 0 .. Attempts
        BY <1>0, <1>a DEF TypeOK
      <4>2. Owns(w) => failures[serving[w]] < Attempts
        BY <1>a, <1>b DEF IInv, AttemptsLeft
      <4> HIDE DEF Owns, Throw
      <4> QED
        BY <4>1, <4>2
    <3>2. \/ failures' = failures
          \/ Owns(w) /\ failures' = [failures EXCEPT ![serving[w]] = failures[serving[w]] + 1]
      OBVIOUS
    <3> QED
      BY <1>0, <1>a, <3>1, <3>2 DEF TypeOK
  <2>3. lock' \in [Convs -> Workers \cup {NoWorker, Orphan}]
    BY <1>0 DEF TypeOK
  <2>4. /\ pc' \in [Workers -> Labels]
        /\ serving' \in [Workers -> Messages \cup {NoMessage}]
    BY <1>0 DEF TypeOK, Labels
  <2> QED
    BY <1>0, <2>1, <2>2, <2>3, <2>4 DEF TypeOK
<1>2. IdleServesNone'
  BY <1>0 DEF IInv, TypeOK, IdleServesNone
<1>3. QueueIsWaiting'
  BY <1>0, <1>a, <1>b, <1>c DEF IInv, TypeOK, QueueIsWaiting
<1>4. OwnerServes'
  <2> HIDE DEF Throw
  <2> QED
    BY <1>0, <1>a, <1>b, <1>c, <1>d DEF IInv, TypeOK, OwnerServes, IdleServesNone
<1>5. RowsKnown'
  BY <1>0, <1>a, <1>c DEF IInv, TypeOK, RowsKnown
<1>6. AttemptsLeft'
  BY <1>0 DEF IInv, TypeOK, AttemptsLeft
<1>7. SenderHoldsLock'
  <2> HIDE DEF Throw
  <2> QED
    BY <1>0, <1>d, OutboundAssumption DEF IInv, TypeOK, SenderHoldsLock, Sending
<1>8. DoneIsSettled'
  BY <1>0 DEF IInv, TypeOK, DoneIsSettled, RowsKnown
<1>9. CompletedIsSettled'
  BY <1>0 DEF IInv, TypeOK, CompletedIsSettled, DoneIsSettled, RowsKnown
<1>10. CopiesCounted'
  BY <1>0 DEF IInv, TypeOK, CopiesCounted, RowsKnown, OwnerServes
<1> QED
  BY <1>1, <1>2, <1>3, <1>4, <1>5, <1>6, <1>7, <1>8, <1>9, <1>10 DEF IInv

(* The delayed job joins the end of the queue. *)
LEMMA PromotePreserves ==
  ASSUME IInv, NEW m \in Messages, Promote(m)
  PROVE  IInv'
<1> USE DEF Promote, rows, workers, history
<1>0. TypeOK /\ \A x \in Workers : pc[x] # "idle" => serving[x] \in Messages
  BY Served DEF IInv
<1>1. TypeOK'
  <2>1. queue' \in Seq(Messages)
    BY <1>0 DEF TypeOK
  <2> QED
    BY <1>0, <2>1 DEF TypeOK, JobStates
<1>2. IdleServesNone'
  BY <1>0 DEF IInv, TypeOK, IdleServesNone
<1>3. QueueIsWaiting'
  BY <1>0 DEF IInv, TypeOK, QueueIsWaiting
<1>4. OwnerServes'
  BY <1>0 DEF IInv, TypeOK, OwnerServes, IdleServesNone
<1>5. RowsKnown'
  BY <1>0 DEF IInv, TypeOK, RowsKnown
<1>6. AttemptsLeft'
  BY <1>0 DEF IInv, TypeOK, AttemptsLeft
<1>7. SenderHoldsLock'
  BY <1>0 DEF IInv, TypeOK, SenderHoldsLock, Sending
<1>8. DoneIsSettled'
  BY <1>0 DEF IInv, TypeOK, DoneIsSettled, RowsKnown
<1>9. CompletedIsSettled'
  BY <1>0 DEF IInv, TypeOK, CompletedIsSettled, DoneIsSettled, RowsKnown
<1>10. CopiesCounted'
  BY <1>0 DEF IInv, TypeOK, CopiesCounted, RowsKnown, OwnerServes
<1> QED
  BY <1>1, <1>2, <1>3, <1>4, <1>5, <1>6, <1>7, <1>8, <1>9, <1>10 DEF IInv

(* A job taken from a running worker counts as overtaken from now on. *)
LEMMA StallPreserves ==
  ASSUME IInv, NEW m \in Messages, Stall(m)
  PROVE  IInv'
<1> USE DEF Stall, rows, workers
<1>0. TypeOK /\ \A x \in Workers : pc[x] # "idle" => serving[x] \in Messages
  BY Served DEF IInv
<1>a. status[m] # "absent"
  BY <1>0 DEF IInv, RowsKnown
<1>b. \/ job' = [job EXCEPT ![m] = "waiting"] /\ queue' = <<m>> \o queue
      \/ job' = [job EXCEPT ![m] = "failed"] /\ queue' = queue
  OBVIOUS
<1>1. TypeOK'
  <2>1. job' \in [Messages -> JobStates] /\ owner' \in [Messages -> Workers \cup {NoWorker}]
    BY <1>0, <1>b DEF TypeOK, JobStates
  <2>2. stalls' \in [Messages -> 0 .. MaxStalls]
    <3>1. \/ stalls' = stalls
          \/ stalls[m] < MaxStalls /\ stalls' = [stalls EXCEPT ![m] = stalls[m] + 1]
      OBVIOUS
    <3>2. stalls[m] < MaxStalls => stalls[m] + 1 \in 0 .. MaxStalls
      BY <1>0 DEF TypeOK
    <3> QED
      BY <1>0, <3>1, <3>2 DEF TypeOK
  <2>3. queue' \in Seq(Messages)
    <3>1. <<m>> \in Seq(Messages) /\ queue \in Seq(Messages)
      BY <1>0 DEF TypeOK
    <3>2. <<m>> \o queue \in Seq(Messages)
      BY <3>1
    <3> QED
      BY <1>b, <3>1, <3>2
  <2> QED
    BY <1>0, <2>1, <2>2, <2>3 DEF TypeOK
<1>2. IdleServesNone'
  BY <1>0 DEF IInv, TypeOK, IdleServesNone
<1>3. QueueIsWaiting'
  <2>1. \A i \in 1 .. Len(queue) : queue[i] # m /\ queue[i] \in Messages
    BY <1>0 DEF IInv, TypeOK, QueueIsWaiting
  <2>2. CASE job' = [job EXCEPT ![m] = "waiting"] /\ queue' = <<m>> \o queue
    <3>1. Len(queue') = Len(queue) + 1 /\ queue'[1] = m
      BY <1>0, <2>2 DEF TypeOK
    <3>2. \A i \in 2 .. Len(queue') : queue'[i] = queue[i - 1] /\ i - 1 \in 1 .. Len(queue)
      BY <1>0, <2>2 DEF TypeOK
    <3>3. \A i \in 1 .. Len(queue') : i = 1 \/ i \in 2 .. Len(queue')
      BY <1>0, <3>1 DEF TypeOK
    <3>4. \A i \in 1 .. Len(queue') : job'[queue'[i]] = "waiting"
      BY <1>0, <2>1, <2>2, <3>1, <3>2, <3>3 DEF IInv, TypeOK, QueueIsWaiting
    <3>5. \A i, j \in 1 .. Len(queue') : queue'[i] = queue'[j] => i = j
      <4> SUFFICES ASSUME NEW i \in 1 .. Len(queue'), NEW j \in 1 .. Len(queue'),
                          queue'[i] = queue'[j]
                   PROVE  i = j
        OBVIOUS
      <4>1. CASE i = 1 \/ j = 1
        BY <4>1, <2>1, <3>1, <3>2, <3>3
      <4>2. CASE i # 1 /\ j # 1
        <5>1. /\ i - 1 \in 1 .. Len(queue) /\ queue'[i] = queue[i - 1]
              /\ j - 1 \in 1 .. Len(queue) /\ queue'[j] = queue[j - 1]
          BY <4>2, <3>2, <3>3
        <5>2. i - 1 = j - 1
          BY <5>1 DEF IInv, QueueIsWaiting
        <5>3. i \in Int /\ j \in Int
          BY <3>1, <1>0 DEF TypeOK
        <5> QED
          BY <5>2, <5>3
      <4> QED
        BY <4>1, <4>2
    <3> QED
      BY <3>4, <3>5 DEF QueueIsWaiting
  <2>3. CASE job' = [job EXCEPT ![m] = "failed"] /\ queue' = queue
    BY <1>0, <2>1, <2>3 DEF IInv, TypeOK, QueueIsWaiting
  <2> QED
    BY <1>b, <2>2, <2>3
<1>4. OwnerServes'
  BY <1>0 DEF IInv, TypeOK, OwnerServes, IdleServesNone
<1>5. RowsKnown'
  <2>1. \E s \in {"waiting", "failed"} : job' = [job EXCEPT ![m] = s]
    BY <1>b
  <2> QED
    BY <1>0, <1>a, <2>1 DEF IInv, TypeOK, RowsKnown
<1>6. AttemptsLeft'
  BY <1>0 DEF IInv, TypeOK, AttemptsLeft
<1>7. SenderHoldsLock'
  BY <1>0 DEF IInv, TypeOK, SenderHoldsLock, Sending
<1>8. DoneIsSettled'
  BY <1>0 DEF IInv, TypeOK, DoneIsSettled, RowsKnown
<1>9. CompletedIsSettled'
  BY <1>0 DEF IInv, TypeOK, CompletedIsSettled, DoneIsSettled, RowsKnown
<1>10. CopiesCounted'
  BY <1>0 DEF IInv, TypeOK, CopiesCounted, RowsKnown, OwnerServes
<1> QED
  BY <1>1, <1>2, <1>3, <1>4, <1>5, <1>6, <1>7, <1>8, <1>9, <1>10 DEF IInv

(* What the worker had not recorded becomes a stray. *)
LEMMA CrashPreserves ==
  ASSUME IInv, NEW w \in Workers, Crash(w)
  PROVE  IInv'
<1> USE DEF Crash, LeftTo, CountStray, Leave, rows
<1>0. TypeOK /\ \A x \in Workers : pc[x] # "idle" => serving[x] \in Messages
  BY Served DEF IInv
<1>1. TypeOK'
  <2>1. owner' \in [Messages -> Workers \cup {NoWorker}]
    BY <1>0 DEF TypeOK
  <2>2. lock' \in [Convs -> Workers \cup {NoWorker, Orphan}]
    BY <1>0 DEF TypeOK
  <2>3. strays' \in [Messages -> Nat]
    BY <1>0 DEF TypeOK
  <2>4. /\ pc' \in [Workers -> Labels]
        /\ serving' \in [Workers -> Messages \cup {NoMessage}]
    BY <1>0 DEF TypeOK, Labels
  <2> QED
    BY <1>0, <2>1, <2>2, <2>3, <2>4 DEF TypeOK
<1>2. IdleServesNone'
  BY <1>0 DEF IInv, TypeOK, IdleServesNone
<1>3. QueueIsWaiting'
  BY <1>0 DEF IInv, TypeOK, QueueIsWaiting
<1>4. OwnerServes'
  BY <1>0 DEF IInv, TypeOK, OwnerServes, IdleServesNone
<1>5. RowsKnown'
  BY <1>0 DEF IInv, TypeOK, RowsKnown
<1>6. AttemptsLeft'
  BY <1>0 DEF IInv, TypeOK, AttemptsLeft
<1>7. SenderHoldsLock'
  BY <1>0 DEF IInv, TypeOK, SenderHoldsLock, Sending
<1>8. DoneIsSettled'
  BY <1>0 DEF IInv, TypeOK, DoneIsSettled, RowsKnown
<1>9. CompletedIsSettled'
  BY <1>0 DEF IInv, TypeOK, CompletedIsSettled, DoneIsSettled, RowsKnown
<1>10. CopiesCounted'
  <2> SUFFICES ASSUME NEW m \in Messages \ overtaken
               PROVE  CopiesCounted!(m)'
    BY DEF CopiesCounted
  <2>1. \A v \in Workers : serving'[v] = m => v # w /\ serving[v] = m /\ pc'[v] = pc[v]
    BY <1>0 DEF TypeOK
  <2>2. CASE serving[w] = m
    <3>1. pc[w] # "idle" /\ owner[m] = w
      BY <1>0, <2>2 DEF IInv, OwnerServes, TypeOK
    <3>2. \A v \in Workers : serving[v] = m => v = w
      BY <1>0, <3>1 DEF IInv, OwnerServes, TypeOK
    <3>3. CASE pc[w] = "mark"
      <4>1. strays'[m] = strays[m] + 1
        BY <1>0, <2>2, <3>3 DEF TypeOK
      <4>2. sent[m] <= strays'[m]
        BY <1>0, <4>1 DEF IInv, CopiesCounted, TypeOK
      <4>3. sent[m] \in Nat /\ strays'[m] \in Nat /\ sent' = sent
        BY <1>0, <4>1 DEF TypeOK
      <4> QED
        BY <2>1, <3>2, <4>2, <4>3
    <3>4. CASE pc[w] # "mark"
      BY <1>0, <2>1, <3>2, <3>4 DEF IInv, CopiesCounted, TypeOK
    <3> QED
      BY <3>3, <3>4
  <2>3. CASE serving[w] # m
    <3>1. strays'[m] = strays[m]
      BY <1>0, <2>3 DEF TypeOK
    <3> QED
      BY <1>0, <2>1, <2>3, <3>1 DEF IInv, CopiesCounted, TypeOK
  <2> QED
    BY <2>2, <2>3
<1> QED
  BY <1>1, <1>2, <1>3, <1>4, <1>5, <1>6, <1>7, <1>8, <1>9, <1>10 DEF IInv

(* The worker whose lock expires is late from now on. *)
LEMMA ExpirePreserves ==
  ASSUME IInv, NEW c \in Convs, Expire(c)
  PROVE  IInv'
<1> USE DEF Expire, rows, jobs, workers
<1>0. TypeOK /\ \A x \in Workers : pc[x] # "idle" => serving[x] \in Messages
  BY Served DEF IInv
<1>1. TypeOK'
  BY <1>0 DEF TypeOK, Labels, Statuses, JobStates
<1>2. IdleServesNone'
  BY <1>0 DEF IInv, TypeOK, IdleServesNone
<1>3. QueueIsWaiting'
  BY <1>0 DEF IInv, TypeOK, QueueIsWaiting
<1>4. OwnerServes'
  BY <1>0 DEF IInv, TypeOK, OwnerServes, IdleServesNone
<1>5. RowsKnown'
  BY <1>0 DEF IInv, TypeOK, RowsKnown
<1>6. AttemptsLeft'
  BY <1>0 DEF IInv, TypeOK, AttemptsLeft
<1>7. SenderHoldsLock'
  BY <1>0 DEF IInv, TypeOK, SenderHoldsLock, Sending
<1>8. DoneIsSettled'
  BY <1>0 DEF IInv, TypeOK, DoneIsSettled, RowsKnown
<1>9. CompletedIsSettled'
  BY <1>0 DEF IInv, TypeOK, CompletedIsSettled, DoneIsSettled, RowsKnown
<1>10. CopiesCounted'
  BY <1>0 DEF IInv, TypeOK, CopiesCounted, RowsKnown, OwnerServes
<1> QED
  BY <1>1, <1>2, <1>3, <1>4, <1>5, <1>6, <1>7, <1>8, <1>9, <1>10 DEF IInv

(* The invariant holds at first. *)
LEMMA InitEstablishes == Init => IInv
BY DEF Init, IInv, TypeOK, Labels, Statuses, JobStates, IdleServesNone, QueueIsWaiting,
  OwnerServes, RowsKnown, AttemptsLeft, SenderHoldsLock, Sending, DoneIsSettled,
  CompletedIsSettled, CopiesCounted

(* A stuttering step changes nothing the invariant is about. *)
LEMMA StutterPreserves == IInv /\ UNCHANGED vars => IInv'
BY DEF IInv, vars, rows, jobs, workers, history, TypeOK, IdleServesNone, QueueIsWaiting,
  OwnerServes, RowsKnown, AttemptsLeft, SenderHoldsLock, Sending, DoneIsSettled,
  CompletedIsSettled, CopiesCounted

(* Every step keeps the invariant, action by action. *)
LEMMA NextPreserves == IInv /\ [Next]_vars => IInv'
<1> SUFFICES ASSUME IInv, [Next]_vars PROVE IInv'
  OBVIOUS
<1>1. ASSUME NEW m \in Messages, Produce(m) \/ Promote(m) \/ Stall(m) PROVE IInv'
  BY <1>1, CreatePreserves, EnqueuePreserves, LoseEventPreserves, DeletePreserves,
     ReceiptPreserves, PromotePreserves, StallPreserves DEF Produce
<1>2. ASSUME NEW w \in Workers, Process(w) \/ Crash(w) PROVE IInv'
  BY <1>2, TakePreserves, ReadPreserves, FailTerminalPreserves, LockPreserves, SendPreserves,
     MarkPreserves, CaughtPreserves, ReturnPreserves, ThrowPreserves, CrashPreserves DEF Process
<1>3. ASSUME NEW c \in Convs, Expire(c) PROVE IInv'
  BY <1>3, ExpirePreserves
<1> QED
  BY <1>1, <1>2, <1>3, StutterPreserves DEF Next

(* The invariant holds in every reachable state. *)
LEMMA Inductive == Spec => []IInv
BY InitEstablishes, NextPreserves, PTL DEF Spec

-----------------------------------------------------------------------------
(* The state stays well typed: no job gets more than Attempts attempts, and *)
(* none is taken back more than MaxStalls times.                            *)
THEOREM OutboundTypeCorrect == Spec => []TypeOK
<1>1. IInv => TypeOK
  BY DEF IInv
<1> QED
  BY <1>1, Inductive, PTL

(* A customer gets a message twice only after a copy that left no externalId *)
(* in the row, or when a job was taken from a worker that still ran.         *)
THEOREM NoUnexplainedDuplicate == Spec => []DuplicatesAreStrays
<1>1. IInv => DuplicatesAreStrays
  BY DEF IInv, CopiesCounted, DuplicatesAreStrays
<1> QED
  BY <1>1, Inductive, PTL

(* Two workers send for one conversation only after a lock expired. *)
THEOREM LockSerialisesSenders == Spec => []OneSenderPerConversation
<1>1. IInv => OneSenderPerConversation
  BY DEF IInv, SenderHoldsLock, OneSenderPerConversation
<1> QED
  BY <1>1, Inductive, PTL

(* A completed job leaves no PENDING row. *)
THEOREM CompletedJobsSettle == Spec => []CompletedIsSettled
<1>1. IInv => CompletedIsSettled
  BY DEF IInv
<1> QED
  BY <1>1, Inductive, PTL

(* A row that shows a sent message is not undone by a retry: only Mark,      *)
(* FailTerminal and Caught write back, and their worker found no externalId. *)
THEOREM RetriesUndoNothing == Spec => SettledStays
<1> DEFINE Kept(m) ==
      external[m] /\ status[m] \in {"SENT", "DELIVERED"} /\ m \notin overtaken
        => \/ status'[m] \in {"DELIVERED", "deleted"}
           \/ status'[m] = status[m]
<1>1. ASSUME IInv, [Next]_vars, NEW m \in Messages PROVE Kept(m)
  <2> SUFFICES ASSUME external[m], status[m] \in {"SENT", "DELIVERED"}, m \notin overtaken,
                      status' # status
               PROVE  status'[m] \in {"DELIVERED", "deleted"} \/ status'[m] = status[m]
    OBVIOUS
  <2>1. TypeOK
    BY <1>1 DEF IInv
  <2>2. ASSUME NEW n \in Messages, Create(n) \/ Delete(n) \/ Receipt(n)
        PROVE  status'[m] \in {"DELIVERED", "deleted"} \/ status'[m] = status[m]
    BY <2>1, <2>2 DEF TypeOK, Create, Created, Delete, Receipt
  <2>3. ASSUME NEW w \in Workers, FailTerminal(w) \/ Mark(w) \/ Caught(w)
        PROVE  status'[m] = status[m]
    <3>1. pc[w] \in {"unbound", "mark", "caught"}
      BY <2>3 DEF FailTerminal, Mark, Caught
    <3>2. serving[w] # m
      BY <1>1, <3>1 DEF IInv, CopiesCounted
    <3> QED
      BY <2>1, <2>3, <3>2 DEF TypeOK, FailTerminal, Mark, Caught, Written, WriteFails, rows
  <2>4. \/ \E n \in Messages : Create(n) \/ Delete(n) \/ Receipt(n)
        \/ \E w \in Workers : FailTerminal(w) \/ Mark(w) \/ Caught(w)
    <3>1. CASE Next
      BY <3>1 DEF Next, Produce, Process, Enqueue, LoseEvent, Promote, Stall, Take, Read, Lock,
        Send, Return, Throw, Crash, Expire, rows
    <3>2. CASE UNCHANGED vars
      BY <3>2 DEF vars, rows
    <3> QED
      BY <1>1, <3>1, <3>2
  <2> QED
    BY <2>2, <2>3, <2>4
<1>2. IInv /\ [Next]_vars => [\A m \in Messages : Kept(m)]_vars
  BY <1>1
<1> QED
  BY <1>2, Inductive, PTL DEF Spec, SettledStays

=============================================================================
