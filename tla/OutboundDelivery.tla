--------------------------- MODULE OutboundDelivery ---------------------------
(***************************************************************************)
(* The delivery of outgoing messages: MessagesService.create commits a     *)
(* PENDING row and emits message.created, OutboundMessageListener adds a   *)
(* job to the message-outbound queue, and OutboundDeliveryProcessor sends  *)
(* the message through the channel's adapter under a Redis lock of the     *)
(* conversation and writes the outcome back.                               *)
(*                                                                         *)
(* One worker is one of the processor's concurrent slots (of any server).  *)
(* The queue (BullMQ) is external: it is modelled by what the processor    *)
(* relies on, first in first out, a bounded number of attempts with a      *)
(* delay between them, and the return of a job whose worker stopped        *)
(* renewing it.  Messages are numbered in the order they were created.     *)
(*                                                                         *)
(* A definition said to be a slip is not part of the model: it is the      *)
(* definition that follows it with a plausible bug, kept to show that the  *)
(* properties would notice.                                                *)
(***************************************************************************)
EXTENDS Naturals, Sequences

CONSTANTS Messages,   \* the outgoing, public messages: numbers in order of creation
          Convs,      \* conversations
          ConvOf,     \* ConvOf[m]: the conversation of message m
          Workers,    \* the slots of OutboundDeliveryProcessor
          NoMessage, NoWorker,
          Orphan,     \* whoever took the lock is gone: only the TTL frees it
          Attempts,   \* job.opts.attempts
          MaxStalls,  \* how often the queue takes a job back before it fails it
          Faults      \* what may go wrong, see FaultKinds

FaultKinds ==
  { "crash",       \* a server dies
    "pause",       \* a worker runs on after the queue took its job back
    "expiry",      \* a worker holds the lock for longer than its TTL
    "refusal",     \* the provider refuses the message
    "lostAnswer",  \* the provider accepts it and its answer is lost
    "noId",        \* its answer names no message, as those of Zalo may
    "database",    \* a statement of the processor fails
    "redis",       \* the lock cannot be asked for
    "deletion",    \* an agent deletes the message
    "unbound" }    \* no channel, no adapter or no recipient

ASSUME OutboundAssumption ==
  /\ Messages \subseteq Nat
  /\ ConvOf \in [Messages -> Convs]
  /\ NoMessage \notin Messages
  /\ NoWorker \notin Workers
  /\ Orphan \notin Workers \cup {NoWorker}
  /\ Attempts \in Nat \ {0}
  /\ MaxStalls \in Nat
  /\ Faults \subseteq FaultKinds

VARIABLES
  status,    \* status[m]: the row's deliveryStatus, "absent" before and "deleted" after it
  external,  \* external[m]: the row has an externalId
  job,       \* job[m]: the state of job out_<m>
  queue,     \* the jobs that wait for a worker, first in first out
  failures,  \* failures[m]: the attempts of the job that failed
  stalls,    \* stalls[m]: how often the queue took the job back
  owner,     \* owner[m]: the worker that holds the job
  pc,        \* pc[w]: where worker w is in process()
  serving,   \* serving[w]: the message worker w is delivering
  made,      \* made[w]: attemptsMade in the copy of the job the worker was given
  lock,      \* lock[c]: who holds lock:outbound:conv:<c>
  sent,      \* history: how many copies of m the provider accepted
  strays,    \* history: how many of them left no externalId in the row
  late,      \* history: the workers whose lock expired under them
  overtaken  \* history: the messages whose job was taken from a running worker

rows == <<status, external>>
jobs == <<job, queue, failures, stalls, owner>>
workers == <<pc, serving, made>>
history == <<sent, strays, late, overtaken>>
vars == <<rows, jobs, workers, lock, history>>

Init ==
  /\ status = [m \in Messages |-> "absent"]
  /\ external = [m \in Messages |-> FALSE]
  /\ job = [m \in Messages |-> "none"]
  /\ queue = <<>>
  /\ failures = [m \in Messages |-> 0]
  /\ stalls = [m \in Messages |-> 0]
  /\ owner = [m \in Messages |-> NoWorker]
  /\ pc = [w \in Workers |-> "idle"]
  /\ serving = [w \in Workers |-> NoMessage]
  /\ made = [w \in Workers |-> 0]
  /\ lock = [c \in Convs |-> NoWorker]
  /\ sent = [m \in Messages |-> 0]
  /\ strays = [m \in Messages |-> 0]
  /\ late = {}
  /\ overtaken = {}

-----------------------------------------------------------------------------
(* The producer: a committed row, an event in memory, a job. *)

Created(m) == status[m] # "absent"

Create(m) ==
  /\ ~ Created(m)
  /\ \A n \in Messages : n < m => Created(n)
  /\ status' = [status EXCEPT ![m] = "PENDING"]
  /\ job' = [job EXCEPT ![m] = "due"]
  /\ UNCHANGED <<external, queue, failures, stalls, owner, workers, lock, history>>

Enqueue(m) ==
  /\ job[m] = "due"
  /\ job' = [job EXCEPT ![m] = "waiting"]
  /\ queue' = Append(queue, m)
  /\ UNCHANGED <<rows, failures, stalls, owner, workers, lock, history>>

\* The server dies between the commit and the listener's queue.add: nothing
\* reads the row again.
LoseEvent(m) ==
  /\ "crash" \in Faults
  /\ job[m] = "due"
  /\ job' = [job EXCEPT ![m] = "lost"]
  /\ UNCHANGED <<rows, queue, failures, stalls, owner, workers, lock, history>>

Delete(m) ==
  /\ "deletion" \in Faults
  /\ status[m] \notin {"absent", "deleted"}
  /\ status' = [status EXCEPT ![m] = "deleted"]
  /\ UNCHANGED <<external, jobs, workers, lock, history>>

\* A delivery or read receipt of the provider finds the row by its externalId.
Receipt(m) ==
  /\ external[m]
  /\ status[m] # "deleted"
  /\ status' = [status EXCEPT ![m] = "DELIVERED"]
  /\ UNCHANGED <<external, jobs, workers, lock, history>>

-----------------------------------------------------------------------------
(* process(job), one step per statement that other workers can see. *)

Owns(w) == owner[serving[w]] = w

\* A slip: a row that a receipt moved on no longer counts as sent.
RecordedAsSent(m) == external[m] /\ status[m] = "SENT"
\* A slip: the check for an externalId is left out.
RecordedNever(m) == FALSE
Recorded(m) == external[m] /\ status[m] # "PENDING"

Goto(w, label) == pc' = [pc EXCEPT ![w] = label]

\* A copy reached the provider, and no externalId will tell a later attempt.
CountStray(m) == strays' = [strays EXCEPT ![m] = @ + 1]

Take(w) ==
  /\ pc[w] = "idle"
  /\ queue # <<>>
  /\ LET m == Head(queue) IN
       /\ job' = [job EXCEPT ![m] = "active"]
       /\ owner' = [owner EXCEPT ![m] = w]
       /\ serving' = [serving EXCEPT ![w] = m]
       /\ made' = [made EXCEPT ![w] = failures[m]]
  /\ queue' = Tail(queue)
  /\ late' = late \ {w}
  /\ Goto(w, "read")
  /\ UNCHANGED <<rows, failures, stalls, lock, sent, strays, overtaken>>

\* The row is read here, before the lock, and not again.
Read(w) ==
  /\ pc[w] = "read"
  /\ LET m == serving[w]
         drop == status[m] = "deleted" \/ Recorded(m)
     IN \/ Goto(w, IF drop THEN "done" ELSE "lock")
        \/ "unbound" \in Faults /\ ~ drop /\ Goto(w, "unbound")
        \/ "database" \in Faults /\ Goto(w, "throw")
  /\ UNCHANGED <<rows, jobs, serving, made, lock, history>>

\* markOutboundDelivery finds the row again before it writes it.
Written(m, s, hasExternal) ==
  /\ status[m] # "deleted"
  /\ status' = [status EXCEPT ![m] = s]
  /\ external' = IF hasExternal THEN [external EXCEPT ![m] = TRUE] ELSE external

WriteFails(m) ==
  /\ status[m] = "deleted" \/ "database" \in Faults
  /\ UNCHANGED rows

FailTerminal(w) ==
  /\ pc[w] = "unbound"
  /\ \/ Written(serving[w], "FAILED", FALSE) /\ Goto(w, "done")
     \/ WriteFails(serving[w]) /\ Goto(w, "throw")
  /\ UNCHANGED <<jobs, serving, made, lock, history>>

\* A busy lock, or one that cannot be asked for, costs the job an attempt.
Lock(w) ==
  /\ pc[w] = "lock"
  /\ LET c == ConvOf[serving[w]] IN
       \/ /\ lock[c] = NoWorker
          /\ lock' = [lock EXCEPT ![c] = w]
          /\ Goto(w, "send")
       \/ /\ lock[c] # NoWorker \/ "redis" \in Faults
          /\ Goto(w, "throw")
          /\ UNCHANGED lock
  /\ UNCHANGED <<rows, jobs, serving, made, history>>

Send(w) ==
  /\ pc[w] = "send"
  /\ LET m == serving[w]
         accepted == sent' = [sent EXCEPT ![m] = @ + 1]
     IN \/ /\ accepted
           /\ UNCHANGED strays
           /\ Goto(w, "mark")
        \/ /\ "lostAnswer" \in Faults
           /\ accepted
           /\ CountStray(m)
           /\ Goto(w, "caught")
        \/ /\ "refusal" \in Faults
           /\ UNCHANGED <<sent, strays>>
           /\ Goto(w, "caught")
  /\ UNCHANGED <<rows, jobs, serving, made, lock, late, overtaken>>

Mark(w) ==
  /\ pc[w] = "mark"
  /\ LET m == serving[w] IN
       \/ Written(m, "SENT", TRUE) /\ Goto(w, "done") /\ UNCHANGED strays
       \/ "noId" \in Faults /\ Written(m, "SENT", FALSE) /\ Goto(w, "done") /\ CountStray(m)
       \/ WriteFails(m) /\ Goto(w, "caught") /\ CountStray(m)
  /\ UNCHANGED <<jobs, serving, made, lock, sent, late, overtaken>>

IsFinalAttempt(w) == made[w] >= Attempts

\* The catch block: the final attempt writes FAILED and returns, unless the write
\* throws in its turn; an earlier one rethrows.
Caught(w) ==
  /\ pc[w] = "caught"
  /\ LET m == serving[w] IN
       \E writes \in IF "database" \in Faults THEN BOOLEAN ELSE {TRUE} :
         IF IsFinalAttempt(w) /\ writes /\ status[m] # "deleted"
           THEN Written(m, "FAILED", FALSE) /\ Goto(w, "done")
           ELSE Goto(w, "throw") /\ UNCHANGED rows
  /\ UNCHANGED <<jobs, serving, made, lock, history>>

LeftTo(w, holder) == [c \in Convs |-> IF lock[c] = w THEN holder ELSE lock[c]]

\* A slip: the lock is deleted without a look at its token.
ReleaseAnyway(w) == lock' = [lock EXCEPT ![ConvOf[serving[w]]] = NoWorker]
\* The finally block frees the lock only for the worker that still holds it; an
\* error of Redis is swallowed there and leaves the lock to its TTL.
Release(w) ==
  \/ lock' = LeftTo(w, NoWorker)
  \/ "redis" \in Faults /\ lock' = LeftTo(w, Orphan)

Leave(w) ==
  /\ pc' = [pc EXCEPT ![w] = "idle"]
  /\ serving' = [serving EXCEPT ![w] = NoMessage]
  /\ UNCHANGED made

\* The outcome of a worker that no longer holds the job is refused by the queue.
Return(w) ==
  /\ pc[w] = "done"
  /\ LET m == serving[w] IN
       IF Owns(w)
         THEN /\ job' = [job EXCEPT ![m] = "completed"]
              /\ owner' = [owner EXCEPT ![m] = NoWorker]
         ELSE UNCHANGED <<job, owner>>
  /\ Release(w)
  /\ Leave(w)
  /\ UNCHANGED <<rows, queue, failures, stalls, history>>

Counted(m) == failures[m] + 1
RetriesLeft(m) == Counted(m) < Attempts

\* A slip: the job moves itself back to the delayed ones, and costs no attempt.
ThrowUncounted(w) ==
  /\ pc[w] = "throw"
  /\ LET m == serving[w] IN
       IF Owns(w)
         THEN /\ job' = [job EXCEPT ![m] = "delayed"]
              /\ owner' = [owner EXCEPT ![m] = NoWorker]
         ELSE UNCHANGED <<job, owner>>
  /\ Release(w)
  /\ Leave(w)
  /\ UNCHANGED <<rows, queue, failures, stalls, history>>

\* A slip: the handler counts its attempt itself, whoever holds the job by then.
ThrowCountsAlways(w) ==
  /\ pc[w] = "throw"
  /\ LET m == serving[w] IN
       /\ failures' = [failures EXCEPT ![m] = Counted(m)]
       /\ IF Owns(w)
            THEN /\ job' = [job EXCEPT ![m] =
                              IF RetriesLeft(m) THEN "delayed" ELSE "failed"]
                 /\ owner' = [owner EXCEPT ![m] = NoWorker]
            ELSE UNCHANGED <<job, owner>>
  /\ Release(w)
  /\ Leave(w)
  /\ UNCHANGED <<rows, queue, stalls, history>>

\* The queue counts the attempt of the worker that still holds the job.
Throw(w) ==
  /\ pc[w] = "throw"
  /\ LET m == serving[w] IN
       IF Owns(w)
         THEN /\ failures' = [failures EXCEPT ![m] = Counted(m)]
              /\ job' = [job EXCEPT ![m] =
                           IF RetriesLeft(m) THEN "delayed" ELSE "failed"]
              /\ owner' = [owner EXCEPT ![m] = NoWorker]
         ELSE UNCHANGED <<job, failures, owner>>
  /\ Release(w)
  /\ Leave(w)
  /\ UNCHANGED <<rows, queue, stalls, history>>

-----------------------------------------------------------------------------
(* The queue, the clock and the servers that die. *)

\* The backoff of a delayed job is over: it goes to the end of the queue.
Promote(m) ==
  /\ job[m] = "delayed"
  /\ job' = [job EXCEPT ![m] = "waiting"]
  /\ queue' = Append(queue, m)
  /\ UNCHANGED <<rows, failures, stalls, owner, workers, lock, history>>

Crash(w) ==
  /\ "crash" \in Faults
  /\ pc[w] # "idle"
  /\ IF pc[w] = "mark" THEN CountStray(serving[w]) ELSE UNCHANGED strays
  /\ owner' = [m \in Messages |-> IF owner[m] = w THEN NoWorker ELSE owner[m]]
  /\ lock' = LeftTo(w, Orphan)
  /\ Leave(w)
  /\ UNCHANGED <<rows, job, queue, failures, stalls, sent, late, overtaken>>

\* A job nobody renews goes back to the head of the queue, or fails when that
\* happened too often.  Its worker has died or, under "pause", runs on.
Stall(m) ==
  /\ job[m] = "active"
  /\ owner[m] = NoWorker \/ "pause" \in Faults
  /\ IF stalls[m] < MaxStalls
       THEN /\ job' = [job EXCEPT ![m] = "waiting"]
            /\ queue' = <<m>> \o queue
            /\ stalls' = [stalls EXCEPT ![m] = @ + 1]
       ELSE job' = [job EXCEPT ![m] = "failed"] /\ UNCHANGED <<queue, stalls>>
  /\ owner' = [owner EXCEPT ![m] = NoWorker]
  /\ overtaken' = IF owner[m] = NoWorker THEN overtaken ELSE overtaken \cup {m}
  /\ UNCHANGED <<rows, failures, workers, lock, sent, strays, late>>

Expire(c) ==
  /\ lock[c] = Orphan \/ (lock[c] # NoWorker /\ "expiry" \in Faults)
  /\ lock' = [lock EXCEPT ![c] = NoWorker]
  /\ late' = late \cup ({lock[c]} \cap Workers)
  /\ UNCHANGED <<rows, jobs, workers, sent, strays, overtaken>>

Produce(m) == Create(m) \/ Enqueue(m) \/ LoseEvent(m) \/ Delete(m) \/ Receipt(m)

Process(w) ==
  \/ Take(w) \/ Read(w) \/ FailTerminal(w) \/ Lock(w)
  \/ Send(w) \/ Mark(w) \/ Caught(w) \/ Return(w) \/ Throw(w)

Next ==
  \/ \E m \in Messages : Produce(m) \/ Promote(m) \/ Stall(m)
  \/ \E w \in Workers : Process(w) \/ Crash(w)
  \/ \E c \in Convs : Expire(c)

Spec == Init /\ [][Next]_vars

\* A free worker polls and goes on, an added job arrives, a delay ends, a job
\* whose worker died is found, and an orphaned lock runs out.  Nothing is
\* promised of users, receipts, crashes, pauses or a lock whose holder lives.
Fairness ==
  /\ \A w \in Workers : WF_vars(Process(w))
  /\ \A m \in Messages :
       /\ WF_vars(Enqueue(m) \/ LoseEvent(m))
       /\ WF_vars(Promote(m))
       /\ WF_vars(owner[m] = NoWorker /\ Stall(m))
  /\ \A c \in Convs : WF_vars(lock[c] = Orphan /\ Expire(c))

FairSpec == Spec /\ Fairness

-----------------------------------------------------------------------------
(* Properties *)

Labels == {"idle", "read", "unbound", "lock", "send", "mark", "caught", "done", "throw"}
Statuses == {"absent", "PENDING", "SENT", "DELIVERED", "FAILED", "deleted"}
JobStates == {"none", "due", "lost", "waiting", "delayed", "active", "completed", "failed"}

\* The type of the state.
TypeOK ==
  /\ status \in [Messages -> Statuses]
  /\ external \in [Messages -> BOOLEAN]
  /\ job \in [Messages -> JobStates]
  /\ queue \in Seq(Messages)
  /\ failures \in [Messages -> 0 .. Attempts]
  /\ stalls \in [Messages -> 0 .. MaxStalls]
  /\ owner \in [Messages -> Workers \cup {NoWorker}]
  /\ pc \in [Workers -> Labels]
  /\ serving \in [Workers -> Messages \cup {NoMessage}]
  /\ made \in [Workers -> 0 .. Attempts]
  /\ lock \in [Convs -> Workers \cup {NoWorker, Orphan}]
  /\ sent \in [Messages -> Nat]
  /\ strays \in [Messages -> Nat]
  /\ late \subseteq Workers
  /\ overtaken \subseteq Messages

\* A message reaches the customer a second time only for a copy that left no
\* externalId in the row, because its answer or its write-back was lost, the
\* answer named none or its worker died between the two, or when the queue took
\* its job from a worker that still ran (the check of processor.ts:61-67).
DuplicatesAreStrays ==
  \A m \in Messages : m \in overtaken \/ sent[m] <= 1 + strays[m]

Sending(w) == pc[w] \in {"send", "mark", "caught"}

\* Two messages of a conversation are handed to the provider at the same time
\* only when the lock of one of the two workers expired under it
\* (processor.ts:115-124).
OneSenderPerConversation ==
  \A v, w \in Workers :
    /\ Sending(v) /\ Sending(w)
    /\ ConvOf[serving[v]] = ConvOf[serving[w]]
    /\ {v, w} \cap late = {}
    => v = w

\* A job the queue counts as done has settled its message: the row was sent,
\* marked FAILED or deleted, and never stays PENDING.
CompletedIsSettled ==
  \A m \in Messages : job[m] = "completed" => status[m] # "PENDING"

\* What a worker writes back never undoes what the row shows: a row that is
\* SENT or DELIVERED under an externalId does not become PENDING, FAILED or SENT
\* again, whatever is retried, unless the job was taken from a worker that still
\* ran (applyDeliveryTransition checks no previous status).
SettledStays ==
  [][\A m \in Messages :
       external[m] /\ status[m] \in {"SENT", "DELIVERED"} /\ m \notin overtaken
         => \/ status'[m] \in {"DELIVERED", "deleted"}
            \/ status'[m] = status[m]]_vars

Ended(m) == job[m] \in {"completed", "failed"}

\* Every job ends: no crash, contention or retry keeps a message in the queue.
JobsEnd == \A m \in Messages : job[m] = "waiting" ~> Ended(m)

\* What 06-integrations.md says of a delivery that failed for good: its row is
\* FAILED.
FailedJobsAreMarked ==
  \A m \in Messages : job[m] = "failed" => status[m] \in {"FAILED", "deleted"}

\* What the processor's comment says of the lock: messages of a conversation
\* reach the provider in the order they were created.
InOrder ==
  [][\A m, n \in Messages :
       m < n /\ ConvOf[m] = ConvOf[n] /\ sent[m] = 0 /\ sent'[m] > 0 => sent[n] = 0]_vars

=============================================================================
