------------------------ MODULE ChannelIngestionProofs ------------------------
(***************************************************************************)
(* ChannelIngestion for every number of events, messages, conversations,   *)
(* workers, agents, attempts, deliveries and faults.                       *)
(***************************************************************************)
EXTENDS ChannelIngestion, TLAPS

-----------------------------------------------------------------------------
(* The inductive invariant. *)

\* A busy worker is at a message of its event, or past the last; an agent's
\* request is about a conversation.
BusyOn ==
  /\ \A w \in Workers :
       /\ at[w] # "idle" => event[w] \in Events
       /\ at[w] = "idle" => event[w] = Nobody /\ ~bad[w]
       /\ at[w] \in PerMessage => pos[w] \in 1 .. Len(MessagesOf[event[w]])
       /\ at[w] = "closing" => pos[w] = Len(MessagesOf[event[w]]) + 1
       /\ at[w] \in {"waking", "reading", "saving"} => conv[w] \in Convs
  /\ \A a \in Agents : desk[a] # Idle => desk[a].conv \in Convs

\* A job somebody holds is active; one that has not failed has an attempt and a
\* stall left.
JobsCounted ==
  \A e \in Events :
    /\ owner[e] # Nobody => job[e] = "active"
    /\ job[e] # "failed" => failures[e] < Attempts /\ stalls[e] <= MaxStalls

\* A worker without a failed message has stored the ones before the current one.
DoneIsStored ==
  \A w \in Workers : at[w] # "idle" /\ ~bad[w] =>
    \A i \in 1 .. Len(MessagesOf[event[w]]) : i < pos[w] => MessagesOf[event[w]][i] \in Kept

\* Before its job is taken an event has no message in any conversation.
Untouched(e) == \A i \in DOMAIN MessagesOf[e] : MessagesOf[e][i] \notin Kept

\* An event none of whose attempts broke off has a single attempt: one worker
\* runs it, and nobody runs it before or after.
OneAttemptOf(e) ==
  /\ e \notin recorded => job[e] = "none"
  /\ e \in adding => e \in recorded /\ job[e] = "none"
  /\ e \notin recorded \/ e \in adding \/ job[e] = "waiting" => Untouched(e)
  /\ \A w \in Workers : event[w] = e => owner[e] = w /\ job[e] = "active" /\ ~bad[w]
  /\ job[e] = "active" => owner[e] \in Workers /\ event[owner[e]] = e
OneAttempt == \A e \in Events \ interrupted : OneAttemptOf(e)

\* What its worker has not come to is nowhere yet.
AheadIsNew ==
  \A w \in Workers : event[w] \in Events \ interrupted =>
    \A i \in DOMAIN MessagesOf[event[w]] : i >= pos[w] => MessagesOf[event[w]][i] \notin Kept

IInv ==
  /\ TypeOK /\ BusyOn /\ JobsCounted /\ DoneIsStored /\ OneAttempt /\ AheadIsNew
  /\ NothingIsLost /\ StoredOnce /\ ResolvedIsRead /\ OneContact

\* The bounds are numbers.
LEMMA Numbers ==
  /\ Attempts \in Nat \ {0} /\ MaxStalls \in Nat /\ MaxDeliveries \in Nat
  /\ MaxActs \in Nat /\ MaxMishaps \in Nat
BY IngestionAssumption

\* Nobody is nobody.
LEMMA NobodyIsNone == Nobody \notin Workers /\ Nobody \notin Events /\ Nobody \notin Convs
BY IngestionAssumption

\* An event has at least one message.
LEMMA EventSize ==
  \A e \in Events :
    /\ Len(MessagesOf[e]) \in Nat \ {0}
    /\ DOMAIN MessagesOf[e] = 1 .. Len(MessagesOf[e])
    /\ \A i \in 1 .. Len(MessagesOf[e]) : MessagesOf[e][i] \in Messages
<1> SUFFICES ASSUME NEW e \in Events
             PROVE  /\ Len(MessagesOf[e]) \in Nat \ {0}
                    /\ DOMAIN MessagesOf[e] = 1 .. Len(MessagesOf[e])
                    /\ \A i \in 1 .. Len(MessagesOf[e]) : MessagesOf[e][i] \in Messages
  OBVIOUS
<1>1. MessagesOf[e] \in Seq(Messages) /\ MessagesOf[e] # << >>
  BY IngestionAssumption
<1>. QED
  BY <1>1

\* No message comes twice.
LEMMA MessageIsOfOneEvent ==
  \A e, f \in Events : \A i \in 1 .. Len(MessagesOf[e]), j \in 1 .. Len(MessagesOf[f]) :
    MessagesOf[e][i] = MessagesOf[f][j] => e = f /\ i = j
BY IngestionAssumption, EventSize

\* A stored message is kept.
LEMMA StoredIsKept ==
  ASSUME ConvsOK, NEW c \in Convs, NEW m, <<c, m>> \in stored
  PROVE  m \in Kept
BY DEF ConvsOK, Kept

\* Save stores the current message, in one more conversation.
LEMMA SaveKeeps ==
  ASSUME ConvsOK, WorkersOK, BusyOn, NEW w \in Workers, Save(w)
  PROVE  /\ event[w] \in Events /\ pos[w] \in 1 .. Len(MessagesOf[event[w]])
         /\ conv[w] \in Convs /\ Current(w) \in Messages
         /\ stored' = stored \cup {<<conv[w], Current(w)>>}
         /\ Kept' = Kept \cup {Current(w)}
<1>1. event[w] \in Events /\ pos[w] \in 1 .. Len(MessagesOf[event[w]]) /\ conv[w] \in Convs
  BY DEF BusyOn, Save, PerMessage
<1>2. Current(w) \in Messages
  BY <1>1, EventSize DEF Current
<1>3. stored' = stored \cup {<<conv[w], Current(w)>>}
  BY DEF Save
<1>. QED
  BY <1>1, <1>2, <1>3 DEF Kept

\* What is stored is all that counts.
LEMMA OthersKeep == UNCHANGED stored => UNCHANGED Kept
BY DEF Kept

USE Numbers, NobodyIsNone

-----------------------------------------------------------------------------
(* One lemma for each part, one case for each action that can disturb it. *)

\* The events of the webhook.
LEMMA WebhookOKStep ==
  ASSUME WebhookOK, [Next]_vars
  PROVE  WebhookOK'
<1>1. ASSUME NEW e \in Events, Receive(e) PROVE WebhookOK'
  BY <1>1 DEF WebhookOK, Receive, Fresh
<1>2. ASSUME NEW e \in Events, AddJob(e) PROVE WebhookOK'
  BY <1>2 DEF WebhookOK, AddJob
<1>3. ASSUME NEW e \in Events, AddFails(e) PROVE WebhookOK'
  BY <1>3 DEF WebhookOK, AddFails, Mishap
<1>4. ASSUME NEW w \in Workers, NEW e \in Events, Take(w, e)
     PROVE  UNCHANGED <<recorded, adding, told, dropped>>
  BY <1>4 DEF Take, Goto, webhook
<1>5. ASSUME NEW w \in Workers,
            Resolve(w) \/ Introduce(w) \/ FindConversation(w) \/ Wake(w) \/ Open(w) \/ ReadConversation(w) \/ Save(w) \/ SaveCollides(w) \/ Fail(w) \/ Close(w) \/ Crash(w)
     PROVE  UNCHANGED <<recorded, adding, told, dropped>>
  BY <1>5 DEF Resolve, Introduce, FindConversation, Wake, Open, ReadConversation, Save,
         SaveCollides, Fail, Close, Crash, Goto, webhook, NextMessage, MessageFailed, Leave
<1>6. ASSUME NEW e \in Events,
            StallDead(e) \/ StallLive(e)
     PROVE  UNCHANGED <<recorded, adding, told, dropped>>
  BY <1>6 DEF StallDead, StallLive, TakeBack, webhook
<1>7. ASSUME NEW a \in Agents, NEW c \in Convs, NEW act \in Statuses \cup {"reply"}, Request(a, c, act)
     PROVE  UNCHANGED <<recorded, adding, told, dropped>>
  BY <1>7 DEF Request, webhook
<1>8. ASSUME NEW a \in Agents,
            WriteStatus(a) \/ CommitReply(a)
     PROVE  UNCHANGED <<recorded, adding, told, dropped>>
  BY <1>8 DEF WriteStatus, CommitReply, webhook
<1>9. UNCHANGED vars => UNCHANGED <<recorded, adding, told, dropped>>
  BY DEF vars, webhook
<1>10. CASE UNCHANGED <<recorded, adding, told, dropped>>
  BY <1>10 DEF WebhookOK
<1>. QED
  BY <1>1, <1>2, <1>3, <1>4, <1>5, <1>6, <1>7, <1>8, <1>9, <1>10
     DEF Next, Provider, Work, Human

\* The queue's jobs.
LEMMA QueueOKStep ==
  ASSUME QueueOK, WorkersOK, BusyOn, JobsCounted, [Next]_vars
  PROVE  QueueOK'
<1>1. ASSUME NEW e \in Events, AddJob(e) PROVE QueueOK'
  BY <1>1 DEF QueueOK, AddJob
<1>2. ASSUME NEW w \in Workers, NEW e \in Events, Take(w, e) PROVE QueueOK'
  BY <1>2 DEF QueueOK, Take, Goto
<1>3. ASSUME NEW w \in Workers, Close(w) PROVE QueueOK'
  <2> DEFINE e == event[w]
  <2>1. e \in Events
    BY <1>3 DEF BusyOn, Close
  <2>2. CASE owner[e] # w
    BY <1>3, <2>2 DEF QueueOK, Close, queue
  <2>3. CASE owner[e] = w
    <3>1. failures[e] \in Nat /\ failures[e] < Attempts
      BY <2>1, <2>3 DEF QueueOK, JobsCounted
    <3>2. CASE bad[w]
      BY <1>3, <2>1, <2>3, <3>1, <3>2 DEF QueueOK, Close, AfterFailure
    <3>3. CASE ~bad[w]
      BY <1>3, <2>1, <2>3, <3>1, <3>3 DEF QueueOK, Close
    <3>. QED
      BY <3>2, <3>3
  <2>. QED
    BY <2>2, <2>3
<1>4. ASSUME NEW e \in Events, StallDead(e) PROVE QueueOK'
  <2>1. stalls[e] \in 0 .. MaxStalls /\ failures[e] < Attempts
    BY <1>4 DEF QueueOK, JobsCounted, StallDead, TakeBack
  <2>. QED
    BY <1>4, <2>1 DEF QueueOK, StallDead, TakeBack
<1>5. ASSUME NEW e \in Events, StallLive(e) PROVE QueueOK'
  <2>1. stalls[e] \in 0 .. MaxStalls /\ failures[e] < Attempts
    BY <1>5 DEF QueueOK, JobsCounted, StallLive, TakeBack
  <2>. QED
    BY <1>5, <2>1 DEF QueueOK, StallLive, TakeBack
<1>6. ASSUME NEW e \in Events,
            Receive(e) \/ AddFails(e)
     PROVE  UNCHANGED <<job, owner, failures, stalls>>
  BY <1>6 DEF Receive, AddFails, queue
<1>7. ASSUME NEW w \in Workers,
            Resolve(w) \/ Introduce(w) \/ FindConversation(w) \/ Wake(w) \/ Open(w) \/ ReadConversation(w) \/ Save(w) \/ SaveCollides(w) \/ Fail(w) \/ Crash(w)
     PROVE  UNCHANGED <<job, owner, failures, stalls>>
  BY <1>7 DEF Resolve, Introduce, FindConversation, Wake, Open, ReadConversation, Save,
         SaveCollides, Fail, Crash, Goto, queue, NextMessage, MessageFailed, Leave
<1>8. ASSUME NEW a \in Agents, NEW c \in Convs, NEW act \in Statuses \cup {"reply"}, Request(a, c, act)
     PROVE  UNCHANGED <<job, owner, failures, stalls>>
  BY <1>8 DEF Request, queue
<1>9. ASSUME NEW a \in Agents,
            WriteStatus(a) \/ CommitReply(a)
     PROVE  UNCHANGED <<job, owner, failures, stalls>>
  BY <1>9 DEF WriteStatus, CommitReply, queue
<1>10. UNCHANGED vars => UNCHANGED <<job, owner, failures, stalls>>
  BY DEF vars, queue
<1>11. CASE UNCHANGED <<job, owner, failures, stalls>>
  BY <1>11 DEF QueueOK
<1>. QED
  BY <1>1, <1>2, <1>3, <1>4, <1>5, <1>6, <1>7, <1>8, <1>9, <1>10, <1>11
     DEF Next, Provider, Work, Human

\* The conversations.
LEMMA ConvsOKStep ==
  ASSUME ConvsOK, WorkersOK, RestOK, BusyOn, [Next]_vars
  PROVE  ConvsOK'
<1>1. ASSUME NEW w \in Workers, Wake(w) PROVE ConvsOK'
  BY <1>1 DEF ConvsOK, WorkersOK, RestOK, BusyOn, PerMessage, Statuses, Wake, Goto
<1>2. ASSUME NEW w \in Workers, Open(w) PROVE ConvsOK'
  BY <1>2 DEF ConvsOK, WorkersOK, RestOK, BusyOn, PerMessage, Statuses, Open, Touch, Goto
<1>3. ASSUME NEW w \in Workers, Save(w) PROVE ConvsOK'
  <2>1. status' \in [Convs -> Statuses \cup {"none"}] /\ unread' \in [Convs -> BOOLEAN]
    BY <1>3 DEF ConvsOK, Save, Statuses
  <2>2. recent' \subseteq Convs \X Convs
    <3>1. conv[w] \in Convs /\ Touch(conv[w])
      BY <1>3, SaveKeeps DEF Save
    <3>. QED
      BY <3>1 DEF ConvsOK, Touch
  <2>3. stored' \subseteq Convs \X Messages
    <3>1. stored' = stored \cup {<<conv[w], Current(w)>>} /\ conv[w] \in Convs /\ Current(w) \in Messages
      BY <1>3, SaveKeeps
    <3>. QED
      BY <3>1 DEF ConvsOK
  <2>4. overtaken' \subseteq Convs
    <3>1. conv[w] \in Convs /\ overtaken' \in {overtaken, overtaken \cup {conv[w]}}
      BY <1>3, SaveKeeps DEF Save
    <3>. QED
      BY <3>1 DEF ConvsOK
  <2>. QED
    BY <2>1, <2>2, <2>3, <2>4 DEF ConvsOK
<1>4. ASSUME NEW a \in Agents, WriteStatus(a) PROVE ConvsOK'
  BY <1>4 DEF ConvsOK, WorkersOK, RestOK, BusyOn, PerMessage, Statuses, WriteStatus, Idle
<1>5. ASSUME NEW a \in Agents, CommitReply(a) PROVE ConvsOK'
  BY <1>5 DEF ConvsOK, WorkersOK, RestOK, BusyOn, PerMessage, Statuses, CommitReply, Touch,
         Idle
<1>6. ASSUME NEW e \in Events,
            Receive(e) \/ AddJob(e) \/ AddFails(e) \/ StallDead(e) \/ StallLive(e)
     PROVE  UNCHANGED <<status, unread, recent, stored, overtaken>>
  BY <1>6 DEF Receive, AddJob, AddFails, StallDead, StallLive, convs, TakeBack
<1>7. ASSUME NEW w \in Workers, NEW e \in Events, Take(w, e)
     PROVE  UNCHANGED <<status, unread, recent, stored, overtaken>>
  BY <1>7 DEF Take, Goto, convs
<1>8. ASSUME NEW w \in Workers,
            Resolve(w) \/ Introduce(w) \/ FindConversation(w) \/ ReadConversation(w) \/ SaveCollides(w) \/ Fail(w) \/ Close(w) \/ Crash(w)
     PROVE  UNCHANGED <<status, unread, recent, stored, overtaken>>
  BY <1>8 DEF Resolve, Introduce, FindConversation, ReadConversation, SaveCollides, Fail,
         Close, Crash, Goto, convs, NextMessage, MessageFailed, Leave
<1>9. ASSUME NEW a \in Agents, NEW c \in Convs, NEW act \in Statuses \cup {"reply"}, Request(a, c, act)
     PROVE  UNCHANGED <<status, unread, recent, stored, overtaken>>
  BY <1>9 DEF Request, convs
<1>10. UNCHANGED vars => UNCHANGED <<status, unread, recent, stored, overtaken>>
  BY DEF vars, convs
<1>11. CASE UNCHANGED <<status, unread, recent, stored, overtaken>>
  BY <1>11 DEF ConvsOK
<1>. QED
  BY <1>1, <1>2, <1>3, <1>4, <1>5, <1>6, <1>7, <1>8, <1>9, <1>10, <1>11
     DEF Next, Provider, Work, Human

\* The workers.
LEMMA WorkersOKStep ==
  ASSUME ConvsOK, WorkersOK, BusyOn, [Next]_vars
  PROVE  WorkersOK'
<1>1. ASSUME NEW w \in Workers, NEW e \in Events, Take(w, e) PROVE WorkersOK'
  BY <1>1 DEF ConvsOK, WorkersOK, PerMessage, Statuses, Take, Goto
<1>2. ASSUME NEW w \in Workers, Resolve(w) PROVE WorkersOK'
  BY <1>2 DEF ConvsOK, WorkersOK, PerMessage, Statuses, Resolve, Goto
<1>3. ASSUME NEW w \in Workers, Introduce(w) PROVE WorkersOK'
  BY <1>3 DEF ConvsOK, WorkersOK, PerMessage, Statuses, Introduce, Goto, NewContacts
<1>4. ASSUME NEW w \in Workers, FindConversation(w) PROVE WorkersOK'
  BY <1>4 DEF ConvsOK, WorkersOK, PerMessage, Statuses, FindConversation, Active, Goto
<1>5. ASSUME NEW w \in Workers, Wake(w) PROVE WorkersOK'
  BY <1>5 DEF ConvsOK, WorkersOK, PerMessage, Statuses, Wake, Goto
<1>6. ASSUME NEW w \in Workers, Open(w) PROVE WorkersOK'
  BY <1>6 DEF ConvsOK, WorkersOK, PerMessage, Statuses, Open, Touch, Goto
<1>7. ASSUME NEW w \in Workers, ReadConversation(w) PROVE WorkersOK'
  <2>1. CASE <<conv[w], Current(w)>> \in stored
    <3>1. at' \in [Workers -> {"idle", "closing"} \cup PerMessage]
      BY <1>7, <2>1 DEF WorkersOK, ReadConversation, NextMessage, Goto, PerMessage
    <3>2. conv' \in [Workers -> Convs \cup {Nobody}]
      BY <1>7, <2>1 DEF WorkersOK, ReadConversation, NextMessage
    <3>3. pos' = [pos EXCEPT ![w] = @ + 1] /\ pos[w] + 1 \in Nat \ {0}
      BY <1>7, <2>1 DEF WorkersOK, ReadConversation, NextMessage
    <3>4. pos' \in [Workers -> Nat \ {0}]
      BY <3>3 DEF WorkersOK
    <3>5. snap' \in [Workers -> Statuses \cup {"none"}] /\ UNCHANGED <<event, bad>>
      BY <1>7, <2>1 DEF WorkersOK, ReadConversation, NextMessage
    <3>. QED
      BY <3>1, <3>2, <3>4, <3>5 DEF WorkersOK
  <2>2. CASE <<conv[w], Current(w)>> \notin stored
    <3>1. status[conv[w]] \in Statuses \cup {"none"}
      BY <1>7 DEF ConvsOK, BusyOn, ReadConversation
    <3>2. at' \in [Workers -> {"idle", "closing"} \cup PerMessage]
      BY <1>7, <2>2 DEF WorkersOK, ReadConversation, Goto, PerMessage
    <3>3. snap' \in [Workers -> Statuses \cup {"none"}] /\ UNCHANGED <<event, bad, pos, conv>>
      BY <1>7, <2>2, <3>1 DEF WorkersOK, ReadConversation
    <3>. QED
      BY <3>2, <3>3 DEF WorkersOK
  <2>. QED
    BY <2>1, <2>2
<1>8. ASSUME NEW w \in Workers, Save(w) PROVE WorkersOK'
  BY <1>8 DEF ConvsOK, WorkersOK, PerMessage, Statuses, Save, Reopens, Touch, NextMessage,
         Goto
<1>9. ASSUME NEW w \in Workers, SaveCollides(w) PROVE WorkersOK'
  BY <1>9 DEF ConvsOK, WorkersOK, PerMessage, Statuses, SaveCollides, MessageFailed, Failed,
         NextMessage, Goto
<1>10. ASSUME NEW w \in Workers, Fail(w) PROVE WorkersOK'
  BY <1>10 DEF ConvsOK, WorkersOK, PerMessage, Statuses, Fail, Mishap, MessageFailed,
         Failed, NextMessage, Goto
<1>11. ASSUME NEW w \in Workers, Close(w) PROVE WorkersOK'
  BY <1>11 DEF ConvsOK, WorkersOK, PerMessage, Statuses, Close, AfterFailure, Leave, Goto
<1>12. ASSUME NEW w \in Workers, Crash(w) PROVE WorkersOK'
  BY <1>12 DEF ConvsOK, WorkersOK, PerMessage, Statuses, Crash, Mishap, Leave, Goto
<1>13. ASSUME NEW e \in Events,
            Receive(e) \/ AddJob(e) \/ AddFails(e) \/ StallDead(e) \/ StallLive(e)
     PROVE  UNCHANGED <<at, event, pos, conv, snap, bad>>
  BY <1>13 DEF Receive, AddJob, AddFails, StallDead, StallLive, worker, TakeBack
<1>14. ASSUME NEW a \in Agents, NEW c \in Convs, NEW act \in Statuses \cup {"reply"}, Request(a, c, act)
     PROVE  UNCHANGED <<at, event, pos, conv, snap, bad>>
  BY <1>14 DEF Request, worker
<1>15. ASSUME NEW a \in Agents,
            WriteStatus(a) \/ CommitReply(a)
     PROVE  UNCHANGED <<at, event, pos, conv, snap, bad>>
  BY <1>15 DEF WriteStatus, CommitReply, worker
<1>16. UNCHANGED vars => UNCHANGED <<at, event, pos, conv, snap, bad>>
  BY DEF vars, worker
<1>17. CASE UNCHANGED <<at, event, pos, conv, snap, bad>>
  BY <1>17 DEF WorkersOK
<1>. QED
  BY <1>1, <1>2, <1>3, <1>4, <1>5, <1>6, <1>7, <1>8, <1>9, <1>10, <1>11, <1>12, <1>13,
     <1>14, <1>15, <1>16, <1>17
     DEF Next, Provider, Work, Human

\* The rest.
LEMMA RestOKStep ==
  ASSUME ConvsOK, WorkersOK, RestOK, BusyOn, [Next]_vars
  PROVE  RestOK'
<1>1. ASSUME NEW e \in Events, AddFails(e) PROVE RestOK'
  BY <1>1 DEF ConvsOK, WorkersOK, RestOK, BusyOn, PerMessage, Statuses, AddFails, Mishap,
         people, human
<1>2. ASSUME NEW w \in Workers, Introduce(w) PROVE RestOK'
  BY <1>2 DEF ConvsOK, WorkersOK, RestOK, BusyOn, PerMessage, Statuses, Introduce, Goto,
         NewContacts, human
<1>3. ASSUME NEW w \in Workers, Fail(w) PROVE RestOK'
  BY <1>3 DEF ConvsOK, WorkersOK, RestOK, BusyOn, PerMessage, Statuses, Fail, Mishap,
         MessageFailed, Failed, NextMessage, Goto, people, human
<1>4. ASSUME NEW w \in Workers, Crash(w) PROVE RestOK'
  BY <1>4 DEF ConvsOK, WorkersOK, RestOK, BusyOn, PerMessage, Statuses, Crash, Mishap,
         Leave, Goto, people, human
<1>5. ASSUME NEW e \in Events, StallLive(e) PROVE RestOK'
  BY <1>5 DEF ConvsOK, WorkersOK, RestOK, BusyOn, PerMessage, Statuses, StallLive, Mishap,
         TakeBack, people, human
<1>6. ASSUME NEW a \in Agents, NEW c \in Convs, NEW act \in Statuses \cup {"reply"}, Request(a, c, act) PROVE RestOK'
  BY <1>6 DEF ConvsOK, WorkersOK, RestOK, BusyOn, PerMessage, Statuses, Request, people,
         Idle, Allowed
<1>7. ASSUME NEW a \in Agents, WriteStatus(a) PROVE RestOK'
  BY <1>7 DEF ConvsOK, WorkersOK, RestOK, BusyOn, PerMessage, Statuses, WriteStatus, people,
         Idle
<1>8. ASSUME NEW a \in Agents, CommitReply(a) PROVE RestOK'
  BY <1>8 DEF ConvsOK, WorkersOK, RestOK, BusyOn, PerMessage, Statuses, CommitReply, Touch,
         people, Idle
<1>9. ASSUME NEW e \in Events,
            Receive(e) \/ AddJob(e) \/ StallDead(e)
     PROVE  UNCHANGED <<known, contacts, desk, acts, mishaps, interrupted>>
  BY <1>9 DEF Receive, AddJob, StallDead, people, human, TakeBack
<1>10. ASSUME NEW w \in Workers, NEW e \in Events, Take(w, e)
     PROVE  UNCHANGED <<known, contacts, desk, acts, mishaps, interrupted>>
  BY <1>10 DEF Take, Goto, people, human
<1>11. ASSUME NEW w \in Workers,
            Resolve(w) \/ FindConversation(w) \/ Wake(w) \/ Open(w) \/ ReadConversation(w) \/ Save(w) \/ SaveCollides(w) \/ Close(w)
     PROVE  UNCHANGED <<known, contacts, desk, acts, mishaps, interrupted>>
  BY <1>11 DEF Resolve, FindConversation, Wake, Open, ReadConversation, Save, SaveCollides,
         Close, Goto, people, human, NextMessage, MessageFailed, Leave
<1>12. UNCHANGED vars => UNCHANGED <<known, contacts, desk, acts, mishaps, interrupted>>
  BY DEF vars, people, human
<1>13. CASE UNCHANGED <<known, contacts, desk, acts, mishaps, interrupted>>
  BY <1>13 DEF RestOK
<1>. QED
  BY <1>1, <1>2, <1>3, <1>4, <1>5, <1>6, <1>7, <1>8, <1>9, <1>10, <1>11, <1>12, <1>13
     DEF Next, Provider, Work, Human

\* A worker goes through its event's messages in order.
LEMMA BusyOnStep ==
  ASSUME QueueOK, ConvsOK, WorkersOK, RestOK, BusyOn, [Next]_vars
  PROVE  BusyOn'
<1>1. ASSUME NEW w \in Workers, NEW e \in Events, Take(w, e) PROVE BusyOn'
  BY <1>1, EventSize DEF ConvsOK, WorkersOK, RestOK, BusyOn, PerMessage, Take, Goto, human
<1>2. ASSUME NEW w \in Workers, Resolve(w) PROVE BusyOn'
  BY <1>2 DEF ConvsOK, WorkersOK, RestOK, BusyOn, PerMessage, Resolve, Goto, human
<1>3. ASSUME NEW w \in Workers, Introduce(w) PROVE BusyOn'
  BY <1>3 DEF ConvsOK, WorkersOK, RestOK, BusyOn, PerMessage, Introduce, Goto, NewContacts,
         human
<1>4. ASSUME NEW w \in Workers, FindConversation(w) PROVE BusyOn'
  BY <1>4 DEF ConvsOK, WorkersOK, RestOK, BusyOn, PerMessage, FindConversation, Active,
         Goto, human
<1>5. ASSUME NEW w \in Workers, Wake(w) PROVE BusyOn'
  BY <1>5 DEF ConvsOK, WorkersOK, RestOK, BusyOn, PerMessage, Wake, Goto, human
<1>6. ASSUME NEW w \in Workers, Open(w) PROVE BusyOn'
  BY <1>6 DEF ConvsOK, WorkersOK, RestOK, BusyOn, PerMessage, Open, Touch, Goto, human
<1>7. ASSUME NEW w \in Workers, ReadConversation(w) PROVE BusyOn'
  BY <1>7, EventSize DEF ConvsOK, WorkersOK, RestOK, BusyOn, PerMessage, ReadConversation,
         NextMessage, Goto, human
<1>8. ASSUME NEW w \in Workers, Save(w) PROVE BusyOn'
  BY <1>8, EventSize DEF ConvsOK, WorkersOK, RestOK, BusyOn, PerMessage, Save, Reopens,
         Touch, NextMessage, Goto, human
<1>9. ASSUME NEW w \in Workers, SaveCollides(w) PROVE BusyOn'
  BY <1>9, EventSize DEF ConvsOK, WorkersOK, RestOK, BusyOn, PerMessage, SaveCollides,
         MessageFailed, Failed, NextMessage, Goto, human
<1>10. ASSUME NEW w \in Workers, Fail(w) PROVE BusyOn'
  BY <1>10, EventSize DEF ConvsOK, WorkersOK, RestOK, BusyOn, PerMessage, Fail, Mishap,
         MessageFailed, Failed, NextMessage, Goto, human
<1>11. ASSUME NEW w \in Workers, Close(w) PROVE BusyOn'
  BY <1>11 DEF ConvsOK, WorkersOK, RestOK, BusyOn, PerMessage, Close, AfterFailure, Leave,
         Goto, human
<1>12. ASSUME NEW w \in Workers, Crash(w) PROVE BusyOn'
  BY <1>12 DEF ConvsOK, WorkersOK, RestOK, BusyOn, PerMessage, Crash, Mishap, Leave, Goto,
         human
<1>13. ASSUME NEW a \in Agents, NEW c \in Convs, NEW act \in Statuses \cup {"reply"}, Request(a, c, act) PROVE BusyOn'
  BY <1>13 DEF ConvsOK, WorkersOK, RestOK, BusyOn, PerMessage, Request, worker, Idle
<1>14. ASSUME NEW a \in Agents, WriteStatus(a) PROVE BusyOn'
  BY <1>14 DEF ConvsOK, WorkersOK, RestOK, BusyOn, PerMessage, WriteStatus, worker, Idle
<1>15. ASSUME NEW a \in Agents, CommitReply(a) PROVE BusyOn'
  BY <1>15 DEF ConvsOK, WorkersOK, RestOK, BusyOn, PerMessage, CommitReply, Touch, worker,
         Idle
<1>16. ASSUME NEW e \in Events,
            Receive(e) \/ AddJob(e) \/ AddFails(e) \/ StallDead(e) \/ StallLive(e)
     PROVE  UNCHANGED <<at, event, pos, conv, desk, bad>>
  BY <1>16 DEF Receive, AddJob, AddFails, StallDead, StallLive, worker, human, TakeBack
<1>17. UNCHANGED vars => UNCHANGED <<at, event, pos, conv, desk, bad>>
  BY DEF vars, worker, human
<1>18. CASE UNCHANGED <<at, event, pos, conv, desk, bad>>
  BY <1>18 DEF BusyOn
<1>. QED
  BY <1>1, <1>2, <1>3, <1>4, <1>5, <1>6, <1>7, <1>8, <1>9, <1>10, <1>11, <1>12, <1>13,
     <1>14, <1>15, <1>16, <1>17, <1>18
     DEF Next, Provider, Work, Human

\* A failure or a stall that was the last ends the job.
LEMMA JobsCountedStep ==
  ASSUME QueueOK, WorkersOK, BusyOn, JobsCounted, [Next]_vars
  PROVE  JobsCounted'
<1>1. ASSUME NEW e \in Events, AddJob(e) PROVE JobsCounted'
  BY <1>1 DEF QueueOK, JobsCounted, AddJob
<1>2. ASSUME NEW w \in Workers, NEW e \in Events, Take(w, e) PROVE JobsCounted'
  BY <1>2 DEF QueueOK, JobsCounted, Take, Goto
<1>3. ASSUME NEW w \in Workers, Close(w) PROVE JobsCounted'
  <2> DEFINE e == event[w]
  <2>1. e \in Events
    BY <1>3 DEF BusyOn, Close
  <2>2. CASE owner[e] # w
    BY <1>3, <2>2 DEF JobsCounted, Close, queue
  <2>3. CASE owner[e] = w
    <3>1. failures[e] \in Nat /\ failures[e] < Attempts /\ stalls[e] <= MaxStalls
      BY <2>1, <2>3 DEF QueueOK, JobsCounted
    <3>2. CASE bad[w]
      BY <1>3, <2>1, <2>3, <3>1, <3>2 DEF QueueOK, JobsCounted, Close, AfterFailure
    <3>3. CASE ~bad[w]
      BY <1>3, <2>1, <2>3, <3>1, <3>3 DEF QueueOK, JobsCounted, Close
    <3>. QED
      BY <3>2, <3>3
  <2>. QED
    BY <2>2, <2>3
<1>4. ASSUME NEW e \in Events, StallDead(e) PROVE JobsCounted'
  BY <1>4 DEF QueueOK, JobsCounted, StallDead, TakeBack
<1>5. ASSUME NEW e \in Events, StallLive(e) PROVE JobsCounted'
  BY <1>5 DEF QueueOK, JobsCounted, StallLive, Mishap, TakeBack
<1>6. ASSUME NEW e \in Events,
            Receive(e) \/ AddFails(e)
     PROVE  UNCHANGED <<job, owner, failures, stalls>>
  BY <1>6 DEF Receive, AddFails, queue
<1>7. ASSUME NEW w \in Workers,
            Resolve(w) \/ Introduce(w) \/ FindConversation(w) \/ Wake(w) \/ Open(w) \/ ReadConversation(w) \/ Save(w) \/ SaveCollides(w) \/ Fail(w) \/ Crash(w)
     PROVE  UNCHANGED <<job, owner, failures, stalls>>
  BY <1>7 DEF Resolve, Introduce, FindConversation, Wake, Open, ReadConversation, Save,
         SaveCollides, Fail, Crash, Goto, queue, NextMessage, MessageFailed, Leave
<1>8. ASSUME NEW a \in Agents, NEW c \in Convs, NEW act \in Statuses \cup {"reply"}, Request(a, c, act)
     PROVE  UNCHANGED <<job, owner, failures, stalls>>
  BY <1>8 DEF Request, queue
<1>9. ASSUME NEW a \in Agents,
            WriteStatus(a) \/ CommitReply(a)
     PROVE  UNCHANGED <<job, owner, failures, stalls>>
  BY <1>9 DEF WriteStatus, CommitReply, queue
<1>10. UNCHANGED vars => UNCHANGED <<job, owner, failures, stalls>>
  BY DEF vars, queue
<1>11. CASE UNCHANGED <<job, owner, failures, stalls>>
  BY <1>11 DEF QueueOK, JobsCounted
<1>. QED
  BY <1>1, <1>2, <1>3, <1>4, <1>5, <1>6, <1>7, <1>8, <1>9, <1>10, <1>11
     DEF Next, Provider, Work, Human

\* Whoever finds the identity there rolls back.
LEMMA OneContactStep ==
  ASSUME RestOK, OneContact, [Next]_vars
  PROVE  OneContact'
<1>1. ASSUME NEW w \in Workers, Introduce(w) PROVE OneContact'
  BY <1>1 DEF RestOK, OneContact, Introduce, Goto, NewContacts
<1>2. ASSUME NEW e \in Events,
            Receive(e) \/ AddJob(e) \/ AddFails(e) \/ StallDead(e) \/ StallLive(e)
     PROVE  UNCHANGED <<known, contacts>>
  BY <1>2 DEF Receive, AddJob, AddFails, StallDead, StallLive, people, TakeBack
<1>3. ASSUME NEW w \in Workers, NEW e \in Events, Take(w, e)
     PROVE  UNCHANGED <<known, contacts>>
  BY <1>3 DEF Take, Goto, people
<1>4. ASSUME NEW w \in Workers,
            Resolve(w) \/ FindConversation(w) \/ Wake(w) \/ Open(w) \/ ReadConversation(w) \/ Save(w) \/ SaveCollides(w) \/ Fail(w) \/ Close(w) \/ Crash(w)
     PROVE  UNCHANGED <<known, contacts>>
  BY <1>4 DEF Resolve, FindConversation, Wake, Open, ReadConversation, Save, SaveCollides,
         Fail, Close, Crash, Goto, people, NextMessage, MessageFailed, Leave
<1>5. ASSUME NEW a \in Agents, NEW c \in Convs, NEW act \in Statuses \cup {"reply"}, Request(a, c, act)
     PROVE  UNCHANGED <<known, contacts>>
  BY <1>5 DEF Request, people
<1>6. ASSUME NEW a \in Agents,
            WriteStatus(a) \/ CommitReply(a)
     PROVE  UNCHANGED <<known, contacts>>
  BY <1>6 DEF WriteStatus, CommitReply, people
<1>7. UNCHANGED vars => UNCHANGED <<known, contacts>>
  BY DEF vars, people
<1>8. CASE UNCHANGED <<known, contacts>>
  BY <1>8 DEF RestOK, OneContact
<1>. QED
  BY <1>1, <1>2, <1>3, <1>4, <1>5, <1>6, <1>7, <1>8
     DEF Next, Provider, Work, Human

\* Only a message being created makes a conversation unread.
LEMMA ResolvedIsReadStep ==
  ASSUME ConvsOK, ResolvedIsRead, [Next]_vars
  PROVE  ResolvedIsRead'
<1>1. ASSUME NEW w \in Workers, Wake(w) PROVE ResolvedIsRead'
  BY <1>1 DEF ConvsOK, ResolvedIsRead, Wake, Goto
<1>2. ASSUME NEW w \in Workers, Open(w) PROVE ResolvedIsRead'
  BY <1>2 DEF ConvsOK, ResolvedIsRead, Open, Touch, Goto
<1>3. ASSUME NEW w \in Workers, Save(w) PROVE ResolvedIsRead'
  BY <1>3 DEF ConvsOK, ResolvedIsRead, Save, Reopens, Touch, NextMessage, Goto, Statuses
<1>4. ASSUME NEW a \in Agents, WriteStatus(a) PROVE ResolvedIsRead'
  BY <1>4 DEF ConvsOK, ResolvedIsRead, WriteStatus
<1>5. ASSUME NEW a \in Agents, CommitReply(a) PROVE ResolvedIsRead'
  BY <1>5 DEF ConvsOK, ResolvedIsRead, CommitReply, Touch
<1>6. ASSUME NEW e \in Events,
            Receive(e) \/ AddJob(e) \/ AddFails(e) \/ StallDead(e) \/ StallLive(e)
     PROVE  UNCHANGED <<status, unread, overtaken>>
  BY <1>6 DEF Receive, AddJob, AddFails, StallDead, StallLive, convs, TakeBack
<1>7. ASSUME NEW w \in Workers, NEW e \in Events, Take(w, e)
     PROVE  UNCHANGED <<status, unread, overtaken>>
  BY <1>7 DEF Take, Goto, convs
<1>8. ASSUME NEW w \in Workers,
            Resolve(w) \/ Introduce(w) \/ FindConversation(w) \/ ReadConversation(w) \/ SaveCollides(w) \/ Fail(w) \/ Close(w) \/ Crash(w)
     PROVE  UNCHANGED <<status, unread, overtaken>>
  BY <1>8 DEF Resolve, Introduce, FindConversation, ReadConversation, SaveCollides, Fail,
         Close, Crash, Goto, convs, NextMessage, MessageFailed, Leave
<1>9. ASSUME NEW a \in Agents, NEW c \in Convs, NEW act \in Statuses \cup {"reply"}, Request(a, c, act)
     PROVE  UNCHANGED <<status, unread, overtaken>>
  BY <1>9 DEF Request, convs
<1>10. UNCHANGED vars => UNCHANGED <<status, unread, overtaken>>
  BY DEF vars, convs
<1>11. CASE UNCHANGED <<status, unread, overtaken>>
  BY <1>11 DEF ConvsOK, ResolvedIsRead
<1>. QED
  BY <1>1, <1>2, <1>3, <1>4, <1>5, <1>6, <1>7, <1>8, <1>9, <1>10, <1>11
     DEF Next, Provider, Work, Human

\* A message is stored, or its failure is noted.
LEMMA DoneIsStoredStep ==
  ASSUME ConvsOK, WorkersOK, BusyOn, DoneIsStored, [Next]_vars
  PROVE  DoneIsStored'
<1>. SUFFICES ASSUME NEW v \in Workers, at'[v] # "idle", ~bad'[v],
                    NEW i \in 1 .. Len(MessagesOf[event'[v]]), i < pos'[v]
             PROVE  MessagesOf[event'[v]][i] \in Kept'
  BY DEF DoneIsStored
<1>1. ASSUME NEW w \in Workers, NEW e \in Events, Take(w, e) PROVE MessagesOf[event'[v]][i] \in Kept'
  BY <1>1, OthersKeep DEF WorkersOK, DoneIsStored, Take, Goto, convs
<1>2. ASSUME NEW w \in Workers, Resolve(w) PROVE MessagesOf[event'[v]][i] \in Kept'
  BY <1>2, OthersKeep DEF WorkersOK, DoneIsStored, Resolve, Goto, convs
<1>3. ASSUME NEW w \in Workers, Introduce(w) PROVE MessagesOf[event'[v]][i] \in Kept'
  BY <1>3, OthersKeep DEF WorkersOK, DoneIsStored, Introduce, Goto, NewContacts, convs
<1>4. ASSUME NEW w \in Workers, FindConversation(w) PROVE MessagesOf[event'[v]][i] \in Kept'
  BY <1>4, OthersKeep DEF WorkersOK, DoneIsStored, FindConversation, Active, Goto, convs
<1>5. ASSUME NEW w \in Workers, Wake(w) PROVE MessagesOf[event'[v]][i] \in Kept'
  BY <1>5, OthersKeep DEF WorkersOK, DoneIsStored, Wake, Goto
<1>6. ASSUME NEW w \in Workers, Open(w) PROVE MessagesOf[event'[v]][i] \in Kept'
  BY <1>6, OthersKeep DEF WorkersOK, DoneIsStored, Open, Touch, Goto
<1>7. ASSUME NEW w \in Workers, ReadConversation(w) PROVE MessagesOf[event'[v]][i] \in Kept'
  <2>1. CASE <<conv[w], Current(w)>> \in stored
    <3>1. Current(w) \in Kept
      BY <1>7, <2>1, StoredIsKept DEF BusyOn, ReadConversation
    <3>2. /\ UNCHANGED <<event, bad, Kept>> /\ at[w] = "reading"
          /\ pos' = [pos EXCEPT ![w] = @ + 1]
          /\ \A x \in Workers \ {w} : at'[x] = at[x]
      BY <1>7, <2>1, OthersKeep DEF WorkersOK, ReadConversation, NextMessage, Goto, convs
    <3>3. CASE v = w
      <4>1. i < pos[w] \/ i = pos[w]
        BY <3>2, <3>3 DEF WorkersOK
      <4>2. i < pos[w] => MessagesOf[event[w]][i] \in Kept
        BY <3>2, <3>3 DEF DoneIsStored
      <4>. QED
        BY <3>1, <3>2, <3>3, <4>1, <4>2 DEF Current
    <3>4. CASE v # w
      BY <3>2, <3>4 DEF DoneIsStored, WorkersOK
    <3>. QED
      BY <3>3, <3>4
  <2>2. CASE <<conv[w], Current(w)>> \notin stored
    BY <1>7, <2>2, OthersKeep DEF WorkersOK, DoneIsStored, ReadConversation, Goto, convs
  <2>. QED
    BY <2>1, <2>2
<1>8. ASSUME NEW w \in Workers, Save(w) PROVE MessagesOf[event'[v]][i] \in Kept'
  <2>1. Current(w) = MessagesOf[event[w]][pos[w]] /\ pos' = [pos EXCEPT ![w] = @ + 1]
        /\ UNCHANGED <<bad, event>> /\ (at[v] # "idle")
    BY <1>8 DEF Save, NextMessage, Goto, Current, WorkersOK
  <2>. QED
    BY <1>8, <2>1, SaveKeeps DEF WorkersOK, DoneIsStored
<1>9. ASSUME NEW w \in Workers, SaveCollides(w) PROVE MessagesOf[event'[v]][i] \in Kept'
  BY <1>9, OthersKeep DEF WorkersOK, DoneIsStored, SaveCollides, MessageFailed, Failed,
         NextMessage, Goto, convs
<1>10. ASSUME NEW w \in Workers, Fail(w) PROVE MessagesOf[event'[v]][i] \in Kept'
  BY <1>10, OthersKeep DEF WorkersOK, DoneIsStored, Fail, Mishap, MessageFailed, Failed,
         NextMessage, Goto, convs
<1>11. ASSUME NEW w \in Workers, Close(w) PROVE MessagesOf[event'[v]][i] \in Kept'
  BY <1>11, OthersKeep DEF WorkersOK, DoneIsStored, Close, AfterFailure, Leave, Goto, convs
<1>12. ASSUME NEW w \in Workers, Crash(w) PROVE MessagesOf[event'[v]][i] \in Kept'
  BY <1>12, OthersKeep DEF WorkersOK, DoneIsStored, Crash, Mishap, Leave, Goto, convs
<1>13. ASSUME NEW e \in Events,
            Receive(e) \/ AddJob(e) \/ AddFails(e) \/ StallDead(e) \/ StallLive(e)
     PROVE  UNCHANGED <<at, bad, event, pos, stored>>
  BY <1>13 DEF Receive, AddJob, AddFails, StallDead, StallLive, convs, worker, TakeBack
<1>14. ASSUME NEW a \in Agents, NEW c \in Convs, NEW act \in Statuses \cup {"reply"}, Request(a, c, act)
     PROVE  UNCHANGED <<at, bad, event, pos, stored>>
  BY <1>14 DEF Request, convs, worker
<1>15. ASSUME NEW a \in Agents,
            WriteStatus(a) \/ CommitReply(a)
     PROVE  UNCHANGED <<at, bad, event, pos, stored>>
  BY <1>15 DEF WriteStatus, CommitReply, worker
<1>16. UNCHANGED vars => UNCHANGED <<at, bad, event, pos, stored>>
  BY DEF vars, convs, worker
<1>17. CASE UNCHANGED <<at, bad, event, pos, stored>>
  BY <1>17, OthersKeep DEF WorkersOK, DoneIsStored
<1>. QED
  BY <1>1, <1>2, <1>3, <1>4, <1>5, <1>6, <1>7, <1>8, <1>9, <1>10, <1>11, <1>12, <1>13,
     <1>14, <1>15, <1>16, <1>17
     DEF Next, Provider, Work, Human

\* A job disappears only when all its messages are stored.
LEMMA NothingIsLostStep ==
  ASSUME WebhookOK, QueueOK, ConvsOK, WorkersOK, BusyOn, DoneIsStored, NothingIsLost, [Next]_vars
  PROVE  NothingIsLost'
<1>. SUFFICES ASSUME NEW f \in recorded', ~(\A i \in DOMAIN MessagesOf[f] : MessagesOf[f][i] \in Kept')
             PROVE  f \in adding' \/ job'[f] # "none" \/ f \in dropped'
  BY DEF NothingIsLost
<1>1. ASSUME NEW e \in Events, Receive(e) PROVE f \in adding' \/ job'[f] # "none" \/ f \in dropped'
  BY <1>1, OthersKeep DEF WebhookOK, QueueOK, NothingIsLost, Receive, Fresh, queue, convs
<1>2. ASSUME NEW e \in Events, AddJob(e) PROVE f \in adding' \/ job'[f] # "none" \/ f \in dropped'
  BY <1>2, OthersKeep DEF WebhookOK, QueueOK, NothingIsLost, AddJob, convs
<1>3. ASSUME NEW e \in Events, AddFails(e) PROVE f \in adding' \/ job'[f] # "none" \/ f \in dropped'
  BY <1>3, OthersKeep DEF WebhookOK, QueueOK, NothingIsLost, AddFails, Mishap, queue, convs
<1>4. ASSUME NEW w \in Workers, NEW e \in Events, Take(w, e) PROVE f \in adding' \/ job'[f] # "none" \/ f \in dropped'
  BY <1>4, OthersKeep DEF WebhookOK, QueueOK, NothingIsLost, Take, Goto, webhook, convs
<1>5. ASSUME NEW w \in Workers, Save(w) PROVE f \in adding' \/ job'[f] # "none" \/ f \in dropped'
  BY <1>5, SaveKeeps DEF Save, NothingIsLost, webhook, queue
<1>6. ASSUME NEW w \in Workers, Close(w) PROVE f \in adding' \/ job'[f] # "none" \/ f \in dropped'
  <2>1. ~bad[w] => \A i \in DOMAIN MessagesOf[event[w]] : MessagesOf[event[w]][i] \in Kept
    <3>1. at[w] = "closing" /\ event[w] \in Events /\ pos[w] = Len(MessagesOf[event[w]]) + 1
      BY <1>6 DEF Close, BusyOn
    <3>2. ~bad[w] => \A i \in 1 .. Len(MessagesOf[event[w]]) :
                       i < pos[w] => MessagesOf[event[w]][i] \in Kept
      BY <3>1 DEF DoneIsStored
    <3>3. /\ Len(MessagesOf[event[w]]) \in Nat
          /\ DOMAIN MessagesOf[event[w]] = 1 .. Len(MessagesOf[event[w]])
      BY <3>1, EventSize
    <3>. HIDE DEF Kept
    <3>4. \A i \in 1 .. Len(MessagesOf[event[w]]) : i < pos[w]
      BY <3>1, <3>3
    <3>. QED
      BY <3>2, <3>3, <3>4
  <2>2. UNCHANGED <<Kept, recorded, adding, dropped>>
    BY <1>6, OthersKeep DEF Close, webhook, convs
  <2>3. CASE f = event[w] /\ owner[f] = w
    BY <1>6, <2>1, <2>2, <2>3 DEF Close, AfterFailure, NothingIsLost, WebhookOK, QueueOK
  <2>4. CASE f # event[w] \/ owner[f] # w
    BY <1>6, <2>2, <2>4 DEF Close, NothingIsLost, WebhookOK, QueueOK, queue
  <2>. QED
    BY <2>3, <2>4
<1>7. ASSUME NEW e \in Events, StallDead(e) PROVE f \in adding' \/ job'[f] # "none" \/ f \in dropped'
  BY <1>7, OthersKeep DEF WebhookOK, QueueOK, NothingIsLost, StallDead, TakeBack, webhook,
         convs
<1>8. ASSUME NEW e \in Events, StallLive(e) PROVE f \in adding' \/ job'[f] # "none" \/ f \in dropped'
  BY <1>8, OthersKeep DEF WebhookOK, QueueOK, NothingIsLost, StallLive, Mishap, TakeBack,
         webhook, convs
<1>9. ASSUME NEW w \in Workers,
            Resolve(w) \/ Introduce(w) \/ FindConversation(w) \/ Wake(w) \/ Open(w) \/ ReadConversation(w) \/ SaveCollides(w) \/ Fail(w) \/ Crash(w)
     PROVE  UNCHANGED <<recorded, adding, dropped, job, stored>>
  BY <1>9 DEF Resolve, Introduce, FindConversation, Wake, Open, ReadConversation,
         SaveCollides, Fail, Crash, Goto, webhook, queue, convs, NextMessage, MessageFailed,
         Leave
<1>10. ASSUME NEW a \in Agents, NEW c \in Convs, NEW act \in Statuses \cup {"reply"}, Request(a, c, act)
     PROVE  UNCHANGED <<recorded, adding, dropped, job, stored>>
  BY <1>10 DEF Request, webhook, queue, convs
<1>11. ASSUME NEW a \in Agents,
            WriteStatus(a) \/ CommitReply(a)
     PROVE  UNCHANGED <<recorded, adding, dropped, job, stored>>
  BY <1>11 DEF WriteStatus, CommitReply, webhook, queue
<1>12. UNCHANGED vars => UNCHANGED <<recorded, adding, dropped, job, stored>>
  BY DEF vars, webhook, queue, convs
<1>13. CASE UNCHANGED <<recorded, adding, dropped, job, stored>>
  BY <1>13, OthersKeep DEF WebhookOK, QueueOK, NothingIsLost
<1>. QED
  BY <1>1, <1>2, <1>3, <1>4, <1>5, <1>6, <1>7, <1>8, <1>9, <1>10, <1>11, <1>12, <1>13
     DEF Next, Provider, Work, Human

\* A job is added once, and only a broken attempt is repeated.
LEMMA OneAttemptStep ==
  ASSUME WebhookOK, QueueOK, ConvsOK, WorkersOK, RestOK, BusyOn, OneAttempt, AheadIsNew, [Next]_vars
  PROVE  OneAttempt'
<1>. SUFFICES ASSUME NEW f \in Events, f \notin interrupted' PROVE OneAttemptOf(f)'
  BY DEF OneAttempt
<1>0. f \notin interrupted => OneAttemptOf(f)
  BY DEF OneAttempt
<1>1. ASSUME NEW e \in Events, Receive(e) PROVE OneAttemptOf(f)'
  BY <1>1, <1>0, OthersKeep DEF WebhookOK, QueueOK, WorkersOK, BusyOn, OneAttemptOf,
         Untouched, Receive, Fresh, queue, convs, worker
<1>2. ASSUME NEW e \in Events, AddJob(e) PROVE OneAttemptOf(f)'
  <2>1. UNCHANGED <<recorded, owner, event, bad, interrupted, Kept>> /\ adding' = adding \ {e}
    BY <1>2, OthersKeep DEF AddJob, convs, worker
  <2>2. CASE job[e] = "none"
    <3>1. e \in adding /\ job' = [job EXCEPT ![e] = "waiting"]
      BY <1>2, <2>2 DEF AddJob
    <3>. QED
      BY <1>0, <2>1, <3>1 DEF OneAttemptOf, Untouched, QueueOK
  <2>3. CASE job[e] # "none"
    <3>1. e \in adding /\ job' = job
      BY <1>2, <2>3 DEF AddJob
    <3>. QED
      BY <1>0, <2>1, <2>3, <3>1 DEF OneAttemptOf, Untouched
  <2>. QED
    BY <2>2, <2>3
<1>3. ASSUME NEW e \in Events, AddFails(e) PROVE OneAttemptOf(f)'
  BY <1>3, <1>0, OthersKeep DEF WebhookOK, QueueOK, WorkersOK, BusyOn, OneAttemptOf,
         Untouched, AddFails, Mishap, queue, convs, worker
<1>4. ASSUME NEW w \in Workers, NEW e \in Events, Take(w, e) PROVE OneAttemptOf(f)'
  <2>1. job' = [job EXCEPT ![e] = "active"] /\ owner' = [owner EXCEPT ![e] = w]
        /\ event' = [event EXCEPT ![w] = e]
    BY <1>4 DEF Take
  <2>2. UNCHANGED <<recorded, adding, bad, interrupted, Kept>>
    BY <1>4, OthersKeep DEF Take, convs, webhook
  <2>3. job[e] = "waiting" /\ event[w] = Nobody /\ ~bad[w]
    BY <1>4 DEF Take, BusyOn
  <2>4. CASE f = e
    BY <1>0, <2>1, <2>2, <2>3, <2>4 DEF OneAttemptOf, Untouched, QueueOK, WorkersOK
  <2>5. CASE f # e
    BY <1>0, <2>1, <2>2, <2>3, <2>5 DEF OneAttemptOf, Untouched, QueueOK, WorkersOK
  <2>. QED
    BY <2>4, <2>5
<1>5. ASSUME NEW w \in Workers, Save(w) PROVE OneAttemptOf(f)'
  <2>1. UNCHANGED <<recorded, adding, job, owner, event, bad, interrupted>>
    BY <1>5 DEF Save, NextMessage, webhook, queue
  <2>2. f # event[w] => (Untouched(f) => Untouched(f)')
    BY <1>5, SaveKeeps, EventSize, MessageIsOfOneEvent DEF Untouched, Current
  <2>3. f = event[w] => owner[f] = w /\ job[f] = "active" /\ f \in recorded /\ f \notin adding
    BY <1>0, <2>1 DEF OneAttemptOf
  <2>. QED
    BY <1>0, <2>1, <2>2, <2>3 DEF OneAttemptOf
<1>6. ASSUME NEW w \in Workers, SaveCollides(w) PROVE OneAttemptOf(f)'
  <2>1. event[w] \in Events /\ pos[w] \in 1 .. Len(MessagesOf[event[w]]) /\ Current(w) \in Kept
    BY <1>6, StoredIsKept DEF SaveCollides, BusyOn, PerMessage
  <2>2. event[w] \in interrupted
    <3>1. SUFFICES ASSUME event[w] \notin interrupted
                   PROVE  FALSE
      OBVIOUS
    <3>2. pos[w] \in DOMAIN MessagesOf[event[w]] /\ pos[w] >= pos[w]
      BY <2>1, EventSize
    <3>3. MessagesOf[event[w]][pos[w]] \notin Kept
      BY <2>1, <3>1, <3>2 DEF AheadIsNew
    <3>. QED
      BY <2>1, <3>3 DEF Current
  <2>3. UNCHANGED <<recorded, adding, job, owner, event, interrupted, Kept>>
    BY <1>6, OthersKeep DEF SaveCollides, MessageFailed, NextMessage, webhook, queue, convs
  <2>4. f # event[w] /\ bad' = [bad EXCEPT ![w] = bad[w] \/ Failed(w)]
    BY <1>6, <2>2, <2>3 DEF SaveCollides, MessageFailed
  <2>. QED
    BY <1>0, <2>3, <2>4 DEF OneAttemptOf, Untouched, WorkersOK
<1>7. ASSUME NEW w \in Workers, Fail(w) PROVE OneAttemptOf(f)'
  BY <1>7, <1>0, OthersKeep DEF WebhookOK, QueueOK, WorkersOK, BusyOn, OneAttemptOf,
         Untouched, Fail, Mishap, MessageFailed, Failed, NextMessage, Goto, webhook, queue,
         convs, PerMessage
<1>8. ASSUME NEW w \in Workers, Close(w) PROVE OneAttemptOf(f)'
  <2>1. UNCHANGED <<recorded, adding, interrupted, Kept>>
    BY <1>8, OthersKeep DEF Close, convs, webhook
  <2>2. event' = [event EXCEPT ![w] = Nobody] /\ bad' = [bad EXCEPT ![w] = FALSE]
    BY <1>8 DEF Close, Leave
  <2>3. event[w] \in Events
    BY <1>8 DEF Close, BusyOn
  <2>4. CASE f = event[w]
    <3>1. owner[f] = w /\ job[f] = "active" /\ ~bad[w] /\ f \in recorded /\ f \notin adding
      BY <1>0, <2>1, <2>4 DEF OneAttemptOf
    <3>2. owner' = [owner EXCEPT ![f] = Nobody] /\ job' = [job EXCEPT ![f] = "none"]
      BY <1>8, <2>4, <3>1 DEF Close
    <3>3. \A x \in Workers : event'[x] # f
      BY <1>0, <2>1, <2>2, <2>3, <2>4 DEF OneAttemptOf, WorkersOK
    <3>. QED
      BY <2>1, <3>1, <3>2, <3>3 DEF OneAttemptOf, QueueOK
  <2>5. CASE f # event[w]
    <3>1. job'[f] = job[f] /\ owner'[f] = owner[f]
      BY <1>8, <2>3, <2>5 DEF Close, QueueOK, queue
    <3>. QED
      BY <1>0, <2>1, <2>2, <2>3, <2>5, <3>1 DEF OneAttemptOf, Untouched, WorkersOK
  <2>. QED
    BY <2>4, <2>5
<1>9. ASSUME NEW w \in Workers, Crash(w) PROVE OneAttemptOf(f)'
  BY <1>9, <1>0, OthersKeep DEF WebhookOK, QueueOK, WorkersOK, BusyOn, OneAttemptOf,
         Untouched, Crash, Mishap, Leave, Goto, webhook, queue, convs
<1>10. ASSUME NEW e \in Events, StallDead(e) PROVE OneAttemptOf(f)'
  <2>1. job[e] = "active" /\ ~Working(e)
    BY <1>10 DEF StallDead, TakeBack
  <2>2. UNCHANGED <<recorded, adding, event, bad, interrupted, Kept>>
    BY <1>10, OthersKeep DEF StallDead, TakeBack, convs, webhook, worker
  <2>3. f # e
    BY <1>0, <2>1, <2>2 DEF OneAttemptOf, Working
  <2>4. job'[f] = job[f] /\ owner'[f] = owner[f]
    BY <1>10, <2>3 DEF StallDead, TakeBack, QueueOK
  <2>. QED
    BY <1>0, <2>2, <2>4 DEF OneAttemptOf, Untouched
<1>11. ASSUME NEW e \in Events, StallLive(e) PROVE OneAttemptOf(f)'
  BY <1>11, <1>0, OthersKeep DEF WebhookOK, QueueOK, WorkersOK, BusyOn, OneAttemptOf,
         Untouched, StallLive, Mishap, TakeBack, webhook, convs, worker
<1>12. ASSUME NEW w \in Workers,
            Resolve(w) \/ Introduce(w) \/ FindConversation(w) \/ Wake(w) \/ Open(w) \/ ReadConversation(w)
     PROVE  UNCHANGED <<recorded, adding, job, owner, event, bad, interrupted, stored>>
  BY <1>12 DEF Resolve, Introduce, FindConversation, Wake, Open, ReadConversation, Goto,
         webhook, queue, convs, NextMessage
<1>13. ASSUME NEW a \in Agents, NEW c \in Convs, NEW act \in Statuses \cup {"reply"}, Request(a, c, act)
     PROVE  UNCHANGED <<recorded, adding, job, owner, event, bad, interrupted, stored>>
  BY <1>13 DEF Request, webhook, queue, convs, worker
<1>14. ASSUME NEW a \in Agents,
            WriteStatus(a) \/ CommitReply(a)
     PROVE  UNCHANGED <<recorded, adding, job, owner, event, bad, interrupted, stored>>
  BY <1>14 DEF WriteStatus, CommitReply, webhook, queue, worker
<1>15. UNCHANGED vars => UNCHANGED <<recorded, adding, job, owner, event, bad, interrupted, stored>>
  BY DEF vars, webhook, queue, convs, worker
<1>16. CASE UNCHANGED <<recorded, adding, job, owner, event, bad, interrupted, stored>>
  BY <1>16, <1>0, OthersKeep DEF WebhookOK, QueueOK, WorkersOK, BusyOn, OneAttemptOf,
         Untouched
<1>. QED
  BY <1>1, <1>2, <1>3, <1>4, <1>5, <1>6, <1>7, <1>8, <1>9, <1>10, <1>11, <1>12, <1>13,
     <1>14, <1>15, <1>16
     DEF Next, Provider, Work, Human

\* The one worker stores what it is at.
LEMMA AheadIsNewStep ==
  ASSUME QueueOK, ConvsOK, WorkersOK, RestOK, BusyOn, OneAttempt, AheadIsNew, [Next]_vars
  PROVE  AheadIsNew'
<1>. SUFFICES ASSUME NEW v \in Workers, event'[v] \in Events \ interrupted',
                    NEW i \in DOMAIN MessagesOf[event'[v]], i >= pos'[v]
             PROVE  MessagesOf[event'[v]][i] \notin Kept'
  BY DEF AheadIsNew
<1>1. ASSUME NEW w \in Workers, NEW e \in Events, Take(w, e) PROVE MessagesOf[event'[v]][i] \notin Kept'
  BY <1>1, OthersKeep DEF WorkersOK, AheadIsNew, Take, Goto, convs, OneAttempt,
         OneAttemptOf, Untouched
<1>2. ASSUME NEW w \in Workers, ReadConversation(w) PROVE MessagesOf[event'[v]][i] \notin Kept'
  <2>1. UNCHANGED <<event, interrupted, Kept>>
    BY <1>2, OthersKeep DEF ReadConversation, convs
  <2>2. pos' = pos \/ pos' = [pos EXCEPT ![w] = @ + 1]
    BY <1>2 DEF ReadConversation, NextMessage
  <2>3. i >= pos[v] /\ i \in DOMAIN MessagesOf[event[v]]
    <3>1. event[v] \in Events /\ i \in 1 .. Len(MessagesOf[event[v]])
          /\ Len(MessagesOf[event[v]]) \in Nat
      BY <2>1, EventSize
    <3>2. pos[v] \in Nat /\ pos'[v] \in {pos[v], pos[v] + 1}
      BY <2>2 DEF WorkersOK
    <3>. QED
      BY <2>1, <3>1, <3>2
  <2>. QED
    BY <2>1, <2>3 DEF AheadIsNew
<1>3. ASSUME NEW w \in Workers, Save(w) PROVE MessagesOf[event'[v]][i] \notin Kept'
  <2>1. UNCHANGED <<event, interrupted>> /\ pos' = [pos EXCEPT ![w] = @ + 1]
    BY <1>3 DEF Save, NextMessage
  <2>2. MessagesOf[event[v]][i] \notin Kept
    BY <2>1, EventSize DEF AheadIsNew, WorkersOK
  <2>3. event[v] = event[w] => v = w
    BY <2>1 DEF OneAttempt, OneAttemptOf
  <2>4. MessagesOf[event[v]][i] # Current(w)
    <3>1. SUFFICES ASSUME MessagesOf[event[v]][i] = Current(w) PROVE FALSE
      OBVIOUS
    <3>2. event[v] = event[w] /\ i = pos[w]
      BY <1>3, <2>1, <3>1, SaveKeeps, EventSize, MessageIsOfOneEvent DEF Current
    <3>. QED
      BY <1>3, <2>1, <2>3, <3>2, SaveKeeps DEF WorkersOK
  <2>. QED
    BY <1>3, <2>1, <2>2, <2>4, SaveKeeps
<1>4. ASSUME NEW w \in Workers, SaveCollides(w) PROVE MessagesOf[event'[v]][i] \notin Kept'
  BY <1>4, OthersKeep, EventSize DEF WorkersOK, AheadIsNew, SaveCollides, MessageFailed,
         Failed, NextMessage, Goto, convs
<1>5. ASSUME NEW w \in Workers, Fail(w) PROVE MessagesOf[event'[v]][i] \notin Kept'
  BY <1>5, OthersKeep, EventSize DEF WorkersOK, AheadIsNew, Fail, Mishap, MessageFailed,
         Failed, NextMessage, Goto, convs
<1>6. ASSUME NEW w \in Workers, Close(w) PROVE MessagesOf[event'[v]][i] \notin Kept'
  BY <1>6, OthersKeep DEF WorkersOK, AheadIsNew, Close, AfterFailure, Leave, Goto, convs
<1>7. ASSUME NEW w \in Workers, Crash(w) PROVE MessagesOf[event'[v]][i] \notin Kept'
  BY <1>7, OthersKeep DEF WorkersOK, AheadIsNew, Crash, Mishap, Leave, Goto, convs
<1>8. ASSUME NEW e \in Events, StallLive(e) PROVE MessagesOf[event'[v]][i] \notin Kept'
  BY <1>8, OthersKeep DEF WorkersOK, AheadIsNew, StallLive, Mishap, TakeBack, convs, worker
<1>9. ASSUME NEW e \in Events,
            Receive(e) \/ AddJob(e) \/ AddFails(e) \/ StallDead(e)
     PROVE  UNCHANGED <<event, pos, stored, interrupted>>
  BY <1>9 DEF Receive, AddJob, AddFails, StallDead, convs, worker, TakeBack
<1>10. ASSUME NEW w \in Workers,
            Resolve(w) \/ Introduce(w) \/ FindConversation(w) \/ Wake(w) \/ Open(w)
     PROVE  UNCHANGED <<event, pos, stored, interrupted>>
  BY <1>10 DEF Resolve, Introduce, FindConversation, Wake, Open, Goto, convs
<1>11. ASSUME NEW a \in Agents, NEW c \in Convs, NEW act \in Statuses \cup {"reply"}, Request(a, c, act)
     PROVE  UNCHANGED <<event, pos, stored, interrupted>>
  BY <1>11 DEF Request, convs, worker
<1>12. ASSUME NEW a \in Agents,
            WriteStatus(a) \/ CommitReply(a)
     PROVE  UNCHANGED <<event, pos, stored, interrupted>>
  BY <1>12 DEF WriteStatus, CommitReply, worker
<1>13. UNCHANGED vars => UNCHANGED <<event, pos, stored, interrupted>>
  BY DEF vars, convs, worker
<1>14. CASE UNCHANGED <<event, pos, stored, interrupted>>
  BY <1>14, OthersKeep DEF WorkersOK, AheadIsNew
<1>. QED
  BY <1>1, <1>2, <1>3, <1>4, <1>5, <1>6, <1>7, <1>8, <1>9, <1>10, <1>11, <1>12, <1>13, <1>14
     DEF Next, Provider, Work, Human

\* A message is stored where it is nowhere yet.
LEMMA StoredOnceStep ==
  ASSUME ConvsOK, WorkersOK, RestOK, BusyOn, AheadIsNew, StoredOnce, [Next]_vars
  PROVE  StoredOnce'
<1>. SUFFICES ASSUME NEW f \in Events, NEW i \in DOMAIN MessagesOf[f], f \notin interrupted'
             PROVE  ~Twice(MessagesOf[f][i])'
  BY DEF StoredOnce
<1>1. ASSUME NEW w \in Workers, Save(w) PROVE ~Twice(MessagesOf[f][i])'
  <2>1. ~Twice(MessagesOf[f][i]) /\ UNCHANGED interrupted
    BY <1>1 DEF Save, StoredOnce
  <2>2. CASE MessagesOf[f][i] = Current(w)
    <3>1. f = event[w] /\ i = pos[w]
      BY <1>1, <2>2, SaveKeeps, EventSize, MessageIsOfOneEvent DEF Current
    <3>2. MessagesOf[f][i] \notin Kept
      BY <2>1, <3>1, EventSize DEF AheadIsNew, WorkersOK
    <3>. QED
      BY <1>1, <3>2, SaveKeeps, StoredIsKept DEF Twice
  <2>3. CASE MessagesOf[f][i] # Current(w)
    BY <1>1, <2>1, <2>3, SaveKeeps DEF Twice
  <2>. QED
    BY <2>2, <2>3
<1>2. ASSUME NEW w \in Workers, Fail(w) PROVE ~Twice(MessagesOf[f][i])'
  BY <1>2 DEF StoredOnce, Twice, Fail, Mishap, MessageFailed, Failed, NextMessage, Goto,
         convs
<1>3. ASSUME NEW w \in Workers, Crash(w) PROVE ~Twice(MessagesOf[f][i])'
  BY <1>3 DEF StoredOnce, Twice, Crash, Mishap, Leave, Goto, convs
<1>4. ASSUME NEW e \in Events, StallLive(e) PROVE ~Twice(MessagesOf[f][i])'
  BY <1>4 DEF StoredOnce, Twice, StallLive, Mishap, TakeBack, convs
<1>5. ASSUME NEW e \in Events,
            Receive(e) \/ AddJob(e) \/ AddFails(e) \/ StallDead(e)
     PROVE  UNCHANGED <<stored, interrupted>>
  BY <1>5 DEF Receive, AddJob, AddFails, StallDead, convs, TakeBack
<1>6. ASSUME NEW w \in Workers, NEW e \in Events, Take(w, e)
     PROVE  UNCHANGED <<stored, interrupted>>
  BY <1>6 DEF Take, Goto, convs
<1>7. ASSUME NEW w \in Workers,
            Resolve(w) \/ Introduce(w) \/ FindConversation(w) \/ Wake(w) \/ Open(w) \/ ReadConversation(w) \/ SaveCollides(w) \/ Close(w)
     PROVE  UNCHANGED <<stored, interrupted>>
  BY <1>7 DEF Resolve, Introduce, FindConversation, Wake, Open, ReadConversation,
         SaveCollides, Close, Goto, convs, NextMessage, MessageFailed, Leave
<1>8. ASSUME NEW a \in Agents, NEW c \in Convs, NEW act \in Statuses \cup {"reply"}, Request(a, c, act)
     PROVE  UNCHANGED <<stored, interrupted>>
  BY <1>8 DEF Request, convs
<1>9. ASSUME NEW a \in Agents,
            WriteStatus(a) \/ CommitReply(a)
     PROVE  UNCHANGED <<stored, interrupted>>
  BY <1>9 DEF WriteStatus, CommitReply
<1>10. UNCHANGED vars => UNCHANGED <<stored, interrupted>>
  BY DEF vars, convs
<1>11. CASE UNCHANGED <<stored, interrupted>>
  BY <1>11 DEF StoredOnce, Twice
<1>. QED
  BY <1>1, <1>2, <1>3, <1>4, <1>5, <1>6, <1>7, <1>8, <1>9, <1>10, <1>11
     DEF Next, Provider, Work, Human

-----------------------------------------------------------------------------
(* The theorems. *)

\* At first there is nothing.
LEMMA InitIInv == Init => IInv
<1> SUFFICES ASSUME Init PROVE IInv
  OBVIOUS
<1>1. WebhookOK /\ QueueOK
  BY DEF Init, WebhookOK, QueueOK
<1>2. ConvsOK /\ WorkersOK
  BY DEF Init, ConvsOK, WorkersOK
<1>3. RestOK
  <2>1. Idle \in [conv : Convs \cup {Nobody}, read : Statuses \cup {"none"},
                 act : Statuses \cup {"none", "reply"}]
    BY DEF Idle
  <2>2. desk = [a \in Agents |-> Idle] /\ acts = 0 /\ mishaps = 0 /\ contacts = 0 /\ known = FALSE
        /\ interrupted = {}
    BY DEF Init
  <2>3. desk \in [Agents -> [conv : Convs \cup {Nobody}, read : Statuses \cup {"none"},
                           act : Statuses \cup {"none", "reply"}]]
    BY <2>1, <2>2
  <2>4. acts \in 0 .. MaxActs /\ mishaps \in 0 .. MaxMishaps
    BY <2>2, Numbers
  <2>. QED
    BY <2>2, <2>3, <2>4 DEF RestOK
<1>4. BusyOn /\ JobsCounted /\ DoneIsStored
  BY DEF Init, BusyOn, JobsCounted, DoneIsStored, PerMessage
<1>5. Kept = {}
  BY DEF Init, Kept
<1>6. OneAttempt
  BY <1>5 DEF Init, OneAttempt, OneAttemptOf, Untouched
<1>7. AheadIsNew /\ NothingIsLost
  BY <1>5 DEF Init, AheadIsNew, NothingIsLost
<1>8. StoredOnce /\ ResolvedIsRead /\ OneContact
  BY DEF Init, StoredOnce, Twice, ResolvedIsRead, OneContact
<1>. QED
  BY <1>1, <1>2, <1>3, <1>4, <1>6, <1>7, <1>8 DEF IInv, TypeOK

\* Every step keeps all the parts.
LEMMA NextIInv == IInv /\ [Next]_vars => IInv'
<1>1. IInv /\ [Next]_vars => TypeOK'
  BY WebhookOKStep, QueueOKStep, ConvsOKStep, WorkersOKStep, RestOKStep DEF IInv, TypeOK
<1>2. IInv /\ [Next]_vars => BusyOn' /\ JobsCounted' /\ DoneIsStored'
  BY BusyOnStep, JobsCountedStep, DoneIsStoredStep DEF IInv, TypeOK
<1>3. IInv /\ [Next]_vars => OneAttempt' /\ AheadIsNew' /\ StoredOnce'
  BY OneAttemptStep, AheadIsNewStep, StoredOnceStep DEF IInv, TypeOK
<1>4. IInv /\ [Next]_vars => NothingIsLost' /\ ResolvedIsRead' /\ OneContact'
  BY NothingIsLostStep, ResolvedIsReadStep, OneContactStep DEF IInv, TypeOK
<1>. QED
  BY <1>1, <1>2, <1>3, <1>4 DEF IInv

\* The invariant, and its parts.
LEMMA AlwaysIInv ==
  Spec => []IInv
<1>. QED
  BY InitIInv, NextIInv, PTL DEF Spec

\* Every variable keeps its type: no job has more failures than attempts, and
\* a job that used them up has failed.
THEOREM IngestionTypeCorrect == Spec => []TypeOK
<1>1. IInv => TypeOK
  BY DEF IInv
<1>. QED
  BY <1>1, AlwaysIInv, PTL

\* An event the webhook recorded is stored with all its messages, or its job is
\* on its way to the queue, in it or failed, or could not be added.
THEOREM NoEventIsLost == Spec => []NothingIsLost
<1>1. IInv => NothingIsLost
  BY DEF IInv
<1>. QED
  BY <1>1, AlwaysIInv, PTL

\* A message lands in two conversations only when an attempt at its event broke
\* off: a repeated delivery never does that, whatever the agents do meanwhile.
THEOREM OnlyBrokenAttemptsDuplicate == Spec => []StoredOnce
<1>1. IInv => StoredOnce
  BY DEF IInv
<1>. QED
  BY <1>1, AlwaysIInv, PTL

\* A conversation is resolved and unread only when it was resolved under a
\* message being created.
THEOREM ResolvedUnreadWasOvertaken == Spec => []ResolvedIsRead
<1>1. IInv => ResolvedIsRead
  BY DEF IInv
<1>. QED
  BY <1>1, AlwaysIInv, PTL

\* Workers that meet a new customer at the same time create one contact.
THEOREM ACustomerIsOneContact == Spec => []OneContact
<1>1. IInv => OneContact
  BY DEF IInv
<1>. QED
  BY <1>1, AlwaysIInv, PTL

===============================================================================
