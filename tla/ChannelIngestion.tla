--------------------------- MODULE ChannelIngestion ---------------------------
(***************************************************************************)
(* A customer's messages on their way into conversations.  The provider    *)
(* posts an event, perhaps again; the webhook stores it as a ChannelEvent, *)
(* unique by its external id, and adds a job; a worker of                  *)
(* ChannelIngestionProcessor takes the event's messages one by one:        *)
(* resolves the contact, finds the contact's active conversation or opens  *)
(* one, and creates the message, which is unique within its conversation.  *)
(* Meanwhile agents reply and change the status of conversations.          *)
(*                                                                         *)
(* One contact and one inbox.  Receipts are in OutboundDelivery.           *)
(***************************************************************************)
EXTENDS Naturals, Sequences

CONSTANTS Events,         \* events of the provider
          Messages,       \* messages of the customer
          MessagesOf,     \* MessagesOf[e]: the messages of e, in order
          Workers,        \* concurrent jobs of the processor
          Agents,         \* requests of human agents
          Convs,          \* rows of conversations: 1 .. n, in order of creation
          Attempts,       \* job.opts.attempts
          MaxStalls,      \* how often the queue gives a dead server's job out again
          MaxDeliveries,  \* bound: how often the provider posts an event
          MaxActs,        \* bound: acts of agents
          MaxMishaps,     \* bound: faults in one behaviour
          Faults          \* what may go wrong, see FaultKinds

FaultKinds ==
  { "queue",      \* queue.add fails, or the server dies before it
    "failure",    \* parsing, a query or an upload fails
    "crash",      \* a server dies under a job
    "stall" }     \* a live worker does not renew its job's lock

Nobody == 0

ASSUME IngestionAssumption ==
  /\ MessagesOf \in [Events -> Seq(Messages)]
  /\ \A e \in Events : MessagesOf[e] # << >>
  /\ \A e, f \in Events : \A i \in DOMAIN MessagesOf[e], j \in DOMAIN MessagesOf[f] :
       MessagesOf[e][i] = MessagesOf[f][j] => e = f /\ i = j
  /\ Nobody \notin Workers \cup Events \cup Convs
  /\ Attempts \in Nat \ {0}
  /\ MaxStalls \in Nat /\ MaxDeliveries \in Nat /\ MaxActs \in Nat /\ MaxMishaps \in Nat
  /\ Faults \subseteq FaultKinds

VARIABLES
  recorded,     \* the events that have a ChannelEvent
  adding,       \* recorded events whose request has not added the job yet
  job,          \* job[e]: "none", "waiting", "active" or "failed"
  owner,        \* owner[e]: the worker whose token the active job has
  failures,     \* failures[e]: attemptsMade
  stalls,       \* stalls[e]: how often the job was taken back
  known,        \* the contact's ChannelIdentity exists
  contacts,     \* how many contacts were created
  status,       \* status[c]: Conversation.status, "none" before it is created
  unread,       \* status[c] with unreadMessagesCount > 0
  recent,       \* <<d, c>>: c's lastActivityAt is after d's
  stored,       \* <<c, m>>: message m is in conversation c
  at,           \* at[w]: where worker w is
  event,        \* event[w]: the event of its job
  pos,          \* pos[w]: which of the event's messages it is at
  conv,         \* conv[w]: the conversation it found
  snap,         \* snap[w]: the conversation's status as MessagesService read it
  bad,          \* bad[w]: failedMessages is not empty
  desk,         \* desk[a]: the conversation, what was read of it, and the act
  acts,         \* how many acts of agents there were
  told,         \* history: how often the provider posted each event
  dropped,      \* history: events recorded whose job was not added
  interrupted,  \* history: events one of whose attempts broke off
  overtaken,    \* history: conversations resolved under a message being created
  mishaps       \* how many faults there were

webhook == <<recorded, adding, told, dropped>>
queue == <<job, owner, failures, stalls>>
people == <<known, contacts>>
convs == <<status, unread, recent, stored, overtaken>>
worker == <<at, event, pos, conv, snap, bad>>
human == <<desk, acts>>
vars == <<webhook, queue, people, convs, worker, human, interrupted, mishaps>>

Idle == [conv |-> Nobody, read |-> "none", act |-> "none"]
Statuses == {"OPEN", "PENDING", "SNOOZED", "RESOLVED"}

Mishap(kind) == kind \in Faults /\ mishaps < MaxMishaps /\ mishaps' = mishaps + 1

Goto(w, place) == at' = [at EXCEPT ![w] = place]

Init ==
  /\ recorded = {} /\ adding = {} /\ dropped = {} /\ interrupted = {}
  /\ told = [e \in Events |-> 0]
  /\ job = [e \in Events |-> "none"]
  /\ owner = [e \in Events |-> Nobody]
  /\ failures = [e \in Events |-> 0]
  /\ stalls = [e \in Events |-> 0]
  /\ known = FALSE /\ contacts = 0
  /\ status = [c \in Convs |-> "none"]
  /\ unread = [c \in Convs |-> FALSE]
  /\ recent = {} /\ stored = {} /\ overtaken = {}
  /\ at = [w \in Workers |-> "idle"]
  /\ event = [w \in Workers |-> Nobody]
  /\ pos = [w \in Workers |-> 1]
  /\ conv = [w \in Workers |-> Nobody]
  /\ snap = [w \in Workers |-> "none"]
  /\ bad = [w \in Workers |-> FALSE]
  /\ desk = [a \in Agents |-> Idle]
  /\ acts = 0 /\ mishaps = 0

-----------------------------------------------------------------------------
(* WebhooksService.handleInboundWebhook *)

\* A slip: every delivery is dispatched.
FreshAlways(e) == TRUE
\* The lookup, and the unique index under it.
Fresh(e) == e \notin recorded

Receive(e) ==
  /\ told[e] < MaxDeliveries
  /\ told' = [told EXCEPT ![e] = @ + 1]
  /\ recorded' = recorded \cup {e}
  /\ adding' = IF Fresh(e) THEN adding \cup {e} ELSE adding
  /\ UNCHANGED <<queue, people, convs, worker, human, dropped, interrupted, mishaps>>

\* The job's id is the event's row: the queue may know it already.
AddJob(e) ==
  /\ e \in adding
  /\ adding' = adding \ {e}
  /\ job' = IF job[e] = "none" THEN [job EXCEPT ![e] = "waiting"] ELSE job
  /\ UNCHANGED <<recorded, told, dropped, owner, failures, stalls, people, convs, worker, human,
                 interrupted, mishaps>>

\* The provider reads an error and posts again, and is told it is a duplicate.
AddFails(e) ==
  /\ Mishap("queue")
  /\ e \in adding
  /\ adding' = adding \ {e}
  /\ dropped' = dropped \cup {e}
  /\ UNCHANGED <<recorded, told, queue, people, convs, worker, human, interrupted>>

-----------------------------------------------------------------------------
(* ChannelIngestionProcessor.process *)

Take(w, e) ==
  /\ at[w] = "idle"
  /\ job[e] = "waiting"
  /\ job' = [job EXCEPT ![e] = "active"]
  /\ owner' = [owner EXCEPT ![e] = w]
  /\ event' = [event EXCEPT ![w] = e]
  /\ pos' = [pos EXCEPT ![w] = 1]
  /\ Goto(w, "resolving")
  /\ UNCHANGED <<webhook, failures, stalls, people, convs, conv, snap, bad, human, interrupted, mishaps>>

\* ContactResolutionService.resolveFromChannel: the identity is looked up.
Resolve(w) ==
  /\ at[w] = "resolving"
  /\ Goto(w, IF known THEN "finding" ELSE "introducing")
  /\ UNCHANGED <<webhook, queue, people, convs, event, pos, conv, snap, bad, human, interrupted, mishaps>>

\* A slip: the contact is created ahead of the transaction.
OneMoreContact == contacts + 1
\* The transaction is rolled back when the identity has come to exist.
NewContacts == IF known THEN contacts ELSE contacts + 1

Introduce(w) ==
  /\ at[w] = "introducing"
  /\ known' = TRUE
  /\ contacts' = NewContacts
  /\ Goto(w, "finding")
  /\ UNCHANGED <<webhook, queue, convs, event, pos, conv, snap, bad, human, interrupted, mishaps>>

Active == {c \in Convs : status[c] \in {"OPEN", "PENDING", "SNOOZED"}}
Later(c, d) == <<d, c>> \in recent
Touch(c) ==
  recent' = {p \in recent : p[1] # c /\ p[2] # c}
            \cup {<<d, c>> : d \in {d \in Convs \ {c} : status[d] # "none"}}

\* findActiveByContactAndInbox: the latest of them.
FindConversation(w) ==
  /\ at[w] = "finding"
  /\ \/ Active = {} /\ Goto(w, "opening") /\ UNCHANGED conv
     \/ \E c \in Active :
          /\ \A d \in Active \ {c} : Later(c, d)
          /\ conv' = [conv EXCEPT ![w] = c]
          /\ Goto(w, IF status[c] = "SNOOZED" THEN "waking" ELSE "reading")
  /\ UNCHANGED <<webhook, queue, people, convs, event, pos, snap, bad, human, interrupted, mishaps>>

\* updateStatus(OPEN), which every other status may become.
Wake(w) ==
  /\ at[w] = "waking"
  /\ status' = [status EXCEPT ![conv[w]] = "OPEN"]
  /\ Goto(w, "reading")
  /\ UNCHANGED <<webhook, queue, people, unread, recent, stored, overtaken, event, pos, conv, snap,
                 bad, human, interrupted, mishaps>>

\* ConversationsService.create; nothing keeps a second one from being opened.
Open(w) ==
  /\ at[w] = "opening"
  /\ \E c \in Convs :
       /\ status[c] = "none" /\ \A d \in Convs : d < c => status[d] # "none"
       /\ status' = [status EXCEPT ![c] = "OPEN"]
       /\ conv' = [conv EXCEPT ![w] = c]
       /\ Touch(c)
  /\ Goto(w, "reading")
  /\ UNCHANGED <<webhook, queue, people, unread, stored, overtaken, event, pos, snap, bad, human,
                 interrupted, mishaps>>

Current(w) == MessagesOf[event[w]][pos[w]]

\* The message is done, or has failed: the next one, or the end of the loop.
NextMessage(w) ==
  /\ pos' = [pos EXCEPT ![w] = @ + 1]
  /\ conv' = [conv EXCEPT ![w] = Nobody]
  /\ snap' = [snap EXCEPT ![w] = "none"]
  /\ Goto(w, IF pos[w] = Len(MessagesOf[event[w]]) THEN "closing" ELSE "resolving")

\* MessagesService.create reads the conversation, and whether it has the message.
ReadConversation(w) ==
  /\ at[w] = "reading"
  /\ IF <<conv[w], Current(w)>> \in stored
     THEN NextMessage(w)
     ELSE /\ snap' = [snap EXCEPT ![w] = status[conv[w]]]
          /\ Goto(w, "saving")
          /\ UNCHANGED <<pos, conv>>
  /\ UNCHANGED <<webhook, queue, people, convs, event, bad, human, interrupted, mishaps>>

\* A slip: a resolved conversation is not reopened.
ReopensUnlessResolved(read) == read \in {"SNOOZED", "PENDING"}
Reopens(read) == read \in {"RESOLVED", "SNOOZED", "PENDING"}

\* The transaction: the message, the unread count, and the status if the one
\* that was read calls for it.
Save(w) ==
  /\ at[w] = "saving"
  /\ <<conv[w], Current(w)>> \notin stored
  /\ stored' = stored \cup {<<conv[w], Current(w)>>}
  /\ unread' = [unread EXCEPT ![conv[w]] = TRUE]
  /\ status' = IF Reopens(snap[w]) THEN [status EXCEPT ![conv[w]] = "OPEN"] ELSE status
  /\ overtaken' = IF snap[w] # "RESOLVED" /\ status[conv[w]] = "RESOLVED"
                  THEN overtaken \cup {conv[w]} ELSE overtaken
  /\ Touch(conv[w])
  /\ NextMessage(w)
  /\ UNCHANGED <<webhook, queue, people, event, bad, human, interrupted, mishaps>>

\* A slip: the error of a message is logged and nothing else.
FailedIgnored(w) == FALSE
\* failedMessages.push
Failed(w) == TRUE

MessageFailed(w) == bad' = [bad EXCEPT ![w] = bad[w] \/ Failed(w)] /\ NextMessage(w)

\* Another run of the event has stored it meanwhile: the unique index.
SaveCollides(w) ==
  /\ at[w] = "saving"
  /\ <<conv[w], Current(w)>> \in stored
  /\ MessageFailed(w)
  /\ UNCHANGED <<webhook, queue, people, convs, event, human, interrupted, mishaps>>

PerMessage == {"resolving", "introducing", "finding", "waking", "opening", "reading", "saving"}

Fail(w) ==
  /\ Mishap("failure")
  /\ at[w] \in PerMessage
  /\ MessageFailed(w)
  /\ interrupted' = interrupted \cup {event[w]}
  /\ UNCHANGED <<webhook, queue, people, convs, event, human>>

Leave(w) ==
  /\ Goto(w, "idle")
  /\ event' = [event EXCEPT ![w] = Nobody]
  /\ pos' = [pos EXCEPT ![w] = 1]
  /\ conv' = [conv EXCEPT ![w] = Nobody]
  /\ snap' = [snap EXCEPT ![w] = "none"]
  /\ bad' = [bad EXCEPT ![w] = FALSE]

\* A slip: failures are not counted.
RetriesForever(e) == "waiting"
AfterFailure(e) == IF failures[e] + 1 < Attempts THEN "waiting" ELSE "failed"

\* processedAt (a failure of which is only logged) and a return, or a throw;
\* the queue moves the job, unless it has given it to somebody else.
Close(w) ==
  /\ at[w] = "closing"
  /\ LET e == event[w] IN
     IF owner[e] # w THEN UNCHANGED queue
     ELSE /\ owner' = [owner EXCEPT ![e] = Nobody]
          /\ IF bad[w]
             THEN /\ job' = [job EXCEPT ![e] = AfterFailure(e)]
                  /\ failures' = [failures EXCEPT ![e] = @ + 1]
             ELSE job' = [job EXCEPT ![e] = "none"] /\ UNCHANGED failures
          /\ UNCHANGED stalls
  /\ Leave(w)
  /\ UNCHANGED <<webhook, people, convs, human, interrupted, mishaps>>

Crash(w) ==
  /\ Mishap("crash")
  /\ at[w] # "idle"
  /\ interrupted' = interrupted \cup {event[w]}
  /\ Leave(w)
  /\ UNCHANGED <<webhook, queue, people, convs, human>>

Working(e) == \E w \in Workers : owner[e] = w /\ event[w] = e

\* The stalled checker: of a dead worker, or of a live one that goes on.
TakeBack(e) ==
  /\ job[e] = "active"
  /\ job' = [job EXCEPT ![e] = IF stalls[e] < MaxStalls THEN "waiting" ELSE "failed"]
  /\ stalls' = [stalls EXCEPT ![e] = @ + 1]
  /\ owner' = [owner EXCEPT ![e] = Nobody]
  /\ UNCHANGED <<webhook, failures, people, convs, worker, human>>
StallDead(e) == ~ Working(e) /\ TakeBack(e) /\ UNCHANGED <<interrupted, mishaps>>
StallLive(e) ==
  /\ Mishap("stall")
  /\ Working(e) /\ TakeBack(e)
  /\ interrupted' = interrupted \cup {e}

-----------------------------------------------------------------------------
(* Human agents: a request reads the conversation, and then writes it. *)

\* ALLOWED_STATUS_TRANSITIONS
Allowed(from) ==
  CASE from = "OPEN"     -> {"PENDING", "SNOOZED", "RESOLVED"}
    [] from = "PENDING"  -> {"OPEN", "SNOOZED", "RESOLVED"}
    [] from = "SNOOZED"  -> {"OPEN", "RESOLVED"}
    [] from = "RESOLVED" -> {"OPEN"}

\* updateStatus to one of the allowed, or MessagesService.create of a reply.
Request(a, c, act) ==
  /\ desk[a] = Idle
  /\ acts < MaxActs /\ acts' = acts + 1
  /\ status[c] # "none"
  /\ act \in Allowed(status[c]) \cup {"reply"}
  /\ desk' = [desk EXCEPT ![a] = [conv |-> c, read |-> status[c], act |-> act]]
  /\ UNCHANGED <<webhook, queue, people, convs, worker, interrupted, mishaps>>

WriteStatus(a) ==
  /\ desk[a].act \in Statuses
  /\ LET c == desk[a].conv IN
     /\ status' = [status EXCEPT ![c] = desk[a].act]
     /\ unread' = IF desk[a].act = "RESOLVED" THEN [unread EXCEPT ![c] = FALSE] ELSE unread
  /\ desk' = [desk EXCEPT ![a] = Idle]
  /\ UNCHANGED <<webhook, queue, people, recent, stored, overtaken, worker, acts, interrupted, mishaps>>

CommitReply(a) ==
  /\ desk[a].act = "reply"
  /\ LET c == desk[a].conv IN
     /\ status' = IF desk[a].read \in {"PENDING", "SNOOZED"} THEN [status EXCEPT ![c] = "OPEN"] ELSE status
     /\ unread' = [unread EXCEPT ![c] = FALSE]
     /\ Touch(c)
  /\ desk' = [desk EXCEPT ![a] = Idle]
  /\ UNCHANGED <<webhook, queue, people, stored, overtaken, worker, acts, interrupted, mishaps>>

-----------------------------------------------------------------------------
Provider == \E e \in Events : Receive(e) \/ AddJob(e) \/ AddFails(e)

Work(w) ==
  \/ Resolve(w) \/ Introduce(w) \/ FindConversation(w) \/ Wake(w) \/ Open(w)
  \/ ReadConversation(w) \/ Save(w) \/ SaveCollides(w) \/ Close(w)

Human(a) ==
  \/ \E c \in Convs, act \in Statuses \cup {"reply"} : Request(a, c, act)
  \/ WriteStatus(a) \/ CommitReply(a)

Next ==
  \/ Provider
  \/ \E w \in Workers : Work(w) \/ Fail(w) \/ Crash(w) \/ \E e \in Events : Take(w, e)
  \/ \E e \in Events : StallDead(e) \/ StallLive(e)
  \/ \E a \in Agents : Human(a)

Spec == Init /\ [][Next]_vars

-----------------------------------------------------------------------------
(* Properties *)

WebhookOK ==
  /\ recorded \subseteq Events /\ adding \subseteq Events /\ dropped \subseteq Events
  /\ told \in [Events -> 0 .. MaxDeliveries]

QueueOK ==
  /\ job \in [Events -> {"none", "waiting", "active", "failed"}]
  /\ owner \in [Events -> Workers \cup {Nobody}]
  /\ failures \in [Events -> 0 .. Attempts]
  /\ \A e \in Events : failures[e] = Attempts => job[e] = "failed"
  /\ stalls \in [Events -> 0 .. MaxStalls + 1]

ConvsOK ==
  /\ status \in [Convs -> Statuses \cup {"none"}]
  /\ unread \in [Convs -> BOOLEAN]
  /\ recent \subseteq Convs \X Convs
  /\ stored \subseteq Convs \X Messages
  /\ overtaken \subseteq Convs

WorkersOK ==
  /\ at \in [Workers -> {"idle", "closing"} \cup PerMessage]
  /\ event \in [Workers -> Events \cup {Nobody}]
  /\ pos \in [Workers -> Nat \ {0}]
  /\ conv \in [Workers -> Convs \cup {Nobody}]
  /\ snap \in [Workers -> Statuses \cup {"none"}]
  /\ bad \in [Workers -> BOOLEAN]

RestOK ==
  /\ known \in BOOLEAN /\ contacts \in Nat
  /\ desk \in [Agents -> [conv : Convs \cup {Nobody}, read : Statuses \cup {"none"},
                          act : Statuses \cup {"none", "reply"}]]
  /\ acts \in 0 .. MaxActs /\ mishaps \in 0 .. MaxMishaps
  /\ interrupted \subseteq Events

TypeOK == WebhookOK /\ QueueOK /\ ConvsOK /\ WorkersOK /\ RestOK

Kept == {m \in Messages : \E c \in Convs : <<c, m>> \in stored}
Twice(m) == \E c, d \in Convs : c # d /\ <<c, m>> \in stored /\ <<d, m>> \in stored

(***************************************************************************)
(* An event the webhook recorded is not lost: all its messages are stored, *)
(* or a request is about to add its job, or the queue has the job, be it   *)
(* among the failed ones, or adding it failed.                             *)
(***************************************************************************)
NothingIsLost ==
  \A e \in recorded :
    \/ \A i \in DOMAIN MessagesOf[e] : MessagesOf[e][i] \in Kept
    \/ e \in adding \/ job[e] # "none" \/ e \in dropped

(***************************************************************************)
(* A message is in two conversations only when an attempt at its event     *)
(* broke off: posting an event again is never enough, whatever the agents  *)
(* do to the conversation.                                                 *)
(***************************************************************************)
StoredOnce ==
  \A e \in Events : \A i \in DOMAIN MessagesOf[e] :
    Twice(MessagesOf[e][i]) => e \in interrupted

(***************************************************************************)
(* A conversation shows as resolved over an unread message only when it    *)
(* was resolved while that message was being created.                      *)
(***************************************************************************)
ResolvedIsRead ==
  \A c \in Convs : status[c] = "RESOLVED" /\ unread[c] => c \in overtaken

(***************************************************************************)
(* However many workers meet a new customer at once, there is one contact. *)
(***************************************************************************)
OneContact == contacts = IF known THEN 1 ELSE 0

(***************************************************************************)
(* What the processor's comment says: a retry skips the messages that are  *)
(* already there.                                                          *)
(***************************************************************************)
RetriesAreIdempotent == \A m \in Messages : ~ Twice(m)

=============================================================================
