----------------------------- MODULE AiAutopilot -----------------------------
(***************************************************************************)
(* The AI autopilot of one conversation.  A public message of the customer *)
(* is dispatched (AiDispatcherListener): guardrails, the pause flag, then  *)
(* a slot that only grows in the debounce key, then a delayed job.  The    *)
(* worker (AiAgentWorker) drops a job whose slot is no longer the newest,  *)
(* looks at the pause flag, runs the agent's loop, which looks at the flag *)
(* after every step, saves the reply, counts it and plans a follow-up.     *)
(* Agents take the conversation over by speaking in it (AiTakeoverListener)*)
(* or with a button, and give it back by resolving it.                     *)
(*                                                                         *)
(* at[m] follows message m through all of it: the dispatcher's handler,    *)
(* its job, and the worker inside processMessage.  Jobs of the queue are   *)
(* delayed, retried and taken back from dead servers by BullMQ, in any     *)
(* order.  A definition said to be a slip is not part of the model: it is  *)
(* the definition after it with a plausible bug.                           *)
(***************************************************************************)
EXTENDS Naturals

CONSTANTS Messages,    \* public messages of the customer: numbers in order of arrival
          Agents,      \* human agents (or tabs) that act on the conversation
          Attempts,    \* job.opts.attempts
          MaxStalls,   \* how often the queue gives a dead server's job out again
          MaxSteps,    \* stepCountIs(DEFAULT_MAX_STEPS)
          MaxActs,     \* bound: acts of human agents
          MaxClock,    \* bound: milliseconds that pass
          MaxMishaps,  \* bound: faults in one behaviour
          Faults       \* what may go wrong, see FaultKinds

FaultKinds ==
  { "guardrail",   \* the guardrails block a message
    "failure",     \* the model, or a statement of the worker, fails
    "queue",       \* queue.add fails, or the server dies in the dispatcher
    "crash",       \* a server dies under a job
    "expiry",      \* a job waits for longer than the debounce key lives
    "redis",       \* the debounce key cannot be read
    "listener" }   \* the takeover listener fails, or its server dies

ASSUME AutopilotAssumption ==
  /\ Messages \subseteq Nat
  /\ Attempts \in Nat \ {0}
  /\ MaxStalls \in Nat
  /\ MaxSteps \in Nat \ {0}
  /\ MaxActs \in Nat
  /\ MaxClock \in Nat \ {0}
  /\ MaxMishaps \in Nat
  /\ Faults \subseteq FaultKinds

VARIABLES
  resolved,   \* conversation.status is RESOLVED
  paused,     \* conversation.isAiPaused
  usage,      \* customAttributes.aiUsage.aiMessagesCount
  clock,      \* Date.now()
  slot,       \* the debounce key, 0 when it is absent
  at,         \* at[m]: where message m is
  stamp,      \* stamp[m]: scheduledAt in the data of m's job
  failures,   \* failures[m]: attemptsMade
  stalls,     \* stalls[m]: how often the job was taken back
  steps,      \* steps[m]: steps of the agent's loop in this attempt
  read,       \* read[m]: the aiMessagesCount the worker read
  follow,     \* the job follow-up-<conversation>
  wrote,      \* lastContactMessageAt is later than its aiMessageTimestamp
  desk,       \* desk[a]: where agent a's request and its listener are
  acts,       \* how many acts of agents there were
  mishaps,    \* how many faults there were
  replies,    \* history: replies[m], the answers job m saved
  fallbacks,  \* history: fallbacks[m], the fallback messages of job m
  broken,     \* history: the jobs whose attempt ended after it saved its reply
  remembered, \* history: the messages that took a slot since the key was last wiped
  outdone,    \* history: those of them that another one followed
  jumped,     \* history: the jobs that ran although a newer slot was remembered
  total,      \* history: how many replies were saved
  spared      \* history: who was past the last look at the flag when the pause began

row == <<resolved, paused, usage>>
job == <<stamp, failures, stalls, steps, read>>
plan == <<follow, wrote>>
human == <<desk, acts>>
ghosts == <<jumped, spared>>
said == <<replies, fallbacks, broken, total>>
debounce == <<slot, remembered, outdone>>
vars == <<row, clock, debounce, at, job, plan, human, said, mishaps, ghosts>>

(* The places of a job on a worker. *)
Telling == {"charging", "parting"}   \* past the guard, before the message
InTool == Telling \cup {"parted", "handed"}
InTry == InTool \cup {"thinking", "worded", "stepped", "answering", "saved", "counting", "planning"}
AfterReply == {"saved", "counting", "planning"}
\* CheckPaused is behind it.
PastCheck == InTry \cup {"apologising"}
Running == PastCheck \cup {"newest", "apologised"}

\* One of the faults, if the bound allows it.
Mishap(kind) == kind \in Faults /\ mishaps < MaxMishaps /\ mishaps' = mishaps + 1

Goto(m, place) == at' = [at EXCEPT ![m] = place]

Nobody == [replies |-> {}, tools |-> {}, apologies |-> {}, followUp |-> FALSE]

\* isAiPaused is written.  Who can still speak when a pause begins: a job that
\* will save its text with no more looks at the flag, a tool past its guard that
\* has not sent its message, a job whose attempt can still fail for the last
\* time, and a follow-up past its check.
SetPaused(value) ==
  /\ paused' = value
  /\ spared' = IF ~ value THEN Nobody
               ELSE IF paused THEN spared
               ELSE [replies |-> {m \in Messages : at[m] = "answering"},
                     tools |-> {m \in Messages : at[m] \in Telling},
                     apologies |-> {m \in Messages : at[m] \in PastCheck},
                     followUp |-> follow = "sending"]

Init ==
  /\ resolved = FALSE /\ paused = FALSE /\ usage = 0
  /\ clock = 1
  /\ slot = 0
  /\ at = [m \in Messages |-> "unsent"]
  /\ stamp = [m \in Messages |-> 0]
  /\ failures = [m \in Messages |-> 0]
  /\ stalls = [m \in Messages |-> 0]
  /\ steps = [m \in Messages |-> 0]
  /\ read = [m \in Messages |-> 0]
  /\ follow = "none" /\ wrote = FALSE
  /\ desk = [a \in Agents |-> "free"]
  /\ acts = 0 /\ mishaps = 0
  /\ replies = [m \in Messages |-> 0]
  /\ fallbacks = [m \in Messages |-> 0]
  /\ broken = {} /\ remembered = {} /\ outdone = {} /\ jumped = {}
  /\ total = 0
  /\ spared = Nobody

\* Only Reserve reads the clock: time passes after the first slot (its origin)
\* and before another Reserve; anywhere else nothing could tell.
Tick ==
  /\ clock < MaxClock
  /\ \E m, k \in Messages : stamp[m] # 0 /\ at[k] = "cleared"
  /\ clock' = clock + 1
  /\ UNCHANGED <<row, debounce, at, job, plan, human, said, mishaps, ghosts>>

\* The key is deleted, or its TTL ends: nothing is remembered of the slots.
Wipe == slot' = 0 /\ remembered' = {} /\ outdone' = {}

Expire ==
  /\ Mishap("expiry")
  /\ slot # 0
  /\ Wipe
  /\ UNCHANGED <<row, clock, at, job, plan, human, said, ghosts>>

-----------------------------------------------------------------------------
(* AiDispatcherListener.handleInboundMessage *)

\* MessagesService.create of the customer's message, which reopens.
Arrive(m) ==
  /\ at[m] = "unsent"
  /\ \A k \in Messages : k < m => at[k] # "unsent"
  /\ resolved' = FALSE
  /\ Goto(m, "arrived")
  /\ UNCHANGED <<paused, usage, clock, debounce, job, plan, human, said, mishaps, ghosts>>

\* lastContactMessageAt = now, which may be the millisecond of the follow-up's.
NoteContact(m) ==
  /\ at[m] = "arrived"
  /\ wrote' \in {wrote, follow = "delayed"}
  /\ Goto(m, "noted")
  /\ UNCHANGED <<row, clock, debounce, job, follow, human, said, mishaps, ghosts>>

\* guardrailService.check lets the message through to the read of the pause
\* flag, or blocks it; some reasons are told to the customer, whatever the
\* flag says.
Guard(m) ==
  /\ at[m] = "noted"
  /\ \/ Goto(m, IF paused THEN "silenced" ELSE "cleared")
     \/ "guardrail" \in Faults /\ (Goto(m, "blocked") \/ Goto(m, "notified"))
  /\ UNCHANGED <<row, clock, debounce, job, plan, human, said, mishaps, ghosts>>

\* A slip: the slot is the clock, and two messages of one millisecond share it.
NextSlotByClock == IF clock > slot THEN clock ELSE slot
\* RedisService.reserveIncreasingValue: math.max(now, prev + 1).
NextSlot == IF clock > slot + 1 THEN clock ELSE slot + 1

Reserve(m) ==
  /\ at[m] = "cleared"
  /\ slot' = NextSlot
  /\ stamp' = [stamp EXCEPT ![m] = NextSlot]
  /\ remembered' = remembered \cup {m}
  /\ outdone' = outdone \cup remembered
  /\ Goto(m, "reserved")
  /\ UNCHANGED <<row, clock, failures, stalls, steps, read, plan, human, said, mishaps, ghosts>>

AddJob(m) ==
  /\ at[m] = "reserved"
  /\ Goto(m, "queued")
  /\ UNCHANGED <<row, clock, debounce, job, plan, human, said, mishaps, ghosts>>

\* The handler catches and logs every error, and nobody calls it again.
LoseDispatch(m) ==
  /\ Mishap("queue")
  /\ at[m] \in {"arrived", "noted", "cleared", "reserved"}
  /\ Goto(m, "lost")
  /\ UNCHANGED <<row, clock, debounce, job, plan, human, said, ghosts>>

-----------------------------------------------------------------------------
(* AiAgentWorker.processMessage *)

\* A slip: a job is dropped when its own slot is the newest as well.
SupersededOrNewest(m) == slot # 0 /\ slot >= stamp[m]
\* The key exists and holds a later slot than the one in the job's data.
Superseded(m) == slot # 0 /\ slot > stamp[m]

CheckSlot(m) ==
  /\ at[m] = "queued"
  /\ \/ /\ Superseded(m)
        /\ Goto(m, "superseded")
        /\ UNCHANGED jumped
     \/ /\ ~ Superseded(m)
        /\ Goto(m, "newest")
        /\ jumped' = IF m \in outdone THEN jumped \cup {m} ELSE jumped
  /\ UNCHANGED <<row, clock, debounce, job, plan, human, said, mishaps, spared>>

\* RedisService.get returns null on an error, which reads like an absent key.
ReadSlotFails(m) ==
  /\ Mishap("redis")
  /\ at[m] = "queued"
  /\ Goto(m, "newest")
  /\ UNCHANGED <<row, clock, debounce, job, plan, human, said, ghosts>>

CheckPaused(m) ==
  /\ at[m] = "newest"
  /\ Goto(m, IF paused THEN "silenced" ELSE "thinking")
  /\ UNCHANGED <<row, clock, debounce, job, plan, human, said, mishaps, ghosts>>

\* A slip: tools run whatever the flag says.
Unguarded(place) == place
\* withHumanTakeoverGuard: the flag is read before a tool runs; a tool that is
\* stopped is a step without effect.
Guarded(place) == IF paused THEN "stepped" ELSE place

\* One step of generateText: the model answers with text, or calls a tool.  Two
\* tools speak to the customer, confirmAndGenerateQR and escalateToHuman.
Think(m) ==
  /\ at[m] = "thinking"
  /\ steps' = [steps EXCEPT ![m] = @ + 1]
  /\ \/ Goto(m, "worded")
     \/ Goto(m, "stepped")
     \/ Goto(m, Guarded("charging"))
     \/ Goto(m, Guarded("parting"))
  /\ UNCHANGED <<row, clock, debounce, stamp, failures, stalls, read, plan, human, said, mishaps, ghosts>>

\* confirmAndGenerateQR: the payment card, an outgoing message, after the order
\* is confirmed and its QR code made.  There is none when the order is unknown,
\* paid or cancelled, or when anything fails: the tool catches every error.
SendCard(m) ==
  /\ at[m] = "charging"
  /\ Goto(m, "stepped")
  /\ UNCHANGED <<row, clock, debounce, job, plan, human, said, mishaps, ghosts>>

\* escalateToHuman: the farewell (and a private note), then the flag, then
\* the key.  Its errors go back to the model as the tool's result.
SayFarewell(m) ==
  /\ at[m] = "parting"
  /\ Goto(m, "parted")
  /\ UNCHANGED <<row, clock, debounce, job, plan, human, said, mishaps, ghosts>>

HandOver(m) ==
  /\ at[m] = "parted"
  /\ SetPaused(TRUE)
  /\ Goto(m, "handed")
  /\ UNCHANGED <<resolved, usage, clock, debounce, job, plan, human, said, mishaps, jumped>>

WipeByTool(m) ==
  /\ at[m] = "handed"
  /\ Wipe
  /\ Goto(m, "stepped")
  /\ UNCHANGED <<row, clock, job, plan, human, said, mishaps, ghosts>>

ToolFails(m) ==
  /\ Mishap("failure")
  /\ at[m] \in {"parting", "parted"}
  /\ Goto(m, "stepped")
  /\ UNCHANGED <<row, clock, debounce, job, plan, human, said, ghosts>>

\* A slip: one step too many.
AfterStepInclusive(m) ==
  IF paused THEN "silenced"
  ELSE IF at[m] = "worded" THEN "answering"
  ELSE IF steps[m] <= MaxSteps THEN "thinking" ELSE "wordless"
\* stopWhen after each step: a pause ends the run and discards the text; the
\* loop ends with text, or at the last step without any.
AfterStep(m) ==
  IF paused THEN "silenced"
  ELSE IF at[m] = "worded" THEN "answering"
  ELSE IF steps[m] < MaxSteps THEN "thinking" ELSE "wordless"

StopCheck(m) ==
  /\ at[m] \in {"worded", "stepped"}
  /\ Goto(m, AfterStep(m))
  /\ steps' = IF AfterStep(m) = "thinking" THEN steps ELSE [steps EXCEPT ![m] = 0]
  /\ UNCHANGED <<row, clock, debounce, stamp, failures, stalls, read, plan, human, said, mishaps, ghosts>>

\* messagesService.create of the reply; the flag is not read again.
SaveReply(m) ==
  /\ at[m] = "answering"
  /\ replies' = [replies EXCEPT ![m] = @ + 1]
  /\ total' = total + 1
  /\ Goto(m, "saved")
  /\ UNCHANGED <<row, clock, debounce, job, plan, human, fallbacks, broken, mishaps, ghosts>>

ReadUsage(m) ==
  /\ at[m] = "saved"
  /\ read' = [read EXCEPT ![m] = usage]
  /\ Goto(m, "counting")
  /\ UNCHANGED <<row, clock, debounce, stamp, failures, stalls, steps, plan, human, said, mishaps, ghosts>>

NewCount(m) == read[m] + 1

WriteUsage(m) ==
  /\ at[m] = "counting"
  /\ usage' = NewCount(m)
  /\ read' = [read EXCEPT ![m] = 0]
  /\ Goto(m, "planning")
  /\ UNCHANGED <<resolved, paused, clock, debounce, stamp, failures, stalls, steps, plan, human, said, mishaps, ghosts>>

\* getJob and remove, then aiQueue.add under the conversation's job id: a
\* follow-up that is being sent can neither be removed (the error is
\* swallowed) nor added again.
PlanFollowUp(m) ==
  /\ at[m] = "planning"
  /\ IF follow = "sending" THEN UNCHANGED plan ELSE follow' = "delayed" /\ wrote' = FALSE
  /\ Goto(m, "answered")
  /\ UNCHANGED <<row, clock, debounce, job, human, said, mishaps, ghosts>>

-----------------------------------------------------------------------------
(* The ends of an attempt that do not return. *)

\* The worker's variables go with its attempt.
Forget(m) == steps' = [steps EXCEPT ![m] = 0] /\ read' = [read EXCEPT ![m] = 0]

Break(m) == broken' = IF at[m] \in AfterReply THEN broken \cup {m} ELSE broken

\* A slip: the fallback is sent on every failed attempt.
LastAttemptAlways(m) == TRUE
\* job.attemptsMade >= attempts - 1
LastAttempt(m) == failures[m] + 1 >= Attempts

\* The catch of processMessage: the fallback on the last attempt, then throw.
Fail(m) ==
  /\ Mishap("failure")
  /\ at[m] \in InTry \ InTool
  /\ Break(m)
  /\ IF LastAttempt(m)
     THEN Goto(m, "apologising") /\ UNCHANGED failures
     ELSE Goto(m, "queued") /\ failures' = [failures EXCEPT ![m] = @ + 1]
  /\ Forget(m)
  /\ UNCHANGED <<row, clock, debounce, stamp, stalls, plan, human, replies, fallbacks, total, ghosts>>

\* The queue retries while attempts are left.
Retry(m) ==
  /\ failures' = [failures EXCEPT ![m] = @ + 1]
  /\ Goto(m, IF failures[m] + 1 < Attempts THEN "queued" ELSE "failed")

\* The read of the conversation is outside of the try: no fallback.
FailBeforeTry(m) ==
  /\ Mishap("failure")
  /\ at[m] = "newest"
  /\ Retry(m)
  /\ UNCHANGED <<row, clock, debounce, stamp, stalls, steps, read, plan, human, said, ghosts>>

\* The fallback message, whose own error is swallowed.
Apologise(m) ==
  /\ at[m] = "apologising"
  /\ \/ /\ fallbacks' = [fallbacks EXCEPT ![m] = @ + 1]
        /\ UNCHANGED <<replies, broken, total, mishaps>>
     \/ Mishap("failure") /\ UNCHANGED said
  /\ Goto(m, "apologised")
  /\ UNCHANGED <<row, clock, debounce, job, plan, human, ghosts>>

Throw(m) ==
  /\ at[m] = "apologised"
  /\ Retry(m)
  /\ UNCHANGED <<row, clock, debounce, stamp, stalls, steps, read, plan, human, said, mishaps, ghosts>>

\* The server dies; the stalled job is given out again, a bounded number of times.
Crash(m) ==
  /\ Mishap("crash")
  /\ at[m] \in Running
  /\ broken' = IF at[m] \in AfterReply \cup {"apologised"} THEN broken \cup {m} ELSE broken
  /\ stalls' = [stalls EXCEPT ![m] = @ + 1]
  /\ Goto(m, IF stalls[m] < MaxStalls THEN "queued" ELSE "failed")
  /\ Forget(m)
  /\ UNCHANGED <<row, clock, debounce, stamp, failures, plan, human, replies, fallbacks, total, ghosts>>

-----------------------------------------------------------------------------
(* AiAgentWorker.processFollowUp *)

Cancelled == paused \/ resolved \/ wrote

CheckFollowUp ==
  /\ follow = "delayed"
  /\ follow' = IF Cancelled THEN "none" ELSE "sending"
  /\ wrote' = FALSE
  /\ UNCHANGED <<row, clock, debounce, at, job, human, said, mishaps, ghosts>>

\* The message is created and lastAiMessageAt written, or one of them fails:
\* the job has one attempt.
SendFollowUp ==
  /\ follow = "sending"
  /\ follow' = "none"
  /\ UNCHANGED <<row, clock, debounce, at, job, wrote, human, said, mishaps, ghosts>>

-----------------------------------------------------------------------------
(* Human agents.  An act is a request and, after its commit, a listener. *)

Act(a, from, to) ==
  /\ desk[a] = from
  /\ desk' = [desk EXCEPT ![a] = to]
  /\ IF from = "free" THEN acts < MaxActs /\ acts' = acts + 1 ELSE UNCHANGED acts

\* MessagesService.create of a public message; the flag is left to the listener.
Speak(a) ==
  /\ Act(a, "free", "spoken")
  /\ UNCHANGED <<row, clock, debounce, at, job, plan, said, mishaps, ghosts>>

\* AiTakeoverListener.handleAgentMessage
PauseForSpeaker(a) ==
  /\ Act(a, "spoken", "wiping")
  /\ SetPaused(TRUE)
  /\ UNCHANGED <<resolved, usage, clock, debounce, at, job, plan, said, mishaps, jumped>>

\* ConversationsService.updateStatus(RESOLVED): it lifts the pause as well.
Resolve(a) ==
  /\ ~ resolved
  /\ Act(a, "free", "resolved")
  /\ resolved' = TRUE
  /\ SetPaused(FALSE)
  /\ UNCHANGED <<usage, clock, debounce, at, job, plan, said, mishaps, jumped>>

\* handleConversationStatusUpdated: whatever happened since the commit.
UnpauseResolved(a) ==
  /\ Act(a, "resolved", "wiping")
  /\ SetPaused(FALSE)
  /\ UNCHANGED <<resolved, usage, clock, debounce, at, job, plan, said, mishaps, jumped>>

WipeByListener(a) ==
  /\ Act(a, "wiping", "free")
  /\ Wipe
  /\ UNCHANGED <<row, clock, at, job, plan, said, mishaps, ghosts>>

\* The listeners catch and log every error.
ListenerFails(a) ==
  /\ Mishap("listener")
  /\ desk[a] # "free"
  /\ desk' = [desk EXCEPT ![a] = "free"]
  /\ UNCHANGED <<row, clock, debounce, at, job, plan, acts, said, ghosts>>

\* ConversationsService.setAiPause: the take-over and the resume button.
Toggle(a) ==
  /\ Act(a, "free", "free")
  /\ SetPaused(~ paused)
  /\ UNCHANGED <<resolved, usage, clock, debounce, at, job, plan, said, mishaps, jumped>>

-----------------------------------------------------------------------------
Dispatch(m) ==
  \/ NoteContact(m) \/ Guard(m) \/ Reserve(m) \/ AddJob(m)

Work(m) ==
  \/ CheckSlot(m) \/ CheckPaused(m) \/ Think(m)
  \/ SendCard(m) \/ SayFarewell(m) \/ HandOver(m) \/ WipeByTool(m) \/ StopCheck(m)
  \/ SaveReply(m) \/ ReadUsage(m) \/ WriteUsage(m) \/ PlanFollowUp(m)
  \/ Apologise(m) \/ Throw(m)

Fault(m) ==
  \/ LoseDispatch(m) \/ ReadSlotFails(m) \/ ToolFails(m)
  \/ Fail(m) \/ FailBeforeTry(m) \/ Crash(m)

Human(a) ==
  \/ Speak(a) \/ PauseForSpeaker(a) \/ Resolve(a) \/ UnpauseResolved(a)
  \/ WipeByListener(a) \/ ListenerFails(a) \/ Toggle(a)

Next ==
  \/ \E m \in Messages : Arrive(m) \/ Dispatch(m) \/ Work(m) \/ Fault(m)
  \/ \E a \in Agents : Human(a)
  \/ CheckFollowUp \/ SendFollowUp
  \/ Tick \/ Expire

Spec == Init /\ [][Next]_vars

-----------------------------------------------------------------------------
(* Properties *)

Places ==
  {"unsent", "arrived", "noted", "blocked", "notified", "cleared", "reserved", "queued",
   "lost", "superseded", "silenced", "wordless", "answered", "failed"} \cup Running

RowOK ==
  /\ resolved \in BOOLEAN /\ paused \in BOOLEAN
  /\ usage \in Nat /\ clock \in Nat /\ slot \in Nat
  /\ follow \in {"none", "delayed", "sending"} /\ wrote \in BOOLEAN

JobsOK ==
  /\ at \in [Messages -> Places]
  /\ stamp \in [Messages -> Nat]
  /\ failures \in [Messages -> 0 .. Attempts]
  /\ stalls \in [Messages -> 0 .. MaxStalls + 1]
  /\ steps \in [Messages -> 0 .. MaxSteps]
  /\ read \in [Messages -> Nat]

SaidOK ==
  /\ replies \in [Messages -> Nat]
  /\ fallbacks \in [Messages -> Nat]
  /\ total \in Nat

RestOK ==
  /\ desk \in [Agents -> {"free", "spoken", "resolved", "wiping"}]
  /\ acts \in 0 .. MaxActs /\ mishaps \in 0 .. MaxMishaps
  /\ broken \subseteq Messages /\ jumped \subseteq Messages
  /\ remembered \subseteq Messages /\ outdone \subseteq Messages
  /\ spared \in [replies : SUBSET Messages, tools : SUBSET Messages,
                  apologies : SUBSET Messages, followUp : BOOLEAN]

TypeOK == RowOK /\ JobsOK /\ SaidOK /\ RestOK

(***************************************************************************)
(* The debounce: as long as nobody wiped the key, a job whose message was  *)
(* followed by another one, with a slot of its own, does not run.  Its     *)
(* messages may share a millisecond, and its job may be a late retry.      *)
(***************************************************************************)
NewestRuns == jumped = {}

(***************************************************************************)
(* A customer reads two automatic answers of one job only when an attempt  *)
(* ended between saving the answer and the end of the job.  (Answers are   *)
(* replies and fallbacks.  A payment card is sent as often as the agent    *)
(* asks for it: an order that is CONFIRMED passes the tool's checks.)      *)
(***************************************************************************)
AnsweredOnce ==
  \A m \in Messages : replies[m] + fallbacks[m] > 1 => m \in broken

(***************************************************************************)
(* Once an agent has taken over, the autopilot says only what was past its *)
(* last look at the flag: a text about to be saved, the payment card or    *)
(* farewell of a tool past its guard, the apology of an attempt that had   *)
(* begun, a follow-up being sent.  Outside of it are only the guardrails'  *)
(* notices, for which the flag is never looked at.                         *)
(***************************************************************************)
SpeaksLate(m) ==
  /\ replies'[m] # replies[m] => m \in spared.replies
  /\ fallbacks'[m] # fallbacks[m] => m \in spared.apologies
TellsLate(m) == at[m] \in Telling /\ at'[m] # at[m] => m \in spared.tools
FollowsUpLate == follow = "sending" /\ follow' = "none" => spared.followUp
TakeoverSilences ==
  [][paused => FollowsUpLate /\ \A m \in Messages : SpeaksLate(m) /\ TellsLate(m)]_vars

(***************************************************************************)
(* The usage shown for a conversation never counts an answer that was not  *)
(* saved.  (Workers that overlap, and attempts that fail after saving,     *)
(* lose counts.)                                                           *)
(***************************************************************************)
UsageIsEarned == usage <= total

(***************************************************************************)
(* A question is dropped only for one with a later slot: the newest        *)
(* question is answered, apologised for, silenced or lost, never dropped   *)
(* in favour of a job that does not exist.                                 *)
(***************************************************************************)
NewestIsKept ==
  \A m \in Messages : at[m] = "superseded" => \E k \in Messages : stamp[k] > stamp[m]

(***************************************************************************)
(* What the documents promise: the autopilot stops at once, and says       *)
(* nothing after a takeover.                                               *)
(***************************************************************************)
SilentAfterTakeover ==
  [][paused =>
       /\ UNCHANGED <<replies, fallbacks>>
       /\ \A m \in Messages : at'[m] = "notified" => at[m] = "notified"
       /\ \A m \in Messages : at[m] \in Telling => at'[m] = at[m]]_vars

=============================================================================
