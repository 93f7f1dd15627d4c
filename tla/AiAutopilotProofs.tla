--------------------------- MODULE AiAutopilotProofs ---------------------------
(***************************************************************************)
(* AiAutopilot for every number of messages, agents, attempts, steps, acts *)
(* and faults.                                                             *)
(***************************************************************************)
EXTENDS AiAutopilot, FiniteSetTheorems, TLAPS

-----------------------------------------------------------------------------
(* The inductive invariant. *)

\* A job that has not failed has an attempt and a stall left, the loop a step.
JobsCounted ==
  \A m \in Messages :
    /\ at[m] # "failed" => failures[m] < Attempts /\ stalls[m] <= MaxStalls
    /\ at[m] = "thinking" => steps[m] < MaxSteps
    /\ at[m] \notin InTool \cup {"thinking", "worded", "stepped"} => steps[m] = 0

\* The key holds the latest slot that anybody remembers, and somebody has it.
SlotsGrow ==
  /\ \A m \in Messages :
       at[m] \in {"unsent", "arrived", "noted", "cleared"} => stamp[m] = 0 /\ m \notin remembered
  /\ \A m \in remembered : slot # 0 /\ stamp[m] <= slot
  /\ \A m \in outdone : m \in remembered /\ stamp[m] < slot
  /\ slot # 0 => \E k \in Messages : stamp[k] = slot

\* What a job has said so far follows from where it is.
SaidByPlace ==
  \A m \in Messages :
    /\ at[m] \in {"apologising", "apologised"} => failures[m] + 1 >= Attempts
    /\ \/ m \in broken
       \/ at[m] \in AfterReply \cup {"answered"} /\ replies[m] = 1 /\ fallbacks[m] = 0
       \/ at[m] \in {"apologised", "failed"} /\ replies[m] = 0 /\ fallbacks[m] \in {0, 1}
       \/ at[m] \notin AfterReply \cup {"answered"} /\ replies[m] = 0 /\ fallbacks[m] = 0

\* During a pause, whoever can still speak could when it began.
LateIsSpared ==
  paused =>
    /\ \A m \in Messages :
         /\ at[m] = "answering" => m \in spared.replies
         /\ at[m] \in Telling => m \in spared.tools
         /\ at[m] \in PastCheck => m \in spared.apologies
    /\ follow = "sending" => spared.followUp

\* The saved answers that are not counted yet fit between usage and total.
Uncounted == {m \in Messages : at[m] \in {"saved", "counting"}}
CountsFit ==
  /\ IsFiniteSet(Uncounted)
  /\ usage + Cardinality(Uncounted) <= total
  /\ \A m \in Messages : at[m] = "counting" => read[m] + Cardinality(Uncounted) <= total

IInv ==
  /\ TypeOK /\ JobsCounted /\ SlotsGrow /\ SaidByPlace /\ LateIsSpared /\ CountsFit
  /\ NewestRuns /\ NewestIsKept

\* The bounds are numbers.
LEMMA Numbers ==
  /\ Attempts \in Nat \ {0} /\ MaxSteps \in Nat \ {0} /\ MaxStalls \in Nat
  /\ MaxActs \in Nat /\ MaxMishaps \in Nat
BY AutopilotAssumption

USE Numbers DEF PastCheck, InTry, InTool, Telling, AfterReply, Running

-----------------------------------------------------------------------------
(* One lemma for each part, one case for each action that can disturb it. *)

\* The conversation's row, the clock and the key.
LEMMA RowOKStep ==
  ASSUME RowOK, JobsOK, [Next]_vars
  PROVE  RowOK'
<1>1. ASSUME NEW m \in Messages, Arrive(m) PROVE RowOK'
  BY <1>1 DEF RowOK, JobsOK, Arrive, Goto, plan, debounce
<1>2. ASSUME NEW m \in Messages, NoteContact(m) PROVE RowOK'
  BY <1>2 DEF RowOK, JobsOK, NoteContact, Goto, row, debounce
<1>3. ASSUME NEW m \in Messages, Reserve(m) PROVE RowOK'
  BY <1>3 DEF RowOK, JobsOK, Reserve, NextSlot, Goto, row, plan
<1>4. ASSUME NEW m \in Messages, HandOver(m) PROVE RowOK'
  BY <1>4 DEF RowOK, JobsOK, HandOver, SetPaused, Goto, plan, debounce
<1>5. ASSUME NEW m \in Messages, WipeByTool(m) PROVE RowOK'
  BY <1>5 DEF RowOK, JobsOK, WipeByTool, Wipe, Goto, row, plan
<1>6. ASSUME NEW m \in Messages, WriteUsage(m) PROVE RowOK'
  BY <1>6 DEF RowOK, JobsOK, WriteUsage, NewCount, Goto, plan, debounce
<1>7. ASSUME NEW m \in Messages, PlanFollowUp(m) PROVE RowOK'
  BY <1>7 DEF RowOK, JobsOK, PlanFollowUp, plan, Goto, row, debounce
<1>8. CASE CheckFollowUp
  BY <1>8 DEF RowOK, JobsOK, CheckFollowUp, Cancelled, row, debounce
<1>9. CASE SendFollowUp
  BY <1>9 DEF RowOK, JobsOK, SendFollowUp, row, debounce
<1>10. CASE Tick
  BY <1>10 DEF RowOK, JobsOK, Tick, row, plan, debounce
<1>11. CASE Expire
  BY <1>11 DEF RowOK, JobsOK, Expire, Mishap, Wipe, row, plan
<1>12. ASSUME NEW a \in Agents, PauseForSpeaker(a) PROVE RowOK'
  BY <1>12 DEF RowOK, JobsOK, PauseForSpeaker, Act, SetPaused, plan, debounce
<1>13. ASSUME NEW a \in Agents, Resolve(a) PROVE RowOK'
  BY <1>13 DEF RowOK, JobsOK, Resolve, Act, SetPaused, plan, debounce
<1>14. ASSUME NEW a \in Agents, UnpauseResolved(a) PROVE RowOK'
  BY <1>14 DEF RowOK, JobsOK, UnpauseResolved, Act, SetPaused, plan, debounce
<1>15. ASSUME NEW a \in Agents, WipeByListener(a) PROVE RowOK'
  BY <1>15 DEF RowOK, JobsOK, WipeByListener, Act, Wipe, row, plan
<1>16. ASSUME NEW a \in Agents, Toggle(a) PROVE RowOK'
  BY <1>16 DEF RowOK, JobsOK, Toggle, Act, SetPaused, plan, debounce
<1>17. ASSUME NEW m \in Messages,
            Guard(m) \/ AddJob(m) \/ LoseDispatch(m) \/ CheckSlot(m) \/
            ReadSlotFails(m) \/ CheckPaused(m) \/ Think(m) \/ SendCard(m) \/ SayFarewell(m) \/
            ToolFails(m) \/ StopCheck(m) \/ SaveReply(m) \/ ReadUsage(m) \/ Fail(m) \/
            FailBeforeTry(m) \/ Apologise(m) \/ Throw(m) \/ Crash(m)
     PROVE  UNCHANGED <<resolved, paused, usage, clock, slot, follow, wrote>>
  BY <1>17 DEF Guard, AddJob, LoseDispatch, CheckSlot, ReadSlotFails, CheckPaused, Think,
         SendCard, SayFarewell, ToolFails, StopCheck, SaveReply, ReadUsage, Fail, FailBeforeTry,
         Apologise, Throw, Crash, Goto, row, plan, debounce, Mishap, Break, Forget, Retry
<1>18. ASSUME NEW a \in Agents,
            Speak(a) \/ ListenerFails(a)
     PROVE  UNCHANGED <<resolved, paused, usage, clock, slot, follow, wrote>>
  BY <1>18 DEF Speak, ListenerFails, Act, row, plan, debounce, Mishap
<1>19. UNCHANGED vars => UNCHANGED <<resolved, paused, usage, clock, slot, follow, wrote>>
  BY DEF vars, row, plan, debounce
<1>20. CASE UNCHANGED <<resolved, paused, usage, clock, slot, follow, wrote>>
  BY <1>20 DEF RowOK, JobsOK
<1>. QED
  BY <1>1, <1>2, <1>3, <1>4, <1>5, <1>6, <1>7, <1>8, <1>9, <1>10, <1>11, <1>12, <1>13,
     <1>14, <1>15, <1>16, <1>17, <1>18, <1>19, <1>20
     DEF Next, Dispatch, Work, Fault, Human

\* The jobs.
LEMMA JobsOKStep ==
  ASSUME RowOK, JobsOK, JobsCounted, [Next]_vars
  PROVE  JobsOK'
<1>1. ASSUME NEW m \in Messages, Arrive(m) PROVE JobsOK'
  BY <1>1 DEF JobsOK, Places, Arrive, Goto, job
<1>2. ASSUME NEW m \in Messages, NoteContact(m) PROVE JobsOK'
  BY <1>2 DEF JobsOK, Places, NoteContact, Goto, job
<1>3. ASSUME NEW m \in Messages, Guard(m) PROVE JobsOK'
  BY <1>3 DEF JobsOK, Places, Guard, Goto, job
<1>4. ASSUME NEW m \in Messages, Reserve(m) PROVE JobsOK'
  BY <1>4 DEF JobsOK, Places, Reserve, NextSlot, Goto, RowOK
<1>5. ASSUME NEW m \in Messages, AddJob(m) PROVE JobsOK'
  BY <1>5 DEF JobsOK, Places, AddJob, Goto, job
<1>6. ASSUME NEW m \in Messages, LoseDispatch(m) PROVE JobsOK'
  BY <1>6 DEF JobsOK, Places, LoseDispatch, Mishap, Goto, job
<1>7. ASSUME NEW m \in Messages, CheckSlot(m) PROVE JobsOK'
  BY <1>7 DEF JobsOK, Places, CheckSlot, Goto, job
<1>8. ASSUME NEW m \in Messages, ReadSlotFails(m) PROVE JobsOK'
  BY <1>8 DEF JobsOK, Places, ReadSlotFails, Mishap, Goto, job
<1>9. ASSUME NEW m \in Messages, CheckPaused(m) PROVE JobsOK'
  BY <1>9 DEF JobsOK, Places, CheckPaused, Goto, job
<1>10. ASSUME NEW m \in Messages, Think(m) PROVE JobsOK'
  BY <1>10 DEF JobsOK, Places, Think, Guarded, Goto, JobsCounted
<1>11. ASSUME NEW m \in Messages, SayFarewell(m) PROVE JobsOK'
  BY <1>11 DEF JobsOK, Places, SayFarewell, Goto, job
<1>11a. ASSUME NEW m \in Messages, SendCard(m) PROVE JobsOK'
  BY <1>11a DEF JobsOK, Places, SendCard, Goto, job
<1>12. ASSUME NEW m \in Messages, HandOver(m) PROVE JobsOK'
  BY <1>12 DEF JobsOK, Places, HandOver, SetPaused, Goto, job
<1>13. ASSUME NEW m \in Messages, WipeByTool(m) PROVE JobsOK'
  BY <1>13 DEF JobsOK, Places, WipeByTool, Wipe, Goto, job
<1>14. ASSUME NEW m \in Messages, ToolFails(m) PROVE JobsOK'
  BY <1>14 DEF JobsOK, Places, ToolFails, Mishap, Goto, job
<1>15. ASSUME NEW m \in Messages, StopCheck(m) PROVE JobsOK'
  BY <1>15 DEF JobsOK, Places, StopCheck, AfterStep, Goto
<1>16. ASSUME NEW m \in Messages, SaveReply(m) PROVE JobsOK'
  BY <1>16 DEF JobsOK, Places, SaveReply, Goto, job
<1>17. ASSUME NEW m \in Messages, ReadUsage(m) PROVE JobsOK'
  BY <1>17 DEF JobsOK, Places, ReadUsage, Goto, RowOK
<1>18. ASSUME NEW m \in Messages, WriteUsage(m) PROVE JobsOK'
  BY <1>18 DEF JobsOK, Places, WriteUsage, NewCount, Goto
<1>19. ASSUME NEW m \in Messages, PlanFollowUp(m) PROVE JobsOK'
  BY <1>19 DEF JobsOK, Places, PlanFollowUp, plan, Goto, job
<1>20. ASSUME NEW m \in Messages, Fail(m) PROVE JobsOK'
  BY <1>20 DEF JobsOK, Places, Fail, Mishap, Break, Forget, LastAttempt, Goto, JobsCounted
<1>21. ASSUME NEW m \in Messages, FailBeforeTry(m) PROVE JobsOK'
  BY <1>21 DEF JobsOK, Places, FailBeforeTry, Mishap, Retry, Goto, JobsCounted
<1>22. ASSUME NEW m \in Messages, Apologise(m) PROVE JobsOK'
  BY <1>22 DEF JobsOK, Places, Apologise, Mishap, said, Goto, job
<1>23. ASSUME NEW m \in Messages, Throw(m) PROVE JobsOK'
  BY <1>23 DEF JobsOK, Places, Throw, Retry, Goto, JobsCounted
<1>24. ASSUME NEW m \in Messages, Crash(m) PROVE JobsOK'
  BY <1>24 DEF JobsOK, Places, Crash, Mishap, Forget, Goto, JobsCounted
<1>25. ASSUME CheckFollowUp \/ SendFollowUp \/ Tick \/ Expire PROVE UNCHANGED <<at, stamp, failures, stalls, steps, read>>
  BY <1>25 DEF CheckFollowUp, SendFollowUp, Tick, Expire, job, Mishap, Wipe
<1>26. ASSUME NEW a \in Agents,
            Speak(a) \/ PauseForSpeaker(a) \/ Resolve(a) \/ UnpauseResolved(a) \/
            WipeByListener(a) \/ ListenerFails(a) \/ Toggle(a)
     PROVE  UNCHANGED <<at, stamp, failures, stalls, steps, read>>
  BY <1>26 DEF Speak, PauseForSpeaker, Resolve, UnpauseResolved, WipeByListener,
         ListenerFails, Toggle, Act, job, SetPaused, Wipe, Mishap
<1>27. UNCHANGED vars => UNCHANGED <<at, stamp, failures, stalls, steps, read>>
  BY DEF vars, job
<1>28. CASE UNCHANGED <<at, stamp, failures, stalls, steps, read>>
  BY <1>28 DEF JobsOK, Places
<1>. QED
  BY <1>1, <1>2, <1>3, <1>4, <1>5, <1>6, <1>7, <1>8, <1>9, <1>10, <1>11, <1>11a, <1>12, <1>13,
     <1>14, <1>15, <1>16, <1>17, <1>18, <1>19, <1>20, <1>21, <1>22, <1>23, <1>24, <1>25,
     <1>26, <1>27, <1>28
     DEF Next, Dispatch, Work, Fault, Human

\* What was said.
LEMMA SaidOKStep ==
  ASSUME SaidOK, [Next]_vars
  PROVE  SaidOK'
<1>1. ASSUME NEW m \in Messages, SaveReply(m) PROVE SaidOK'
  BY <1>1 DEF SaidOK, SaveReply, Goto
<1>2. ASSUME NEW m \in Messages, Apologise(m) PROVE SaidOK'
  BY <1>2 DEF SaidOK, Apologise, Mishap, said, Goto
<1>3. ASSUME NEW m \in Messages,
            Arrive(m) \/ NoteContact(m) \/ Guard(m) \/ Reserve(m) \/ AddJob(m) \/
            LoseDispatch(m) \/ CheckSlot(m) \/ ReadSlotFails(m) \/ CheckPaused(m) \/
            Think(m) \/ SendCard(m) \/ SayFarewell(m) \/ HandOver(m) \/ WipeByTool(m) \/
            ToolFails(m) \/ StopCheck(m) \/ ReadUsage(m) \/ WriteUsage(m) \/
            PlanFollowUp(m) \/ Fail(m) \/ FailBeforeTry(m) \/ Throw(m) \/ Crash(m)
     PROVE  UNCHANGED <<replies, fallbacks, total>>
  BY <1>3 DEF Arrive, NoteContact, Guard, Reserve, AddJob, LoseDispatch, CheckSlot,
         ReadSlotFails, CheckPaused, Think, SendCard, SayFarewell, HandOver, WipeByTool, ToolFails,
         StopCheck, ReadUsage, WriteUsage, PlanFollowUp, Fail, FailBeforeTry, Throw, Crash,
         Goto, said, NextSlot, Mishap, SetPaused, Wipe, Break, Forget, Retry
<1>4. ASSUME CheckFollowUp \/ SendFollowUp \/ Tick \/ Expire PROVE UNCHANGED <<replies, fallbacks, total>>
  BY <1>4 DEF CheckFollowUp, SendFollowUp, Tick, Expire, said, Mishap, Wipe
<1>5. ASSUME NEW a \in Agents,
            Speak(a) \/ PauseForSpeaker(a) \/ Resolve(a) \/ UnpauseResolved(a) \/
            WipeByListener(a) \/ ListenerFails(a) \/ Toggle(a)
     PROVE  UNCHANGED <<replies, fallbacks, total>>
  BY <1>5 DEF Speak, PauseForSpeaker, Resolve, UnpauseResolved, WipeByListener,
         ListenerFails, Toggle, Act, said, SetPaused, Wipe, Mishap
<1>6. UNCHANGED vars => UNCHANGED <<replies, fallbacks, total>>
  BY DEF vars, said
<1>7. CASE UNCHANGED <<replies, fallbacks, total>>
  BY <1>7 DEF SaidOK
<1>. QED
  BY <1>1, <1>2, <1>3, <1>4, <1>5, <1>6, <1>7
     DEF Next, Dispatch, Work, Fault, Human

\* The rest.
LEMMA RestOKStep ==
  ASSUME RestOK, RowOK, [Next]_vars
  PROVE  RestOK'
<1>1. ASSUME NEW m \in Messages, Reserve(m) PROVE RestOK'
  BY <1>1 DEF RestOK, Reserve, NextSlot, Goto, human, ghosts, said
<1>2. ASSUME NEW m \in Messages, LoseDispatch(m) PROVE RestOK'
  BY <1>2 DEF RestOK, LoseDispatch, Mishap, Goto, human, ghosts, said, debounce
<1>3. ASSUME NEW m \in Messages, CheckSlot(m) PROVE RestOK'
  BY <1>3 DEF RestOK, CheckSlot, Goto, human, said, debounce
<1>4. ASSUME NEW m \in Messages, ReadSlotFails(m) PROVE RestOK'
  BY <1>4 DEF RestOK, ReadSlotFails, Mishap, Goto, human, ghosts, said, debounce
<1>5. ASSUME NEW m \in Messages, HandOver(m) PROVE RestOK'
  BY <1>5 DEF RestOK, HandOver, SetPaused, Goto, human, said, debounce, Nobody, RowOK
<1>6. ASSUME NEW m \in Messages, WipeByTool(m) PROVE RestOK'
  BY <1>6 DEF RestOK, WipeByTool, Wipe, Goto, human, ghosts, said
<1>7. ASSUME NEW m \in Messages, ToolFails(m) PROVE RestOK'
  BY <1>7 DEF RestOK, ToolFails, Mishap, Goto, human, ghosts, said, debounce
<1>8. ASSUME NEW m \in Messages, Fail(m) PROVE RestOK'
  BY <1>8 DEF RestOK, Fail, Mishap, Break, Forget, LastAttempt, Goto, human, ghosts,
         debounce
<1>9. ASSUME NEW m \in Messages, FailBeforeTry(m) PROVE RestOK'
  BY <1>9 DEF RestOK, FailBeforeTry, Mishap, Retry, Goto, human, ghosts, said, debounce
<1>10. ASSUME NEW m \in Messages, Apologise(m) PROVE RestOK'
  BY <1>10 DEF RestOK, Apologise, Mishap, said, Goto, human, ghosts, debounce
<1>11. ASSUME NEW m \in Messages, Crash(m) PROVE RestOK'
  BY <1>11 DEF RestOK, Crash, Mishap, Forget, Goto, human, ghosts, debounce
<1>12. CASE Expire
  BY <1>12 DEF RestOK, Expire, Mishap, Wipe, human, ghosts, said
<1>13. ASSUME NEW a \in Agents, Speak(a) PROVE RestOK'
  BY <1>13 DEF RestOK, Speak, Act, ghosts, said, debounce
<1>14. ASSUME NEW a \in Agents, PauseForSpeaker(a) PROVE RestOK'
  BY <1>14 DEF RestOK, PauseForSpeaker, Act, SetPaused, said, debounce, Nobody, RowOK
<1>15. ASSUME NEW a \in Agents, Resolve(a) PROVE RestOK'
  BY <1>15 DEF RestOK, Resolve, Act, SetPaused, said, debounce, Nobody, RowOK
<1>16. ASSUME NEW a \in Agents, UnpauseResolved(a) PROVE RestOK'
  BY <1>16 DEF RestOK, UnpauseResolved, Act, SetPaused, said, debounce, Nobody, RowOK
<1>17. ASSUME NEW a \in Agents, WipeByListener(a) PROVE RestOK'
  BY <1>17 DEF RestOK, WipeByListener, Act, Wipe, ghosts, said
<1>18. ASSUME NEW a \in Agents, ListenerFails(a) PROVE RestOK'
  BY <1>18 DEF RestOK, ListenerFails, Mishap, ghosts, said, debounce
<1>19. ASSUME NEW a \in Agents, Toggle(a) PROVE RestOK'
  BY <1>19 DEF RestOK, Toggle, Act, SetPaused, said, debounce, Nobody, RowOK
<1>20. ASSUME NEW m \in Messages,
            Arrive(m) \/ NoteContact(m) \/ Guard(m) \/ AddJob(m) \/ CheckPaused(m) \/
            Think(m) \/ SendCard(m) \/ SayFarewell(m) \/ StopCheck(m) \/ SaveReply(m) \/
            ReadUsage(m) \/ WriteUsage(m) \/ PlanFollowUp(m) \/ Throw(m)
     PROVE  UNCHANGED <<desk, acts, mishaps, broken, jumped, remembered, outdone, spared>>
  BY <1>20 DEF Arrive, NoteContact, Guard, AddJob, CheckPaused, Think, SendCard, SayFarewell,
         StopCheck, SaveReply, ReadUsage, WriteUsage, PlanFollowUp, Throw, Goto, human,
         ghosts, said, debounce, Retry
<1>21. ASSUME CheckFollowUp \/ SendFollowUp \/ Tick PROVE UNCHANGED <<desk, acts, mishaps, broken, jumped, remembered, outdone, spared>>
  BY <1>21 DEF CheckFollowUp, SendFollowUp, Tick, human, ghosts, said, debounce
<1>22. UNCHANGED vars => UNCHANGED <<desk, acts, mishaps, broken, jumped, remembered, outdone, spared>>
  BY DEF vars, human, ghosts, said, debounce
<1>23. CASE UNCHANGED <<desk, acts, mishaps, broken, jumped, remembered, outdone, spared>>
  BY <1>23 DEF RestOK
<1>. QED
  BY <1>1, <1>2, <1>3, <1>4, <1>5, <1>6, <1>7, <1>8, <1>9, <1>10, <1>11, <1>12, <1>13,
     <1>14, <1>15, <1>16, <1>17, <1>18, <1>19, <1>20, <1>21, <1>22, <1>23
     DEF Next, Dispatch, Work, Fault, Human

\* A failure, a stall or a step that was the last ends the job.
LEMMA JobsCountedStep ==
  ASSUME JobsOK, JobsCounted, [Next]_vars
  PROVE  JobsCounted'
<1>1. ASSUME NEW m \in Messages, Arrive(m) PROVE JobsCounted'
  BY <1>1 DEF JobsOK, JobsCounted, Arrive, Goto, job
<1>2. ASSUME NEW m \in Messages, NoteContact(m) PROVE JobsCounted'
  BY <1>2 DEF JobsOK, JobsCounted, NoteContact, Goto, job
<1>3. ASSUME NEW m \in Messages, Guard(m) PROVE JobsCounted'
  BY <1>3 DEF JobsOK, JobsCounted, Guard, Goto, job
<1>4. ASSUME NEW m \in Messages, Reserve(m) PROVE JobsCounted'
  BY <1>4 DEF JobsOK, JobsCounted, Reserve, NextSlot, Goto
<1>5. ASSUME NEW m \in Messages, AddJob(m) PROVE JobsCounted'
  BY <1>5 DEF JobsOK, JobsCounted, AddJob, Goto, job
<1>6. ASSUME NEW m \in Messages, LoseDispatch(m) PROVE JobsCounted'
  BY <1>6 DEF JobsOK, JobsCounted, LoseDispatch, Mishap, Goto, job
<1>7. ASSUME NEW m \in Messages, CheckSlot(m) PROVE JobsCounted'
  BY <1>7 DEF JobsOK, JobsCounted, CheckSlot, Goto, job
<1>8. ASSUME NEW m \in Messages, ReadSlotFails(m) PROVE JobsCounted'
  BY <1>8 DEF JobsOK, JobsCounted, ReadSlotFails, Mishap, Goto, job
<1>9. ASSUME NEW m \in Messages, CheckPaused(m) PROVE JobsCounted'
  BY <1>9 DEF JobsOK, JobsCounted, CheckPaused, Goto, job
<1>10. ASSUME NEW m \in Messages, Think(m) PROVE JobsCounted'
  BY <1>10 DEF JobsOK, JobsCounted, Think, Guarded, Goto
<1>11. ASSUME NEW m \in Messages, SayFarewell(m) PROVE JobsCounted'
  BY <1>11 DEF JobsOK, JobsCounted, SayFarewell, Goto, job
<1>11a. ASSUME NEW m \in Messages, SendCard(m) PROVE JobsCounted'
  BY <1>11a DEF JobsOK, JobsCounted, SendCard, Goto, job
<1>12. ASSUME NEW m \in Messages, HandOver(m) PROVE JobsCounted'
  BY <1>12 DEF JobsOK, JobsCounted, HandOver, SetPaused, Goto, job
<1>13. ASSUME NEW m \in Messages, WipeByTool(m) PROVE JobsCounted'
  BY <1>13 DEF JobsOK, JobsCounted, WipeByTool, Wipe, Goto, job
<1>14. ASSUME NEW m \in Messages, ToolFails(m) PROVE JobsCounted'
  BY <1>14 DEF JobsOK, JobsCounted, ToolFails, Mishap, Goto, job
<1>15. ASSUME NEW m \in Messages, StopCheck(m) PROVE JobsCounted'
  BY <1>15 DEF JobsOK, JobsCounted, StopCheck, AfterStep, Goto
<1>16. ASSUME NEW m \in Messages, SaveReply(m) PROVE JobsCounted'
  BY <1>16 DEF JobsOK, JobsCounted, SaveReply, Goto, job
<1>17. ASSUME NEW m \in Messages, ReadUsage(m) PROVE JobsCounted'
  BY <1>17 DEF JobsOK, JobsCounted, ReadUsage, Goto
<1>18. ASSUME NEW m \in Messages, WriteUsage(m) PROVE JobsCounted'
  BY <1>18 DEF JobsOK, JobsCounted, WriteUsage, NewCount, Goto
<1>19. ASSUME NEW m \in Messages, PlanFollowUp(m) PROVE JobsCounted'
  BY <1>19 DEF JobsOK, JobsCounted, PlanFollowUp, plan, Goto, job
<1>20. ASSUME NEW m \in Messages, Fail(m) PROVE JobsCounted'
  BY <1>20 DEF JobsOK, JobsCounted, Fail, Mishap, Break, Forget, LastAttempt, Goto
<1>21. ASSUME NEW m \in Messages, FailBeforeTry(m) PROVE JobsCounted'
  BY <1>21 DEF JobsOK, JobsCounted, FailBeforeTry, Mishap, Retry, Goto
<1>22. ASSUME NEW m \in Messages, Apologise(m) PROVE JobsCounted'
  BY <1>22 DEF JobsOK, JobsCounted, Apologise, Mishap, said, Goto, job
<1>23. ASSUME NEW m \in Messages, Throw(m) PROVE JobsCounted'
  BY <1>23 DEF JobsOK, JobsCounted, Throw, Retry, Goto
<1>24. ASSUME NEW m \in Messages, Crash(m) PROVE JobsCounted'
  BY <1>24 DEF JobsOK, JobsCounted, Crash, Mishap, Forget, Goto
<1>25. ASSUME CheckFollowUp \/ SendFollowUp \/ Tick \/ Expire PROVE UNCHANGED <<at, failures, stalls, steps>>
  BY <1>25 DEF CheckFollowUp, SendFollowUp, Tick, Expire, job, Mishap, Wipe
<1>26. ASSUME NEW a \in Agents,
            Speak(a) \/ PauseForSpeaker(a) \/ Resolve(a) \/ UnpauseResolved(a) \/
            WipeByListener(a) \/ ListenerFails(a) \/ Toggle(a)
     PROVE  UNCHANGED <<at, failures, stalls, steps>>
  BY <1>26 DEF Speak, PauseForSpeaker, Resolve, UnpauseResolved, WipeByListener,
         ListenerFails, Toggle, Act, job, SetPaused, Wipe, Mishap
<1>27. UNCHANGED vars => UNCHANGED <<at, failures, stalls, steps>>
  BY DEF vars, job
<1>28. CASE UNCHANGED <<at, failures, stalls, steps>>
  BY <1>28 DEF JobsOK, JobsCounted
<1>. QED
  BY <1>1, <1>2, <1>3, <1>4, <1>5, <1>6, <1>7, <1>8, <1>9, <1>10, <1>11, <1>11a, <1>12, <1>13,
     <1>14, <1>15, <1>16, <1>17, <1>18, <1>19, <1>20, <1>21, <1>22, <1>23, <1>24, <1>25,
     <1>26, <1>27, <1>28
     DEF Next, Dispatch, Work, Fault, Human

\* A slot is later than all before it.
LEMMA SlotsGrowStep ==
  ASSUME RowOK, JobsOK, RestOK, SlotsGrow, [Next]_vars
  PROVE  SlotsGrow'
<1>1. ASSUME NEW m \in Messages, Arrive(m) PROVE SlotsGrow'
  BY <1>1 DEF RowOK, JobsOK, RestOK, SlotsGrow, Arrive, Goto, job, debounce
<1>2. ASSUME NEW m \in Messages, NoteContact(m) PROVE SlotsGrow'
  BY <1>2 DEF RowOK, JobsOK, RestOK, SlotsGrow, NoteContact, Goto, job, debounce
<1>3. ASSUME NEW m \in Messages, Guard(m) PROVE SlotsGrow'
  BY <1>3 DEF RowOK, JobsOK, RestOK, SlotsGrow, Guard, Goto, job, debounce
<1>4. ASSUME NEW m \in Messages, Reserve(m) PROVE SlotsGrow'
  BY <1>4 DEF RowOK, JobsOK, RestOK, SlotsGrow, Reserve, NextSlot, Goto
<1>5. ASSUME NEW m \in Messages, AddJob(m) PROVE SlotsGrow'
  BY <1>5 DEF RowOK, JobsOK, RestOK, SlotsGrow, AddJob, Goto, job, debounce
<1>6. ASSUME NEW m \in Messages, LoseDispatch(m) PROVE SlotsGrow'
  BY <1>6 DEF RowOK, JobsOK, RestOK, SlotsGrow, LoseDispatch, Mishap, Goto, job, debounce
<1>7. ASSUME NEW m \in Messages, CheckSlot(m) PROVE SlotsGrow'
  BY <1>7 DEF RowOK, JobsOK, RestOK, SlotsGrow, CheckSlot, Goto, job, debounce
<1>8. ASSUME NEW m \in Messages, ReadSlotFails(m) PROVE SlotsGrow'
  BY <1>8 DEF RowOK, JobsOK, RestOK, SlotsGrow, ReadSlotFails, Mishap, Goto, job, debounce
<1>9. ASSUME NEW m \in Messages, CheckPaused(m) PROVE SlotsGrow'
  BY <1>9 DEF RowOK, JobsOK, RestOK, SlotsGrow, CheckPaused, Goto, job, debounce
<1>10. ASSUME NEW m \in Messages, Think(m) PROVE SlotsGrow'
  BY <1>10 DEF RowOK, JobsOK, RestOK, SlotsGrow, Think, Guarded, Goto, debounce
<1>11. ASSUME NEW m \in Messages, SayFarewell(m) PROVE SlotsGrow'
  BY <1>11 DEF RowOK, JobsOK, RestOK, SlotsGrow, SayFarewell, Goto, job, debounce
<1>11a. ASSUME NEW m \in Messages, SendCard(m) PROVE SlotsGrow'
  BY <1>11a DEF RowOK, JobsOK, RestOK, SlotsGrow, SendCard, Goto, job, debounce
<1>12. ASSUME NEW m \in Messages, HandOver(m) PROVE SlotsGrow'
  BY <1>12 DEF RowOK, JobsOK, RestOK, SlotsGrow, HandOver, SetPaused, Goto, job, debounce
<1>13. ASSUME NEW m \in Messages, WipeByTool(m) PROVE SlotsGrow'
  BY <1>13 DEF RowOK, JobsOK, RestOK, SlotsGrow, WipeByTool, Wipe, Goto, job
<1>14. ASSUME NEW m \in Messages, ToolFails(m) PROVE SlotsGrow'
  BY <1>14 DEF RowOK, JobsOK, RestOK, SlotsGrow, ToolFails, Mishap, Goto, job, debounce
<1>15. ASSUME NEW m \in Messages, StopCheck(m) PROVE SlotsGrow'
  BY <1>15 DEF RowOK, JobsOK, RestOK, SlotsGrow, StopCheck, AfterStep, Goto, debounce
<1>16. ASSUME NEW m \in Messages, SaveReply(m) PROVE SlotsGrow'
  BY <1>16 DEF RowOK, JobsOK, RestOK, SlotsGrow, SaveReply, Goto, job, debounce
<1>17. ASSUME NEW m \in Messages, ReadUsage(m) PROVE SlotsGrow'
  BY <1>17 DEF RowOK, JobsOK, RestOK, SlotsGrow, ReadUsage, Goto, debounce
<1>18. ASSUME NEW m \in Messages, WriteUsage(m) PROVE SlotsGrow'
  BY <1>18 DEF RowOK, JobsOK, RestOK, SlotsGrow, WriteUsage, NewCount, Goto, debounce
<1>19. ASSUME NEW m \in Messages, PlanFollowUp(m) PROVE SlotsGrow'
  BY <1>19 DEF RowOK, JobsOK, RestOK, SlotsGrow, PlanFollowUp, plan, Goto, job, debounce
<1>20. ASSUME NEW m \in Messages, Fail(m) PROVE SlotsGrow'
  BY <1>20 DEF RowOK, JobsOK, RestOK, SlotsGrow, Fail, Mishap, Break, Forget, LastAttempt,
         Goto, debounce
<1>21. ASSUME NEW m \in Messages, FailBeforeTry(m) PROVE SlotsGrow'
  BY <1>21 DEF RowOK, JobsOK, RestOK, SlotsGrow, FailBeforeTry, Mishap, Retry, Goto,
         debounce
<1>22. ASSUME NEW m \in Messages, Apologise(m) PROVE SlotsGrow'
  BY <1>22 DEF RowOK, JobsOK, RestOK, SlotsGrow, Apologise, Mishap, said, Goto, job,
         debounce
<1>23. ASSUME NEW m \in Messages, Throw(m) PROVE SlotsGrow'
  BY <1>23 DEF RowOK, JobsOK, RestOK, SlotsGrow, Throw, Retry, Goto, debounce
<1>24. ASSUME NEW m \in Messages, Crash(m) PROVE SlotsGrow'
  BY <1>24 DEF RowOK, JobsOK, RestOK, SlotsGrow, Crash, Mishap, Forget, Goto, debounce
<1>25. CASE Expire
  BY <1>25 DEF RowOK, JobsOK, RestOK, SlotsGrow, Expire, Mishap, Wipe, job
<1>26. ASSUME NEW a \in Agents, WipeByListener(a) PROVE SlotsGrow'
  BY <1>26 DEF RowOK, JobsOK, RestOK, SlotsGrow, WipeByListener, Act, Wipe, job
<1>27. ASSUME CheckFollowUp \/ SendFollowUp \/ Tick PROVE UNCHANGED <<at, slot, stamp, remembered, outdone>>
  BY <1>27 DEF CheckFollowUp, SendFollowUp, Tick, job, debounce
<1>28. ASSUME NEW a \in Agents,
            Speak(a) \/ PauseForSpeaker(a) \/ Resolve(a) \/ UnpauseResolved(a) \/
            ListenerFails(a) \/ Toggle(a)
     PROVE  UNCHANGED <<at, slot, stamp, remembered, outdone>>
  BY <1>28 DEF Speak, PauseForSpeaker, Resolve, UnpauseResolved, ListenerFails, Toggle, Act,
         job, debounce, SetPaused, Mishap
<1>29. UNCHANGED vars => UNCHANGED <<at, slot, stamp, remembered, outdone>>
  BY DEF vars, job, debounce
<1>30. CASE UNCHANGED <<at, slot, stamp, remembered, outdone>>
  BY <1>30 DEF RowOK, JobsOK, RestOK, SlotsGrow
<1>. QED
  BY <1>1, <1>2, <1>3, <1>4, <1>5, <1>6, <1>7, <1>8, <1>9, <1>10, <1>11, <1>11a, <1>12, <1>13,
     <1>14, <1>15, <1>16, <1>17, <1>18, <1>19, <1>20, <1>21, <1>22, <1>23, <1>24, <1>25,
     <1>26, <1>27, <1>28, <1>29, <1>30
     DEF Next, Dispatch, Work, Fault, Human

\* A job that somebody followed is behind the key.
LEMMA NewestRunsStep ==
  ASSUME RowOK, JobsOK, SlotsGrow, NewestRuns, [Next]_vars
  PROVE  NewestRuns'
<1>1. ASSUME NEW m \in Messages, CheckSlot(m) PROVE NewestRuns'
  BY <1>1 DEF RowOK, JobsOK, SlotsGrow, NewestRuns, Superseded, CheckSlot, Goto
<1>2. ASSUME NEW m \in Messages,
            Arrive(m) \/ NoteContact(m) \/ Guard(m) \/ Reserve(m) \/ AddJob(m) \/
            LoseDispatch(m) \/ ReadSlotFails(m) \/ CheckPaused(m) \/ Think(m) \/
            SendCard(m) \/ SayFarewell(m) \/ HandOver(m) \/ WipeByTool(m) \/ ToolFails(m) \/
            StopCheck(m) \/ SaveReply(m) \/ ReadUsage(m) \/ WriteUsage(m) \/
            PlanFollowUp(m) \/ Fail(m) \/ FailBeforeTry(m) \/ Apologise(m) \/
            Throw(m) \/ Crash(m)
     PROVE  UNCHANGED jumped
  BY <1>2 DEF Arrive, NoteContact, Guard, Reserve, AddJob, LoseDispatch, ReadSlotFails,
         CheckPaused, Think, SendCard, SayFarewell, HandOver, WipeByTool, ToolFails, StopCheck,
         SaveReply, ReadUsage, WriteUsage, PlanFollowUp, Fail, FailBeforeTry, Apologise,
         Throw, Crash, Goto, ghosts, NextSlot, Mishap, SetPaused, Wipe, Break, Forget, Retry
<1>3. ASSUME CheckFollowUp \/ SendFollowUp \/ Tick \/ Expire PROVE UNCHANGED jumped
  BY <1>3 DEF CheckFollowUp, SendFollowUp, Tick, Expire, ghosts, Mishap, Wipe
<1>4. ASSUME NEW a \in Agents,
            Speak(a) \/ PauseForSpeaker(a) \/ Resolve(a) \/ UnpauseResolved(a) \/
            WipeByListener(a) \/ ListenerFails(a) \/ Toggle(a)
     PROVE  UNCHANGED jumped
  BY <1>4 DEF Speak, PauseForSpeaker, Resolve, UnpauseResolved, WipeByListener,
         ListenerFails, Toggle, Act, ghosts, SetPaused, Wipe, Mishap
<1>5. UNCHANGED vars => UNCHANGED jumped
  BY DEF vars, ghosts
<1>6. CASE UNCHANGED jumped
  BY <1>6 DEF RowOK, JobsOK, SlotsGrow, NewestRuns, Superseded
<1>. QED
  BY <1>1, <1>2, <1>3, <1>4, <1>5, <1>6
     DEF Next, Dispatch, Work, Fault, Human

\* A job is dropped behind the slot of another.
LEMMA NewestIsKeptStep ==
  ASSUME RowOK, JobsOK, SlotsGrow, NewestIsKept, [Next]_vars
  PROVE  NewestIsKept'
<1>1. ASSUME NEW m \in Messages, Arrive(m) PROVE NewestIsKept'
  BY <1>1 DEF JobsOK, NewestIsKept, Arrive, Goto, job
<1>2. ASSUME NEW m \in Messages, NoteContact(m) PROVE NewestIsKept'
  BY <1>2 DEF JobsOK, NewestIsKept, NoteContact, Goto, job
<1>3. ASSUME NEW m \in Messages, Guard(m) PROVE NewestIsKept'
  BY <1>3 DEF JobsOK, NewestIsKept, Guard, Goto, job
<1>4. ASSUME NEW m \in Messages, Reserve(m) PROVE NewestIsKept'
  BY <1>4 DEF JobsOK, NewestIsKept, Reserve, NextSlot, Goto, SlotsGrow, RowOK
<1>5. ASSUME NEW m \in Messages, AddJob(m) PROVE NewestIsKept'
  BY <1>5 DEF JobsOK, NewestIsKept, AddJob, Goto, job
<1>6. ASSUME NEW m \in Messages, LoseDispatch(m) PROVE NewestIsKept'
  BY <1>6 DEF JobsOK, NewestIsKept, LoseDispatch, Mishap, Goto, job
<1>7. ASSUME NEW m \in Messages, CheckSlot(m) PROVE NewestIsKept'
  BY <1>7 DEF JobsOK, NewestIsKept, CheckSlot, Goto, job, SlotsGrow, Superseded, RowOK
<1>8. ASSUME NEW m \in Messages, ReadSlotFails(m) PROVE NewestIsKept'
  BY <1>8 DEF JobsOK, NewestIsKept, ReadSlotFails, Mishap, Goto, job
<1>9. ASSUME NEW m \in Messages, CheckPaused(m) PROVE NewestIsKept'
  BY <1>9 DEF JobsOK, NewestIsKept, CheckPaused, Goto, job
<1>10. ASSUME NEW m \in Messages, Think(m) PROVE NewestIsKept'
  BY <1>10 DEF JobsOK, NewestIsKept, Think, Guarded, Goto
<1>11. ASSUME NEW m \in Messages, SayFarewell(m) PROVE NewestIsKept'
  BY <1>11 DEF JobsOK, NewestIsKept, SayFarewell, Goto, job
<1>11a. ASSUME NEW m \in Messages, SendCard(m) PROVE NewestIsKept'
  BY <1>11a DEF JobsOK, NewestIsKept, SendCard, Goto, job
<1>12. ASSUME NEW m \in Messages, HandOver(m) PROVE NewestIsKept'
  BY <1>12 DEF JobsOK, NewestIsKept, HandOver, SetPaused, Goto, job
<1>13. ASSUME NEW m \in Messages, WipeByTool(m) PROVE NewestIsKept'
  BY <1>13 DEF JobsOK, NewestIsKept, WipeByTool, Wipe, Goto, job
<1>14. ASSUME NEW m \in Messages, ToolFails(m) PROVE NewestIsKept'
  BY <1>14 DEF JobsOK, NewestIsKept, ToolFails, Mishap, Goto, job
<1>15. ASSUME NEW m \in Messages, StopCheck(m) PROVE NewestIsKept'
  BY <1>15 DEF JobsOK, NewestIsKept, StopCheck, AfterStep, Goto
<1>16. ASSUME NEW m \in Messages, SaveReply(m) PROVE NewestIsKept'
  BY <1>16 DEF JobsOK, NewestIsKept, SaveReply, Goto, job
<1>17. ASSUME NEW m \in Messages, ReadUsage(m) PROVE NewestIsKept'
  BY <1>17 DEF JobsOK, NewestIsKept, ReadUsage, Goto
<1>18. ASSUME NEW m \in Messages, WriteUsage(m) PROVE NewestIsKept'
  BY <1>18 DEF JobsOK, NewestIsKept, WriteUsage, NewCount, Goto
<1>19. ASSUME NEW m \in Messages, PlanFollowUp(m) PROVE NewestIsKept'
  BY <1>19 DEF JobsOK, NewestIsKept, PlanFollowUp, plan, Goto, job
<1>20. ASSUME NEW m \in Messages, Fail(m) PROVE NewestIsKept'
  BY <1>20 DEF JobsOK, NewestIsKept, Fail, Mishap, Break, Forget, LastAttempt, Goto
<1>21. ASSUME NEW m \in Messages, FailBeforeTry(m) PROVE NewestIsKept'
  BY <1>21 DEF JobsOK, NewestIsKept, FailBeforeTry, Mishap, Retry, Goto
<1>22. ASSUME NEW m \in Messages, Apologise(m) PROVE NewestIsKept'
  BY <1>22 DEF JobsOK, NewestIsKept, Apologise, Mishap, said, Goto, job
<1>23. ASSUME NEW m \in Messages, Throw(m) PROVE NewestIsKept'
  BY <1>23 DEF JobsOK, NewestIsKept, Throw, Retry, Goto
<1>24. ASSUME NEW m \in Messages, Crash(m) PROVE NewestIsKept'
  BY <1>24 DEF JobsOK, NewestIsKept, Crash, Mishap, Forget, Goto
<1>25. ASSUME CheckFollowUp \/ SendFollowUp \/ Tick \/ Expire PROVE UNCHANGED <<at, stamp>>
  BY <1>25 DEF CheckFollowUp, SendFollowUp, Tick, Expire, job, Mishap, Wipe
<1>26. ASSUME NEW a \in Agents,
            Speak(a) \/ PauseForSpeaker(a) \/ Resolve(a) \/ UnpauseResolved(a) \/
            WipeByListener(a) \/ ListenerFails(a) \/ Toggle(a)
     PROVE  UNCHANGED <<at, stamp>>
  BY <1>26 DEF Speak, PauseForSpeaker, Resolve, UnpauseResolved, WipeByListener,
         ListenerFails, Toggle, Act, job, SetPaused, Wipe, Mishap
<1>27. UNCHANGED vars => UNCHANGED <<at, stamp>>
  BY DEF vars, job
<1>28. CASE UNCHANGED <<at, stamp>>
  BY <1>28 DEF JobsOK, NewestIsKept
<1>. QED
  BY <1>1, <1>2, <1>3, <1>4, <1>5, <1>6, <1>7, <1>8, <1>9, <1>10, <1>11, <1>11a, <1>12, <1>13,
     <1>14, <1>15, <1>16, <1>17, <1>18, <1>19, <1>20, <1>21, <1>22, <1>23, <1>24, <1>25,
     <1>26, <1>27, <1>28
     DEF Next, Dispatch, Work, Fault, Human

\* An attempt that ends after the answer breaks the job.
LEMMA SaidByPlaceStep ==
  ASSUME JobsOK, SaidOK, JobsCounted, SaidByPlace, [Next]_vars
  PROVE  SaidByPlace'
<1>1. ASSUME NEW m \in Messages, Arrive(m) PROVE SaidByPlace'
  BY <1>1 DEF JobsOK, SaidOK, SaidByPlace, Arrive, Goto, job, said
<1>2. ASSUME NEW m \in Messages, NoteContact(m) PROVE SaidByPlace'
  BY <1>2 DEF JobsOK, SaidOK, SaidByPlace, NoteContact, Goto, job, said
<1>3. ASSUME NEW m \in Messages, Guard(m) PROVE SaidByPlace'
  BY <1>3 DEF JobsOK, SaidOK, SaidByPlace, Guard, Goto, job, said
<1>4. ASSUME NEW m \in Messages, Reserve(m) PROVE SaidByPlace'
  BY <1>4 DEF JobsOK, SaidOK, SaidByPlace, Reserve, NextSlot, Goto, said
<1>5. ASSUME NEW m \in Messages, AddJob(m) PROVE SaidByPlace'
  BY <1>5 DEF JobsOK, SaidOK, SaidByPlace, AddJob, Goto, job, said
<1>6. ASSUME NEW m \in Messages, LoseDispatch(m) PROVE SaidByPlace'
  BY <1>6 DEF JobsOK, SaidOK, SaidByPlace, LoseDispatch, Mishap, Goto, job, said
<1>7. ASSUME NEW m \in Messages, CheckSlot(m) PROVE SaidByPlace'
  BY <1>7 DEF JobsOK, SaidOK, SaidByPlace, CheckSlot, Goto, job, said
<1>8. ASSUME NEW m \in Messages, ReadSlotFails(m) PROVE SaidByPlace'
  BY <1>8 DEF JobsOK, SaidOK, SaidByPlace, ReadSlotFails, Mishap, Goto, job, said
<1>9. ASSUME NEW m \in Messages, CheckPaused(m) PROVE SaidByPlace'
  BY <1>9 DEF JobsOK, SaidOK, SaidByPlace, CheckPaused, Goto, job, said
<1>10. ASSUME NEW m \in Messages, Think(m) PROVE SaidByPlace'
  BY <1>10 DEF JobsOK, SaidOK, SaidByPlace, Think, Guarded, Goto, said
<1>11. ASSUME NEW m \in Messages, SayFarewell(m) PROVE SaidByPlace'
  BY <1>11 DEF JobsOK, SaidOK, SaidByPlace, SayFarewell, Goto, job, said
<1>11a. ASSUME NEW m \in Messages, SendCard(m) PROVE SaidByPlace'
  BY <1>11a DEF JobsOK, SaidOK, SaidByPlace, SendCard, Goto, job, said
<1>12. ASSUME NEW m \in Messages, HandOver(m) PROVE SaidByPlace'
  BY <1>12 DEF JobsOK, SaidOK, SaidByPlace, HandOver, SetPaused, Goto, job, said
<1>13. ASSUME NEW m \in Messages, WipeByTool(m) PROVE SaidByPlace'
  BY <1>13 DEF JobsOK, SaidOK, SaidByPlace, WipeByTool, Wipe, Goto, job, said
<1>14. ASSUME NEW m \in Messages, ToolFails(m) PROVE SaidByPlace'
  BY <1>14 DEF JobsOK, SaidOK, SaidByPlace, ToolFails, Mishap, Goto, job, said
<1>15. ASSUME NEW m \in Messages, StopCheck(m) PROVE SaidByPlace'
  BY <1>15 DEF JobsOK, SaidOK, SaidByPlace, StopCheck, AfterStep, Goto, said
<1>16. ASSUME NEW m \in Messages, SaveReply(m) PROVE SaidByPlace'
  <2>1. at[m] = "answering" /\ at' = [at EXCEPT ![m] = "saved"] /\ replies' = [replies EXCEPT ![m] = @ + 1]
    BY <1>16 DEF SaveReply, Goto
  <2>2. UNCHANGED <<failures, fallbacks, broken>>
    BY <1>16 DEF SaveReply, job
  <2>. QED
    BY <2>1, <2>2 DEF JobsOK, SaidOK, SaidByPlace
<1>17. ASSUME NEW m \in Messages, ReadUsage(m) PROVE SaidByPlace'
  BY <1>17 DEF JobsOK, SaidOK, SaidByPlace, ReadUsage, Goto, said
<1>18. ASSUME NEW m \in Messages, WriteUsage(m) PROVE SaidByPlace'
  BY <1>18 DEF JobsOK, SaidOK, SaidByPlace, WriteUsage, NewCount, Goto, said
<1>19. ASSUME NEW m \in Messages, PlanFollowUp(m) PROVE SaidByPlace'
  BY <1>19 DEF JobsOK, SaidOK, SaidByPlace, PlanFollowUp, plan, Goto, job, said
<1>20. ASSUME NEW m \in Messages, Fail(m) PROVE SaidByPlace'
  BY <1>20 DEF JobsOK, SaidOK, SaidByPlace, Fail, Mishap, Break, Forget, LastAttempt, Goto,
         JobsCounted
<1>21. ASSUME NEW m \in Messages, FailBeforeTry(m) PROVE SaidByPlace'
  BY <1>21 DEF JobsOK, SaidOK, SaidByPlace, FailBeforeTry, Mishap, Retry, Goto, said,
         JobsCounted
<1>22. ASSUME NEW m \in Messages, Apologise(m) PROVE SaidByPlace'
  BY <1>22 DEF JobsOK, SaidOK, SaidByPlace, Apologise, Mishap, said, Goto, job
<1>23. ASSUME NEW m \in Messages, Throw(m) PROVE SaidByPlace'
  BY <1>23 DEF JobsOK, SaidOK, SaidByPlace, Throw, Retry, Goto, said, JobsCounted
<1>24. ASSUME NEW m \in Messages, Crash(m) PROVE SaidByPlace'
  BY <1>24 DEF JobsOK, SaidOK, SaidByPlace, Crash, Mishap, Forget, Goto
<1>25. ASSUME CheckFollowUp \/ SendFollowUp \/ Tick \/ Expire PROVE UNCHANGED <<at, failures, replies, fallbacks, broken>>
  BY <1>25 DEF CheckFollowUp, SendFollowUp, Tick, Expire, job, said, Mishap, Wipe
<1>26. ASSUME NEW a \in Agents,
            Speak(a) \/ PauseForSpeaker(a) \/ Resolve(a) \/ UnpauseResolved(a) \/
            WipeByListener(a) \/ ListenerFails(a) \/ Toggle(a)
     PROVE  UNCHANGED <<at, failures, replies, fallbacks, broken>>
  BY <1>26 DEF Speak, PauseForSpeaker, Resolve, UnpauseResolved, WipeByListener,
         ListenerFails, Toggle, Act, job, said, SetPaused, Wipe, Mishap
<1>27. UNCHANGED vars => UNCHANGED <<at, failures, replies, fallbacks, broken>>
  BY DEF vars, job, said
<1>28. CASE UNCHANGED <<at, failures, replies, fallbacks, broken>>
  BY <1>28 DEF JobsOK, SaidOK, SaidByPlace
<1>. QED
  BY <1>1, <1>2, <1>3, <1>4, <1>5, <1>6, <1>7, <1>8, <1>9, <1>10, <1>11, <1>11a, <1>12, <1>13,
     <1>14, <1>15, <1>16, <1>17, <1>18, <1>19, <1>20, <1>21, <1>22, <1>23, <1>24, <1>25,
     <1>26, <1>27, <1>28
     DEF Next, Dispatch, Work, Fault, Human

\* Nobody passes a look at the flag during a pause.
LEMMA LateIsSparedStep ==
  ASSUME RowOK, JobsOK, RestOK, LateIsSpared, [Next]_vars
  PROVE  LateIsSpared'
<1>1. ASSUME NEW m \in Messages, Arrive(m) PROVE LateIsSpared'
  BY <1>1 DEF RowOK, JobsOK, RestOK, LateIsSpared, Arrive, Goto, plan, ghosts
<1>2. ASSUME NEW m \in Messages, NoteContact(m) PROVE LateIsSpared'
  BY <1>2 DEF RowOK, JobsOK, RestOK, LateIsSpared, NoteContact, Goto, row, ghosts
<1>3. ASSUME NEW m \in Messages, Guard(m) PROVE LateIsSpared'
  BY <1>3 DEF RowOK, JobsOK, RestOK, LateIsSpared, Guard, Goto, row, plan, ghosts
<1>4. ASSUME NEW m \in Messages, Reserve(m) PROVE LateIsSpared'
  BY <1>4 DEF RowOK, JobsOK, RestOK, LateIsSpared, Reserve, NextSlot, Goto, row, plan,
         ghosts
<1>5. ASSUME NEW m \in Messages, AddJob(m) PROVE LateIsSpared'
  BY <1>5 DEF RowOK, JobsOK, RestOK, LateIsSpared, AddJob, Goto, row, plan, ghosts
<1>6. ASSUME NEW m \in Messages, LoseDispatch(m) PROVE LateIsSpared'
  BY <1>6 DEF RowOK, JobsOK, RestOK, LateIsSpared, LoseDispatch, Mishap, Goto, row, plan,
         ghosts
<1>7. ASSUME NEW m \in Messages, CheckSlot(m) PROVE LateIsSpared'
  BY <1>7 DEF RowOK, JobsOK, RestOK, LateIsSpared, CheckSlot, Goto, row, plan
<1>8. ASSUME NEW m \in Messages, ReadSlotFails(m) PROVE LateIsSpared'
  BY <1>8 DEF RowOK, JobsOK, RestOK, LateIsSpared, ReadSlotFails, Mishap, Goto, row, plan,
         ghosts
<1>9. ASSUME NEW m \in Messages, CheckPaused(m) PROVE LateIsSpared'
  BY <1>9 DEF RowOK, JobsOK, RestOK, LateIsSpared, CheckPaused, Goto, row, plan, ghosts
<1>10. ASSUME NEW m \in Messages, Think(m) PROVE LateIsSpared'
  BY <1>10 DEF RowOK, JobsOK, RestOK, LateIsSpared, Think, Guarded, Goto, row, plan, ghosts
<1>11. ASSUME NEW m \in Messages, SayFarewell(m) PROVE LateIsSpared'
  BY <1>11 DEF RowOK, JobsOK, RestOK, LateIsSpared, SayFarewell, Goto, row, plan, ghosts
<1>11a. ASSUME NEW m \in Messages, SendCard(m) PROVE LateIsSpared'
  BY <1>11a DEF RowOK, JobsOK, RestOK, LateIsSpared, SendCard, Goto, row, plan, ghosts
<1>12. ASSUME NEW m \in Messages, HandOver(m) PROVE LateIsSpared'
  BY <1>12 DEF RowOK, JobsOK, RestOK, LateIsSpared, HandOver, SetPaused, Goto, plan
<1>13. ASSUME NEW m \in Messages, WipeByTool(m) PROVE LateIsSpared'
  BY <1>13 DEF RowOK, JobsOK, RestOK, LateIsSpared, WipeByTool, Wipe, Goto, row, plan,
         ghosts
<1>14. ASSUME NEW m \in Messages, ToolFails(m) PROVE LateIsSpared'
  BY <1>14 DEF RowOK, JobsOK, RestOK, LateIsSpared, ToolFails, Mishap, Goto, row, plan,
         ghosts
<1>15. ASSUME NEW m \in Messages, StopCheck(m) PROVE LateIsSpared'
  BY <1>15 DEF RowOK, JobsOK, RestOK, LateIsSpared, StopCheck, AfterStep, Goto, row, plan,
         ghosts
<1>16. ASSUME NEW m \in Messages, SaveReply(m) PROVE LateIsSpared'
  BY <1>16 DEF RowOK, JobsOK, RestOK, LateIsSpared, SaveReply, Goto, row, plan, ghosts
<1>17. ASSUME NEW m \in Messages, ReadUsage(m) PROVE LateIsSpared'
  BY <1>17 DEF RowOK, JobsOK, RestOK, LateIsSpared, ReadUsage, Goto, row, plan, ghosts
<1>18. ASSUME NEW m \in Messages, WriteUsage(m) PROVE LateIsSpared'
  BY <1>18 DEF RowOK, JobsOK, RestOK, LateIsSpared, WriteUsage, NewCount, Goto, plan, ghosts
<1>19. ASSUME NEW m \in Messages, PlanFollowUp(m) PROVE LateIsSpared'
  BY <1>19 DEF RowOK, JobsOK, RestOK, LateIsSpared, PlanFollowUp, plan, Goto, row, ghosts
<1>20. ASSUME NEW m \in Messages, Fail(m) PROVE LateIsSpared'
  BY <1>20 DEF RowOK, JobsOK, RestOK, LateIsSpared, Fail, Mishap, Break, Forget,
         LastAttempt, Goto, row, plan, ghosts
<1>21. ASSUME NEW m \in Messages, FailBeforeTry(m) PROVE LateIsSpared'
  BY <1>21 DEF RowOK, JobsOK, RestOK, LateIsSpared, FailBeforeTry, Mishap, Retry, Goto, row,
         plan, ghosts
<1>22. ASSUME NEW m \in Messages, Apologise(m) PROVE LateIsSpared'
  BY <1>22 DEF RowOK, JobsOK, RestOK, LateIsSpared, Apologise, Mishap, said, Goto, row,
         plan, ghosts
<1>23. ASSUME NEW m \in Messages, Throw(m) PROVE LateIsSpared'
  BY <1>23 DEF RowOK, JobsOK, RestOK, LateIsSpared, Throw, Retry, Goto, row, plan, ghosts
<1>24. ASSUME NEW m \in Messages, Crash(m) PROVE LateIsSpared'
  BY <1>24 DEF RowOK, JobsOK, RestOK, LateIsSpared, Crash, Mishap, Forget, Goto, row, plan,
         ghosts
<1>25. CASE CheckFollowUp
  BY <1>25 DEF RowOK, JobsOK, RestOK, LateIsSpared, CheckFollowUp, Cancelled, row, ghosts
<1>26. CASE SendFollowUp
  BY <1>26 DEF RowOK, JobsOK, RestOK, LateIsSpared, SendFollowUp, row, ghosts
<1>27. ASSUME NEW a \in Agents, PauseForSpeaker(a) PROVE LateIsSpared'
  BY <1>27 DEF RowOK, JobsOK, RestOK, LateIsSpared, PauseForSpeaker, Act, SetPaused, plan
<1>28. ASSUME NEW a \in Agents, Resolve(a) PROVE LateIsSpared'
  BY <1>28 DEF RowOK, JobsOK, RestOK, LateIsSpared, Resolve, Act, SetPaused, plan
<1>29. ASSUME NEW a \in Agents, UnpauseResolved(a) PROVE LateIsSpared'
  BY <1>29 DEF RowOK, JobsOK, RestOK, LateIsSpared, UnpauseResolved, Act, SetPaused, plan
<1>30. ASSUME NEW a \in Agents, Toggle(a) PROVE LateIsSpared'
  BY <1>30 DEF RowOK, JobsOK, RestOK, LateIsSpared, Toggle, Act, SetPaused, plan
<1>31. ASSUME Tick \/ Expire PROVE UNCHANGED <<paused, at, follow, spared>>
  BY <1>31 DEF Tick, Expire, row, plan, ghosts, Mishap, Wipe
<1>32. ASSUME NEW a \in Agents,
            Speak(a) \/ WipeByListener(a) \/ ListenerFails(a)
     PROVE  UNCHANGED <<paused, at, follow, spared>>
  BY <1>32 DEF Speak, WipeByListener, ListenerFails, Act, row, plan, ghosts, Wipe, Mishap
<1>33. UNCHANGED vars => UNCHANGED <<paused, at, follow, spared>>
  BY DEF vars, row, plan, ghosts
<1>34. CASE UNCHANGED <<paused, at, follow, spared>>
  BY <1>34 DEF RowOK, JobsOK, RestOK, LateIsSpared
<1>. QED
  BY <1>1, <1>2, <1>3, <1>4, <1>5, <1>6, <1>7, <1>8, <1>9, <1>10, <1>11, <1>11a, <1>12, <1>13,
     <1>14, <1>15, <1>16, <1>17, <1>18, <1>19, <1>20, <1>21, <1>22, <1>23, <1>24, <1>25,
     <1>26, <1>27, <1>28, <1>29, <1>30, <1>31, <1>32, <1>33, <1>34
     DEF Next, Dispatch, Work, Fault, Human

\* A count is written after its answer and before the next one of its job.
LEMMA CountsFitStep ==
  ASSUME RowOK, JobsOK, SaidOK, CountsFit, [Next]_vars
  PROVE  CountsFit'
<1>1. ASSUME NEW m \in Messages, Arrive(m) PROVE CountsFit'
  <2>1. Uncounted' = Uncounted /\ UNCHANGED <<usage, read, total>>
        /\ \A k \in Messages : at'[k] = "counting" => at[k] = "counting"
    BY <1>1 DEF Uncounted, Arrive, Goto, job, said, JobsOK
  <2>. QED
    BY <2>1 DEF CountsFit
<1>2. ASSUME NEW m \in Messages, NoteContact(m) PROVE CountsFit'
  <2>1. Uncounted' = Uncounted /\ UNCHANGED <<usage, read, total>>
        /\ \A k \in Messages : at'[k] = "counting" => at[k] = "counting"
    BY <1>2 DEF Uncounted, NoteContact, Goto, row, job, said, JobsOK
  <2>. QED
    BY <2>1 DEF CountsFit
<1>3. ASSUME NEW m \in Messages, Guard(m) PROVE CountsFit'
  <2>1. Uncounted' = Uncounted /\ UNCHANGED <<usage, read, total>>
        /\ \A k \in Messages : at'[k] = "counting" => at[k] = "counting"
    BY <1>3 DEF Uncounted, Guard, Goto, row, job, said, JobsOK
  <2>. QED
    BY <2>1 DEF CountsFit
<1>4. ASSUME NEW m \in Messages, Reserve(m) PROVE CountsFit'
  <2>1. Uncounted' = Uncounted /\ UNCHANGED <<usage, read, total>>
        /\ \A k \in Messages : at'[k] = "counting" => at[k] = "counting"
    BY <1>4 DEF Uncounted, Reserve, NextSlot, Goto, row, said, JobsOK
  <2>. QED
    BY <2>1 DEF CountsFit
<1>5. ASSUME NEW m \in Messages, AddJob(m) PROVE CountsFit'
  <2>1. Uncounted' = Uncounted /\ UNCHANGED <<usage, read, total>>
        /\ \A k \in Messages : at'[k] = "counting" => at[k] = "counting"
    BY <1>5 DEF Uncounted, AddJob, Goto, row, job, said, JobsOK
  <2>. QED
    BY <2>1 DEF CountsFit
<1>6. ASSUME NEW m \in Messages, LoseDispatch(m) PROVE CountsFit'
  <2>1. Uncounted' = Uncounted /\ UNCHANGED <<usage, read, total>>
        /\ \A k \in Messages : at'[k] = "counting" => at[k] = "counting"
    BY <1>6 DEF Uncounted, LoseDispatch, Mishap, Goto, row, job, said, JobsOK
  <2>. QED
    BY <2>1 DEF CountsFit
<1>7. ASSUME NEW m \in Messages, CheckSlot(m) PROVE CountsFit'
  <2>1. Uncounted' = Uncounted /\ UNCHANGED <<usage, read, total>>
        /\ \A k \in Messages : at'[k] = "counting" => at[k] = "counting"
    BY <1>7 DEF Uncounted, CheckSlot, Goto, row, job, said, JobsOK
  <2>. QED
    BY <2>1 DEF CountsFit
<1>8. ASSUME NEW m \in Messages, ReadSlotFails(m) PROVE CountsFit'
  <2>1. Uncounted' = Uncounted /\ UNCHANGED <<usage, read, total>>
        /\ \A k \in Messages : at'[k] = "counting" => at[k] = "counting"
    BY <1>8 DEF Uncounted, ReadSlotFails, Mishap, Goto, row, job, said, JobsOK
  <2>. QED
    BY <2>1 DEF CountsFit
<1>9. ASSUME NEW m \in Messages, CheckPaused(m) PROVE CountsFit'
  <2>1. Uncounted' = Uncounted /\ UNCHANGED <<usage, read, total>>
        /\ \A k \in Messages : at'[k] = "counting" => at[k] = "counting"
    BY <1>9 DEF Uncounted, CheckPaused, Goto, row, job, said, JobsOK
  <2>. QED
    BY <2>1 DEF CountsFit
<1>10. ASSUME NEW m \in Messages, Think(m) PROVE CountsFit'
  <2>1. Uncounted' = Uncounted /\ UNCHANGED <<usage, read, total>>
        /\ \A k \in Messages : at'[k] = "counting" => at[k] = "counting"
    BY <1>10 DEF Uncounted, Think, Guarded, Goto, row, said, JobsOK
  <2>. QED
    BY <2>1 DEF CountsFit
<1>11. ASSUME NEW m \in Messages, SayFarewell(m) PROVE CountsFit'
  <2>1. Uncounted' = Uncounted /\ UNCHANGED <<usage, read, total>>
        /\ \A k \in Messages : at'[k] = "counting" => at[k] = "counting"
    BY <1>11 DEF Uncounted, SayFarewell, Goto, row, job, said, JobsOK
  <2>. QED
    BY <2>1 DEF CountsFit
<1>11a. ASSUME NEW m \in Messages, SendCard(m) PROVE CountsFit'
  <2>1. Uncounted' = Uncounted /\ UNCHANGED <<usage, read, total>>
        /\ \A k \in Messages : at'[k] = "counting" => at[k] = "counting"
    BY <1>11a DEF Uncounted, SendCard, Goto, row, job, said, JobsOK
  <2>. QED
    BY <2>1 DEF CountsFit
<1>12. ASSUME NEW m \in Messages, HandOver(m) PROVE CountsFit'
  <2>1. Uncounted' = Uncounted /\ UNCHANGED <<usage, read, total>>
        /\ \A k \in Messages : at'[k] = "counting" => at[k] = "counting"
    BY <1>12 DEF Uncounted, HandOver, SetPaused, Goto, job, said, JobsOK
  <2>. QED
    BY <2>1 DEF CountsFit
<1>13. ASSUME NEW m \in Messages, WipeByTool(m) PROVE CountsFit'
  <2>1. Uncounted' = Uncounted /\ UNCHANGED <<usage, read, total>>
        /\ \A k \in Messages : at'[k] = "counting" => at[k] = "counting"
    BY <1>13 DEF Uncounted, WipeByTool, Wipe, Goto, row, job, said, JobsOK
  <2>. QED
    BY <2>1 DEF CountsFit
<1>14. ASSUME NEW m \in Messages, ToolFails(m) PROVE CountsFit'
  <2>1. Uncounted' = Uncounted /\ UNCHANGED <<usage, read, total>>
        /\ \A k \in Messages : at'[k] = "counting" => at[k] = "counting"
    BY <1>14 DEF Uncounted, ToolFails, Mishap, Goto, row, job, said, JobsOK
  <2>. QED
    BY <2>1 DEF CountsFit
<1>15. ASSUME NEW m \in Messages, StopCheck(m) PROVE CountsFit'
  <2>1. Uncounted' = Uncounted /\ UNCHANGED <<usage, read, total>>
        /\ \A k \in Messages : at'[k] = "counting" => at[k] = "counting"
    BY <1>15 DEF Uncounted, StopCheck, AfterStep, Goto, row, said, JobsOK
  <2>. QED
    BY <2>1 DEF CountsFit
<1>16. ASSUME NEW m \in Messages, SaveReply(m) PROVE CountsFit'
  <2>1. Uncounted' = Uncounted \cup {m} /\ m \notin Uncounted
    BY <1>16 DEF Uncounted, SaveReply, Goto, JobsOK
  <2>2. IsFiniteSet(Uncounted') /\ Cardinality(Uncounted') = Cardinality(Uncounted) + 1
    BY <2>1, FS_AddElement DEF CountsFit
  <2>3. Cardinality(Uncounted) \in Nat
    BY FS_CardinalityType DEF CountsFit
  <2>4. UNCHANGED <<usage, read>> /\ total' = total + 1
    BY <1>16 DEF SaveReply, row, job
  <2>5. \A k \in Messages : at'[k] = "counting" => at[k] = "counting"
    BY <1>16 DEF SaveReply, Goto, JobsOK
  <2>. QED
    BY <2>2, <2>3, <2>4, <2>5 DEF CountsFit, RowOK, JobsOK, SaidOK
<1>17. ASSUME NEW m \in Messages, ReadUsage(m) PROVE CountsFit'
  <2>1. Uncounted' = Uncounted /\ UNCHANGED <<usage, total>>
    BY <1>17 DEF Uncounted, ReadUsage, Goto, JobsOK, row, said
  <2>2. \A k \in Messages : at'[k] = "counting" /\ k # m => at[k] = "counting" /\ read'[k] = read[k]
    BY <1>17 DEF ReadUsage, Goto, JobsOK
  <2>3. read'[m] = usage
    BY <1>17 DEF ReadUsage, JobsOK
  <2>. QED
    BY <2>1, <2>2, <2>3 DEF CountsFit
<1>18. ASSUME NEW m \in Messages, WriteUsage(m) PROVE CountsFit'
  <2>1. Uncounted' = Uncounted \ {m} /\ m \in Uncounted
    BY <1>18 DEF Uncounted, WriteUsage, Goto, JobsOK
  <2>2. IsFiniteSet(Uncounted') /\ Cardinality(Uncounted') = Cardinality(Uncounted) - 1
    BY <2>1, FS_RemoveElement DEF CountsFit
  <2>3. Cardinality(Uncounted) \in Nat
    BY FS_CardinalityType DEF CountsFit
  <2>4. usage' = read[m] + 1 /\ UNCHANGED total /\ read[m] + Cardinality(Uncounted) <= total
    BY <1>18 DEF WriteUsage, NewCount, CountsFit, said
  <2>5. \A k \in Messages : at'[k] = "counting" => at[k] = "counting" /\ read'[k] = read[k]
    BY <1>18 DEF WriteUsage, Goto, JobsOK
  <2>. QED
    BY <2>2, <2>3, <2>4, <2>5 DEF CountsFit, RowOK, JobsOK, SaidOK
<1>19. ASSUME NEW m \in Messages, PlanFollowUp(m) PROVE CountsFit'
  <2>1. Uncounted' = Uncounted /\ UNCHANGED <<usage, read, total>>
        /\ \A k \in Messages : at'[k] = "counting" => at[k] = "counting"
    BY <1>19 DEF Uncounted, PlanFollowUp, plan, Goto, row, job, said, JobsOK
  <2>. QED
    BY <2>1 DEF CountsFit
<1>20. ASSUME NEW m \in Messages, Fail(m) PROVE CountsFit'
  <2>1. Uncounted' = Uncounted \ {m}
    BY <1>20 DEF Uncounted, Fail, Goto, JobsOK
  <2>2. IsFiniteSet(Uncounted') /\ Cardinality(Uncounted') \in Nat /\ Cardinality(Uncounted) \in Nat
    BY <2>1, FS_RemoveElement, FS_CardinalityType DEF CountsFit
  <2>3. Cardinality(Uncounted') <= Cardinality(Uncounted)
    <3>1. Uncounted' \in SUBSET Uncounted
      BY <2>1
    <3>. QED
      BY <3>1, FS_Subset DEF CountsFit
  <2>4. UNCHANGED <<usage, total>>
    BY <1>20 DEF Fail, row
  <2>5. \A k \in Messages : at'[k] = "counting" => at[k] = "counting" /\ read'[k] = read[k]
    BY <1>20 DEF Fail, Forget, Goto, JobsOK
  <2>. QED
    BY <2>2, <2>3, <2>4, <2>5 DEF CountsFit, RowOK, JobsOK, SaidOK
<1>21. ASSUME NEW m \in Messages, FailBeforeTry(m) PROVE CountsFit'
  <2>1. Uncounted' = Uncounted /\ UNCHANGED <<usage, read, total>>
        /\ \A k \in Messages : at'[k] = "counting" => at[k] = "counting"
    BY <1>21 DEF Uncounted, FailBeforeTry, Mishap, Retry, Goto, row, said, JobsOK
  <2>. QED
    BY <2>1 DEF CountsFit
<1>22. ASSUME NEW m \in Messages, Apologise(m) PROVE CountsFit'
  <2>1. Uncounted' = Uncounted /\ UNCHANGED <<usage, read, total>>
        /\ \A k \in Messages : at'[k] = "counting" => at[k] = "counting"
    BY <1>22 DEF Uncounted, Apologise, Mishap, said, Goto, row, job, JobsOK
  <2>. QED
    BY <2>1 DEF CountsFit
<1>23. ASSUME NEW m \in Messages, Throw(m) PROVE CountsFit'
  <2>1. Uncounted' = Uncounted /\ UNCHANGED <<usage, read, total>>
        /\ \A k \in Messages : at'[k] = "counting" => at[k] = "counting"
    BY <1>23 DEF Uncounted, Throw, Retry, Goto, row, said, JobsOK
  <2>. QED
    BY <2>1 DEF CountsFit
<1>24. ASSUME NEW m \in Messages, Crash(m) PROVE CountsFit'
  <2>1. Uncounted' = Uncounted \ {m}
    BY <1>24 DEF Uncounted, Crash, Goto, JobsOK
  <2>2. IsFiniteSet(Uncounted') /\ Cardinality(Uncounted') \in Nat /\ Cardinality(Uncounted) \in Nat
    BY <2>1, FS_RemoveElement, FS_CardinalityType DEF CountsFit
  <2>3. Cardinality(Uncounted') <= Cardinality(Uncounted)
    <3>1. Uncounted' \in SUBSET Uncounted
      BY <2>1
    <3>. QED
      BY <3>1, FS_Subset DEF CountsFit
  <2>4. UNCHANGED <<usage, total>>
    BY <1>24 DEF Crash, row
  <2>5. \A k \in Messages : at'[k] = "counting" => at[k] = "counting" /\ read'[k] = read[k]
    BY <1>24 DEF Crash, Forget, Goto, JobsOK
  <2>. QED
    BY <2>2, <2>3, <2>4, <2>5 DEF CountsFit, RowOK, JobsOK, SaidOK
<1>25. ASSUME CheckFollowUp \/ SendFollowUp \/ Tick \/ Expire PROVE UNCHANGED <<usage, read, total, at>>
  BY <1>25 DEF CheckFollowUp, SendFollowUp, Tick, Expire, row, job, said, Mishap, Wipe
<1>26. ASSUME NEW a \in Agents,
            Speak(a) \/ PauseForSpeaker(a) \/ Resolve(a) \/ UnpauseResolved(a) \/
            WipeByListener(a) \/ ListenerFails(a) \/ Toggle(a)
     PROVE  UNCHANGED <<usage, read, total, at>>
  BY <1>26 DEF Speak, PauseForSpeaker, Resolve, UnpauseResolved, WipeByListener,
         ListenerFails, Toggle, Act, row, job, said, SetPaused, Wipe, Mishap
<1>27. UNCHANGED vars => UNCHANGED <<usage, read, total, at>>
  BY DEF vars, row, job, said
<1>28. CASE UNCHANGED <<usage, read, total, at>>
  BY <1>28 DEF CountsFit, Uncounted
<1>. QED
  BY <1>1, <1>2, <1>3, <1>4, <1>5, <1>6, <1>7, <1>8, <1>9, <1>10, <1>11, <1>11a, <1>12, <1>13,
     <1>14, <1>15, <1>16, <1>17, <1>18, <1>19, <1>20, <1>21, <1>22, <1>23, <1>24, <1>25,
     <1>26, <1>27, <1>28
     DEF Next, Dispatch, Work, Fault, Human

-----------------------------------------------------------------------------
(* The theorems. *)

\* At first nothing was asked.
LEMMA InitIInv == Init => IInv
<1> SUFFICES ASSUME Init PROVE IInv
  OBVIOUS
<1>1. RowOK /\ SaidOK
  BY DEF Init, RowOK, SaidOK
<1>2. JobsOK
  BY DEF Init, JobsOK, Places
<1>3. RestOK
  BY DEF Init, RestOK, Nobody
<1>4. JobsCounted /\ SlotsGrow /\ SaidByPlace /\ LateIsSpared
  BY DEF Init, JobsCounted, SlotsGrow, SaidByPlace, LateIsSpared
<1>5. CountsFit
  <2>1. Uncounted = {}
    BY DEF Init, Uncounted
  <2>. QED
    BY <2>1, FS_EmptySet DEF CountsFit, Init
<1>6. NewestRuns /\ NewestIsKept
  BY DEF Init, NewestRuns, NewestIsKept
<1>. QED
  BY <1>1, <1>2, <1>3, <1>4, <1>5, <1>6 DEF IInv, TypeOK

\* Every step keeps all the parts.
LEMMA NextIInv == IInv /\ [Next]_vars => IInv'
<1>1. IInv /\ [Next]_vars => TypeOK'
  BY RowOKStep, JobsOKStep, SaidOKStep, RestOKStep DEF IInv, TypeOK
<1>2. IInv /\ [Next]_vars => JobsCounted' /\ SlotsGrow' /\ SaidByPlace'
  BY JobsCountedStep, SlotsGrowStep, SaidByPlaceStep DEF IInv, TypeOK
<1>3. IInv /\ [Next]_vars => LateIsSpared' /\ CountsFit' /\ NewestRuns' /\ NewestIsKept'
  BY LateIsSparedStep, CountsFitStep, NewestRunsStep, NewestIsKeptStep DEF IInv, TypeOK
<1>. QED
  BY <1>1, <1>2, <1>3 DEF IInv

\* The invariant, and its parts.
LEMMA AlwaysIInv == Spec => []IInv
BY InitIInv, NextIInv, PTL DEF Spec

\* Every variable keeps its type: the loop takes no more steps than it may, and
\* no job is tried or taken back more often than the queue allows.
THEOREM AutopilotTypeCorrect == Spec => []TypeOK
<1>1. IInv => TypeOK
  BY DEF IInv
<1>. QED
  BY <1>1, AlwaysIInv, PTL

\* While the debounce key lives, a job whose message was followed by another
\* one with a slot does not run.
THEOREM OnlyTheNewestRuns == Spec => []NewestRuns
<1>1. IInv => NewestRuns
  BY DEF IInv
<1>. QED
  BY <1>1, AlwaysIInv, PTL

\* A job is dropped only for another one with a later slot.
THEOREM TheNewestIsKept == Spec => []NewestIsKept
<1>1. IInv => NewestIsKept
  BY DEF IInv
<1>. QED
  BY <1>1, AlwaysIInv, PTL

\* A job says two things only when one of its attempts ended between the
\* answer and the end of the job.
THEOREM AJobAnswersOnce == Spec => []AnsweredOnce
<1>1. IInv => AnsweredOnce
  BY DEF IInv, TypeOK, SaidOK, SaidByPlace, AnsweredOnce
<1>. QED
  BY <1>1, AlwaysIInv, PTL

\* The usage shown never counts more answers than were saved.
THEOREM EveryCountIsEarned == Spec => []UsageIsEarned
<1>1. IInv => UsageIsEarned
  <2>1. IInv => Cardinality(Uncounted) \in Nat
    BY FS_CardinalityType DEF IInv, CountsFit
  <2>. QED
    BY <2>1 DEF IInv, TypeOK, RowOK, SaidOK, CountsFit, UsageIsEarned
<1>. QED
  BY <1>1, AlwaysIInv, PTL

\* A step that says something during a pause is one that was spared.
LEMMA SpeechIsSpared ==
  ASSUME SaidOK, RowOK, LateIsSpared, [Next]_vars
  PROVE  paused => FollowsUpLate /\ \A k \in Messages : SpeaksLate(k)
<1>1. ASSUME NEW m \in Messages, SaveReply(m) PROVE paused => FollowsUpLate /\ \A k \in Messages : SpeaksLate(k)
  BY <1>1 DEF SaidOK, RowOK, LateIsSpared, FollowsUpLate, SpeaksLate, SaveReply, Goto, plan
<1>2. ASSUME NEW m \in Messages, PlanFollowUp(m) PROVE paused => FollowsUpLate /\ \A k \in Messages : SpeaksLate(k)
  BY <1>2 DEF SaidOK, RowOK, LateIsSpared, FollowsUpLate, SpeaksLate, PlanFollowUp, plan,
         Goto, said
<1>3. ASSUME NEW m \in Messages, Apologise(m) PROVE paused => FollowsUpLate /\ \A k \in Messages : SpeaksLate(k)
  BY <1>3 DEF SaidOK, RowOK, LateIsSpared, FollowsUpLate, SpeaksLate, Apologise, Mishap,
         said, Goto, plan
<1>4. CASE CheckFollowUp
  BY <1>4 DEF SaidOK, RowOK, LateIsSpared, FollowsUpLate, SpeaksLate, CheckFollowUp,
         Cancelled, said
<1>5. CASE SendFollowUp
  BY <1>5 DEF SaidOK, RowOK, LateIsSpared, FollowsUpLate, SpeaksLate, SendFollowUp, said
<1>6. ASSUME NEW m \in Messages,
            Arrive(m) \/ NoteContact(m) \/ Guard(m) \/ Reserve(m) \/ AddJob(m) \/
            LoseDispatch(m) \/ CheckSlot(m) \/ ReadSlotFails(m) \/ CheckPaused(m) \/
            Think(m) \/ SendCard(m) \/ SayFarewell(m) \/ HandOver(m) \/ WipeByTool(m) \/
            ToolFails(m) \/ StopCheck(m) \/ ReadUsage(m) \/ WriteUsage(m) \/ Fail(m) \/
            FailBeforeTry(m) \/ Throw(m) \/ Crash(m)
     PROVE  UNCHANGED <<replies, fallbacks, follow>>
  BY <1>6 DEF Arrive, NoteContact, Guard, Reserve, AddJob, LoseDispatch, CheckSlot,
         ReadSlotFails, CheckPaused, Think, SendCard, SayFarewell, HandOver, WipeByTool, ToolFails,
         StopCheck, ReadUsage, WriteUsage, Fail, FailBeforeTry, Throw, Crash, Goto, plan,
         said, NextSlot, Mishap, SetPaused, Wipe, Break, Forget, Retry
<1>7. ASSUME Tick \/ Expire PROVE UNCHANGED <<replies, fallbacks, follow>>
  BY <1>7 DEF Tick, Expire, plan, said, Mishap, Wipe
<1>8. ASSUME NEW a \in Agents,
            Speak(a) \/ PauseForSpeaker(a) \/ Resolve(a) \/ UnpauseResolved(a) \/
            WipeByListener(a) \/ ListenerFails(a) \/ Toggle(a)
     PROVE  UNCHANGED <<replies, fallbacks, follow>>
  BY <1>8 DEF Speak, PauseForSpeaker, Resolve, UnpauseResolved, WipeByListener,
         ListenerFails, Toggle, Act, plan, said, SetPaused, Wipe, Mishap
<1>9. UNCHANGED vars => UNCHANGED <<replies, fallbacks, follow>>
  BY DEF vars, plan, said
<1>10. CASE UNCHANGED <<replies, fallbacks, follow>>
  BY <1>10 DEF SaidOK, RowOK, LateIsSpared, FollowsUpLate, SpeaksLate
<1>. QED
  BY <1>1, <1>2, <1>3, <1>4, <1>5, <1>6, <1>7, <1>8, <1>9, <1>10
     DEF Next, Dispatch, Work, Fault, Human

\* During a pause the autopilot says only what had passed its last look at the
\* flag when the pause began.
THEOREM TakeoverIsHeard == Spec => TakeoverSilences
<1>1. IInv /\ [Next]_vars /\ paused => FollowsUpLate /\ \A m \in Messages : SpeaksLate(m)
  BY SpeechIsSpared DEF IInv, TypeOK
<1>2. IInv /\ paused => \A m \in Messages : TellsLate(m)
  BY DEF IInv, LateIsSpared, TellsLate
<1>3. IInv /\ [Next]_vars =>
        [paused => FollowsUpLate /\ \A m \in Messages : SpeaksLate(m) /\ TellsLate(m)]_vars
  BY <1>1, <1>2
<1>. QED
  BY <1>3, AlwaysIInv, PTL DEF Spec, TakeoverSilences

===============================================================================
