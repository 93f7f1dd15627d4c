-------------------------- MODULE ZaloPersonalProofs --------------------------
(***************************************************************************)
(* Proofs about ZaloPersonal, for any number of entries, re-logins, owner  *)
(* actions and faults.                                                     *)
(***************************************************************************)
EXTENDS ZaloPersonal, TLAPS

\* The bounds count: only these formulas read them.
LEMMA BoundsStep ==
  ASSUME acts \in 0..MaxActs, mishaps \in 0..MaxMishaps, Act \/ Mishap \/ UNCHANGED bounds
  PROVE  acts' \in 0..MaxActs /\ mishaps' \in 0..MaxMishaps
BY ZaloPersonalAssumption DEF Act, Mishap, bounds

\* A session that is registered leaves the registry well typed.
LEMMA RegisterType ==
  ASSUME SessionsOK, NEW e \in Entries, Register(e)
  PROVE  /\ SessionsOK' /\ registry' = e /\ listener'[e] = "starting"
         /\ ~spent' /\ e \notin leaving
         /\ orphaned' = FALSE /\ UNCHANGED <<owner, overtaken>>
BY DEF SessionsOK, Register, Fresh, Unused, States, Live

\* A reconnect is planned for the entry in the registry, if there is one.
LEMMA ScheduleType ==
  ASSUME SessionsOK, ScheduleReconnect
  PROVE  /\ timer' \subseteq Entries /\ backoff' \in [Entries -> Nat]
         /\ registry # NoEntry => registry \in timer' \/ spent
<1>1. CASE registry = NoEntry \/ registry \in timer \/ spent
  BY <1>1 DEF SessionsOK, ScheduleReconnect
<1>2. CASE ~(registry = NoEntry \/ registry \in timer \/ spent)
  BY <1>2 DEF SessionsOK, ScheduleReconnect, Longer
<1> QED BY <1>1, <1>2

\* A failed login takes the session out of the registry or plans another.
LEMMA LoginFailedType ==
  ASSUME TypeOK, NEW t \in Tries, LoginFailed(t), UNCHANGED <<listener, late, cookie>>
  PROVE  /\ SessionsOK' /\ TriesOK' /\ overtaken' \in BOOLEAN
         /\ registry' # NoEntry => registry' \in timer' \/ spent
         /\ spent' => spent
         /\ registry' \in {registry, NoEntry} /\ at'[t] \in {"idle", "mark"}
         /\ \A u \in Tries \ {t} : at'[u] = at[u]
<1> USE DEF TypeOK, TriesOK
<1>1. CASE of[t] = NoEntry \/ backoff[of[t]] = 0 \/ backoff[of[t]] >= MaxBackoff
  <2>1. /\ at' = [at EXCEPT ![t] = "mark"]
        /\ UNCHANGED <<of, using, timer, backoff>>
        /\ registry' = NoEntry /\ spent' = FALSE /\ overtaken' \in BOOLEAN
    BY <1>1 DEF LoginFailed, Goto, Drop
  <2> QED BY <2>1 DEF SessionsOK, RestOK
<1>2. CASE ~(of[t] = NoEntry \/ backoff[of[t]] = 0 \/ backoff[of[t]] >= MaxBackoff)
  <2>1. /\ ScheduleReconnect /\ UNCHANGED <<registry, spent, overtaken>>
        /\ at' = [at EXCEPT ![t] = "idle"] /\ of' = [of EXCEPT ![t] = NoEntry]
        /\ using' = [using EXCEPT ![t] = 0]
    BY <1>2 DEF LoginFailed, Retry, EndTry, Goto
  <2>2. SessionsOK' /\ (registry # NoEntry => registry \in timer' \/ spent)
    BY <2>1, ScheduleType DEF SessionsOK
  <2> QED BY <2>1, <2>2 DEF RestOK
<1> QED BY <1>1, <1>2

-----------------------------------------------------------------------------
(* The types. *)

\* A channel has cookies from the moment it is there.
Scanned == (channel = "there" => cookie > 0) /\ (channel = "absent" => cookie = 0)

\* The types are kept by every step.
LEMMA TypeStep == TypeOK /\ Scanned /\ [Next]_vars => TypeOK' /\ Scanned'
<1> SUFFICES ASSUME TypeOK, Scanned, [Next]_vars
             PROVE  TypeOK' /\ Scanned'
  OBVIOUS
<1> USE DEF TypeOK, Scanned
<1>1. ASSUME NEW e \in Entries, Connected(e)
      PROVE  TypeOK' /\ Scanned'
  <2>1. SessionsOK'
    BY <1>1 DEF Connected, SessionsOK, States, Live
  <2> QED BY <1>1, <2>1 DEF Connected, row, tries, handlers, history, bounds, RowOK, TriesOK, RestOK
<1>2. ASSUME NEW e \in Entries, Closed(e) \/ Drops(e)
      PROVE  TypeOK' /\ Scanned'
  <2>1. /\ ScheduleReconnect /\ listener' = [listener EXCEPT ![e] = "down"]
        /\ UNCHANGED <<row, alive, registry, spent, late, tries, scan, handlers, history>>
        /\ Mishap \/ UNCHANGED bounds
    BY <1>2 DEF Closed, Drops
  <2>2. SessionsOK'
    BY <2>1, ScheduleType DEF SessionsOK, States, Live
  <2> QED BY <2>1, <2>2, BoundsStep DEF row, tries, handlers, history, bounds, RowOK, TriesOK, RestOK
<1>3. ASSUME NEW e \in Entries, Fire(e)
      PROVE  TypeOK' /\ Scanned'
  <2>1. SessionsOK'
    BY <1>3 DEF Fire, SessionsOK
  <2>2. TriesOK'
    BY <1>3 DEF Fire, TriesOK, Goto, tries, row, SessionsOK
  <2> QED BY <1>3, <2>1, <2>2 DEF Fire, row, handlers, history, bounds, RowOK, RestOK
<1>4. ASSUME NEW e \in Entries, CheckUpdate(e) \/ Leave(e)
      PROVE  TypeOK' /\ Scanned'
  <2>1. SessionsOK'
    BY <1>4 DEF CheckUpdate, Leave, Stop, Drop, SessionsOK, Stopped, States, Live
  <2>2. overtaken' \in BOOLEAN /\ orphaned' \in BOOLEAN
    BY <1>4 DEF CheckUpdate, Leave, Drop, RestOK, history
  <2> QED BY <1>4, <2>1, <2>2 DEF CheckUpdate, Leave, Stop, row, tries, history, bounds, RowOK, TriesOK, RestOK
<1>5. ASSUME NEW t \in Tries, Look(t)
      PROVE  TypeOK' /\ Scanned'
  <2>1. SessionsOK'
    BY <1>5 DEF Look, Drop, SessionsOK
  <2>2. TriesOK'
    BY <1>5 DEF Look, EndTry, Goto, TriesOK, row
  <2>3. overtaken' \in BOOLEAN
    BY <1>5 DEF Look, Drop, RestOK
  <2> QED BY <1>5, <2>1, <2>2, <2>3 DEF Look, row, handlers, bounds, RowOK, RestOK
<1>6. ASSUME NEW t \in Tries, Load(t)
      PROVE  TypeOK' /\ Scanned'
  <2>1. CASE channel = "there"
    <3>1. /\ using' = [using EXCEPT ![t] = cookie] /\ at' = [at EXCEPT ![t] = "login"]
          /\ UNCHANGED <<row, listener, late, registry, spent, overtaken, of, timer, backoff>>
      BY <1>6, <2>1 DEF Load, Goto, Cookies
    <3>2. TriesOK' /\ SessionsOK'
      BY <3>1, <2>1 DEF TriesOK, SessionsOK, RowOK, row
    <3> QED BY <1>6, <3>1, <3>2 DEF Load, row, handlers, bounds, RowOK, RestOK
  <2>2. CASE channel # "there"
    <3>1. SessionsOK' /\ TriesOK' /\ overtaken' \in BOOLEAN
      BY <1>6, <2>2, LoginFailedType DEF Load, row
    <3> QED BY <1>6, <3>1 DEF Load, row, handlers, bounds, RowOK, RestOK
  <2> QED BY <2>1, <2>2
<1>7. ASSUME NEW t \in Tries, Login(t)
      PROVE  TypeOK' /\ Scanned'
  <2>1. SessionsOK'
    BY <1>7, RegisterType DEF Login
  <2>2. TriesOK'
    BY <1>7 DEF Login, EndTry, Goto, TriesOK, row
  <2> QED BY <1>7, <2>1, <2>2, RegisterType DEF Login, row, handlers, bounds, RowOK, RestOK
<1>8. ASSUME NEW t \in Tries, Refused(t) \/ Unreachable(t)
      PROVE  TypeOK' /\ Scanned'
  <2>1. /\ LoginFailed(t) /\ UNCHANGED <<row, alive, listener, late, scan, handlers, owner, orphaned>>
        /\ Mishap \/ UNCHANGED bounds
    BY <1>8 DEF Refused, Unreachable
  <2>2. SessionsOK' /\ TriesOK' /\ overtaken' \in BOOLEAN
    BY <2>1, LoginFailedType DEF row
  <2> QED BY <2>1, <2>2, BoundsStep DEF row, handlers, bounds, RowOK, RestOK
<1>9. ASSUME NEW t \in Tries, Mark(t) \/ MarkFails(t)
      PROVE  TypeOK' /\ Scanned'
  <2>1. TriesOK'
    BY <1>9 DEF Mark, MarkFails, EndTry, Goto, TriesOK, row
  <2>2. RowOK' /\ Scanned' /\ SessionsOK'
    BY <1>9 DEF Mark, MarkFails, row, sessions, RowOK, SessionsOK
  <2>3. orphaned' \in BOOLEAN /\ UNCHANGED <<scan, handlers, owner, overtaken>>
    BY <1>9 DEF Mark, MarkFails, history, RestOK
  <2>4. acts' \in 0..MaxActs /\ mishaps' \in 0..MaxMishaps
    BY <1>9, BoundsStep DEF Mark, MarkFails, RestOK
  <2> QED BY <2>1, <2>2, <2>3, <2>4 DEF handlers, RestOK
<1>10. CASE LateUpdate \/ LogOut
  <2>1. RowOK'
    BY <1>10 DEF LateUpdate, LogOut, row, RowOK
  <2> QED BY <1>10, <2>1, BoundsStep
          DEF LateUpdate, LogOut, row, sessions, tries, handlers, history, bounds, SessionsOK, TriesOK, RestOK
<1>11. CASE Restart
  <2>1. TriesOK'
    BY <1>11 DEF Restart, TriesOK, row
  <2> QED BY <1>11, <2>1, BoundsStep DEF Restart, row, history, bounds, RowOK, SessionsOK, RestOK, States
<1>12. CASE Connect \/ WriteScan
  <2>1. RowOK' /\ Scanned' /\ cookie' \in Nat /\ cookie' >= cookie
    <3>1. CASE Connect
      BY <1>12, <3>1 DEF Connect, RowOK
    <3>2. CASE WriteScan /\ channel = "there"
      <4>1. /\ cookie' = cookie + 1 /\ alive' = alive \cup {cookie + 1} /\ channel' = channel
            /\ connected' = TRUE /\ flagged' = FALSE
        BY <3>2 DEF WriteScan
      <4>2. alive' \subseteq 1..cookie'
        BY <4>1 DEF RowOK
      <4>3. cookie' \in Nat /\ cookie' > 0 /\ cookie' >= cookie
        BY <4>1 DEF RowOK
      <4>4. channel' = "there" /\ connected' \in BOOLEAN /\ flagged' \in BOOLEAN
        BY <3>2, <4>1
      <4> QED BY <4>2, <4>3, <4>4 DEF RowOK
    <3>3. CASE WriteScan /\ channel # "there"
      <4>1. UNCHANGED <<channel, connected, flagged, cookie, alive>>
        BY <3>3 DEF WriteScan
      <4> QED BY <4>1 DEF RowOK
    <3> QED BY <1>12, <3>1, <3>2, <3>3
  <2>2. TriesOK'
    BY <1>12, <2>1 DEF Connect, WriteScan, tries, TriesOK, RowOK
  <2> QED BY <1>12, <2>1, <2>2 DEF Connect, WriteScan, sessions, handlers, bounds, history, SessionsOK, RestOK
<1>13. CASE Reauthorize
  BY <1>13, BoundsStep
     DEF Reauthorize, row, sessions, tries, handlers, history, bounds, RowOK, SessionsOK, TriesOK, RestOK
<1>14. CASE RegisterScan
  <2>1. SessionsOK'
    BY <1>14, RegisterType DEF RegisterScan
  <2> QED BY <1>14, <2>1, RegisterType DEF RegisterScan, row, tries, handlers, bounds, RowOK, TriesOK, RestOK
<1>15. CASE Disconnect \/ Delete
  <2>1. overtaken' \in BOOLEAN
    BY <1>15 DEF Disconnect, Delete, Opening
  <2>2. RestOK'
    BY <1>15, <2>1, BoundsStep DEF Disconnect, Delete, RestOK
  <2> QED BY <1>15, <2>2 DEF Disconnect, Delete, sessions, tries, RowOK, SessionsOK, TriesOK
<1>16. CASE TellUpdated \/ TellDeleted
  <2>1. SessionsOK'
    BY <1>16 DEF TellUpdated, TellDeleted, Stop, Stopped, sessions, SessionsOK, States, Live
  <2>2. checking' \subseteq Entries /\ leaving' \subseteq Entries /\ telling' \subseteq telling
    BY <1>16 DEF TellUpdated, TellDeleted, Emit, Stop, SessionsOK, RestOK
  <2> QED BY <1>16, <2>1, <2>2
          DEF TellUpdated, TellDeleted, row, tries, history, bounds, RowOK, TriesOK, RestOK
<1>17. CASE UNCHANGED vars
  BY <1>17 DEF vars, row, sessions, tries, handlers, history, bounds, RowOK, SessionsOK, TriesOK, RestOK
<1> QED
  BY <1>1, <1>2, <1>3, <1>4, <1>5, <1>6, <1>7, <1>8, <1>9, <1>10, <1>11, <1>12, <1>13, <1>14,
     <1>15, <1>16, <1>17 DEF Next

\* The first state is well typed.
LEMMA TypeInit == Init => TypeOK /\ Scanned
<1> SUFFICES ASSUME Init
             PROVE  TypeOK /\ Scanned
  OBVIOUS
<1>1. RowOK /\ Scanned
  BY DEF Init, RowOK, Scanned
<1>2. SessionsOK
  BY DEF Init, SessionsOK, States
<1>3. TriesOK
  BY DEF Init, TriesOK
<1>4. RestOK
  <2>1. acts \in 0..MaxActs /\ mishaps \in 0..MaxMishaps
    BY ZaloPersonalAssumption DEF Init
  <2> QED BY <2>1 DEF Init, RestOK
<1> QED BY <1>1, <1>2, <1>3, <1>4 DEF TypeOK

\* The state is well typed, and a login always has cookies to send: the
\* connection service never logs in from an empty row.
THEOREM SessionsTypeCorrect == Spec => []TypeOK
<1>1. Init => TypeOK /\ Scanned
  BY TypeInit
<1>2. TypeOK /\ Scanned /\ [Next]_vars => TypeOK' /\ Scanned'
  BY TypeStep
<1> QED BY <1>1, <1>2, PTL DEF Spec

-----------------------------------------------------------------------------
(* A channel that looks connected is looked after. *)

\* A cleared timer that looks like one that runs belongs to an entry on its way out.
SpentLeaves == spent => registry \in leaving

\* A registered session whose listener is dead is revived or taken out.
Revived ==
  registry # NoEntry /\ listener[registry] = "down" =>
    \/ registry \in timer \cup leaving
    \/ \E t \in Tries : at[t] \in {"look", "load", "login"}

\* A re-login that will mark the row if it does not register a session.
Answers(t) == at[t] = "mark" \/ (at[t] \in {"load", "login"} /\ of[t] = NoEntry)

\* A channel that looks connected has a session nobody takes out, unless one is
\* about to be registered.
Kept ==
  LooksConnected /\ ~orphaned /\ scan # "written" =>
    /\ registry \notin leaving
    /\ registry = NoEntry => \E t \in Tries : Answers(t)

\* The event of a deletion follows it.
DeletedIsGone == "deleted" \in telling => channel = "deleted"

LookedAfter == SpentLeaves /\ Revived /\ Kept /\ DeletedIsGone

\* Every step keeps SpentLeaves.
LEMMA SpentStep == TypeOK /\ SpentLeaves /\ [Next]_vars => SpentLeaves'
<1> SUFFICES ASSUME TypeOK, SpentLeaves, [Next]_vars, spent'
             PROVE  registry' \in leaving'
  BY DEF SpentLeaves
<1> USE DEF TypeOK, SessionsOK
<1>1. CASE \/ TellUpdated \/ TellDeleted
           \/ \E e \in Entries : CheckUpdate(e) \/ Leave(e)
  <2>1. CASE TellUpdated
    BY <2>1 DEF TellUpdated, sessions, SpentLeaves
  <2>2. CASE TellDeleted
    BY <2>2 DEF TellDeleted, Stop, SpentLeaves
  <2>3. ASSUME NEW e \in Entries, CheckUpdate(e)
        PROVE  registry' \in leaving'
    BY <2>3 DEF CheckUpdate, Stop, SpentLeaves
  <2>4. ASSUME NEW e \in Entries, Leave(e)
        PROVE  FALSE
    BY <2>4 DEF Leave, Drop
  <2> QED BY <1>1, <2>1, <2>2, <2>3, <2>4
<1>2. CASE \E t \in Tries : Look(t) \/ Mark(t) \/ MarkFails(t)
  BY <1>2 DEF Look, Mark, MarkFails, Drop, handlers, sessions, SpentLeaves
<1>3. ASSUME NEW t \in Tries, Load(t) \/ Refused(t) \/ Unreachable(t)
      PROVE  registry' \in leaving'
  <2>1. UNCHANGED leaving /\ (UNCHANGED <<registry, spent>> \/ LoginFailed(t))
    BY <1>3 DEF Load, Refused, Unreachable, handlers
  <2>2. LoginFailed(t) => UNCHANGED <<registry, spent>> \/ ~spent'
    BY DEF LoginFailed, Drop
  <2> QED BY <2>1, <2>2 DEF SpentLeaves
<1>4. CASE RegisterScan \/ Restart \/ \E t \in Tries : Login(t)
  BY <1>4 DEF RegisterScan, Restart, Login, Register
<1>5. CASE \E e \in Entries : Connected(e) \/ Closed(e) \/ Drops(e) \/ Fire(e)
  BY <1>5 DEF Connected, Closed, Drops, Fire, handlers, SpentLeaves
<1>6. CASE \/ LateUpdate \/ LogOut \/ Connect \/ Reauthorize \/ WriteScan \/ Disconnect \/ Delete
           \/ UNCHANGED vars
  <2>1. UNCHANGED <<registry, spent, leaving>>
    BY <1>6 DEF LateUpdate, LogOut, Connect, Reauthorize, WriteScan, Disconnect, Delete, vars, sessions,
       handlers
  <2> QED BY <2>1 DEF SpentLeaves
<1> QED BY <1>1, <1>2, <1>3, <1>4, <1>5, <1>6 DEF Next

\* Every step keeps Revived.
LEMMA RevivedStep == TypeOK /\ SpentLeaves /\ Revived /\ [Next]_vars => Revived'
<1> SUFFICES ASSUME TypeOK, SpentLeaves, Revived, [Next]_vars
             PROVE  Revived'
  OBVIOUS
<1> USE DEF TypeOK, SpentLeaves
<1>1. ASSUME NEW e \in Entries, Connected(e)
      PROVE  Revived'
  BY <1>1 DEF Connected, Revived, SessionsOK, tries, handlers
<1>2. ASSUME NEW e \in Entries, Closed(e) \/ Drops(e)
      PROVE  Revived'
  <2>1. registry # NoEntry => registry \in timer' \/ spent
    BY <1>2, ScheduleType DEF Closed, Drops
  <2> QED BY <1>2, <2>1 DEF Closed, Drops, handlers, Revived
<1>3. ASSUME NEW e \in Entries, Fire(e)
      PROVE  Revived'
  <2>1. CASE registry = NoEntry
    BY <1>3, <2>1 DEF Fire, Revived
  <2>2. CASE registry # NoEntry
    <3>1. PICK t \in Tries : Goto(t, "look")
      BY <1>3, <2>2 DEF Fire
    <3>2. at'[t] = "look"
      BY <3>1 DEF Goto, TriesOK
    <3> QED BY <3>2 DEF Revived
  <2> QED BY <2>1, <2>2
<1>4. ASSUME NEW e \in Entries, CheckUpdate(e)
      PROVE  Revived'
  <2>1. CASE channel = "there" /\ ~connected
    <3>1. UNCHANGED <<registry, tries>> /\ Stop(e)
      BY <1>4, <2>1 DEF CheckUpdate
    <3>2. registry # e => listener'[registry] = listener[registry] \/ registry = NoEntry
      BY <3>1 DEF Stop, SessionsOK
    <3> QED BY <3>1, <3>2 DEF Stop, tries, Revived
  <2>2. CASE ~(channel = "there" /\ ~connected)
    BY <1>4, <2>2 DEF CheckUpdate, Revived, tries
  <2> QED BY <2>1, <2>2
<1>5. ASSUME NEW e \in Entries, Leave(e)
      PROVE  Revived'
  BY <1>5 DEF Leave, Drop, Revived
<1>6. ASSUME NEW t \in Tries, Look(t)
      PROVE  Revived'
  <2>1. CASE MayReconnect
    <3>1. at'[t] = "load"
      BY <1>6, <2>1 DEF Look, Goto, TriesOK
    <3> QED BY <3>1 DEF Revived
  <2>2. CASE ~MayReconnect
    BY <1>6, <2>2 DEF Look, Drop, Revived
  <2> QED BY <2>1, <2>2
<1>7. ASSUME NEW t \in Tries, Load(t)
      PROVE  Revived'
  <2>1. CASE channel = "there"
    <3>1. at'[t] = "login"
      BY <1>7, <2>1 DEF Load, Goto, TriesOK
    <3> QED BY <3>1 DEF Revived
  <2>2. CASE channel # "there"
    <3>1. LoginFailed(t) /\ UNCHANGED <<listener, late, cookie, handlers>>
      BY <1>7, <2>2 DEF Load, row
    <3> QED BY <3>1, LoginFailedType DEF handlers, Revived
  <2> QED BY <2>1, <2>2
<1>8. ASSUME NEW t \in Tries, Login(t)
      PROVE  Revived'
  <2>1. PICK e \in Entries : Register(e)
    BY <1>8 DEF Login
  <2>2. listener'[registry'] = "starting"
    BY <2>1, RegisterType
  <2> QED BY <2>2 DEF Revived
<1>9. ASSUME NEW t \in Tries, Refused(t) \/ Unreachable(t)
      PROVE  Revived'
  <2>1. LoginFailed(t) /\ UNCHANGED <<listener, late, cookie, handlers>>
    BY <1>9 DEF Refused, Unreachable, row
  <2> QED BY <2>1, LoginFailedType DEF handlers, Revived
<1>10. ASSUME NEW t \in Tries, Mark(t) \/ MarkFails(t)
       PROVE  Revived'
  <2>1. \A u \in Tries : at[u] # "mark" => at'[u] = at[u]
    BY <1>10 DEF Mark, MarkFails, EndTry, Goto, TriesOK
  <2> QED BY <1>10, <2>1 DEF Mark, MarkFails, sessions, handlers, Revived
<1>11. CASE LateUpdate \/ LogOut \/ Connect \/ Reauthorize \/ WriteScan
  BY <1>11 DEF LateUpdate, LogOut, Connect, Reauthorize, WriteScan, sessions, tries, handlers, Revived
<1>12. CASE Restart
  BY <1>12 DEF Restart, Revived
<1>13. CASE RegisterScan
  <2>1. PICK e \in Entries : Register(e)
    BY <1>13 DEF RegisterScan
  <2>2. listener'[registry'] = "starting"
    BY <2>1, RegisterType
  <2> QED BY <2>2 DEF Revived
<1>14. CASE Disconnect \/ Delete \/ TellUpdated
  BY <1>14 DEF Disconnect, Delete, TellUpdated, sessions, tries, Revived
<1>15. CASE TellDeleted
  <2>1. UNCHANGED <<registry, tries>>
    BY <1>15 DEF TellDeleted
  <2>2. CASE registry # NoEntry
    BY <1>15, <2>1, <2>2 DEF TellDeleted, Stop, Revived
  <2> QED BY <2>1, <2>2 DEF Revived
<1>16. CASE UNCHANGED vars
  BY <1>16 DEF vars, sessions, tries, handlers, Revived
<1> QED
  BY <1>1, <1>2, <1>3, <1>4, <1>5, <1>6, <1>7, <1>8, <1>9, <1>10, <1>11, <1>12, <1>13, <1>14,
     <1>15, <1>16 DEF Next

\* What makes a channel look connected, and a scan registered.
LEMMA BeforeKept ==
  ASSUME orphaned \in BOOLEAN, [Next]_vars, LooksConnected', ~orphaned', scan' # "written"
  PROVE  \/ RegisterScan \/ Restart \/ LateUpdate \/ \E t \in Tries : Login(t)
         \/ LooksConnected /\ ~orphaned /\ scan # "written"
<1> DEFINE Still == UNCHANGED <<channel, connected, scan>> /\ (orphaned => orphaned')
<1>1. ASSUME NEW e \in Entries,
             Connected(e) \/ Closed(e) \/ Drops(e) \/ Fire(e) \/ CheckUpdate(e) \/ Leave(e)
      PROVE  Still
  BY <1>1 DEF Connected, Closed, Drops, Fire, CheckUpdate, Leave, row, history
<1>2. ASSUME NEW t \in Tries,
             Look(t) \/ Load(t) \/ Refused(t) \/ Unreachable(t) \/ MarkFails(t)
      PROVE  Still
  BY <1>2 DEF Look, Load, Refused, Unreachable, MarkFails, row
<1>3. CASE LogOut \/ TellUpdated \/ TellDeleted \/ UNCHANGED vars
  <2>1. Still
    BY <1>3 DEF LogOut, TellUpdated, TellDeleted, vars, row, history
  <2> QED BY <2>1 DEF LooksConnected
<1>4. CASE Reauthorize
  BY <1>4 DEF Reauthorize, row, history, LooksConnected
<1>5. CASE Connect \/ WriteScan \/ Disconnect \/ Delete \/ \E t \in Tries : Mark(t)
  BY <1>5 DEF Connect, WriteScan, Disconnect, Delete, Mark, LooksConnected
<1> QED BY <1>1, <1>2, <1>3, <1>4, <1>5 DEF Next, LooksConnected

\* Every step keeps Kept.
LEMMA KeptStep == TypeOK /\ DeletedIsGone /\ Kept /\ [Next]_vars => Kept'
<1> SUFFICES ASSUME TypeOK, DeletedIsGone, Kept, [Next]_vars,
                    LooksConnected', ~orphaned', scan' # "written"
             PROVE  /\ registry' \notin leaving'
                    /\ registry' = NoEntry => \E t \in Tries : Answers(t)'
  BY DEF Kept
<1> DEFINE Goal == /\ registry' \notin leaving'
                   /\ registry' = NoEntry => \E t \in Tries : Answers(t)'
<1> USE DEF TypeOK
<1>0. NoEntry \notin Entries
  BY ZaloPersonalAssumption DEF NoEntry
<1>1. CASE RegisterScan \/ \E t \in Tries : Login(t)
  <2>1. PICK e \in Entries : Register(e)
    BY <1>1 DEF RegisterScan, Login
  <2>2. UNCHANGED leaving
    BY <1>1 DEF RegisterScan, Login, handlers
  <2> QED BY <1>0, <2>1, <2>2, RegisterType
<1>2. CASE Restart
  <2>1. registry' = NoEntry /\ leaving' = {} /\ LooksConnected /\ of' = [t \in Tries |-> NoEntry]
    BY <1>2 DEF Restart, LooksConnected, row
  <2>2. PICK t \in Tries : at' = [u \in Tries |-> IF u = t THEN "load" ELSE "idle"]
    BY <1>2, <2>1 DEF Restart, LooksConnected
  <2> QED BY <2>1, <2>2 DEF Answers
<1>3. CASE LateUpdate
  BY <1>3 DEF LateUpdate, handlers
<1>4. CASE LooksConnected /\ ~orphaned /\ scan # "written"
  <2>0. registry \notin leaving /\ (registry = NoEntry => \E t \in Tries : Answers(t))
    BY <1>4 DEF Kept
  <2>1. ASSUME NEW e \in Entries, Connected(e) \/ Closed(e) \/ Drops(e) PROVE Goal
    BY <2>0, <2>1 DEF Connected, Closed, Drops, tries, handlers, Answers
  <2>2. ASSUME NEW e \in Entries, Fire(e) PROVE Goal
    BY <2>0, <2>2 DEF Fire, handlers, tries, Answers
  <2>3. ASSUME NEW e \in Entries, CheckUpdate(e) PROVE Goal
    BY <1>4, <2>0, <2>3 DEF CheckUpdate, LooksConnected, tries, Answers
  <2>4. ASSUME NEW e \in Entries, Leave(e) PROVE Goal
    <3>1. registry' = NoEntry /\ registry = NoEntry /\ leaving' \subseteq Entries /\ UNCHANGED tries
      BY <2>0, <2>4 DEF Leave, Drop, RestOK
    <3> QED BY <1>0, <2>0, <3>1 DEF tries, Answers
  <2>5. ASSUME NEW t \in Tries, Look(t) PROVE Goal
    <3>1. /\ at' = [at EXCEPT ![t] = "load"] /\ UNCHANGED <<registry, of, leaving>>
          /\ at[t] = "look"
      BY <1>4, <2>5 DEF Look, MayReconnect, LooksConnected, Goto, handlers
    <3> QED BY <2>0, <3>1 DEF Answers, TriesOK
  <2>6. ASSUME NEW t \in Tries, Load(t) PROVE Goal
    <3>1. /\ at' = [at EXCEPT ![t] = "login"] /\ UNCHANGED <<registry, of, leaving>>
          /\ at[t] = "load"
      BY <1>4, <2>6 DEF Load, LooksConnected, Goto, handlers
    <3> QED BY <2>0, <3>1 DEF Answers, TriesOK
  <2>7. ASSUME NEW t \in Tries, Refused(t) \/ Unreachable(t) PROVE Goal
    <3>1. LoginFailed(t) /\ UNCHANGED leaving /\ at[t] = "login"
      BY <2>7 DEF Refused, Unreachable, handlers
    <3>2. CASE of[t] = NoEntry \/ backoff[of[t]] = 0 \/ backoff[of[t]] >= MaxBackoff
      <4>1. at' = [at EXCEPT ![t] = "mark"] /\ registry' = NoEntry
        BY <3>1, <3>2 DEF LoginFailed, Drop, Goto
      <4> QED BY <1>0, <3>1, <4>1 DEF Answers, TriesOK, RestOK
    <3>3. CASE ~(of[t] = NoEntry \/ backoff[of[t]] = 0 \/ backoff[of[t]] >= MaxBackoff)
      <4>1. /\ at' = [at EXCEPT ![t] = "idle"] /\ of' = [of EXCEPT ![t] = NoEntry]
            /\ UNCHANGED registry /\ of[t] # NoEntry
        BY <3>1, <3>3 DEF LoginFailed, EndTry, Goto
      <4> QED BY <2>0, <3>1, <4>1 DEF Answers, TriesOK
    <3> QED BY <3>2, <3>3
  <2>8. ASSUME NEW t \in Tries, Mark(t) \/ MarkFails(t) PROVE Goal
    <3>1. MarkFails(t)
      BY <2>8 DEF Mark, LooksConnected
    <3> QED BY <2>0, <3>1 DEF MarkFails, sessions, handlers
  <2>9. CASE LateUpdate \/ LogOut \/ Connect \/ Reauthorize \/ WriteScan \/ Disconnect \/ Delete
    BY <2>0, <2>9 DEF LateUpdate, LogOut, Connect, Reauthorize, WriteScan, Disconnect, Delete,
       LooksConnected, sessions, tries, handlers, Answers
  <2>10. CASE TellUpdated
    BY <2>0, <2>10 DEF TellUpdated, sessions, tries, Answers
  <2>11. CASE TellDeleted
    BY <1>4, <2>11 DEF TellDeleted, Emit, DeletedIsGone, LooksConnected
  <2>12. CASE UNCHANGED vars
    BY <2>0, <2>12 DEF vars, sessions, tries, handlers, Answers
  <2> QED
    BY <2>1, <2>2, <2>3, <2>4, <2>5, <2>6, <2>7, <2>8, <2>9, <2>10, <2>11, <2>12, <1>1, <1>2 DEF Next
<1> QED BY <1>1, <1>2, <1>3, <1>4, BeforeKept DEF RestOK

\* A channel that looks connected is looked after.
LEMMA LookedAfterStep == TypeOK /\ LookedAfter /\ [Next]_vars => LookedAfter'
<1> SUFFICES ASSUME TypeOK, LookedAfter, [Next]_vars
             PROVE  DeletedIsGone'
  BY SpentStep, RevivedStep, KeptStep DEF LookedAfter
<1>1. CASE Delete \/ Restart
  BY <1>1 DEF Delete, Restart, DeletedIsGone
<1>2. CASE ~(Delete \/ Restart)
  <2>1. (telling' \subseteq telling \/ Disconnect) /\ (channel' = channel \/ channel = "absent")
    <3>1. ASSUME NEW e \in Entries,
                 Connected(e) \/ Closed(e) \/ Drops(e) \/ Fire(e) \/ CheckUpdate(e) \/ Leave(e)
          PROVE  UNCHANGED <<telling, channel>>
      BY <3>1 DEF Connected, Closed, Drops, Fire, CheckUpdate, Leave, row, handlers
    <3>2. ASSUME NEW t \in Tries, \/ Look(t) \/ Load(t) \/ Login(t) \/ Refused(t) \/ Unreachable(t)
                                  \/ Mark(t) \/ MarkFails(t)
          PROVE  UNCHANGED <<telling, channel>>
      BY <3>2 DEF Look, Load, Login, Refused, Unreachable, Mark, MarkFails, row, handlers
    <3>3. CASE \/ LateUpdate \/ LogOut \/ Connect \/ Reauthorize \/ WriteScan \/ RegisterScan
               \/ UNCHANGED vars
      BY <3>3 DEF LateUpdate, LogOut, Connect, Reauthorize, WriteScan, RegisterScan, vars, row, handlers
    <3>4. CASE Disconnect \/ TellUpdated \/ TellDeleted
      BY <3>4 DEF Disconnect, TellUpdated, TellDeleted, Emit, row
    <3> QED BY <1>2, <3>1, <3>2, <3>3, <3>4 DEF Next
  <2>2. Disconnect => channel' = channel /\ telling' = telling \cup {"updated"}
    BY DEF Disconnect
  <2> QED BY <2>1, <2>2 DEF LookedAfter, DeletedIsGone
<1> QED BY <1>1, <1>2

\* However timers, logins, scans and handlers cross, a channel that looks
\* connected has a session that listens, ends or is revived, or one is being
\* opened, unless a handler took out a session it had not stopped, the update of
\* a registration came after its stop, or the row could not be marked.
THEOREM SessionsAreSupervised == Spec => []Supervised
<1>1. Init => LookedAfter
  BY DEF Init, LookedAfter, SpentLeaves, Revived, Kept, DeletedIsGone, LooksConnected
<1>2. TypeOK /\ LookedAfter /\ [Next]_vars => LookedAfter'
  BY LookedAfterStep
<1>3. TypeOK /\ LookedAfter => Supervised
  <2> SUFFICES ASSUME TypeOK, LookedAfter, LooksConnected, ~orphaned, scan = "idle",
                      \A t \in Tries : at[t] = "idle"
               PROVE  registry # NoEntry /\ (registry \in timer \/ listener[registry] # "down")
    BY DEF Supervised
  <2>1. registry \notin leaving /\ registry # NoEntry
    BY DEF LookedAfter, Kept, Answers
  <2>2. listener[registry] = "down" => registry \in timer
    BY <2>1 DEF LookedAfter, Revived
  <2> QED BY <2>1, <2>2
<1> QED BY <1>1, <1>2, <1>3, SessionsTypeCorrect, PTL DEF Spec

-----------------------------------------------------------------------------
(* A channel that is off stays off. *)

\* An event that will reach the handler that stops the session in the registry.
Pending == "deleted" \in telling \/ (channel = "there" /\ "updated" \in telling)

\* While nothing overtakes the owner who left, no session is on its way, and
\* what still lives has a handler that stops it or an event that starts one.
Quiet ==
  /\ ~connected /\ ~late /\ scan \in {"idle", "read"}
  /\ \A t \in Tries : at[t] \notin {"load", "login"}
  /\ registry # NoEntry =>
       registry \in leaving \/ (channel = "there" /\ registry \in checking) \/ Pending
  /\ \A e \in Entries : listener[e] \in Live =>
       (channel = "there" /\ e \in checking) \/ (e = registry /\ Pending)
QuietWhenOff == owner = "off" /\ ~overtaken => Quiet

\* Stopping an entry leaves the others as they are.
LEMMA StopQuiet ==
  ASSUME SessionsOK, NEW e \in Entries, Stop(e)
  PROVE  /\ listener'[e] \notin Live /\ leaving' = leaving \cup {e}
         /\ \A x \in Entries : listener'[x] \in Live => x # e /\ listener[x] \in Live
<1>1. Stopped(e) \notin Live
  BY DEF Stopped, Live
<1> QED BY <1>1 DEF Stop, SessionsOK

\* It holds when the owner leaves, and until the owner comes back.
LEMMA QuietStep == TypeOK /\ QuietWhenOff /\ [Next]_vars => QuietWhenOff'
<1> SUFFICES ASSUME TypeOK, QuietWhenOff, [Next]_vars, owner' = "off", ~overtaken'
             PROVE  Quiet'
  BY DEF QuietWhenOff
<1> USE DEF TypeOK
<1>1. CASE Disconnect \/ Delete
  <2>1. ~Opening
    BY <1>1 DEF Disconnect, Delete
  <2>2. /\ ~connected' /\ ~late' /\ scan' = "idle"
        /\ \A t \in Tries : at'[t] \notin {"load", "login"}
    <3>1. /\ ~connected' /\ UNCHANGED <<late, scan, at>>
      BY <1>1 DEF Disconnect, Delete, sessions, tries
    <3>2. ~late /\ scan = "idle" /\ \A t \in Tries : at[t] \notin {"load", "login"}
      BY <2>1 DEF Opening
    <3> QED BY <3>1, <3>2
  <2>4. Pending'
    BY <1>1 DEF Disconnect, Delete, Pending
  <2>3. \A e \in Entries : listener'[e] \in Live => e = registry'
    BY <1>1, <2>1 DEF Disconnect, Delete, Opening, sessions
  <2> QED BY <2>2, <2>3, <2>4 DEF Quiet
<1>2. CASE Connect \/ WriteScan
  <2>1. WriteScan /\ channel # "there" /\ scan' = "idle"
    BY <1>2 DEF Connect, WriteScan
  <2>2. /\ UNCHANGED <<channel, connected, owner, overtaken, sessions, tries, handlers>>
    BY <2>1 DEF WriteScan, history
  <2> QED BY <2>1, <2>2 DEF QuietWhenOff, Quiet, Pending, sessions, tries, handlers
<1>3. CASE ~(Disconnect \/ Delete \/ Connect \/ WriteScan)
  <2>0. UNCHANGED owner /\ (overtaken => overtaken')
    <3>0. Drop => (overtaken => overtaken')
      BY DEF Drop
    <3>1. ASSUME NEW t \in Tries, LoginFailed(t), UNCHANGED owner
          PROVE  overtaken => overtaken'
      BY <3>0, <3>1 DEF LoginFailed
    <3>2. CASE \/ LateUpdate \/ LogOut \/ Restart \/ Reauthorize \/ RegisterScan \/ TellUpdated
               \/ TellDeleted \/ UNCHANGED vars
      BY <3>2 DEF LateUpdate, LogOut, Restart, Reauthorize, RegisterScan, Register, TellUpdated,
         TellDeleted, history, vars
    <3>3. CASE \E e \in Entries : \/ Connected(e) \/ Closed(e) \/ Drops(e) \/ Fire(e)
                                  \/ CheckUpdate(e) \/ Leave(e)
      BY <3>3, <3>0 DEF Connected, Closed, Drops, Fire, CheckUpdate, Leave, history
    <3>4. ASSUME NEW t \in Tries, Look(t) \/ Login(t) \/ Mark(t) \/ MarkFails(t)
          PROVE  UNCHANGED owner /\ (overtaken => overtaken')
      BY <3>4, <3>0 DEF Look, Login, Register, Mark, MarkFails, history
    <3>5. ASSUME NEW t \in Tries, Load(t) \/ Refused(t) \/ Unreachable(t)
          PROVE  UNCHANGED owner /\ (overtaken => overtaken')
      BY <3>5, <3>1 DEF Load, Refused, Unreachable
    <3> QED BY <1>3, <3>2, <3>3, <3>4, <3>5 DEF Next
  <2>1. Quiet
    BY <2>0 DEF QuietWhenOff
  <2>2. ASSUME NEW e \in Entries, Connected(e)
        PROVE  Quiet'
    BY <2>1, <2>2 DEF Connected, Quiet, Pending, SessionsOK, Live, row, tries, handlers
  <2>3. ASSUME NEW e \in Entries, Closed(e) \/ Drops(e)
        PROVE  Quiet'
    BY <2>1, <2>3 DEF Closed, Drops, Quiet, Pending, SessionsOK, Live, row, tries, handlers
  <2>4. ASSUME NEW e \in Entries, Fire(e)
        PROVE  Quiet'
    BY <2>1, <2>4 DEF Fire, Goto, Quiet, Pending, TriesOK, row, tries, handlers
  <2>5. ASSUME NEW e \in Entries, CheckUpdate(e)
        PROVE  Quiet'
    <3>0. /\ ~connected' /\ ~late' /\ scan' \in {"idle", "read"}
          /\ \A t \in Tries : at'[t] \notin {"load", "login"}
      BY <2>1, <2>5 DEF CheckUpdate, Quiet, row, tries
    <3>1. CASE channel = "there"
      <4>1. Stop(e) /\ checking' = checking \ {e} /\ UNCHANGED <<channel, registry, telling>>
        BY <2>1, <2>5, <3>1 DEF CheckUpdate, Quiet, row
      <4>2. /\ leaving' = leaving \cup {e}
            /\ \A x \in Entries : listener'[x] \in Live => x # e /\ listener[x] \in Live
        BY <4>1, StopQuiet
      <4>3. Pending' = Pending
        BY <4>1 DEF Pending
      <4>4. registry' # NoEntry =>
              registry' \in leaving' \/ (channel' = "there" /\ registry' \in checking') \/ Pending'
        BY <2>1, <4>1, <4>2, <4>3 DEF Quiet
      <4>5. \A x \in Entries : listener'[x] \in Live =>
              (channel' = "there" /\ x \in checking') \/ (x = registry' /\ Pending')
        BY <2>1, <4>1, <4>2, <4>3 DEF Quiet
      <4> QED BY <3>0, <4>4, <4>5 DEF Quiet
    <3>2. CASE channel # "there"
      <4>1. UNCHANGED <<channel, registry, listener, leaving, telling>>
        BY <2>5, <3>2 DEF CheckUpdate, row
      <4> QED BY <2>1, <3>0, <3>2, <4>1 DEF Quiet, Pending
    <3> QED BY <3>1, <3>2
  <2>6. ASSUME NEW e \in Entries, Leave(e)
        PROVE  Quiet'
    <3>1. /\ registry' = NoEntry /\ UNCHANGED <<channel, connected, late, scan, at, listener, checking>>
          /\ \A x \in Entries : x = registry /\ listener[x] \in Live => channel = "there" /\ x \in checking
      BY <2>6 DEF Leave, Drop, row, tries
    <3> QED BY <2>1, <3>1 DEF Quiet
  <2>7. ASSUME NEW t \in Tries, Look(t)
        PROVE  Quiet'
    <3>1. /\ registry' = NoEntry /\ UNCHANGED <<channel, connected, late, scan, listener, checking>>
          /\ \A x \in Entries : x = registry /\ listener[x] \in Live => channel = "there" /\ x \in checking
      BY <2>1, <2>7 DEF Look, MayReconnect, Drop, Quiet, row, handlers
    <3>2. \A u \in Tries : at'[u] \notin {"load", "login"}
      BY <2>1, <2>7 DEF Look, MayReconnect, EndTry, Goto, Quiet, TriesOK
    <3> QED BY <2>1, <3>1, <3>2 DEF Quiet
  <2>8. ASSUME NEW t \in Tries, Load(t) \/ Login(t) \/ Refused(t) \/ Unreachable(t)
        PROVE  FALSE
    BY <2>1, <2>8 DEF Load, Login, Refused, Unreachable, Quiet
  <2>9. ASSUME NEW t \in Tries, Mark(t) \/ MarkFails(t)
        PROVE  Quiet'
    <3>1. UNCHANGED <<channel, sessions, scan, handlers>> /\ ~connected'
      <4>1. CASE Mark(t)
        BY <2>1, <4>1 DEF Mark, Quiet
      <4>2. CASE MarkFails(t)
        BY <2>1, <4>2 DEF MarkFails, Quiet, row
      <4> QED BY <2>9, <4>1, <4>2
    <3>2. \A u \in Tries : at'[u] \in {at[u], "idle"}
      BY <2>9 DEF Mark, MarkFails, EndTry, Goto, TriesOK
    <3> QED BY <2>1, <3>1, <3>2 DEF Quiet, Pending, sessions, handlers
  <2>10. CASE LateUpdate \/ RegisterScan
    BY <2>1, <2>10 DEF LateUpdate, RegisterScan, Quiet
  <2>11. CASE LogOut \/ Reauthorize
    BY <2>1, <2>11 DEF LogOut, Reauthorize, Quiet, Pending, row, sessions, tries, handlers
  <2>12. CASE Restart
    BY <2>1, <2>12 DEF Restart, Quiet, Live, row
  <2>13. CASE UNCHANGED vars
    BY <2>1, <2>13 DEF vars, Quiet, Pending, row, sessions, tries, handlers
  <2>14. CASE TellUpdated
    <3>1. /\ UNCHANGED <<channel, connected, late, scan, at, listener, leaving, registry>>
          /\ checking' = checking \cup ({registry} \ {NoEntry})
          /\ "deleted" \in telling => "deleted" \in telling'
      BY <2>14 DEF TellUpdated, Emit, row, sessions, tries
    <3>2. \A x \in Entries : x # NoEntry
      BY ZaloPersonalAssumption DEF NoEntry
    <3>3. CASE channel = "there"
      BY <2>1, <3>1, <3>2, <3>3 DEF Quiet
    <3>4. CASE channel # "there"
      BY <2>1, <3>1, <3>4 DEF Quiet, Pending
    <3> QED BY <3>3, <3>4
  <2>15. CASE TellDeleted
    <3>1. UNCHANGED <<channel, connected, late, scan, at, registry, checking>>
      BY <2>15 DEF TellDeleted, row, tries
    <3>2. \A x \in Entries : x # NoEntry
      BY ZaloPersonalAssumption DEF NoEntry
    <3>3. CASE registry = NoEntry
      BY <2>1, <2>15, <3>1, <3>2, <3>3 DEF TellDeleted, Quiet
    <3>4. CASE registry # NoEntry
      <4>1. Stop(registry) /\ registry \in Entries
        BY <2>15, <3>4 DEF TellDeleted, SessionsOK
      <4> QED BY <2>1, <3>1, <4>1, StopQuiet DEF Quiet
    <3> QED BY <3>3, <3>4
  <2> QED
    BY <1>3, <2>2, <2>3, <2>4, <2>5, <2>6, <2>7, <2>8, <2>9, <2>10, <2>11, <2>12, <2>13, <2>14,
       <2>15 DEF Next
<1> QED BY <1>1, <1>2, <1>3

\* Once its handlers are done, a channel the owner disconnected or deleted
\* stays so and nothing listens for it, unless a session was on its way or ran
\* unregistered when the owner left, or was dropped alive by somebody else.
THEOREM DisconnectedStaysSo == Spec => []OffStaysOff
<1>1. Init => QuietWhenOff
  BY DEF Init, QuietWhenOff, Quiet, Live
<1>2. TypeOK /\ QuietWhenOff /\ [Next]_vars => QuietWhenOff'
  BY QuietStep
<1>3. QuietWhenOff => OffStaysOff
  BY DEF QuietWhenOff, Quiet, Pending, OffStaysOff
<1> QED BY <1>1, <1>2, <1>3, SessionsTypeCorrect, PTL DEF Spec
=============================================================================
