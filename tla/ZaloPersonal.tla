----------------------------- MODULE ZaloPersonal -----------------------------
(***************************************************************************)
(* The live session of one personal Zalo channel.  There is no webhook: a  *)
(* zca-js listener runs inside the server, and                             *)
(* ZaloPersonalConnectionService keeps it alive.  It registers a listener  *)
(* when the owner scans a QR code or a login with the stored cookies       *)
(* succeeds, logs in again, later and later, when the listener             *)
(* disconnects, gives up and asks for a new scan when the logins keep      *)
(* failing, and stops when the owner disconnects or deletes the channel.   *)
(*                                                                         *)
(* An entry is one registered session: the object in `connections`, its    *)
(* api and its listener.  Handlers hold entries across their awaits; ids   *)
(* are used again only when nothing holds them.  Zalo is external: it      *)
(* takes the cookies in `alive`, and serves one listener per account: the  *)
(* newest one is connected and the others are kicked.                      *)
(***************************************************************************)
EXTENDS Naturals

CONSTANTS Entries,    \* positive numbers
          Tries,      \* re-logins that may run at the same time, numbered too
          MaxBackoff, \* the length of ZALO_PERSONAL_RECONNECT_BACKOFF_MS
          MaxActs,    \* how often the owner scans, disconnects or deletes
          MaxMishaps  \* how many faults happen

ASSUME ZaloPersonalAssumption ==
  /\ Entries \subseteq Nat \ {0} /\ Tries \subseteq Nat
  /\ MaxBackoff \in Nat /\ MaxActs \in Nat /\ MaxMishaps \in Nat

NoEntry == 0

VARIABLES
  channel,   \* the row: "absent", "there" or "deleted"
  connected, \* the row's isConnected
  flagged,   \* the row's settings.reauthorizationRequired
  cookie,    \* the cookies in the row, numbered in the order they were scanned
  alive,     \* the cookies Zalo takes
  registry,  \* connections.get(channelId)
  listener,  \* listener[e]: the state of the listener of entry e
  backoff,   \* backoff[e]: backoffIndex
  timer,     \* the entries with a reconnectTimer that runs
  spent,     \* the registered entry's reconnectTimer was cleared, but is still set
  late,      \* an isConnected update is under way; two at once count as one
  at,        \* at[t]: where re-login t is
  of,        \* of[t]: the entry attemptReconnect found, NoEntry for a restore
  using,     \* using[t]: the cookies it read
  scan,      \* where the owner's connect or reauthorize request is
  telling,   \* the events inboxes.service.ts has still to emit, of "updated" and "deleted"
  checking,  \* the entries of handleChannelUpdated calls that read the row
  leaving,   \* the entries of handlers that stopped and will delete the key
  owner,     \* history: the last the owner asked for, "on" or "off"
  overtaken, \* history: a session was being opened, or ran unregistered, when the owner
             \* left, or was dropped before a handler saw it
  orphaned,  \* history: since the last registration a handler took out a session it had
             \* not stopped, an update came too late, or the row could not be marked
  acts, mishaps

row      == <<channel, connected, flagged, cookie>>
sessions == <<registry, listener, backoff, timer, spent, late>>
tries    == <<at, of, using>>
handlers == <<telling, checking, leaving>>
history  == <<owner, overtaken, orphaned>>
bounds   == <<acts, mishaps>>
vars == <<row, alive, sessions, tries, scan, handlers, history, bounds>>

Live == {"starting", "up"}
States == Live \cup {"kicked", "stopping", "down"}

Mishap == mishaps < MaxMishaps /\ mishaps' = mishaps + 1 /\ UNCHANGED acts
Act == acts < MaxActs /\ acts' = acts + 1 /\ UNCHANGED mishaps

Goto(t, label) == at' = [at EXCEPT ![t] = label]

Idle(t) == at[t] = "idle" /\ \A u \in Tries : at[u] = "idle" => t <= u
EndTry(t) ==
  /\ Goto(t, "idle")
  /\ of' = [of EXCEPT ![t] = NoEntry]
  /\ using' = [using EXCEPT ![t] = 0]

\* The server takes requests after it has restored its connections.
Restoring == \E t \in Tries : at[t] # "idle" /\ of[t] = NoEntry

Init ==
  /\ channel = "absent" /\ connected = FALSE /\ flagged = FALSE /\ cookie = 0 /\ alive = {}
  /\ registry = NoEntry
  /\ listener = [e \in Entries |-> "down"]
  /\ backoff = [e \in Entries |-> 0]
  /\ timer = {} /\ spent = FALSE /\ late = FALSE
  /\ at = [t \in Tries |-> "idle"]
  /\ of = [t \in Tries |-> NoEntry]
  /\ using = [t \in Tries |-> 0]
  /\ scan = "idle" /\ telling = {} /\ checking = {} /\ leaving = {}
  /\ owner = "off" /\ overtaken = FALSE /\ orphaned = FALSE /\ acts = 0 /\ mishaps = 0

-----------------------------------------------------------------------------
(* The registry of sessions. *)

\* An id that nothing refers to; Fresh is the least one.
Unused(e) ==
  /\ e # registry /\ listener[e] = "down" /\ e \notin timer \cup checking \cup leaving
  /\ \A t \in Tries : of[t] # e
Fresh(e) == Unused(e) /\ \A x \in Entries : Unused(x) => e <= x

\* registerConnection: the new session replaces the old one, whose timer is
\* cleared and whose listener is left as it is.
Register(e) ==
  /\ Fresh(e)
  /\ registry' = e
  /\ listener' = [listener EXCEPT ![e] = "starting"]
  /\ backoff' = [backoff EXCEPT ![e] = 0]
  /\ timer' = timer \ {registry} /\ spent' = FALSE
  /\ late' = TRUE
  /\ orphaned' = FALSE /\ UNCHANGED <<owner, overtaken>>

\* A slip: the index stops at the longest delay.
LongerCapped(n) == IF n + 1 < MaxBackoff THEN n + 1 ELSE MaxBackoff - 1

Longer(n) == n + 1

\* scheduleReconnect: the session in the registry is revived later, whoever
\* reports the disconnection.  A timer a handler cleared is taken for one that runs.
ScheduleReconnect ==
  IF registry = NoEntry \/ registry \in timer \/ spent
  THEN UNCHANGED <<timer, backoff>>
  ELSE /\ timer' = timer \cup {registry}
       /\ backoff' = [backoff EXCEPT ![registry] = Longer(@)]

\* registerConnection: the update that nobody awaits.  The session it is about may
\* be stopped by now, or gone.
LateUpdate ==
  /\ late /\ late' = FALSE
  /\ connected' = (connected \/ channel = "there")
  /\ orphaned' = (orphaned \/ registry \in leaving \cup {NoEntry})
  /\ UNCHANGED <<channel, flagged, cookie, alive, registry, listener, backoff, timer, spent, tries,
                 scan, handlers, owner, overtaken, bounds>>

-----------------------------------------------------------------------------
(* What the listeners report. *)

\* "connected": Zalo now serves this listener and kicks the others.
Connected(e) ==
  /\ listener[e] = "starting"
  /\ listener' = [x \in Entries |-> IF x = e THEN "up"
                                    ELSE IF listener[x] = "up" THEN "kicked" ELSE listener[x]]
  /\ backoff' = IF registry = NoEntry THEN backoff ELSE [backoff EXCEPT ![registry] = 0]
  /\ UNCHANGED <<row, alive, registry, timer, spent, late, tries, scan, handlers, history, bounds>>

\* "disconnected": the end of a listener that was kicked or stopped.
Closed(e) ==
  /\ listener[e] \in {"kicked", "stopping"}
  /\ listener' = [listener EXCEPT ![e] = "down"]
  /\ ScheduleReconnect
  /\ UNCHANGED <<row, alive, registry, spent, late, tries, scan, handlers, history, bounds>>

\* "disconnected": the network fails, or the account is used in a browser.
Drops(e) ==
  /\ listener[e] \in Live /\ Mishap
  /\ listener' = [listener EXCEPT ![e] = "down"]
  /\ ScheduleReconnect
  /\ UNCHANGED <<row, alive, registry, spent, late, tries, scan, handlers, history>>

\* The account logs the web session out, or is banned.
LogOut ==
  /\ Mishap /\ alive # {} /\ alive' = {}
  /\ UNCHANGED <<row, sessions, tries, scan, handlers, history>>

-----------------------------------------------------------------------------
(* Logging in again. *)

\* The timer's callback and the first statement of attemptReconnect.
Fire(e) ==
  /\ e \in timer
  /\ timer' = timer \ {e}
  /\ \/ registry = NoEntry /\ UNCHANGED tries
     \/ /\ registry # NoEntry
        /\ \E t \in Tries : /\ Idle(t)
                            /\ Goto(t, "look")
                            /\ of' = [of EXCEPT ![t] = registry]
                            /\ UNCHANGED using
  /\ UNCHANGED <<row, alive, registry, listener, backoff, spent, late, scan, handlers, history,
                 bounds>>

\* connections.delete(channelId).  A live session that no handler is about to
\* stop is lost sight of.
Drop ==
  /\ registry' = NoEntry /\ spent' = FALSE
  /\ overtaken' = (overtaken \/ \E e \in Entries :
                     /\ e = registry /\ listener[e] \in Live
                     /\ ~(channel = "there" /\ e \in checking))

\* A slip: the row is not looked at again.
MayReconnectAlways == TRUE

MayReconnect == channel = "there" /\ connected

\* attemptReconnect reads the row: the channel may be gone or disconnected.
Look(t) ==
  /\ at[t] = "look"
  /\ \/ MayReconnect /\ Goto(t, "load") /\ UNCHANGED <<registry, spent, overtaken, of, using>>
     \/ ~MayReconnect /\ Drop /\ EndTry(t)
  /\ UNCHANGED <<row, alive, listener, backoff, timer, late, scan, handlers, owner, orphaned,
                 bounds>>

\* A slip: the failed login is not followed by another.
RetryNever == UNCHANGED <<timer, backoff>>

Retry == ScheduleReconnect

\* The catch of attemptReconnect, and the one of restoreConnections, which runs
\* before there is anything in the registry.
LoginFailed(t) ==
  IF of[t] = NoEntry \/ backoff[of[t]] = 0 \/ backoff[of[t]] >= MaxBackoff
  THEN /\ Goto(t, "mark") /\ Drop
       /\ UNCHANGED <<of, using, timer, backoff>>
  ELSE Retry /\ EndTry(t) /\ UNCHANGED <<registry, spent, overtaken>>

\* A slip: the login goes on with no cookies.
NoCookies == 0

Cookies == cookie

\* connectFromCredentials reads the cookies.
Load(t) ==
  /\ at[t] = "load"
  /\ \/ /\ channel = "there"
        /\ using' = [using EXCEPT ![t] = Cookies]
        /\ Goto(t, "login")
        /\ UNCHANGED <<registry, spent, overtaken, of, timer, backoff>>
     \/ channel # "there" /\ LoginFailed(t)
  /\ UNCHANGED <<row, alive, listener, late, scan, handlers, owner, orphaned, bounds>>

\* connectFromCredentials: zalo.login and getOwnId, then registerConnection.
Login(t) ==
  /\ at[t] = "login" /\ using[t] \in alive
  /\ \E e \in Entries : Register(e)
  /\ EndTry(t)
  /\ UNCHANGED <<row, alive, scan, handlers, bounds>>

\* Zalo refuses the cookies.
Refused(t) ==
  /\ at[t] = "login" /\ using[t] \notin alive
  /\ LoginFailed(t)
  /\ UNCHANGED <<row, alive, listener, late, scan, handlers, owner, orphaned, bounds>>

\* Zalo cannot be reached.
Unreachable(t) ==
  /\ at[t] = "login" /\ Mishap
  /\ LoginFailed(t)
  /\ UNCHANGED <<row, alive, listener, late, scan, handlers, owner, orphaned>>

\* markReauthorizationRequired.
Mark(t) ==
  /\ at[t] = "mark"
  /\ connected' = (connected /\ channel # "there")
  /\ flagged' = (flagged \/ channel = "there")
  /\ EndTry(t)
  /\ UNCHANGED <<channel, cookie, alive, sessions, scan, handlers, history, bounds>>

\* It fails, which is only logged.
MarkFails(t) ==
  /\ at[t] = "mark" /\ Mishap
  /\ EndTry(t)
  /\ orphaned' = (orphaned \/ registry = NoEntry)
  /\ UNCHANGED <<row, alive, sessions, scan, handlers, owner, overtaken>>

\* The server restarts and restoreConnections logs in.
Restart ==
  /\ Mishap
  /\ registry' = NoEntry
  /\ listener' = [e \in Entries |-> "down"]
  /\ backoff' = [e \in Entries |-> 0]
  /\ timer' = {} /\ spent' = FALSE /\ late' = FALSE /\ scan' = "idle"
  /\ telling' = {} /\ checking' = {} /\ leaving' = {}
  /\ of' = [t \in Tries |-> NoEntry]
  /\ using' = [t \in Tries |-> 0]
  /\ IF channel = "there" /\ connected
     THEN \E t \in Tries :
            /\ \A v \in Tries : t <= v
            /\ at' = [u \in Tries |-> IF u = t THEN "load" ELSE "idle"]
     ELSE at' = [u \in Tries |-> "idle"]
  /\ orphaned' = FALSE
  /\ UNCHANGED <<row, alive, owner, overtaken>>

-----------------------------------------------------------------------------
(* What the owner does. *)

\* connect: the inbox and the channel are created.
Connect ==
  /\ channel = "absent" /\ scan = "idle"
  /\ channel' = "there" /\ connected' = TRUE /\ cookie' = 1 /\ alive' = alive \cup {1}
  /\ scan' = "written" /\ owner' = "on"
  /\ UNCHANGED <<flagged, sessions, tries, handlers, overtaken, orphaned, bounds>>

\* completeReauthorize reads the channel.
Reauthorize ==
  /\ channel = "there" /\ scan = "idle" /\ ~Restoring /\ Act
  /\ scan' = "read"
  /\ UNCHANGED <<row, alive, sessions, tries, handlers, history>>

\* completeReauthorize stores the scanned cookies, unless the row is gone.
WriteScan ==
  /\ scan = "read"
  /\ IF channel = "there"
     THEN /\ cookie' = cookie + 1 /\ alive' = alive \cup {cookie + 1}
          /\ connected' = TRUE /\ flagged' = FALSE
          /\ scan' = "written" /\ owner' = "on" /\ overtaken' = FALSE /\ UNCHANGED orphaned
     ELSE scan' = "idle" /\ UNCHANGED <<connected, flagged, cookie, alive, history>>
  /\ UNCHANGED <<channel, sessions, tries, handlers, bounds>>

\* connect and completeReauthorize: the scanned session is registered.
RegisterScan ==
  /\ scan = "written" /\ scan' = "idle"
  /\ \E e \in Entries : Register(e)
  /\ UNCHANGED <<row, alive, tries, handlers, bounds>>

\* A session is on its way, or runs without the registry knowing it.
Opening ==
  \/ scan # "idle" \/ late
  \/ \E t \in Tries : at[t] \in {"load", "login"}
  \/ \E e \in Entries \ {registry} : listener[e] \in Live

\* updateInbox with isConnected FALSE commits.
Disconnect ==
  /\ channel = "there" /\ ~Restoring /\ Act
  /\ connected' = FALSE
  /\ telling' = telling \cup {"updated"}
  /\ owner' = "off" /\ overtaken' = Opening
  /\ UNCHANGED <<channel, flagged, cookie, alive, sessions, tries, scan, checking, leaving,
                 orphaned>>

\* deleteInbox removes the row.
Delete ==
  /\ channel = "there" /\ ~Restoring /\ Act
  /\ channel' = "deleted" /\ connected' = FALSE
  /\ telling' = telling \cup {"deleted"}
  /\ owner' = "off" /\ overtaken' = Opening
  /\ UNCHANGED <<flagged, cookie, alive, sessions, tries, scan, checking, leaving,
                 orphaned>>

\* The events run their handlers up to the first await.
Emit(event) == event \in telling /\ telling' = telling \ {event}

Stopped(e) == IF listener[e] \in Live \cup {"kicked"} THEN "stopping" ELSE listener[e]

\* Both handlers clear the timer of the entry they hold and stop its listener.
Stop(e) ==
  /\ timer' = timer \ {e}
  /\ spent' = (spent \/ (e = registry /\ e \in timer))
  /\ listener' = [listener EXCEPT ![e] = Stopped(e)]
  /\ leaving' = leaving \cup {e}

\* handleChannelUpdated finds the entry.
TellUpdated ==
  /\ Emit("updated")
  /\ checking' = checking \cup ({registry} \ {NoEntry})
  /\ UNCHANGED <<row, alive, sessions, tries, scan, leaving, history, bounds>>

\* handleChannelUpdated: a channel that is still disconnected is stopped.
CheckUpdate(e) ==
  /\ e \in checking /\ checking' = checking \ {e}
  /\ IF channel = "there" /\ ~connected
     THEN Stop(e)
     ELSE UNCHANGED <<timer, spent, listener, leaving>>
  /\ UNCHANGED <<row, alive, registry, backoff, late, tries, scan, telling, history, bounds>>

\* handleChannelDeleted finds the entry and stops it.
TellDeleted ==
  /\ Emit("deleted")
  /\ IF registry = NoEntry
     THEN UNCHANGED <<timer, spent, listener, leaving>>
     ELSE Stop(registry)
  /\ UNCHANGED <<row, alive, registry, backoff, late, tries, scan, checking, history, bounds>>

\* Both handlers end with connections.delete(channelId), whoever is registered now.
Leave(e) ==
  /\ e \in leaving /\ leaving' = leaving \ {e}
  /\ Drop
  /\ orphaned' = (orphaned \/ registry \notin {e, NoEntry})
  /\ UNCHANGED <<row, alive, listener, backoff, timer, late, tries, scan, telling, checking, owner,
                 bounds>>

-----------------------------------------------------------------------------
Next ==
  \/ \E e \in Entries : Connected(e) \/ Closed(e) \/ Drops(e) \/ Fire(e)
                        \/ CheckUpdate(e) \/ Leave(e)
  \/ \E t \in Tries : Look(t) \/ Load(t) \/ Login(t) \/ Refused(t) \/ Unreachable(t) \/ Mark(t)
                      \/ MarkFails(t)
  \/ LateUpdate \/ LogOut \/ Restart
  \/ Connect \/ Reauthorize \/ WriteScan \/ RegisterScan
  \/ Disconnect \/ Delete \/ TellUpdated \/ TellDeleted

Spec == Init /\ [][Next]_vars

\* Awaited calls are answered, timers fire, and Zalo connects a listener or closes it.
Fairness ==
  /\ \A e \in Entries : WF_vars(Connected(e)) /\ WF_vars(Closed(e))
                        /\ WF_vars(Fire(e)) /\ WF_vars(CheckUpdate(e)) /\ WF_vars(Leave(e))
  /\ \A t \in Tries : WF_vars(Look(t)) /\ WF_vars(Load(t)) /\ WF_vars(Login(t) \/ Refused(t))
                      /\ WF_vars(Mark(t))
  /\ WF_vars(WriteScan) /\ WF_vars(RegisterScan) /\ WF_vars(TellUpdated) /\ WF_vars(TellDeleted)

FairSpec == Spec /\ Fairness

-----------------------------------------------------------------------------
(* Properties. *)

RowOK ==
  /\ channel \in {"absent", "there", "deleted"}
  /\ connected \in BOOLEAN /\ flagged \in BOOLEAN
  /\ cookie \in Nat /\ alive \subseteq 1..cookie
SessionsOK ==
  /\ registry \in Entries \cup {NoEntry}
  /\ listener \in [Entries -> States]
  /\ backoff \in [Entries -> Nat]
  /\ timer \subseteq Entries /\ spent \in BOOLEAN /\ late \in BOOLEAN
TriesOK ==
  /\ at \in [Tries -> {"idle", "look", "load", "login", "mark"}]
  /\ of \in [Tries -> Entries \cup {NoEntry}]
  /\ using \in [Tries -> Nat]
  /\ \A t \in Tries : at[t] = "login" => using[t] \in 1..cookie
RestOK ==
  /\ scan \in {"idle", "read", "written"}
  /\ telling \subseteq {"updated", "deleted"}
  /\ checking \subseteq Entries /\ leaving \subseteq Entries
  /\ owner \in {"on", "off"} /\ overtaken \in BOOLEAN /\ orphaned \in BOOLEAN
  /\ acts \in 0..MaxActs /\ mishaps \in 0..MaxMishaps

\* The state is well typed; a login has cookies to send.
TypeOK == RowOK /\ SessionsOK /\ TriesOK /\ RestOK

LooksConnected == channel = "there" /\ connected

\* A channel that looks connected is looked after: its registered session
\* listens, is about to report its end or has a timer, or a scan or re-login is
\* under way.  No other crossing of timers, logins, scans and handlers leaves a
\* channel that looks connected and hears nothing than these, since the last
\* registration (orphaned): the end of a handler deletes a newer session under
\* the key, the update of a registration comes when its session is stopped, or
\* the row of an expired session cannot be marked.
Supervised ==
  LooksConnected /\ ~orphaned =>
    \/ scan # "idle"
    \/ \E t \in Tries : at[t] # "idle"
    \/ registry # NoEntry /\ (registry \in timer \/ listener[registry] # "down")

\* Once its handlers are done, a channel the owner disconnected or deleted
\* stays so and nothing listens for it, unless a session was being opened or
\* ran unregistered when the owner left, or another handler or re-login took
\* it out of the registry alive.
OffStaysOff ==
  owner = "off" /\ ~overtaken /\ telling = {} /\ checking = {} /\ leaving = {} =>
    /\ ~connected /\ registry = NoEntry
    /\ \A e \in Entries : listener[e] \notin Live

AtRest == timer = {} /\ \A t \in Tries : at[t] = "idle"
Crowded == \E e, x \in Entries : e # x /\ listener[e] \in Live /\ listener[x] \in Live

Listens == registry # NoEntry /\ listener[registry] = "up"

\* When the faults end the supervisor comes to rest: with the listener of the
\* registry connected, or a row that does not look connected because the channel
\* was given up, disconnected or deleted.  The exceptions are those of
\* Supervised (orphaned), and a session registered over a live one.
SettlesAlone == <>[](AtRest /\ (Listens \/ ~LooksConnected \/ orphaned)) \/ <>Crowded

\* It would come to rest in any case, if a new session ended the one it replaces.
ComesToRest == <>[]AtRest
=============================================================================
