------------------------------ MODULE ZaloTokens ------------------------------
(***************************************************************************)
(* The token pair of one Zalo Official Account channel.  An access token   *)
(* lasts a day; a refresh token works once and is replaced, with the       *)
(* access token, by the pair its exchange returns.  ZaloOaTokenService     *)
(* refreshes and stores the pair when a delivery (zalo.adapter.ts) or a    *)
(* validation (zalo.lifecycle.ts) needs one, at most once at a time in a   *)
(* server (inFlightRefreshes), and ZaloOaService.reauthorizeChannel stores *)
(* the pair of a new authorization.                                        *)
(*                                                                         *)
(* Pairs are numbered in the order Zalo issues them.  A call is one        *)
(* delivery or one validation; it works on the credentials it read when it *)
(* began.  Zalo is external: it is modelled by which refresh tokens it     *)
(* takes; it may refuse any access token, and answer any exchange with an  *)
(* error.                                                                  *)
(***************************************************************************)
EXTENDS Naturals

CONSTANTS Servers,
          Calls,      \* deliveries and validations
          Checks,     \* the validations among them
          ServerOf,   \* ServerOf[c]: the server that runs c
          NoCall,
          MaxAged,    \* how many pairs grow old
          MaxMishaps  \* how many faults and new authorizations happen in all

ASSUME ZaloAssumption ==
  /\ Checks \subseteq Calls
  /\ ServerOf \in [Calls -> Servers]
  /\ NoCall \notin Calls
  /\ MaxAged \in Nat
  /\ MaxMishaps \in Nat

VARIABLES
  issued,    \* how many pairs Zalo has issued
  live,      \* the refresh tokens Zalo takes
  aged,      \* the access tokens up to this one are inside the refresh margin
  stored,    \* the pair in the channel's row
  session,   \* the pair of an authorization the owner has not confirmed, 0 for none
  connected, \* the row's isConnected
  flaggedBy, \* the call that set reauthorizationRequired, NoCall when it is not set
  pc,        \* pc[c]: where call c is
  ctx,       \* ctx[c]: the pair in the credentials c read
  seen,      \* seen[c]: the settings c read
  stage,     \* stage[c]: the delivery is its "first", is "forcing" a refresh or is the "retry"
  token,     \* token[c]: the access token c calls Zalo with
  used,      \* used[c]: the refresh token its refresh sends
  again,     \* the calls whose refresh tries for the second time
  got,       \* got[c]: the pair its refresh received
  dead,      \* the calls whose last exchange failed with a TokenRefreshAuthError
  inFlight,  \* inFlight[s]: the call that leads the server's refresh
  on,        \* on[c]: the call whose refresh c waits for
  marks,     \* the calls whose markReauthorizationRequired is under way
  lost,      \* history: pairs whose only copy is gone
  revoked,   \* history: Zalo ended an authorization
  origin,    \* history: origin[p]: the authorization pair p comes from, by its first pair
  overtaken, \* history: calls whose last exchange another server's refresh crossed
  misread,   \* history: calls whose last exchange got an error about a token Zalo takes
  mishaps

row      == <<stored, connected, flaggedBy>>
zalo     == <<issued, live, aged, session>>
refresh  == <<used, again, got, dead>>
history  == <<lost, revoked, origin, overtaken, misread>>
vars == <<zalo, row, pc, ctx, seen, stage, token, refresh, inFlight, on, marks,
          history, mishaps>>

Labels == {"idle", "guarded", "get", "wait", "ask", "persist", "caught", "call",
           "answered", "error", "over"}

Refreshing(c) == pc[c] \in {"ask", "persist", "caught"}
Elsewhere(c) == {d \in Calls : ServerOf[d] # ServerOf[c]}
At(c, label) == pc[c] = label
Goto(c, label) == pc' = [pc EXCEPT ![c] = label]

\* The calls C are over, with what they held.
Finish(C) ==
  /\ pc' = [c \in Calls |-> IF c \in C THEN "over" ELSE pc[c]]
  /\ ctx' = [c \in Calls |-> IF c \in C THEN 0 ELSE ctx[c]]
  /\ seen' = [c \in Calls |-> IF c \in C THEN NoCall ELSE seen[c]]
  /\ stage' = [c \in Calls |-> IF c \in C THEN "first" ELSE stage[c]]
  /\ token' = [c \in Calls |-> IF c \in C THEN 0 ELSE token[c]]

Mishap == mishaps < MaxMishaps /\ mishaps' = mishaps + 1

Init ==
  /\ issued = 1 /\ live = {1} /\ aged = 0 /\ stored = 1 /\ session = 0
  /\ connected = TRUE /\ flaggedBy = NoCall
  /\ pc = [c \in Calls |-> "idle"]
  /\ ctx = [c \in Calls |-> 0]
  /\ seen = [c \in Calls |-> NoCall]
  /\ stage = [c \in Calls |-> "first"]
  /\ token = [c \in Calls |-> 0]
  /\ used = [c \in Calls |-> 0]
  /\ again = {}
  /\ got = [c \in Calls |-> 0]
  /\ dead = {}
  /\ inFlight = [s \in Servers |-> NoCall]
  /\ on = [c \in Calls |-> NoCall]
  /\ marks = {} /\ lost = {} /\ revoked = FALSE /\ origin = [p \in {1} |-> 1] /\ overtaken = {}
  /\ misread = {}
  /\ mishaps = 0

-----------------------------------------------------------------------------
(* A call begins. *)

\* handleChannelUpdated: a channel that is disconnected is not validated.
Guard(c) ==
  /\ c \in Checks /\ At(c, "idle") /\ connected
  /\ Goto(c, "guarded")
  /\ UNCHANGED <<zalo, row, ctx, seen, stage, token, refresh, inFlight, on, marks, history, mishaps>>

\* The row is read and its credentials become the context of the call.
Load(c) ==
  /\ IF c \in Checks THEN At(c, "guarded") ELSE At(c, "idle")
  /\ Goto(c, "get")
  /\ ctx' = [ctx EXCEPT ![c] = stored]
  /\ seen' = [seen EXCEPT ![c] = flaggedBy]
  /\ UNCHANGED <<zalo, row, stage, token, refresh, inFlight, on, marks, history, mishaps>>

Cached(c) == stage[c] # "forcing" /\ ctx[c] > aged

\* getValidAccessToken: the token of the context is still good.
UseCached(c) ==
  /\ At(c, "get") /\ Cached(c)
  /\ token' = [token EXCEPT ![c] = ctx[c]]
  /\ Goto(c, "call")
  /\ UNCHANGED <<zalo, row, ctx, seen, stage, refresh, inFlight, on, marks, history, mishaps>>

\* A slip: the refresh of another call is not looked for.
JoinsNone(c) == FALSE

Joins(c) == inFlight[ServerOf[c]] # NoCall

\* getValidAccessToken and forceRefresh: the server refreshes already.
Join(c) ==
  /\ At(c, "get") /\ ~Cached(c) /\ Joins(c)
  /\ Goto(c, "wait")
  /\ on' = [on EXCEPT ![c] = inFlight[ServerOf[c]]]
  /\ UNCHANGED <<zalo, row, ctx, seen, stage, token, refresh, inFlight, marks, history, mishaps>>

\* c is about to send another token, maybe while another server has a pair to store.
Reconsider(c) ==
  /\ overtaken' = IF \E d \in Elsewhere(c) : At(d, "persist")
                  THEN overtaken \cup {c} ELSE overtaken \ {c}
  /\ misread' = misread \ {c}

\* getValidAccessToken and forceRefresh: the call starts the server's refresh.
Lead(c) ==
  /\ At(c, "get") /\ ~Cached(c) /\ ~Joins(c)
  /\ Goto(c, "ask")
  /\ inFlight' = [inFlight EXCEPT ![ServerOf[c]] = c]
  /\ used' = [used EXCEPT ![c] = ctx[c]]
  /\ Reconsider(c)
  /\ UNCHANGED <<zalo, row, ctx, seen, stage, token, again, got, dead, on, marks, lost, revoked,
                 origin, mishaps>>

-----------------------------------------------------------------------------
(* The refresh: exchangeRefreshToken, persistRotatedCredentials and what   *)
(* refreshAndRotate does when they fail.                                   *)

\* Zalo issues a pair under authorization a.
Issue(a) ==
  /\ issued' = issued + 1
  /\ origin' = [p \in 1 .. issued' |-> IF p = issued' THEN a ELSE origin[p]]

\* Zalo takes the refresh token and issues the next pair.
Exchange(c) ==
  /\ At(c, "ask") /\ used[c] \in live
  /\ Issue(origin[used[c]])
  /\ live' = (live \ {used[c]}) \cup {issued'}
  /\ overtaken' = overtaken \cup {d \in Elsewhere(c) : Refreshing(d)}

\* The answer arrives.
Granted(c) ==
  /\ Exchange(c)
  /\ got' = [got EXCEPT ![c] = issued']
  /\ Goto(c, "persist")
  /\ UNCHANGED <<aged, session, row, ctx, seen, stage, token, used, again, dead, inFlight,
                 on, marks, lost, revoked, misread, mishaps>>

\* The answer, or the pair in it, is lost: what arrives instead of the answer
\* may be an error.
AnswerLost(c) ==
  /\ Exchange(c)
  /\ Mishap
  /\ lost' = lost \cup {issued'}
  /\ dead' \in {dead \ {c}, dead \cup {c}}
  /\ Goto(c, "caught")
  /\ UNCHANGED <<aged, session, row, ctx, seen, stage, token, used, again, got, inFlight,
                 on, marks, revoked, misread>>

\* Zalo refuses the refresh token.
Refused(c) ==
  /\ At(c, "ask") /\ used[c] \notin live
  /\ dead' = dead \cup {c}
  /\ Goto(c, "caught")
  /\ UNCHANGED <<zalo, row, ctx, seen, stage, token, used, again, got, inFlight, on, marks,
                 history, mishaps>>

\* Zalo answers with an error although it takes the token: a body with an error
\* field, in a 5xx or a rate limit too, or a 400 or 401 counts as a refusal.
ErrorAnswer(c) ==
  /\ At(c, "ask") /\ used[c] \in live
  /\ Mishap
  /\ dead' = dead \cup {c}
  /\ misread' = misread \cup {c}
  /\ Goto(c, "caught")
  /\ UNCHANGED <<zalo, row, ctx, seen, stage, token, used, again, got, inFlight, on, marks,
                 lost, revoked, origin, overtaken>>

\* Zalo cannot be reached, or answers neither with a pair nor with an error field.
Unreachable(c) ==
  /\ At(c, "ask")
  /\ Mishap
  /\ dead' = dead \ {c}
  /\ Goto(c, "caught")
  /\ UNCHANGED <<zalo, row, ctx, seen, stage, token, used, again, got, inFlight, on, marks, history>>

\* The calls that end with the refresh c leads.
Party(c) == {c} \cup {d \in Calls : At(d, "wait") /\ on[d] = c}

\* The refresh is over.  A delivery that forced it begins anew with the context
\* it has (deliverCsMessage), any other call uses the token it returns.
EndRefresh(c, ok) ==
  /\ pc' = [d \in Calls |->
             IF d \notin Party(c) THEN pc[d]
             ELSE IF ~ok THEN "error"
             ELSE IF stage[d] = "forcing" THEN "get" ELSE "call"]
  /\ stage' = [d \in Calls |->
                IF d \in Party(c) /\ stage[d] = "forcing" THEN "retry" ELSE stage[d]]
  /\ token' = [d \in Calls |->
                IF ok /\ d \in Party(c) /\ stage[d] # "forcing" THEN got[c] ELSE token[d]]
  /\ inFlight' = [inFlight EXCEPT ![ServerOf[c]] = NoCall]
  /\ on' = [d \in Calls |-> IF d \in Party(c) THEN NoCall ELSE on[d]]
  /\ used' = [used EXCEPT ![c] = 0]
  /\ got' = [got EXCEPT ![c] = 0]
  /\ again' = again \ {c}
  /\ dead' = dead \ {c}

\* A slip: the merge keeps the row's refresh token.
RotatedAccessOnly(c) == stored

\* A slip: the pair is read under a name the answer does not have.
RotatedNothing(c) == 0

Rotated(c) == got[c]

\* persistRotatedCredentials.  A pair of another authorization that the refresh
\* overwrites is gone.
Persist(c) ==
  /\ At(c, "persist")
  /\ stored' = Rotated(c)
  /\ lost' = IF origin[got[c]] # origin[stored] THEN lost \cup {stored} ELSE lost
  /\ EndRefresh(c, TRUE)
  /\ UNCHANGED <<zalo, connected, flaggedBy, ctx, seen, marks, revoked, origin, overtaken,
                 misread, mishaps>>

\* A statement of persistRotatedCredentials fails: nobody has the pair any more.
PersistFails(c) ==
  /\ At(c, "persist")
  /\ Mishap
  /\ lost' = lost \cup {got[c]}
  /\ dead' = dead \ {c}
  /\ Goto(c, "caught")
  /\ UNCHANGED <<zalo, row, ctx, seen, stage, token, used, again, got, inFlight, on, marks,
                 revoked, origin, overtaken, misread>>

\* A slip: it tries as long as it can read the row.
RetriesAlways(c) == TRUE

Retries(c) == c \notin again /\ stored # used[c]

\* The row is read again and holds another pair: it is tried, once.
Reread(c) ==
  /\ At(c, "caught") /\ Retries(c)
  /\ used' = [used EXCEPT ![c] = stored]
  /\ again' = again \cup {c}
  /\ Reconsider(c)
  /\ Goto(c, "ask")
  /\ UNCHANGED <<zalo, row, ctx, seen, stage, token, got, dead, inFlight, on, marks, lost,
                 revoked, origin, mishaps>>

\* The refresh fails; when Zalo refused the token, the channel is to be marked.
GiveUp(c) ==
  /\ At(c, "caught") /\ ~Retries(c)
  /\ marks' = IF c \in dead THEN marks \cup {c} ELSE marks
  /\ EndRefresh(c, FALSE)
  /\ UNCHANGED <<zalo, row, ctx, seen, history, mishaps>>

\* The row cannot be read again: the refresh fails without a mark.
RereadFails(c) ==
  /\ At(c, "caught") /\ c \notin again
  /\ Mishap
  /\ EndRefresh(c, FALSE)
  /\ UNCHANGED <<zalo, row, ctx, seen, marks, history>>

\* markReauthorizationRequired, which nobody waits for.
Mark(c) ==
  /\ c \in marks
  /\ marks' = marks \ {c}
  /\ connected' = FALSE
  /\ flaggedBy' = c
  /\ UNCHANGED <<zalo, stored, pc, ctx, seen, stage, token, refresh, inFlight, on, history, mishaps>>

\* It fails, which is only logged.
MarkFails(c) ==
  /\ c \in marks
  /\ Mishap
  /\ marks' = marks \ {c}
  /\ UNCHANGED <<zalo, row, pc, ctx, seen, stage, token, refresh, inFlight, on, history>>

-----------------------------------------------------------------------------
(* The call itself. *)

Answered(c) ==
  /\ At(c, "call")
  /\ Goto(c, "answered")
  /\ UNCHANGED <<zalo, row, ctx, seen, stage, token, refresh, inFlight, on, marks, history, mishaps>>

MayForce(c) == c \notin Checks /\ stage[c] = "first"

\* Zalo refuses the access token: a delivery forces a refresh, once.
TokenRefused(c) ==
  /\ At(c, "call") /\ MayForce(c)
  /\ Mishap
  /\ stage' = [stage EXCEPT ![c] = "forcing"]
  /\ Goto(c, "get")
  /\ UNCHANGED <<zalo, row, ctx, seen, token, refresh, inFlight, on, marks, history>>

\* The retry is refused too, or Zalo fails otherwise.
CallFails(c) ==
  /\ At(c, "call")
  /\ Mishap
  /\ Goto(c, "error")
  /\ UNCHANGED <<zalo, row, ctx, seen, stage, token, refresh, inFlight, on, marks, history>>

\* A delivery returns or throws; validateAndSync and markSyncError write whether
\* the channel is connected and the settings they read.
Return(c) ==
  /\ pc[c] \in {"answered", "error"}
  /\ IF c \in Checks
     THEN connected' = At(c, "answered") /\ flaggedBy' = seen[c]
     ELSE UNCHANGED <<connected, flaggedBy>>
  /\ Finish({c})
  /\ UNCHANGED <<zalo, stored, refresh, inFlight, on, marks, history, mishaps>>

-----------------------------------------------------------------------------
(* Time, the owner and the servers. *)

\* The oldest access token that was good enters the refresh margin.
Age ==
  /\ aged < issued /\ aged < MaxAged
  /\ aged' = aged + 1
  /\ UNCHANGED <<issued, live, session, row, pc, ctx, seen, stage, token, refresh, inFlight,
                 on, marks, history, mishaps>>

\* The owner withdraws the application at Zalo.
Revoke ==
  /\ ~revoked
  /\ Mishap
  /\ revoked' = TRUE
  /\ live' = {}
  /\ UNCHANGED <<issued, aged, session, row, pc, ctx, seen, stage, token, refresh, inFlight,
                 on, marks, lost, origin, overtaken, misread>>

\* The owner authorizes again: the callback puts the pair in a session.  Zalo may
\* or may not go on taking the tokens of the authorization before.
Authorize ==
  /\ session = 0
  /\ Mishap
  /\ Issue(issued + 1)
  /\ session' = issued'
  /\ \/ live' = live \cup {issued'} /\ revoked' = revoked
     \/ live' = {issued'} /\ revoked' = TRUE
  /\ UNCHANGED <<aged, row, pc, ctx, seen, stage, token, refresh, inFlight, on, marks, lost,
                 overtaken, misread>>

\* reauthorizeChannel.  The pair it replaces is given up on purpose.
Reauthorize ==
  /\ session # 0
  /\ stored' = session
  /\ connected' = TRUE
  /\ flaggedBy' = NoCall
  /\ session' = 0
  /\ lost' = lost \cup {stored}
  /\ UNCHANGED <<issued, live, aged, pc, ctx, seen, stage, token, refresh, inFlight, on,
                 marks, revoked, origin, overtaken, misread, mishaps>>

\* A server dies with its calls, its refresh and the marks under way.
Crash(s) ==
  LET mine == {c \in Calls : ServerOf[c] = s}
  IN /\ Mishap
     /\ \E c \in mine : pc[c] \notin {"idle", "over"} \/ c \in marks
     /\ Finish({c \in mine : ~At(c, "idle")})
     /\ lost' = lost \cup {got[c] : c \in {d \in mine : At(d, "persist")}}
     /\ inFlight' = [inFlight EXCEPT ![s] = NoCall]
     /\ marks' = marks \ mine
     /\ UNCHANGED <<zalo, row, refresh, on, revoked, origin, overtaken, misread>>

-----------------------------------------------------------------------------

Works(c) ==
  \/ Load(c) \/ UseCached(c) \/ Join(c) \/ Lead(c)
  \/ Granted(c) \/ Refused(c) \/ Persist(c) \/ Reread(c) \/ GiveUp(c)
  \/ Answered(c) \/ Return(c)

Errs(c) ==
  \/ AnswerLost(c) \/ ErrorAnswer(c) \/ Unreachable(c) \/ PersistFails(c)
  \/ RereadFails(c) \/ TokenRefused(c) \/ CallFails(c) \/ MarkFails(c)

Next ==
  \/ \E c \in Calls : Guard(c) \/ Works(c) \/ Mark(c) \/ Errs(c)
  \/ \E s \in Servers : Crash(s)
  \/ Age \/ Revoke \/ Authorize \/ Reauthorize

Spec == Init /\ [][Next]_vars

\* A server runs on with what it began, and an event loop starves no promise.
FairSpec == Spec /\ \A c \in Calls : WF_vars(Works(c)) /\ WF_vars(Mark(c))

-----------------------------------------------------------------------------
(* Properties. *)

PairsOK ==
  /\ issued \in Nat \ {0} /\ live \subseteq 1 .. issued /\ aged \in 0 .. issued
  /\ stored \in 1 .. issued /\ session \in 0 .. issued /\ lost \subseteq 1 .. issued
  /\ origin \in [1 .. issued -> 1 .. issued]

NumbersOK ==
  /\ ctx \in [Calls -> 0 .. issued]
  /\ token \in [Calls -> 0 .. issued]
  /\ used \in [Calls -> 0 .. issued]
  /\ got \in [Calls -> 0 .. issued]

CallsOK ==
  /\ pc \in [Calls -> Labels]
  /\ seen \in [Calls -> Calls \cup {NoCall}]
  /\ stage \in [Calls -> {"first", "forcing", "retry"}]
  /\ on \in [Calls -> Calls \cup {NoCall}]
  /\ inFlight \in [Servers -> Calls \cup {NoCall}]

RestOK ==
  /\ connected \in BOOLEAN /\ revoked \in BOOLEAN
  /\ flaggedBy \in Calls \cup {NoCall}
  /\ again \subseteq Calls /\ dead \subseteq Calls
  /\ marks \subseteq Calls /\ overtaken \subseteq Calls /\ misread \subseteq Calls
  /\ mishaps \in 0 .. MaxMishaps

\* The variables have their types.
TypeOK == PairsOK /\ NumbersOK /\ CallsOK /\ RestOK

\* Refreshes of several servers never overwrite each other's pair: a token Zalo
\* still takes is in the row, on its way there or in the session of an
\* authorization, unless its only copy was lost with an answer, a statement or a
\* server or replaced by an authorization (exchangeRefreshToken and
\* persistRotatedCredentials, which compare nothing before they write).
LivePairIsKept ==
  \A p \in live :
    \/ p \in {stored, session} \cup lost
    \/ \E c \in Calls : At(c, "persist") /\ got[c] = p

\* A channel whose pair was never lost or replaced, under an authorization Zalo
\* did not end, is marked for reauthorization only by a refresh whose last
\* exchange another server's crossed or got an error about a token Zalo takes:
\* contexts that are out of date, refreshes of one server, and another server's
\* refresh that has stored its pair when the row is read again, never get it
\* marked (inFlightRefreshes, the second try of refreshAndRotate).
MarkedForCause ==
  lost = {} /\ ~revoked =>
    /\ marks \subseteq overtaken \cup misread
    /\ flaggedBy # NoCall => flaggedBy \in overtaken \cup misread

\* Every delivery and validation ends: nobody waits for a refresh that is over,
\* and no refusal makes a delivery refresh for ever.
CallsEnd == \A c \in Calls : At(c, "get") ~> At(c, "over")

\* What the comment on TokenRefreshAuthError says: a channel is to be authorized
\* again only when Zalo takes its token no more, and other failures are retried.
MarkedIsDefinitive == [][\A c \in marks' \ marks : used[c] \notin live]_vars

\* What deliverCsMessage says of an access token Zalo refused ("force rotate once
\* and retry"): the retry does not send the same token.
RetrySendsAnother ==
  [][\A c \in Calls :
       At(c, "get") /\ stage[c] = "retry" /\ pc'[c] = "call" => token'[c] # token[c]]_vars

=============================================================================
