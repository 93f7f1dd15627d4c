--------------------------- MODULE ZaloTokensProofs ---------------------------
(***************************************************************************)
(* The pair of a Zalo channel, for every number of servers, calls, faults  *)
(* and new authorizations: a pair Zalo still takes is never overwritten by *)
(* accident, and a channel is marked for reauthorization only for a cause. *)
(***************************************************************************)
EXTENDS ZaloTokens, TLAPS

-----------------------------------------------------------------------------
(* The inductive invariant. *)

\* inFlightRefreshes names the call that refreshes in a server.
OnePerServer == \A c \in Calls : Refreshing(c) => inFlight[ServerOf[c]] = c

\* Nobody else knows a pair that is on its way to the row.
CarriedIsFresh ==
  \A c \in Calls : At(c, "persist") =>
    /\ got[c] \notin {0, stored, session}
    /\ \A d \in Calls : ctx[d] # got[c] /\ used[d] # got[c]
    /\ \A d \in Calls \ {c} : At(d, "persist") => got[d] # got[c]

\* Zalo takes one refresh token of each authorization.
OneLive == \A p, q \in live : origin[p] = origin[q] => p = q

\* A pair on its way is the newest of its authorization.
CarriedIsNewest ==
  \A c \in Calls : At(c, "persist") =>
    \A q \in live : origin[q] = origin[got[c]] => q = got[c]

\* Until a pair is lost or an authorization ends, the row's pair works or is
\* about to be replaced by one that does.
Alive ==
  lost = {} /\ ~revoked =>
    stored \in live \/ \E d \in Calls : At(d, "persist") /\ got[d] \in live

\* A refresh nobody overtakes sees no other server with a pair to store.
Undisturbed ==
  \A c \in Calls \ overtaken : Refreshing(c) =>
    \A d \in Elsewhere(c) : ~At(d, "persist")

\* What Zalo refused for being used or ended it still refuses.
RefusedIsDead == \A c \in dead \ misread : At(c, "caught") => used[c] \notin live

\* The second try of a refresh nobody overtakes uses the pair of the row.
SecondTryIsStored ==
  lost = {} =>
    \A c \in again \ overtaken : pc[c] \in {"ask", "caught"} => used[c] = stored

\* Only a refresh tries again.
AgainRefreshes == \A c \in again : Refreshing(c) \/ At(c, "over")

\* The calls that are over, or are about to be.
Done == {d \in Calls : pc[d] \in {"error", "over"}}

\* A call is done when it marks the channel.
MarkedIsDone ==
  /\ marks \subseteq Done
  /\ flaggedBy # NoCall => flaggedBy \in Done
  /\ \A c \in Calls : seen[c] # NoCall => seen[c] \in Done

\* A validation read a mark that had a cause.
SeenForCause ==
  lost = {} /\ ~revoked =>
    \A c \in Calls : seen[c] # NoCall => seen[c] \in overtaken \cup misread

IInv ==
  /\ TypeOK
  /\ OnePerServer
  /\ CarriedIsFresh
  /\ OneLive
  /\ CarriedIsNewest
  /\ LivePairIsKept
  /\ Alive
  /\ Undisturbed
  /\ RefusedIsDead
  /\ SecondTryIsStored
  /\ AgainRefreshes
  /\ MarkedIsDone
  /\ SeenForCause
  /\ MarkedForCause

-----------------------------------------------------------------------------
USE ZaloAssumption DEF At, Refreshing, Elsewhere, Mishap

\* A step that leaves the refreshes and the pairs alone; a context is the row's,
\* or dropped.
Aside ==
  /\ UNCHANGED <<issued, live, stored, session, used, got, again, dead, inFlight, history>>
  /\ \A c \in Calls :
       /\ Refreshing(c) \/ Refreshing(c)' \/ At(c, "over") => pc'[c] = pc[c]
       /\ At(c, "error") => pc'[c] \in {"error", "over"}
       /\ ctx'[c] \in {0, stored, ctx[c]}

\* Every step is one that leaves the refreshes alone or one of the others.
Step(c) ==
  \/ Lead(c) \/ Granted(c) \/ AnswerLost(c) \/ Refused(c) \/ ErrorAnswer(c) \/ Unreachable(c)
  \/ Persist(c) \/ PersistFails(c) \/ Reread(c) \/ GiveUp(c) \/ RereadFails(c)

Other == Revoke \/ Authorize \/ Reauthorize \/ \E s \in Servers : Crash(s)

\* The pair Zalo issues is new; the others keep their authorization.
IssuedUnder(a) ==
  /\ issued' \in Nat \ {0} /\ issued' \in 1 .. issued' /\ issued' \notin 0 .. issued
  /\ 1 .. issued \subseteq 1 .. issued' /\ 0 .. issued \subseteq 0 .. issued'
  /\ 1 .. issued \subseteq 0 .. issued
  /\ origin' \in [1 .. issued' -> 1 .. issued'] /\ origin'[issued'] = a
  /\ \A p \in 1 .. issued : origin'[p] = origin[p]

\* Issue does that.
LEMMA Issued ==
  ASSUME PairsOK, NEW a \in 1 .. issued + 1, Issue(a)
  PROVE  IssuedUnder(a)
<1>1. issued' = issued + 1 /\ issued \in Nat
  BY DEF PairsOK, Issue
<1>2. /\ issued' \in 1 .. issued' /\ issued' \notin 0 .. issued
      /\ 1 .. issued \subseteq 1 .. issued' /\ 0 .. issued \subseteq 0 .. issued'
      /\ 1 .. issued \subseteq 0 .. issued
  BY <1>1
<1>3. \A p \in 1 .. issued' : p = issued' \/ p \in 1 .. issued
  BY <1>1
<1>4. origin' = [p \in 1 .. issued' |-> IF p = issued' THEN a ELSE origin[p]]
  BY DEF Issue
<1>5. \A p \in 1 .. issued : p # issued' /\ p \in 1 .. issued' /\ origin[p] \in 1 .. issued'
  BY <1>1 DEF PairsOK
<1>6. a \in 1 .. issued'
  BY <1>1
<1>. QED
  BY <1>1, <1>2, <1>3, <1>4, <1>5, <1>6 DEF IssuedUnder

\* An exchange continues the authorization of the token it uses.
LEMMA Exchanged ==
  ASSUME TypeOK, NEW c \in Calls, Exchange(c)
  PROVE  used[c] \in 1 .. issued /\ IssuedUnder(origin[used[c]])
<1>1. used[c] \in 1 .. issued /\ issued \in Nat /\ origin \in [1 .. issued -> 1 .. issued]
  BY DEF TypeOK, PairsOK, Exchange
<1>2. origin[used[c]] \in 1 .. issued + 1
  BY <1>1
<1>. QED
  BY <1>1, <1>2, Issued DEF TypeOK, Exchange

\* A pair on its way is one Zalo issued.
LEMMA CarriedIsPair ==
  ASSUME TypeOK, CarriedIsFresh
  PROVE  \A d \in Calls : At(d, "persist") => got[d] \in 1 .. issued
<1>1. \A d \in Calls : got[d] \in 0 .. issued /\ issued \in Nat
  BY DEF TypeOK, PairsOK, NumbersOK
<1>. QED
  BY <1>1 DEF CarriedIsFresh

\* A new authorization begins one.
LEMMA Authorized ==
  ASSUME TypeOK, Authorize
  PROVE  issued' = issued + 1 /\ IssuedUnder(issued')
<1>1. issued' = issued + 1 /\ issued + 1 \in 1 .. issued + 1
  BY DEF TypeOK, PairsOK, Authorize, Issue
<1>. QED
  BY <1>1, Issued DEF TypeOK, Authorize

\* The types.
LEMMA TypeStep == ASSUME TypeOK, CarriedIsFresh, [Next]_vars PROVE TypeOK'
<1>1. ASSUME NEW c \in Calls, Guard(c) PROVE TypeOK'
  <2>1. PairsOK'
    BY <1>1 DEF TypeOK, PairsOK, NumbersOK, Guard, Goto, zalo, row, refresh, history
  <2>2. NumbersOK'
    BY <1>1 DEF TypeOK, PairsOK, NumbersOK, Guard, Goto, zalo, row, refresh, history
  <2>3. CallsOK'
    BY <1>1 DEF TypeOK, CallsOK, RestOK, Labels, Guard, Goto, zalo, row, refresh, history
  <2>4. RestOK'
    BY <1>1 DEF TypeOK, RestOK, CallsOK, Guard, Goto, zalo, row, refresh, history
  <2>. QED
    BY <2>1, <2>2, <2>3, <2>4 DEF TypeOK
<1>2. ASSUME NEW c \in Calls, Load(c) PROVE TypeOK'
  <2>1. PairsOK'
    BY <1>2 DEF TypeOK, PairsOK, NumbersOK, Load, Goto, zalo, row, refresh, history
  <2>2. NumbersOK'
    <3>1. UNCHANGED <<issued, token, used, got>> /\ ctx' = [ctx EXCEPT ![c] = stored]
      BY <1>2 DEF Load, zalo, refresh
    <3>2. stored \in 0 .. issued
      BY DEF TypeOK, PairsOK
    <3>. QED
      BY <3>1, <3>2 DEF TypeOK, NumbersOK
  <2>3. CallsOK'
    BY <1>2 DEF TypeOK, CallsOK, RestOK, Labels, Load, Goto, zalo, row, refresh, history
  <2>4. RestOK'
    BY <1>2 DEF TypeOK, RestOK, CallsOK, Load, Goto, zalo, row, refresh, history
  <2>. QED
    BY <2>1, <2>2, <2>3, <2>4 DEF TypeOK
<1>3. ASSUME NEW c \in Calls, UseCached(c) PROVE TypeOK'
  <2>1. PairsOK'
    BY <1>3 DEF TypeOK, PairsOK, NumbersOK, UseCached, Goto, zalo, row, refresh, history
  <2>2. NumbersOK'
    BY <1>3 DEF TypeOK, PairsOK, NumbersOK, UseCached, Goto, zalo, row, refresh, history
  <2>3. CallsOK'
    BY <1>3 DEF TypeOK, CallsOK, RestOK, Labels, UseCached, Goto, zalo, row, refresh, history
  <2>4. RestOK'
    BY <1>3 DEF TypeOK, RestOK, CallsOK, UseCached, Goto, zalo, row, refresh, history
  <2>. QED
    BY <2>1, <2>2, <2>3, <2>4 DEF TypeOK
<1>4. ASSUME NEW c \in Calls, Join(c) PROVE TypeOK'
  <2>1. PairsOK'
    BY <1>4 DEF TypeOK, PairsOK, NumbersOK, Join, Goto, zalo, row, refresh, history
  <2>2. NumbersOK'
    BY <1>4 DEF TypeOK, PairsOK, NumbersOK, Join, Goto, zalo, row, refresh, history
  <2>3. CallsOK'
    BY <1>4 DEF TypeOK, CallsOK, RestOK, Labels, Join, Goto, zalo, row, refresh, history
  <2>4. RestOK'
    BY <1>4 DEF TypeOK, RestOK, CallsOK, Join, Goto, zalo, row, refresh, history
  <2>. QED
    BY <2>1, <2>2, <2>3, <2>4 DEF TypeOK
<1>5. ASSUME NEW c \in Calls, Lead(c) PROVE TypeOK'
  <2>1. PairsOK'
    BY <1>5 DEF TypeOK, PairsOK, NumbersOK, Lead, Reconsider, Goto, zalo, row, refresh, history
  <2>2. NumbersOK'
    BY <1>5 DEF TypeOK, PairsOK, NumbersOK, Lead, Reconsider, Goto, zalo, row, refresh, history
  <2>3. CallsOK'
    BY <1>5 DEF TypeOK, CallsOK, RestOK, Labels, Lead, Reconsider, Goto, zalo, row, refresh, history
  <2>4. RestOK'
    BY <1>5 DEF TypeOK, RestOK, CallsOK, Lead, Reconsider, Goto, zalo, row, refresh, history
  <2>. QED
    BY <2>1, <2>2, <2>3, <2>4 DEF TypeOK
<1>6. ASSUME NEW c \in Calls, Granted(c) PROVE TypeOK'
  <2>1. PairsOK'
    BY <1>6, Exchanged DEF TypeOK, PairsOK, NumbersOK, Granted, Goto, Exchange, zalo, row, refresh, history, IssuedUnder
  <2>2. NumbersOK'
    <3>1. UNCHANGED <<ctx, token, used>> /\ got' = [got EXCEPT ![c] = issued']
      BY <1>6 DEF Granted
    <3>2. 0 .. issued \subseteq 0 .. issued' /\ issued' \in 0 .. issued'
      BY <1>6, Exchanged DEF Granted, IssuedUnder
    <3>. QED
      BY <3>1, <3>2 DEF TypeOK, NumbersOK
  <2>3. CallsOK'
    BY <1>6, Exchanged DEF TypeOK, CallsOK, RestOK, Labels, Granted, Goto, Exchange, zalo, row, refresh, history, IssuedUnder
  <2>4. RestOK'
    BY <1>6, Exchanged DEF TypeOK, RestOK, CallsOK, Granted, Goto, Exchange, zalo, row, refresh, history, IssuedUnder
  <2>. QED
    BY <2>1, <2>2, <2>3, <2>4 DEF TypeOK
<1>7. ASSUME NEW c \in Calls, Refused(c) PROVE TypeOK'
  <2>1. PairsOK'
    BY <1>7 DEF TypeOK, PairsOK, NumbersOK, Refused, Goto, zalo, row, refresh, history
  <2>2. NumbersOK'
    BY <1>7 DEF TypeOK, PairsOK, NumbersOK, Refused, Goto, zalo, row, refresh, history
  <2>3. CallsOK'
    BY <1>7 DEF TypeOK, CallsOK, RestOK, Labels, Refused, Goto, zalo, row, refresh, history
  <2>4. RestOK'
    BY <1>7 DEF TypeOK, RestOK, CallsOK, Refused, Goto, zalo, row, refresh, history
  <2>. QED
    BY <2>1, <2>2, <2>3, <2>4 DEF TypeOK
<1>7a. ASSUME NEW c \in Calls, ErrorAnswer(c) PROVE TypeOK'
  <2>1. PairsOK'
    BY <1>7a DEF TypeOK, PairsOK, NumbersOK, ErrorAnswer, Goto, zalo, row, refresh, history
  <2>2. NumbersOK'
    BY <1>7a DEF TypeOK, PairsOK, NumbersOK, ErrorAnswer, Goto, zalo, row, refresh, history
  <2>3. CallsOK'
    BY <1>7a DEF TypeOK, CallsOK, RestOK, Labels, ErrorAnswer, Goto, zalo, row, refresh, history
  <2>4. RestOK'
    BY <1>7a DEF TypeOK, RestOK, CallsOK, ErrorAnswer, Goto, zalo, row, refresh, history
  <2>. QED
    BY <2>1, <2>2, <2>3, <2>4 DEF TypeOK
<1>8. ASSUME NEW c \in Calls, Persist(c) PROVE TypeOK'
  <2>1. PairsOK'
    BY <1>8, CarriedIsPair DEF TypeOK, PairsOK, NumbersOK, Persist, EndRefresh, Party, Rotated, zalo, row, refresh, history
  <2>2. NumbersOK'
    BY <1>8 DEF TypeOK, PairsOK, NumbersOK, Persist, EndRefresh, Party, Rotated, zalo, row, refresh, history
  <2>3. CallsOK'
    BY <1>8 DEF TypeOK, CallsOK, RestOK, Labels, Persist, EndRefresh, Party, Rotated, zalo, row, refresh, history
  <2>4. RestOK'
    BY <1>8 DEF TypeOK, RestOK, CallsOK, Persist, EndRefresh, Party, Rotated, zalo, row, refresh, history
  <2>. QED
    BY <2>1, <2>2, <2>3, <2>4 DEF TypeOK
<1>9. ASSUME NEW c \in Calls, Reread(c) PROVE TypeOK'
  <2>1. PairsOK'
    BY <1>9 DEF TypeOK, PairsOK, NumbersOK, Reread, Reconsider, Goto, zalo, row, refresh, history
  <2>2. NumbersOK'
    <3>1. UNCHANGED <<issued, ctx, token, got>> /\ used' = [used EXCEPT ![c] = stored]
      BY <1>9 DEF Reread, zalo
    <3>2. stored \in 0 .. issued
      BY DEF TypeOK, PairsOK
    <3>. QED
      BY <3>1, <3>2 DEF TypeOK, NumbersOK
  <2>3. CallsOK'
    BY <1>9 DEF TypeOK, CallsOK, RestOK, Labels, Reread, Reconsider, Goto, zalo, row, refresh, history
  <2>4. RestOK'
    BY <1>9 DEF TypeOK, RestOK, CallsOK, Reread, Reconsider, Goto, zalo, row, refresh, history
  <2>. QED
    BY <2>1, <2>2, <2>3, <2>4 DEF TypeOK
<1>10. ASSUME NEW c \in Calls, GiveUp(c) PROVE TypeOK'
  <2>1. PairsOK'
    BY <1>10 DEF TypeOK, PairsOK, NumbersOK, GiveUp, EndRefresh, Party, zalo, row, refresh, history
  <2>2. NumbersOK'
    BY <1>10 DEF TypeOK, PairsOK, NumbersOK, GiveUp, EndRefresh, Party, zalo, row, refresh, history
  <2>3. CallsOK'
    BY <1>10 DEF TypeOK, CallsOK, RestOK, Labels, GiveUp, EndRefresh, Party, zalo, row, refresh, history
  <2>4. RestOK'
    BY <1>10 DEF TypeOK, RestOK, CallsOK, GiveUp, EndRefresh, Party, zalo, row, refresh, history
  <2>. QED
    BY <2>1, <2>2, <2>3, <2>4 DEF TypeOK
<1>10a. ASSUME NEW c \in Calls, RereadFails(c) PROVE TypeOK'
  <2>1. PairsOK'
    BY <1>10a DEF TypeOK, PairsOK, NumbersOK, RereadFails, EndRefresh, Party, zalo, row, refresh, history
  <2>2. NumbersOK'
    BY <1>10a DEF TypeOK, PairsOK, NumbersOK, RereadFails, EndRefresh, Party, zalo, row, refresh, history
  <2>3. CallsOK'
    BY <1>10a DEF TypeOK, CallsOK, RestOK, Labels, RereadFails, EndRefresh, Party, zalo, row, refresh, history
  <2>4. RestOK'
    BY <1>10a DEF TypeOK, RestOK, CallsOK, RereadFails, EndRefresh, Party, zalo, row, refresh, history
  <2>. QED
    BY <2>1, <2>2, <2>3, <2>4 DEF TypeOK
<1>11. ASSUME NEW c \in Calls, Answered(c) PROVE TypeOK'
  <2>1. PairsOK'
    BY <1>11 DEF TypeOK, PairsOK, NumbersOK, Answered, Goto, zalo, row, refresh, history
  <2>2. NumbersOK'
    BY <1>11 DEF TypeOK, PairsOK, NumbersOK, Answered, Goto, zalo, row, refresh, history
  <2>3. CallsOK'
    BY <1>11 DEF TypeOK, CallsOK, RestOK, Labels, Answered, Goto, zalo, row, refresh, history
  <2>4. RestOK'
    BY <1>11 DEF TypeOK, RestOK, CallsOK, Answered, Goto, zalo, row, refresh, history
  <2>. QED
    BY <2>1, <2>2, <2>3, <2>4 DEF TypeOK
<1>12. ASSUME NEW c \in Calls, Return(c) PROVE TypeOK'
  <2>1. PairsOK'
    BY <1>12 DEF TypeOK, PairsOK, NumbersOK, Return, Finish, zalo, row, refresh, history
  <2>2. NumbersOK'
    BY <1>12 DEF TypeOK, PairsOK, NumbersOK, Return, Finish, zalo, row, refresh, history
  <2>3. CallsOK'
    BY <1>12 DEF TypeOK, CallsOK, RestOK, Labels, Return, Finish, zalo, row, refresh, history
  <2>4. RestOK'
    BY <1>12 DEF TypeOK, RestOK, CallsOK, Return, Finish, zalo, row, refresh, history
  <2>. QED
    BY <2>1, <2>2, <2>3, <2>4 DEF TypeOK
<1>13. ASSUME NEW c \in Calls, Mark(c) PROVE TypeOK'
  <2>1. PairsOK'
    BY <1>13 DEF TypeOK, PairsOK, NumbersOK, Mark, zalo, row, refresh, history
  <2>2. NumbersOK'
    BY <1>13 DEF TypeOK, PairsOK, NumbersOK, Mark, zalo, row, refresh, history
  <2>3. CallsOK'
    BY <1>13 DEF TypeOK, CallsOK, RestOK, Labels, Mark, zalo, row, refresh, history
  <2>4. RestOK'
    BY <1>13 DEF TypeOK, RestOK, CallsOK, Mark, zalo, row, refresh, history
  <2>. QED
    BY <2>1, <2>2, <2>3, <2>4 DEF TypeOK
<1>14. ASSUME NEW c \in Calls, AnswerLost(c) PROVE TypeOK'
  <2>1. PairsOK'
    BY <1>14, Exchanged DEF TypeOK, PairsOK, NumbersOK, AnswerLost, Goto, Exchange, zalo, row, refresh, history, IssuedUnder
  <2>2. NumbersOK'
    BY <1>14, Exchanged DEF TypeOK, PairsOK, NumbersOK, AnswerLost, Goto, Exchange, zalo, row, refresh, history, IssuedUnder
  <2>3. CallsOK'
    BY <1>14, Exchanged DEF TypeOK, CallsOK, RestOK, Labels, AnswerLost, Goto, Exchange, zalo, row, refresh, history, IssuedUnder
  <2>4. RestOK'
    BY <1>14, Exchanged DEF TypeOK, RestOK, CallsOK, AnswerLost, Goto, Exchange, zalo, row, refresh, history, IssuedUnder
  <2>. QED
    BY <2>1, <2>2, <2>3, <2>4 DEF TypeOK
<1>15. ASSUME NEW c \in Calls, Unreachable(c) PROVE TypeOK'
  <2>1. PairsOK'
    BY <1>15 DEF TypeOK, PairsOK, NumbersOK, Unreachable, Goto, zalo, row, refresh, history
  <2>2. NumbersOK'
    BY <1>15 DEF TypeOK, PairsOK, NumbersOK, Unreachable, Goto, zalo, row, refresh, history
  <2>3. CallsOK'
    BY <1>15 DEF TypeOK, CallsOK, RestOK, Labels, Unreachable, Goto, zalo, row, refresh, history
  <2>4. RestOK'
    BY <1>15 DEF TypeOK, RestOK, CallsOK, Unreachable, Goto, zalo, row, refresh, history
  <2>. QED
    BY <2>1, <2>2, <2>3, <2>4 DEF TypeOK
<1>16. ASSUME NEW c \in Calls, PersistFails(c) PROVE TypeOK'
  <2>1. PairsOK'
    BY <1>16, CarriedIsPair DEF TypeOK, PairsOK, NumbersOK, PersistFails, Goto, zalo, row, refresh, history
  <2>2. NumbersOK'
    BY <1>16 DEF TypeOK, PairsOK, NumbersOK, PersistFails, Goto, zalo, row, refresh, history
  <2>3. CallsOK'
    BY <1>16 DEF TypeOK, CallsOK, RestOK, Labels, PersistFails, Goto, zalo, row, refresh, history
  <2>4. RestOK'
    BY <1>16 DEF TypeOK, RestOK, CallsOK, PersistFails, Goto, zalo, row, refresh, history
  <2>. QED
    BY <2>1, <2>2, <2>3, <2>4 DEF TypeOK
<1>17. ASSUME NEW c \in Calls, TokenRefused(c) PROVE TypeOK'
  <2>1. PairsOK'
    BY <1>17 DEF TypeOK, PairsOK, NumbersOK, TokenRefused, Goto, zalo, row, refresh, history
  <2>2. NumbersOK'
    BY <1>17 DEF TypeOK, PairsOK, NumbersOK, TokenRefused, Goto, zalo, row, refresh, history
  <2>3. CallsOK'
    BY <1>17 DEF TypeOK, CallsOK, RestOK, Labels, TokenRefused, Goto, zalo, row, refresh, history
  <2>4. RestOK'
    BY <1>17 DEF TypeOK, RestOK, CallsOK, TokenRefused, Goto, zalo, row, refresh, history
  <2>. QED
    BY <2>1, <2>2, <2>3, <2>4 DEF TypeOK
<1>18. ASSUME NEW c \in Calls, CallFails(c) PROVE TypeOK'
  <2>1. PairsOK'
    BY <1>18 DEF TypeOK, PairsOK, NumbersOK, CallFails, Goto, zalo, row, refresh, history
  <2>2. NumbersOK'
    BY <1>18 DEF TypeOK, PairsOK, NumbersOK, CallFails, Goto, zalo, row, refresh, history
  <2>3. CallsOK'
    BY <1>18 DEF TypeOK, CallsOK, RestOK, Labels, CallFails, Goto, zalo, row, refresh, history
  <2>4. RestOK'
    BY <1>18 DEF TypeOK, RestOK, CallsOK, CallFails, Goto, zalo, row, refresh, history
  <2>. QED
    BY <2>1, <2>2, <2>3, <2>4 DEF TypeOK
<1>19. ASSUME NEW c \in Calls, MarkFails(c) PROVE TypeOK'
  <2>1. PairsOK'
    BY <1>19 DEF TypeOK, PairsOK, NumbersOK, MarkFails, zalo, row, refresh, history
  <2>2. NumbersOK'
    BY <1>19 DEF TypeOK, PairsOK, NumbersOK, MarkFails, zalo, row, refresh, history
  <2>3. CallsOK'
    BY <1>19 DEF TypeOK, CallsOK, RestOK, Labels, MarkFails, zalo, row, refresh, history
  <2>4. RestOK'
    BY <1>19 DEF TypeOK, RestOK, CallsOK, MarkFails, zalo, row, refresh, history
  <2>. QED
    BY <2>1, <2>2, <2>3, <2>4 DEF TypeOK
<1>20. ASSUME Age PROVE TypeOK'
  <2>1. PairsOK'
    BY <1>20 DEF TypeOK, PairsOK, NumbersOK, Age, zalo, row, refresh, history
  <2>2. NumbersOK'
    BY <1>20 DEF TypeOK, PairsOK, NumbersOK, Age, zalo, row, refresh, history
  <2>3. CallsOK'
    BY <1>20 DEF TypeOK, CallsOK, RestOK, Labels, Age, zalo, row, refresh, history
  <2>4. RestOK'
    BY <1>20 DEF TypeOK, RestOK, CallsOK, Age, zalo, row, refresh, history
  <2>. QED
    BY <2>1, <2>2, <2>3, <2>4 DEF TypeOK
<1>21. ASSUME Revoke PROVE TypeOK'
  <2>1. PairsOK'
    BY <1>21 DEF TypeOK, PairsOK, NumbersOK, Revoke, zalo, row, refresh, history
  <2>2. NumbersOK'
    BY <1>21 DEF TypeOK, PairsOK, NumbersOK, Revoke, zalo, row, refresh, history
  <2>3. CallsOK'
    BY <1>21 DEF TypeOK, CallsOK, RestOK, Labels, Revoke, zalo, row, refresh, history
  <2>4. RestOK'
    BY <1>21 DEF TypeOK, RestOK, CallsOK, Revoke, zalo, row, refresh, history
  <2>. QED
    BY <2>1, <2>2, <2>3, <2>4 DEF TypeOK
<1>22. ASSUME Authorize PROVE TypeOK'
  <2>1. PairsOK'
    <3>1. /\ UNCHANGED <<aged, stored, lost>> /\ session' = issued'
          /\ live' \subseteq live \cup {issued'}
      BY <1>22 DEF Authorize, row
    <3>2. IssuedUnder(issued') /\ issued' \in 0 .. issued'
      BY <1>22, Authorized DEF IssuedUnder
    <3>. QED
      BY <3>1, <3>2 DEF TypeOK, PairsOK, IssuedUnder
  <2>2. NumbersOK'
    BY <1>22, Authorized DEF TypeOK, PairsOK, NumbersOK, Authorize, zalo, row, refresh, history, IssuedUnder
  <2>3. CallsOK'
    BY <1>22, Authorized DEF TypeOK, CallsOK, RestOK, Labels, Authorize, zalo, row, refresh, history, IssuedUnder
  <2>4. RestOK'
    <3>1. /\ UNCHANGED <<connected, flaggedBy, again, dead, marks, overtaken, misread>>
          /\ mishaps' \in 0 .. MaxMishaps
      BY <1>22 DEF Authorize, row, refresh, TypeOK, RestOK
    <3>2. revoked' \in BOOLEAN
      BY <1>22 DEF Authorize, TypeOK, RestOK
    <3>. QED
      BY <3>1, <3>2 DEF TypeOK, RestOK
  <2>. QED
    BY <2>1, <2>2, <2>3, <2>4 DEF TypeOK
<1>23. ASSUME Reauthorize PROVE TypeOK'
  <2>1. PairsOK'
    BY <1>23 DEF TypeOK, PairsOK, NumbersOK, Reauthorize, zalo, row, refresh, history
  <2>2. NumbersOK'
    BY <1>23 DEF TypeOK, PairsOK, NumbersOK, Reauthorize, zalo, row, refresh, history
  <2>3. CallsOK'
    BY <1>23 DEF TypeOK, CallsOK, RestOK, Labels, Reauthorize, zalo, row, refresh, history
  <2>4. RestOK'
    BY <1>23 DEF TypeOK, RestOK, CallsOK, Reauthorize, zalo, row, refresh, history
  <2>. QED
    BY <2>1, <2>2, <2>3, <2>4 DEF TypeOK
<1>24. ASSUME NEW s \in Servers, Crash(s) PROVE TypeOK'
  <2>1. PairsOK'
    <3>1. UNCHANGED <<issued, live, aged, stored, session, origin>>
      BY <1>24 DEF Crash, zalo, row
    <3>2. lost' = lost \cup {got[c] : c \in {d \in {x \in Calls : ServerOf[x] = s} : At(d, "persist")}}
      BY <1>24 DEF Crash
    <3>3. lost' \subseteq 1 .. issued
      BY <3>2, CarriedIsPair DEF TypeOK, PairsOK
    <3>. QED
      BY <3>1, <3>3 DEF TypeOK, PairsOK
  <2>2. NumbersOK'
    BY <1>24 DEF TypeOK, PairsOK, NumbersOK, Crash, Finish, zalo, row, refresh, history
  <2>3. CallsOK'
    BY <1>24 DEF TypeOK, CallsOK, RestOK, Labels, Crash, Finish, zalo, row, refresh, history
  <2>4. RestOK'
    BY <1>24 DEF TypeOK, RestOK, CallsOK, Crash, Finish, zalo, row, refresh, history
  <2>. QED
    BY <2>1, <2>2, <2>3, <2>4 DEF TypeOK
<1>25. CASE UNCHANGED vars
  BY <1>25 DEF TypeOK, PairsOK, NumbersOK, CallsOK, RestOK, Labels, vars, zalo, row, refresh, history
<1>. QED
  BY <1>1, <1>2, <1>3, <1>4, <1>5, <1>6, <1>7, <1>7a, <1>8, <1>9, <1>10, <1>10a, <1>11, <1>12, <1>13, <1>14, <1>15, <1>16, <1>17, <1>18, <1>19, <1>20, <1>21, <1>22, <1>23, <1>24, <1>25 DEF Next, Works, Errs

\* The steps by what they do to the refreshes.
LEMMA Sorted ==
  ASSUME TypeOK, [Next]_vars
  PROVE Aside \/ (\E c \in Calls : Step(c)) \/ Other
<1>1. ASSUME NEW c \in Calls, Guard(c) PROVE Aside
  BY <1>1 DEF TypeOK, PairsOK, NumbersOK, CallsOK, RestOK, Labels, Aside, Guard, Goto, zalo, row, refresh, history
<1>2. ASSUME NEW c \in Calls, Load(c) PROVE Aside
  BY <1>2 DEF TypeOK, PairsOK, NumbersOK, CallsOK, RestOK, Labels, Aside, Load, Goto, zalo, row, refresh, history
<1>3. ASSUME NEW c \in Calls, UseCached(c) PROVE Aside
  BY <1>3 DEF TypeOK, PairsOK, NumbersOK, CallsOK, RestOK, Labels, Aside, UseCached, Goto, zalo, row, refresh, history
<1>4. ASSUME NEW c \in Calls, Join(c) PROVE Aside
  BY <1>4 DEF TypeOK, PairsOK, NumbersOK, CallsOK, RestOK, Labels, Aside, Join, Goto, zalo, row, refresh, history
<1>5. ASSUME NEW c \in Calls, Answered(c) PROVE Aside
  BY <1>5 DEF TypeOK, PairsOK, NumbersOK, CallsOK, RestOK, Labels, Aside, Answered, Goto, zalo, row, refresh, history
<1>6. ASSUME NEW c \in Calls, Return(c) PROVE Aside
  BY <1>6 DEF TypeOK, PairsOK, NumbersOK, CallsOK, RestOK, Labels, Aside, Return, Finish, zalo, row, refresh, history
<1>7. ASSUME NEW c \in Calls, Mark(c) PROVE Aside
  BY <1>7 DEF TypeOK, PairsOK, NumbersOK, CallsOK, RestOK, Labels, Aside, Mark, zalo, row, refresh, history
<1>8. ASSUME NEW c \in Calls, TokenRefused(c) PROVE Aside
  BY <1>8 DEF TypeOK, PairsOK, NumbersOK, CallsOK, RestOK, Labels, Aside, TokenRefused, Goto, zalo, row, refresh, history
<1>9. ASSUME NEW c \in Calls, CallFails(c) PROVE Aside
  BY <1>9 DEF TypeOK, PairsOK, NumbersOK, CallsOK, RestOK, Labels, Aside, CallFails, Goto, zalo, row, refresh, history
<1>10. ASSUME NEW c \in Calls, MarkFails(c) PROVE Aside
  BY <1>10 DEF TypeOK, PairsOK, NumbersOK, CallsOK, RestOK, Labels, Aside, MarkFails, zalo, row, refresh, history
<1>11. ASSUME Age PROVE Aside
  BY <1>11 DEF TypeOK, PairsOK, NumbersOK, CallsOK, RestOK, Labels, Aside, Age, zalo, row, refresh, history
<1>12. CASE UNCHANGED vars
  BY <1>12 DEF Aside, vars, zalo, row, refresh, history
<1>. QED
  BY <1>1, <1>2, <1>3, <1>4, <1>5, <1>6, <1>7, <1>8, <1>9, <1>10, <1>11, <1>12 DEF Next, Works, Errs, Step, Other

\* A server has one refresh at a time.
LEMMA OnePerServerStep == ASSUME TypeOK, OnePerServer, [Next]_vars PROVE OnePerServer'
<1>1. ASSUME Aside PROVE OnePerServer'
  BY <1>1 DEF TypeOK, PairsOK, NumbersOK, CallsOK, RestOK, OnePerServer, Joins, Aside, history
<1>2. ASSUME NEW c \in Calls, Lead(c) PROVE OnePerServer'
  BY <1>2 DEF TypeOK, PairsOK, NumbersOK, CallsOK, RestOK, OnePerServer, Joins, Lead, Reconsider, Goto, zalo, row, refresh, history
<1>3. ASSUME NEW c \in Calls, Granted(c) PROVE OnePerServer'
  BY <1>3, Exchanged DEF TypeOK, PairsOK, NumbersOK, CallsOK, RestOK, OnePerServer, Joins, Granted, Goto, Exchange, IssuedUnder, zalo, row, refresh, history
<1>4. ASSUME NEW c \in Calls, AnswerLost(c) PROVE OnePerServer'
  BY <1>4, Exchanged DEF TypeOK, PairsOK, NumbersOK, CallsOK, RestOK, OnePerServer, Joins, AnswerLost, Goto, Exchange, IssuedUnder, zalo, row, refresh, history
<1>5. ASSUME NEW c \in Calls, Refused(c) PROVE OnePerServer'
  BY <1>5 DEF TypeOK, PairsOK, NumbersOK, CallsOK, RestOK, OnePerServer, Joins, Refused, Goto, zalo, row, refresh, history
<1>5a. ASSUME NEW c \in Calls, ErrorAnswer(c) PROVE OnePerServer'
  BY <1>5a DEF TypeOK, PairsOK, NumbersOK, CallsOK, RestOK, OnePerServer, Joins, ErrorAnswer, Goto, zalo, row, refresh, history
<1>6. ASSUME NEW c \in Calls, Unreachable(c) PROVE OnePerServer'
  BY <1>6 DEF TypeOK, PairsOK, NumbersOK, CallsOK, RestOK, OnePerServer, Joins, Unreachable, Goto, zalo, row, refresh, history
<1>7. ASSUME NEW c \in Calls, Persist(c) PROVE OnePerServer'
  BY <1>7 DEF TypeOK, PairsOK, NumbersOK, CallsOK, RestOK, OnePerServer, Joins, Persist, EndRefresh, Party, Rotated, zalo, row, refresh, history
<1>8. ASSUME NEW c \in Calls, PersistFails(c) PROVE OnePerServer'
  BY <1>8 DEF TypeOK, PairsOK, NumbersOK, CallsOK, RestOK, OnePerServer, Joins, PersistFails, Goto, zalo, row, refresh, history
<1>9. ASSUME NEW c \in Calls, Reread(c) PROVE OnePerServer'
  BY <1>9 DEF TypeOK, PairsOK, NumbersOK, CallsOK, RestOK, OnePerServer, Joins, Reread, Reconsider, Goto, zalo, row, refresh, history
<1>10. ASSUME NEW c \in Calls, GiveUp(c) PROVE OnePerServer'
  BY <1>10 DEF TypeOK, PairsOK, NumbersOK, CallsOK, RestOK, OnePerServer, Joins, GiveUp, EndRefresh, Party, zalo, row, refresh, history
<1>10a. ASSUME NEW c \in Calls, RereadFails(c) PROVE OnePerServer'
  BY <1>10a DEF TypeOK, PairsOK, NumbersOK, CallsOK, RestOK, OnePerServer, Joins, RereadFails, EndRefresh, Party, zalo, row, refresh, history
<1>11. ASSUME Revoke PROVE OnePerServer'
  BY <1>11 DEF TypeOK, PairsOK, NumbersOK, CallsOK, RestOK, OnePerServer, Joins, Revoke, zalo, row, refresh, history
<1>12. ASSUME Authorize PROVE OnePerServer'
  BY <1>12, Authorized DEF TypeOK, PairsOK, NumbersOK, CallsOK, RestOK, OnePerServer, Joins, Authorize, IssuedUnder, zalo, row, refresh, history
<1>13. ASSUME Reauthorize PROVE OnePerServer'
  BY <1>13 DEF TypeOK, PairsOK, NumbersOK, CallsOK, RestOK, OnePerServer, Joins, Reauthorize, zalo, row, refresh, history
<1>14. ASSUME NEW s \in Servers, Crash(s) PROVE OnePerServer'
  BY <1>14 DEF TypeOK, PairsOK, NumbersOK, CallsOK, RestOK, OnePerServer, Joins, Crash, Finish, zalo, row, refresh, history
<1>. QED
  BY <1>1, <1>2, <1>3, <1>4, <1>5, <1>5a, <1>6, <1>7, <1>8, <1>9, <1>10, <1>10a, <1>11, <1>12, <1>13, <1>14, Sorted DEF Step, Other

\* A new pair is known to its refresh alone.
LEMMA CarriedIsFreshStep == ASSUME TypeOK, OnePerServer, CarriedIsFresh, [Next]_vars PROVE CarriedIsFresh'
<1>1. ASSUME Aside PROVE CarriedIsFresh'
  <2>1. UNCHANGED <<stored, session, used, got>>
    BY <1>1 DEF Aside
  <2>2. \A d \in Calls : pc'[d] = "persist" => At(d, "persist")
    BY <1>1 DEF Aside
  <2>3. \A d \in Calls : ctx'[d] \in {0, stored, ctx[d]}
    BY <1>1 DEF Aside
  <2>. QED
    BY <2>1, <2>2, <2>3 DEF CarriedIsFresh
<1>2. ASSUME NEW c \in Calls, Lead(c) PROVE CarriedIsFresh'
  BY <1>2 DEF TypeOK, PairsOK, NumbersOK, CallsOK, RestOK, OnePerServer, CarriedIsFresh, Lead, Reconsider, Goto, zalo, row, refresh, history
<1>3. ASSUME NEW c \in Calls, Granted(c) PROVE CarriedIsFresh'
  <2>1. /\ session' = session /\ stored' = stored /\ ctx' = ctx /\ used' = used
        /\ got' = [got EXCEPT ![c] = issued']
        /\ pc' = [pc EXCEPT ![c] = "persist"]
    BY <1>3 DEF Granted, Goto, row, Exchange
  <2>2. /\ issued' \notin 0 .. issued /\ 1 .. issued \subseteq 0 .. issued /\ 0 \in 0 .. issued
        /\ issued' # 0
    BY <1>3, Exchanged DEF IssuedUnder, Granted, TypeOK, PairsOK
  <2>3. /\ stored \in 0 .. issued /\ session \in 0 .. issued
        /\ \A d \in Calls : ctx[d] \in 0 .. issued /\ used[d] \in 0 .. issued /\ got[d] \in 0 .. issued
        /\ got \in [Calls -> 0 .. issued] /\ pc \in [Calls -> Labels]
    BY <2>2 DEF TypeOK, PairsOK, NumbersOK, CallsOK
  <2>. QED
    BY <2>1, <2>2, <2>3 DEF CarriedIsFresh
<1>4. ASSUME NEW c \in Calls, AnswerLost(c) PROVE CarriedIsFresh'
  BY <1>4, Exchanged DEF TypeOK, PairsOK, NumbersOK, CallsOK, RestOK, OnePerServer, CarriedIsFresh, AnswerLost, Goto, Exchange, IssuedUnder, zalo, row, refresh, history
<1>5. ASSUME NEW c \in Calls, Refused(c) PROVE CarriedIsFresh'
  BY <1>5 DEF TypeOK, PairsOK, NumbersOK, CallsOK, RestOK, OnePerServer, CarriedIsFresh, Refused, Goto, zalo, row, refresh, history
<1>5a. ASSUME NEW c \in Calls, ErrorAnswer(c) PROVE CarriedIsFresh'
  BY <1>5a DEF TypeOK, PairsOK, NumbersOK, CallsOK, RestOK, OnePerServer, CarriedIsFresh, ErrorAnswer, Goto, zalo, row, refresh, history
<1>6. ASSUME NEW c \in Calls, Unreachable(c) PROVE CarriedIsFresh'
  BY <1>6 DEF TypeOK, PairsOK, NumbersOK, CallsOK, RestOK, OnePerServer, CarriedIsFresh, Unreachable, Goto, zalo, row, refresh, history
<1>7. ASSUME NEW c \in Calls, Persist(c) PROVE CarriedIsFresh'
  BY <1>7 DEF TypeOK, PairsOK, NumbersOK, CallsOK, RestOK, OnePerServer, CarriedIsFresh, Persist, EndRefresh, Party, Rotated, zalo, row, refresh, history
<1>8. ASSUME NEW c \in Calls, PersistFails(c) PROVE CarriedIsFresh'
  BY <1>8 DEF TypeOK, PairsOK, NumbersOK, CallsOK, RestOK, OnePerServer, CarriedIsFresh, PersistFails, Goto, zalo, row, refresh, history
<1>9. ASSUME NEW c \in Calls, Reread(c) PROVE CarriedIsFresh'
  BY <1>9 DEF TypeOK, PairsOK, NumbersOK, CallsOK, RestOK, OnePerServer, CarriedIsFresh, Reread, Reconsider, Goto, zalo, row, refresh, history
<1>10. ASSUME NEW c \in Calls, GiveUp(c) PROVE CarriedIsFresh'
  BY <1>10 DEF TypeOK, PairsOK, NumbersOK, CallsOK, RestOK, OnePerServer, CarriedIsFresh, GiveUp, EndRefresh, Party, zalo, row, refresh, history
<1>10a. ASSUME NEW c \in Calls, RereadFails(c) PROVE CarriedIsFresh'
  BY <1>10a DEF TypeOK, PairsOK, NumbersOK, CallsOK, RestOK, OnePerServer, CarriedIsFresh, RereadFails, EndRefresh, Party, zalo, row, refresh, history
<1>11. ASSUME Revoke PROVE CarriedIsFresh'
  BY <1>11 DEF TypeOK, PairsOK, NumbersOK, CallsOK, RestOK, OnePerServer, CarriedIsFresh, Revoke, zalo, row, refresh, history
<1>12. ASSUME Authorize PROVE CarriedIsFresh'
  <2>1. /\ session' = issued' /\ UNCHANGED <<stored, ctx, used, got, pc>>
    BY <1>12 DEF Authorize, row, refresh
  <2>2. \A d \in Calls : At(d, "persist") => got[d] # issued'
    BY <1>12, Authorized, CarriedIsPair DEF IssuedUnder
  <2>. QED
    BY <2>1, <2>2 DEF CarriedIsFresh
<1>13. ASSUME Reauthorize PROVE CarriedIsFresh'
  BY <1>13 DEF TypeOK, PairsOK, NumbersOK, CallsOK, RestOK, OnePerServer, CarriedIsFresh, Reauthorize, zalo, row, refresh, history
<1>14. ASSUME NEW s \in Servers, Crash(s) PROVE CarriedIsFresh'
  BY <1>14 DEF TypeOK, PairsOK, NumbersOK, CallsOK, RestOK, OnePerServer, CarriedIsFresh, Crash, Finish, zalo, row, refresh, history
<1>. QED
  BY <1>1, <1>2, <1>3, <1>4, <1>5, <1>5a, <1>6, <1>7, <1>8, <1>9, <1>10, <1>10a, <1>11, <1>12, <1>13, <1>14, Sorted DEF Step, Other

\* An exchange and an authorization issue one live pair each.
LEMMA OneLiveStep == ASSUME TypeOK, OneLive, [Next]_vars PROVE OneLive'
<1>1. ASSUME Aside PROVE OneLive'
  BY <1>1 DEF TypeOK, PairsOK, NumbersOK, CallsOK, RestOK, OneLive, Aside, history
<1>2. ASSUME NEW c \in Calls, Lead(c) PROVE OneLive'
  BY <1>2 DEF TypeOK, PairsOK, NumbersOK, CallsOK, RestOK, OneLive, Lead, Reconsider, Goto, zalo, row, refresh, history
<1>3. ASSUME NEW c \in Calls, Granted(c) PROVE OneLive'
  <2>1. \A q \in live' : q = issued' \/ q \in live \ {used[c]}
    BY <1>3 DEF Granted, Exchange
  <2>0. /\ used[c] \in live /\ live \subseteq 1 .. issued
        /\ \A q \in live \ {used[c]} : origin[q] # origin[used[c]]
    BY <1>3 DEF TypeOK, PairsOK, OneLive, Granted, Exchange
  <2>2. \A q \in live \ {used[c]} : origin'[q] = origin[q] /\ origin[q] # origin'[issued']
    BY <1>3, <2>0, Exchanged DEF Granted, IssuedUnder
  <2>. QED
    BY <2>1, <2>2 DEF OneLive
<1>4. ASSUME NEW c \in Calls, AnswerLost(c) PROVE OneLive'
  <2>1. \A q \in live' : q = issued' \/ q \in live \ {used[c]}
    BY <1>4 DEF AnswerLost, Exchange
  <2>0. /\ used[c] \in live /\ live \subseteq 1 .. issued
        /\ \A q \in live \ {used[c]} : origin[q] # origin[used[c]]
    BY <1>4 DEF TypeOK, PairsOK, OneLive, AnswerLost, Exchange
  <2>2. \A q \in live \ {used[c]} : origin'[q] = origin[q] /\ origin[q] # origin'[issued']
    BY <1>4, <2>0, Exchanged DEF AnswerLost, IssuedUnder
  <2>. QED
    BY <2>1, <2>2 DEF OneLive
<1>5. ASSUME NEW c \in Calls, Refused(c) PROVE OneLive'
  BY <1>5 DEF TypeOK, PairsOK, NumbersOK, CallsOK, RestOK, OneLive, Refused, Goto, zalo, row, refresh, history
<1>5a. ASSUME NEW c \in Calls, ErrorAnswer(c) PROVE OneLive'
  BY <1>5a DEF TypeOK, PairsOK, NumbersOK, CallsOK, RestOK, OneLive, ErrorAnswer, Goto, zalo, row, refresh, history
<1>6. ASSUME NEW c \in Calls, Unreachable(c) PROVE OneLive'
  BY <1>6 DEF TypeOK, PairsOK, NumbersOK, CallsOK, RestOK, OneLive, Unreachable, Goto, zalo, row, refresh, history
<1>7. ASSUME NEW c \in Calls, Persist(c) PROVE OneLive'
  BY <1>7 DEF TypeOK, PairsOK, NumbersOK, CallsOK, RestOK, OneLive, Persist, EndRefresh, Party, Rotated, zalo, row, refresh, history
<1>8. ASSUME NEW c \in Calls, PersistFails(c) PROVE OneLive'
  BY <1>8 DEF TypeOK, PairsOK, NumbersOK, CallsOK, RestOK, OneLive, PersistFails, Goto, zalo, row, refresh, history
<1>9. ASSUME NEW c \in Calls, Reread(c) PROVE OneLive'
  BY <1>9 DEF TypeOK, PairsOK, NumbersOK, CallsOK, RestOK, OneLive, Reread, Reconsider, Goto, zalo, row, refresh, history
<1>10. ASSUME NEW c \in Calls, GiveUp(c) PROVE OneLive'
  BY <1>10 DEF TypeOK, PairsOK, NumbersOK, CallsOK, RestOK, OneLive, GiveUp, EndRefresh, Party, zalo, row, refresh, history
<1>10a. ASSUME NEW c \in Calls, RereadFails(c) PROVE OneLive'
  BY <1>10a DEF TypeOK, PairsOK, NumbersOK, CallsOK, RestOK, OneLive, RereadFails, EndRefresh, Party, zalo, row, refresh, history
<1>11. ASSUME Revoke PROVE OneLive'
  BY <1>11 DEF TypeOK, PairsOK, NumbersOK, CallsOK, RestOK, OneLive, Revoke, zalo, row, refresh, history
<1>12. ASSUME Authorize PROVE OneLive'
  <2>1. \A q \in live' : q = issued' \/ q \in live
    BY <1>12 DEF Authorize
  <2>2. \A q \in live : origin'[q] = origin[q] /\ origin[q] # origin'[issued']
    BY <1>12, Authorized DEF TypeOK, PairsOK, IssuedUnder
  <2>. QED
    BY <2>1, <2>2 DEF OneLive
<1>13. ASSUME Reauthorize PROVE OneLive'
  BY <1>13 DEF TypeOK, PairsOK, NumbersOK, CallsOK, RestOK, OneLive, Reauthorize, zalo, row, refresh, history
<1>14. ASSUME NEW s \in Servers, Crash(s) PROVE OneLive'
  BY <1>14 DEF TypeOK, PairsOK, NumbersOK, CallsOK, RestOK, OneLive, Crash, Finish, zalo, row, refresh, history
<1>. QED
  BY <1>1, <1>2, <1>3, <1>4, <1>5, <1>5a, <1>6, <1>7, <1>8, <1>9, <1>10, <1>10a, <1>11, <1>12, <1>13, <1>14, Sorted DEF Step, Other

\* No exchange uses a pair that is on its way.
LEMMA CarriedIsNewestStep == ASSUME TypeOK, CarriedIsFresh, OneLive, CarriedIsNewest, [Next]_vars PROVE CarriedIsNewest'
<1>1. ASSUME Aside PROVE CarriedIsNewest'
  <2>1. UNCHANGED <<live, got, origin>>
    BY <1>1 DEF Aside, history
  <2>2. \A d \in Calls : pc'[d] = "persist" => At(d, "persist")
    BY <1>1 DEF Aside
  <2>. QED
    BY <2>1, <2>2 DEF CarriedIsNewest
<1>2. ASSUME NEW c \in Calls, Lead(c) PROVE CarriedIsNewest'
  BY <1>2 DEF TypeOK, PairsOK, NumbersOK, CallsOK, RestOK, CarriedIsFresh, OneLive, CarriedIsNewest, Lead, Reconsider, Goto, zalo, row, refresh, history
<1>3. ASSUME NEW c \in Calls, Granted(c) PROVE CarriedIsNewest'
  <2>1. \A q \in live' : q = issued' \/ q \in live \ {used[c]}
    BY <1>3 DEF Granted, Exchange
  <2>0. /\ used[c] \in live /\ live \subseteq 1 .. issued
        /\ \A q \in live \ {used[c]} : origin[q] # origin[used[c]]
    BY <1>3 DEF TypeOK, PairsOK, OneLive, Granted, Exchange
  <2>2. \A q \in live \ {used[c]} : origin'[q] = origin[q] /\ origin[q] # origin'[issued']
    BY <1>3, <2>0, Exchanged DEF Granted, IssuedUnder
  <2>3. \A d \in Calls \ {c} : At(d, "persist")' => At(d, "persist") /\ got'[d] = got[d]
    BY <1>3 DEF TypeOK, NumbersOK, CallsOK, Granted, Goto
  <2>4. \A d \in Calls : At(d, "persist") =>
          got[d] \in 1 .. issued /\ origin[got[d]] # origin[used[c]]
    BY <1>3, <2>0, CarriedIsPair DEF CarriedIsFresh, CarriedIsNewest
  <2>5. \A d \in Calls : At(d, "persist") =>
          origin'[got[d]] = origin[got[d]] /\ origin'[got[d]] # origin'[issued']
    BY <1>3, <2>4, Exchanged DEF IssuedUnder, Granted
  <2>6. At(c, "persist")' => got'[c] = issued'
    BY <1>3 DEF TypeOK, NumbersOK, CallsOK, Granted, Goto
  <2>. QED
    BY <2>1, <2>2, <2>3, <2>5, <2>6 DEF CarriedIsNewest
<1>4. ASSUME NEW c \in Calls, AnswerLost(c) PROVE CarriedIsNewest'
  <2>1. \A q \in live' : q = issued' \/ q \in live \ {used[c]}
    BY <1>4 DEF AnswerLost, Exchange
  <2>0. /\ used[c] \in live /\ live \subseteq 1 .. issued
        /\ \A q \in live \ {used[c]} : origin[q] # origin[used[c]]
    BY <1>4 DEF TypeOK, PairsOK, OneLive, AnswerLost, Exchange
  <2>2. \A q \in live \ {used[c]} : origin'[q] = origin[q] /\ origin[q] # origin'[issued']
    BY <1>4, <2>0, Exchanged DEF AnswerLost, IssuedUnder
  <2>3. \A d \in Calls \ {c} : At(d, "persist")' => At(d, "persist") /\ got'[d] = got[d]
    BY <1>4 DEF TypeOK, NumbersOK, CallsOK, AnswerLost, Goto
  <2>4. \A d \in Calls : At(d, "persist") =>
          got[d] \in 1 .. issued /\ origin[got[d]] # origin[used[c]]
    BY <1>4, <2>0, CarriedIsPair DEF CarriedIsFresh, CarriedIsNewest
  <2>5. \A d \in Calls : At(d, "persist") =>
          origin'[got[d]] = origin[got[d]] /\ origin'[got[d]] # origin'[issued']
    BY <1>4, <2>4, Exchanged DEF IssuedUnder, AnswerLost
  <2>6. At(c, "persist")' => got'[c] = issued'
    BY <1>4 DEF TypeOK, NumbersOK, CallsOK, AnswerLost, Goto
  <2>. QED
    BY <2>1, <2>2, <2>3, <2>5, <2>6 DEF CarriedIsNewest
<1>5. ASSUME NEW c \in Calls, Refused(c) PROVE CarriedIsNewest'
  BY <1>5 DEF TypeOK, PairsOK, NumbersOK, CallsOK, RestOK, CarriedIsFresh, OneLive, CarriedIsNewest, Refused, Goto, zalo, row, refresh, history
<1>5a. ASSUME NEW c \in Calls, ErrorAnswer(c) PROVE CarriedIsNewest'
  BY <1>5a DEF TypeOK, PairsOK, NumbersOK, CallsOK, RestOK, CarriedIsFresh, OneLive, CarriedIsNewest, ErrorAnswer, Goto, zalo, row, refresh, history
<1>6. ASSUME NEW c \in Calls, Unreachable(c) PROVE CarriedIsNewest'
  BY <1>6 DEF TypeOK, PairsOK, NumbersOK, CallsOK, RestOK, CarriedIsFresh, OneLive, CarriedIsNewest, Unreachable, Goto, zalo, row, refresh, history
<1>7. ASSUME NEW c \in Calls, Persist(c) PROVE CarriedIsNewest'
  BY <1>7 DEF TypeOK, PairsOK, NumbersOK, CallsOK, RestOK, CarriedIsFresh, OneLive, CarriedIsNewest, Persist, EndRefresh, Party, Rotated, zalo, row, refresh, history
<1>8. ASSUME NEW c \in Calls, PersistFails(c) PROVE CarriedIsNewest'
  BY <1>8 DEF TypeOK, PairsOK, NumbersOK, CallsOK, RestOK, CarriedIsFresh, OneLive, CarriedIsNewest, PersistFails, Goto, zalo, row, refresh, history
<1>9. ASSUME NEW c \in Calls, Reread(c) PROVE CarriedIsNewest'
  BY <1>9 DEF TypeOK, PairsOK, NumbersOK, CallsOK, RestOK, CarriedIsFresh, OneLive, CarriedIsNewest, Reread, Reconsider, Goto, zalo, row, refresh, history
<1>10. ASSUME NEW c \in Calls, GiveUp(c) PROVE CarriedIsNewest'
  BY <1>10 DEF TypeOK, PairsOK, NumbersOK, CallsOK, RestOK, CarriedIsFresh, OneLive, CarriedIsNewest, GiveUp, EndRefresh, Party, zalo, row, refresh, history
<1>10a. ASSUME NEW c \in Calls, RereadFails(c) PROVE CarriedIsNewest'
  BY <1>10a DEF TypeOK, PairsOK, NumbersOK, CallsOK, RestOK, CarriedIsFresh, OneLive, CarriedIsNewest, RereadFails, EndRefresh, Party, zalo, row, refresh, history
<1>11. ASSUME Revoke PROVE CarriedIsNewest'
  BY <1>11 DEF TypeOK, PairsOK, NumbersOK, CallsOK, RestOK, CarriedIsFresh, OneLive, CarriedIsNewest, Revoke, zalo, row, refresh, history
<1>12. ASSUME Authorize PROVE CarriedIsNewest'
  <2>1. \A q \in live' : q = issued' \/ q \in live
    BY <1>12 DEF Authorize
  <2>2. /\ \A p \in 1 .. issued : origin'[p] = origin[p] /\ origin[p] # origin'[issued']
        /\ live \subseteq 1 .. issued
    BY Authorized, <1>12 DEF TypeOK, PairsOK, IssuedUnder
  <2>3. UNCHANGED <<got, pc>>
    BY <1>12 DEF Authorize, refresh
  <2>4. SUFFICES ASSUME NEW c \in Calls, At(c, "persist")', NEW q \in live',
                        origin'[q] = origin'[got'[c]]
                 PROVE  q = got'[c]
    BY DEF CarriedIsNewest
  <2>5. At(c, "persist") /\ got'[c] = got[c]
    BY <2>3, <2>4 DEF At
  <2>6. got[c] \in 1 .. issued
    BY <2>5, CarriedIsPair
  <2>7. q # issued'
    BY <2>2, <2>4, <2>5, <2>6
  <2>8. q \in live
    BY <2>1, <2>4, <2>7
  <2>9. origin[q] = origin[got[c]]
    BY <2>2, <2>4, <2>5, <2>6, <2>8
  <2>. QED
    BY <2>5, <2>8, <2>9 DEF CarriedIsNewest
<1>13. ASSUME Reauthorize PROVE CarriedIsNewest'
  BY <1>13 DEF TypeOK, PairsOK, NumbersOK, CallsOK, RestOK, CarriedIsFresh, OneLive, CarriedIsNewest, Reauthorize, zalo, row, refresh, history
<1>14. ASSUME NEW s \in Servers, Crash(s) PROVE CarriedIsNewest'
  BY <1>14 DEF TypeOK, PairsOK, NumbersOK, CallsOK, RestOK, CarriedIsFresh, OneLive, CarriedIsNewest, Crash, Finish, zalo, row, refresh, history
<1>. QED
  BY <1>1, <1>2, <1>3, <1>4, <1>5, <1>5a, <1>6, <1>7, <1>8, <1>9, <1>10, <1>10a, <1>11, <1>12, <1>13, <1>14, Sorted DEF Step, Other

\* What a refresh overwrites Zalo takes no longer.
LEMMA LivePairIsKeptStep == ASSUME TypeOK, CarriedIsFresh, CarriedIsNewest, LivePairIsKept, [Next]_vars PROVE LivePairIsKept'
<1>1. ASSUME Aside PROVE LivePairIsKept'
  <2>1. UNCHANGED <<live, stored, session, got, lost>>
    BY <1>1 DEF Aside, history
  <2>2. \A c \in Calls : At(c, "persist") => pc'[c] = "persist"
    BY <1>1 DEF Aside
  <2>. QED
    BY <2>1, <2>2 DEF LivePairIsKept
<1>2. ASSUME NEW c \in Calls, Lead(c) PROVE LivePairIsKept'
  BY <1>2 DEF TypeOK, PairsOK, NumbersOK, CallsOK, RestOK, CarriedIsFresh, CarriedIsNewest, LivePairIsKept, Lead, Reconsider, Goto, zalo, row, refresh, history
<1>3. ASSUME NEW c \in Calls, Granted(c) PROVE LivePairIsKept'
  BY <1>3, Exchanged DEF TypeOK, PairsOK, NumbersOK, CallsOK, RestOK, CarriedIsFresh, CarriedIsNewest, LivePairIsKept, Granted, Goto, Exchange, IssuedUnder, zalo, row, refresh, history
<1>4. ASSUME NEW c \in Calls, AnswerLost(c) PROVE LivePairIsKept'
  BY <1>4, Exchanged DEF TypeOK, PairsOK, NumbersOK, CallsOK, RestOK, CarriedIsFresh, CarriedIsNewest, LivePairIsKept, AnswerLost, Goto, Exchange, IssuedUnder, zalo, row, refresh, history
<1>5. ASSUME NEW c \in Calls, Refused(c) PROVE LivePairIsKept'
  BY <1>5 DEF TypeOK, PairsOK, NumbersOK, CallsOK, RestOK, CarriedIsFresh, CarriedIsNewest, LivePairIsKept, Refused, Goto, zalo, row, refresh, history
<1>5a. ASSUME NEW c \in Calls, ErrorAnswer(c) PROVE LivePairIsKept'
  BY <1>5a DEF TypeOK, PairsOK, NumbersOK, CallsOK, RestOK, CarriedIsFresh, CarriedIsNewest, LivePairIsKept, ErrorAnswer, Goto, zalo, row, refresh, history
<1>6. ASSUME NEW c \in Calls, Unreachable(c) PROVE LivePairIsKept'
  BY <1>6 DEF TypeOK, PairsOK, NumbersOK, CallsOK, RestOK, CarriedIsFresh, CarriedIsNewest, LivePairIsKept, Unreachable, Goto, zalo, row, refresh, history
<1>7. ASSUME NEW c \in Calls, Persist(c) PROVE LivePairIsKept'
  <2>1. SUFFICES ASSUME NEW p \in live
                 PROVE  \/ p \in {stored', session'} \cup lost'
                        \/ \E d \in Calls : pc'[d] = "persist" /\ got'[d] = p
    BY <1>7 DEF LivePairIsKept, Persist, zalo
  <2>2. session' = session /\ stored' = got[c] /\ lost \subseteq lost'
    BY <1>7 DEF Persist, Rotated, zalo
  <2>3. CASE p = stored
    BY <1>7, <2>2, <2>3 DEF CarriedIsNewest, Persist
  <2>4. ASSUME NEW d \in Calls, At(d, "persist"), got[d] = p, d # c
        PROVE  pc'[d] = "persist" /\ got'[d] = p
    BY <1>7, <2>4 DEF TypeOK, NumbersOK, CallsOK, Persist, EndRefresh, Party
  <2>. QED
    BY <2>2, <2>3, <2>4 DEF LivePairIsKept
<1>8. ASSUME NEW c \in Calls, PersistFails(c) PROVE LivePairIsKept'
  BY <1>8 DEF TypeOK, PairsOK, NumbersOK, CallsOK, RestOK, CarriedIsFresh, CarriedIsNewest, LivePairIsKept, PersistFails, Goto, zalo, row, refresh, history
<1>9. ASSUME NEW c \in Calls, Reread(c) PROVE LivePairIsKept'
  BY <1>9 DEF TypeOK, PairsOK, NumbersOK, CallsOK, RestOK, CarriedIsFresh, CarriedIsNewest, LivePairIsKept, Reread, Reconsider, Goto, zalo, row, refresh, history
<1>10. ASSUME NEW c \in Calls, GiveUp(c) PROVE LivePairIsKept'
  BY <1>10 DEF TypeOK, PairsOK, NumbersOK, CallsOK, RestOK, CarriedIsFresh, CarriedIsNewest, LivePairIsKept, GiveUp, EndRefresh, Party, zalo, row, refresh, history
<1>10a. ASSUME NEW c \in Calls, RereadFails(c) PROVE LivePairIsKept'
  BY <1>10a DEF TypeOK, PairsOK, NumbersOK, CallsOK, RestOK, CarriedIsFresh, CarriedIsNewest, LivePairIsKept, RereadFails, EndRefresh, Party, zalo, row, refresh, history
<1>11. ASSUME Revoke PROVE LivePairIsKept'
  BY <1>11 DEF TypeOK, PairsOK, NumbersOK, CallsOK, RestOK, CarriedIsFresh, CarriedIsNewest, LivePairIsKept, Revoke, zalo, row, refresh, history
<1>12. ASSUME Authorize PROVE LivePairIsKept'
  <2>1. \A p \in live' : p = session' \/ p \in live
    BY <1>12 DEF Authorize
  <2>2. UNCHANGED <<stored, lost, got, pc>> /\ session = 0
    BY <1>12 DEF Authorize, row, refresh
  <2>3. 0 \notin live
    BY DEF TypeOK, PairsOK
  <2>. QED
    BY <2>1, <2>2, <2>3 DEF LivePairIsKept
<1>13. ASSUME Reauthorize PROVE LivePairIsKept'
  BY <1>13 DEF TypeOK, PairsOK, NumbersOK, CallsOK, RestOK, CarriedIsFresh, CarriedIsNewest, LivePairIsKept, Reauthorize, zalo, row, refresh, history
<1>14. ASSUME NEW s \in Servers, Crash(s) PROVE LivePairIsKept'
  BY <1>14 DEF TypeOK, PairsOK, NumbersOK, CallsOK, RestOK, CarriedIsFresh, CarriedIsNewest, LivePairIsKept, Crash, Finish, zalo, row, refresh, history
<1>. QED
  BY <1>1, <1>2, <1>3, <1>4, <1>5, <1>5a, <1>6, <1>7, <1>8, <1>9, <1>10, <1>10a, <1>11, <1>12, <1>13, <1>14, Sorted DEF Step, Other

\* A pair that works stays within reach of the row.
LEMMA AliveStep == ASSUME TypeOK, CarriedIsFresh, CarriedIsNewest, Alive, [Next]_vars PROVE Alive'
<1>1. ASSUME Aside PROVE Alive'
  BY <1>1 DEF TypeOK, PairsOK, NumbersOK, CallsOK, RestOK, CarriedIsFresh, CarriedIsNewest, Alive, Aside, history
<1>2. ASSUME NEW c \in Calls, Lead(c) PROVE Alive'
  BY <1>2 DEF TypeOK, PairsOK, NumbersOK, CallsOK, RestOK, CarriedIsFresh, CarriedIsNewest, Alive, Lead, Reconsider, Goto, zalo, row, refresh, history
<1>3. ASSUME NEW c \in Calls, Granted(c) PROVE Alive'
  BY <1>3, Exchanged DEF TypeOK, PairsOK, NumbersOK, CallsOK, RestOK, CarriedIsFresh, CarriedIsNewest, Alive, Granted, Goto, Exchange, IssuedUnder, zalo, row, refresh, history
<1>4. ASSUME NEW c \in Calls, AnswerLost(c) PROVE Alive'
  BY <1>4, Exchanged DEF TypeOK, PairsOK, NumbersOK, CallsOK, RestOK, CarriedIsFresh, CarriedIsNewest, Alive, AnswerLost, Goto, Exchange, IssuedUnder, zalo, row, refresh, history
<1>5. ASSUME NEW c \in Calls, Refused(c) PROVE Alive'
  BY <1>5 DEF TypeOK, PairsOK, NumbersOK, CallsOK, RestOK, CarriedIsFresh, CarriedIsNewest, Alive, Refused, Goto, zalo, row, refresh, history
<1>5a. ASSUME NEW c \in Calls, ErrorAnswer(c) PROVE Alive'
  BY <1>5a DEF TypeOK, PairsOK, NumbersOK, CallsOK, RestOK, CarriedIsFresh, CarriedIsNewest, Alive, ErrorAnswer, Goto, zalo, row, refresh, history
<1>6. ASSUME NEW c \in Calls, Unreachable(c) PROVE Alive'
  BY <1>6 DEF TypeOK, PairsOK, NumbersOK, CallsOK, RestOK, CarriedIsFresh, CarriedIsNewest, Alive, Unreachable, Goto, zalo, row, refresh, history
<1>7. ASSUME NEW c \in Calls, Persist(c) PROVE Alive'
  BY <1>7 DEF TypeOK, PairsOK, NumbersOK, CallsOK, RestOK, CarriedIsFresh, CarriedIsNewest, Alive, Persist, EndRefresh, Party, Rotated, zalo, row, refresh, history
<1>8. ASSUME NEW c \in Calls, PersistFails(c) PROVE Alive'
  BY <1>8 DEF TypeOK, PairsOK, NumbersOK, CallsOK, RestOK, CarriedIsFresh, CarriedIsNewest, Alive, PersistFails, Goto, zalo, row, refresh, history
<1>9. ASSUME NEW c \in Calls, Reread(c) PROVE Alive'
  BY <1>9 DEF TypeOK, PairsOK, NumbersOK, CallsOK, RestOK, CarriedIsFresh, CarriedIsNewest, Alive, Reread, Reconsider, Goto, zalo, row, refresh, history
<1>10. ASSUME NEW c \in Calls, GiveUp(c) PROVE Alive'
  BY <1>10 DEF TypeOK, PairsOK, NumbersOK, CallsOK, RestOK, CarriedIsFresh, CarriedIsNewest, Alive, GiveUp, EndRefresh, Party, zalo, row, refresh, history
<1>10a. ASSUME NEW c \in Calls, RereadFails(c) PROVE Alive'
  BY <1>10a DEF TypeOK, PairsOK, NumbersOK, CallsOK, RestOK, CarriedIsFresh, CarriedIsNewest, Alive, RereadFails, EndRefresh, Party, zalo, row, refresh, history
<1>11. ASSUME Revoke PROVE Alive'
  BY <1>11 DEF TypeOK, PairsOK, NumbersOK, CallsOK, RestOK, CarriedIsFresh, CarriedIsNewest, Alive, Revoke, zalo, row, refresh, history
<1>12. ASSUME Authorize PROVE Alive'
  BY <1>12, Authorized DEF TypeOK, PairsOK, NumbersOK, CallsOK, RestOK, CarriedIsFresh, CarriedIsNewest, Alive, Authorize, IssuedUnder, zalo, row, refresh, history
<1>13. ASSUME Reauthorize PROVE Alive'
  BY <1>13 DEF TypeOK, PairsOK, NumbersOK, CallsOK, RestOK, CarriedIsFresh, CarriedIsNewest, Alive, Reauthorize, zalo, row, refresh, history
<1>14. ASSUME NEW s \in Servers, Crash(s) PROVE Alive'
  <2>1. UNCHANGED <<live, stored, got, revoked>>
    BY <1>14 DEF Crash, zalo, row, refresh
  <2>2. lost' = lost \cup {got[c] : c \in {d \in {x \in Calls : ServerOf[x] = s} : At(d, "persist")}}
    BY <1>14 DEF Crash
  <2>3. ASSUME NEW d \in Calls, At(d, "persist"), lost' = {} PROVE pc'[d] = "persist"
    <3>1. ServerOf[d] # s
      BY <2>2, <2>3
    <3>2. pc'[d] = pc[d]
      BY <1>14, <3>1 DEF Crash, Finish, TypeOK, CallsOK
    <3>. QED
      BY <2>3, <3>2
  <2>4. lost' = {} => lost = {}
    BY <2>2
  <2>. QED
    BY <2>1, <2>3, <2>4 DEF Alive
<1>. QED
  BY <1>1, <1>2, <1>3, <1>4, <1>5, <1>5a, <1>6, <1>7, <1>8, <1>9, <1>10, <1>10a, <1>11, <1>12, <1>13, <1>14, Sorted DEF Step, Other

\* Another server's exchange is noted.
LEMMA UndisturbedStep == ASSUME TypeOK, Undisturbed, [Next]_vars PROVE Undisturbed'
<1>1. ASSUME Aside PROVE Undisturbed'
  <2>1. \A d \in Calls : Refreshing(d)' => pc'[d] = pc[d]
    BY <1>1 DEF Aside
  <2>2. overtaken' = overtaken
    BY <1>1 DEF Aside, history
  <2>. QED
    BY <2>1, <2>2 DEF Undisturbed
<1>2. ASSUME NEW c \in Calls, Lead(c) \/ Reread(c) PROVE Undisturbed'
  <2>1. /\ pc'[c] = "ask" /\ \A d \in Calls \ {c} : pc'[d] = pc[d]
        /\ Reconsider(c)
    BY <1>2 DEF TypeOK, CallsOK, Lead, Reread, Goto
  <2>2. SUFFICES ASSUME NEW e \in Calls \ overtaken', Refreshing(e)', NEW d \in Elsewhere(e)
                 PROVE  ~At(d, "persist")'
    BY DEF Undisturbed, Elsewhere
  <2>3. d \in Calls /\ (At(d, "persist")' => At(d, "persist"))
    BY <2>1 DEF Elsewhere
  <2>4. CASE e = c
    BY <2>1, <2>2, <2>3, <2>4 DEF Reconsider
  <2>5. CASE e # c
    <3>1. e \notin overtaken
      BY <2>1, <2>2, <2>5 DEF Reconsider
    <3>. QED
      BY <2>1, <2>2, <2>3, <2>5, <3>1 DEF Undisturbed
  <2>. QED
    BY <2>4, <2>5
<1>3. ASSUME NEW c \in Calls, Granted(c) PROVE Undisturbed'
  <2>1. overtaken' = overtaken \cup {d \in Elsewhere(c) : Refreshing(d)}
    BY <1>3 DEF Granted, Exchange
  <2>2. \A d \in Calls \ {c} : pc'[d] = pc[d]
    BY <1>3 DEF TypeOK, CallsOK, Granted, Goto
  <2>3. Refreshing(c)
    BY <1>3 DEF Granted, Exchange
  <2>. QED
    BY <2>1, <2>2, <2>3 DEF Undisturbed
<1>4. ASSUME NEW c \in Calls, AnswerLost(c) PROVE Undisturbed'
  <2>1. overtaken' = overtaken \cup {d \in Elsewhere(c) : Refreshing(d)}
    BY <1>4 DEF AnswerLost, Exchange
  <2>2. \A d \in Calls \ {c} : pc'[d] = pc[d]
    BY <1>4 DEF TypeOK, CallsOK, AnswerLost, Goto
  <2>3. Refreshing(c)
    BY <1>4 DEF AnswerLost, Exchange
  <2>. QED
    BY <2>1, <2>2, <2>3 DEF Undisturbed
<1>5. ASSUME NEW c \in Calls, Refused(c) PROVE Undisturbed'
  BY <1>5 DEF TypeOK, PairsOK, NumbersOK, CallsOK, RestOK, Undisturbed, Refused, Goto, zalo, row, refresh, history
<1>5a. ASSUME NEW c \in Calls, ErrorAnswer(c) PROVE Undisturbed'
  BY <1>5a DEF TypeOK, PairsOK, NumbersOK, CallsOK, RestOK, Undisturbed, ErrorAnswer, Goto, zalo, row, refresh, history
<1>6. ASSUME NEW c \in Calls, Unreachable(c) PROVE Undisturbed'
  BY <1>6 DEF TypeOK, PairsOK, NumbersOK, CallsOK, RestOK, Undisturbed, Unreachable, Goto, zalo, row, refresh, history
<1>7. ASSUME NEW c \in Calls, Persist(c) PROVE Undisturbed'
  BY <1>7 DEF TypeOK, PairsOK, NumbersOK, CallsOK, RestOK, Undisturbed, Persist, EndRefresh, Party, Rotated, zalo, row, refresh, history
<1>8. ASSUME NEW c \in Calls, PersistFails(c) PROVE Undisturbed'
  BY <1>8 DEF TypeOK, PairsOK, NumbersOK, CallsOK, RestOK, Undisturbed, PersistFails, Goto, zalo, row, refresh, history
<1>10. ASSUME NEW c \in Calls, GiveUp(c) PROVE Undisturbed'
  BY <1>10 DEF TypeOK, PairsOK, NumbersOK, CallsOK, RestOK, Undisturbed, GiveUp, EndRefresh, Party, zalo, row, refresh, history
<1>10a. ASSUME NEW c \in Calls, RereadFails(c) PROVE Undisturbed'
  BY <1>10a DEF TypeOK, PairsOK, NumbersOK, CallsOK, RestOK, Undisturbed, RereadFails, EndRefresh, Party, zalo, row, refresh, history
<1>11. ASSUME Revoke PROVE Undisturbed'
  BY <1>11 DEF TypeOK, PairsOK, NumbersOK, CallsOK, RestOK, Undisturbed, Revoke, zalo, row, refresh, history
<1>12. ASSUME Authorize PROVE Undisturbed'
  BY <1>12, Authorized DEF TypeOK, PairsOK, NumbersOK, CallsOK, RestOK, Undisturbed, Authorize, IssuedUnder, zalo, row, refresh, history
<1>13. ASSUME Reauthorize PROVE Undisturbed'
  BY <1>13 DEF TypeOK, PairsOK, NumbersOK, CallsOK, RestOK, Undisturbed, Reauthorize, zalo, row, refresh, history
<1>14. ASSUME NEW s \in Servers, Crash(s) PROVE Undisturbed'
  BY <1>14 DEF TypeOK, PairsOK, NumbersOK, CallsOK, RestOK, Undisturbed, Crash, Finish, zalo, row, refresh, history
<1>. QED
  BY <1>1, <1>2, <1>3, <1>4, <1>5, <1>5a, <1>6, <1>7, <1>8, <1>10, <1>10a, <1>11, <1>12, <1>13, <1>14, Sorted DEF Step, Other

\* Only new pairs become live.
LEMMA RefusedIsDeadStep == ASSUME TypeOK, RefusedIsDead, [Next]_vars PROVE RefusedIsDead'
<1>1. ASSUME Aside PROVE RefusedIsDead'
  BY <1>1 DEF TypeOK, PairsOK, NumbersOK, CallsOK, RestOK, RefusedIsDead, Aside, history
<1>2. ASSUME NEW c \in Calls, Lead(c) PROVE RefusedIsDead'
  BY <1>2 DEF TypeOK, PairsOK, NumbersOK, CallsOK, RestOK, RefusedIsDead, Lead, Reconsider, Goto, zalo, row, refresh, history
<1>3. ASSUME NEW c \in Calls, Granted(c) PROVE RefusedIsDead'
  <2>1. used' = used /\ live' \subseteq live \cup {issued'} /\ c \in Calls
    BY <1>3 DEF Granted, Exchange
  <2>2. \A d \in Calls : used[d] # issued'
    BY <1>3, Exchanged DEF TypeOK, NumbersOK, Granted, IssuedUnder
  <2>3. \A d \in dead' \ misread' : At(d, "caught")' => d \in dead \ misread /\ At(d, "caught")
    BY <1>3 DEF TypeOK, CallsOK, RestOK, Granted, Goto
  <2>4. dead \subseteq Calls
    BY DEF TypeOK, RestOK
  <2>. QED
    BY <2>1, <2>2, <2>3, <2>4 DEF RefusedIsDead
<1>4. ASSUME NEW c \in Calls, AnswerLost(c) PROVE RefusedIsDead'
  <2>1. used' = used /\ live' \subseteq live \cup {issued'} /\ c \in Calls
    BY <1>4 DEF AnswerLost, Exchange
  <2>2. \A d \in Calls : used[d] # issued'
    BY <1>4, Exchanged DEF TypeOK, NumbersOK, AnswerLost, IssuedUnder
  <2>3. \A d \in dead' \ misread' : At(d, "caught")' =>
          d = c \/ (d \in dead \ misread /\ At(d, "caught"))
    BY <1>4 DEF TypeOK, CallsOK, RestOK, AnswerLost, Goto
  <2>5. used[c] \notin live'
    BY <1>4, <2>2 DEF AnswerLost, Exchange
  <2>4. dead \subseteq Calls
    BY DEF TypeOK, RestOK
  <2>. QED
    BY <2>1, <2>2, <2>3, <2>4, <2>5 DEF RefusedIsDead
<1>5. ASSUME NEW c \in Calls, Refused(c) PROVE RefusedIsDead'
  BY <1>5 DEF TypeOK, PairsOK, NumbersOK, CallsOK, RestOK, RefusedIsDead, Refused, Goto, zalo, row, refresh, history
<1>5a. ASSUME NEW c \in Calls, ErrorAnswer(c) PROVE RefusedIsDead'
  BY <1>5a DEF TypeOK, PairsOK, NumbersOK, CallsOK, RestOK, RefusedIsDead, ErrorAnswer, Goto, zalo, row, refresh, history
<1>6. ASSUME NEW c \in Calls, Unreachable(c) PROVE RefusedIsDead'
  BY <1>6 DEF TypeOK, PairsOK, NumbersOK, CallsOK, RestOK, RefusedIsDead, Unreachable, Goto, zalo, row, refresh, history
<1>7. ASSUME NEW c \in Calls, Persist(c) PROVE RefusedIsDead'
  BY <1>7 DEF TypeOK, PairsOK, NumbersOK, CallsOK, RestOK, RefusedIsDead, Persist, EndRefresh, Party, Rotated, zalo, row, refresh, history
<1>8. ASSUME NEW c \in Calls, PersistFails(c) PROVE RefusedIsDead'
  BY <1>8 DEF TypeOK, PairsOK, NumbersOK, CallsOK, RestOK, RefusedIsDead, PersistFails, Goto, zalo, row, refresh, history
<1>9. ASSUME NEW c \in Calls, Reread(c) PROVE RefusedIsDead'
  BY <1>9 DEF TypeOK, PairsOK, NumbersOK, CallsOK, RestOK, RefusedIsDead, Reread, Reconsider, Goto, zalo, row, refresh, history
<1>10. ASSUME NEW c \in Calls, GiveUp(c) PROVE RefusedIsDead'
  BY <1>10 DEF TypeOK, PairsOK, NumbersOK, CallsOK, RestOK, RefusedIsDead, GiveUp, EndRefresh, Party, zalo, row, refresh, history
<1>10a. ASSUME NEW c \in Calls, RereadFails(c) PROVE RefusedIsDead'
  BY <1>10a DEF TypeOK, PairsOK, NumbersOK, CallsOK, RestOK, RefusedIsDead, RereadFails, EndRefresh, Party, zalo, row, refresh, history
<1>11. ASSUME Revoke PROVE RefusedIsDead'
  BY <1>11 DEF TypeOK, PairsOK, NumbersOK, CallsOK, RestOK, RefusedIsDead, Revoke, zalo, row, refresh, history
<1>12. ASSUME Authorize PROVE RefusedIsDead'
  <2>1. UNCHANGED <<used, dead, misread, pc>> /\ live' \subseteq live \cup {issued'}
    BY <1>12 DEF Authorize, refresh
  <2>2. \A d \in Calls : used[d] # issued'
    BY <1>12, Authorized DEF TypeOK, NumbersOK, IssuedUnder
  <2>3. dead \subseteq Calls
    BY DEF TypeOK, RestOK
  <2>. QED
    BY <2>1, <2>2, <2>3 DEF RefusedIsDead
<1>13. ASSUME Reauthorize PROVE RefusedIsDead'
  BY <1>13 DEF TypeOK, PairsOK, NumbersOK, CallsOK, RestOK, RefusedIsDead, Reauthorize, zalo, row, refresh, history
<1>14. ASSUME NEW s \in Servers, Crash(s) PROVE RefusedIsDead'
  BY <1>14 DEF TypeOK, PairsOK, NumbersOK, CallsOK, RestOK, RefusedIsDead, Crash, Finish, zalo, row, refresh, history
<1>. QED
  BY <1>1, <1>2, <1>3, <1>4, <1>5, <1>5a, <1>6, <1>7, <1>8, <1>9, <1>10, <1>10a, <1>11, <1>12, <1>13, <1>14, Sorted DEF Step, Other

\* The second try belongs to a refresh.
LEMMA AgainRefreshesStep == ASSUME TypeOK, AgainRefreshes, [Next]_vars PROVE AgainRefreshes'
<1>1. ASSUME Aside PROVE AgainRefreshes'
  BY <1>1 DEF TypeOK, PairsOK, NumbersOK, CallsOK, RestOK, AgainRefreshes, Aside, history
<1>2. ASSUME NEW c \in Calls, Lead(c) PROVE AgainRefreshes'
  BY <1>2 DEF TypeOK, PairsOK, NumbersOK, CallsOK, RestOK, AgainRefreshes, Lead, Reconsider, Goto, zalo, row, refresh, history
<1>3. ASSUME NEW c \in Calls, Granted(c) PROVE AgainRefreshes'
  BY <1>3, Exchanged DEF TypeOK, PairsOK, NumbersOK, CallsOK, RestOK, AgainRefreshes, Granted, Goto, Exchange, IssuedUnder, zalo, row, refresh, history
<1>4. ASSUME NEW c \in Calls, AnswerLost(c) PROVE AgainRefreshes'
  BY <1>4, Exchanged DEF TypeOK, PairsOK, NumbersOK, CallsOK, RestOK, AgainRefreshes, AnswerLost, Goto, Exchange, IssuedUnder, zalo, row, refresh, history
<1>5. ASSUME NEW c \in Calls, Refused(c) PROVE AgainRefreshes'
  BY <1>5 DEF TypeOK, PairsOK, NumbersOK, CallsOK, RestOK, AgainRefreshes, Refused, Goto, zalo, row, refresh, history
<1>5a. ASSUME NEW c \in Calls, ErrorAnswer(c) PROVE AgainRefreshes'
  BY <1>5a DEF TypeOK, PairsOK, NumbersOK, CallsOK, RestOK, AgainRefreshes, ErrorAnswer, Goto, zalo, row, refresh, history
<1>6. ASSUME NEW c \in Calls, Unreachable(c) PROVE AgainRefreshes'
  BY <1>6 DEF TypeOK, PairsOK, NumbersOK, CallsOK, RestOK, AgainRefreshes, Unreachable, Goto, zalo, row, refresh, history
<1>7. ASSUME NEW c \in Calls, Persist(c) PROVE AgainRefreshes'
  BY <1>7 DEF TypeOK, PairsOK, NumbersOK, CallsOK, RestOK, AgainRefreshes, Persist, EndRefresh, Party, Rotated, zalo, row, refresh, history
<1>8. ASSUME NEW c \in Calls, PersistFails(c) PROVE AgainRefreshes'
  BY <1>8 DEF TypeOK, PairsOK, NumbersOK, CallsOK, RestOK, AgainRefreshes, PersistFails, Goto, zalo, row, refresh, history
<1>9. ASSUME NEW c \in Calls, Reread(c) PROVE AgainRefreshes'
  BY <1>9 DEF TypeOK, PairsOK, NumbersOK, CallsOK, RestOK, AgainRefreshes, Reread, Reconsider, Goto, zalo, row, refresh, history
<1>10. ASSUME NEW c \in Calls, GiveUp(c) PROVE AgainRefreshes'
  BY <1>10 DEF TypeOK, PairsOK, NumbersOK, CallsOK, RestOK, AgainRefreshes, GiveUp, EndRefresh, Party, zalo, row, refresh, history
<1>10a. ASSUME NEW c \in Calls, RereadFails(c) PROVE AgainRefreshes'
  BY <1>10a DEF TypeOK, PairsOK, NumbersOK, CallsOK, RestOK, AgainRefreshes, RereadFails, EndRefresh, Party, zalo, row, refresh, history
<1>11. ASSUME Revoke PROVE AgainRefreshes'
  BY <1>11 DEF TypeOK, PairsOK, NumbersOK, CallsOK, RestOK, AgainRefreshes, Revoke, zalo, row, refresh, history
<1>12. ASSUME Authorize PROVE AgainRefreshes'
  BY <1>12, Authorized DEF TypeOK, PairsOK, NumbersOK, CallsOK, RestOK, AgainRefreshes, Authorize, IssuedUnder, zalo, row, refresh, history
<1>13. ASSUME Reauthorize PROVE AgainRefreshes'
  BY <1>13 DEF TypeOK, PairsOK, NumbersOK, CallsOK, RestOK, AgainRefreshes, Reauthorize, zalo, row, refresh, history
<1>14. ASSUME NEW s \in Servers, Crash(s) PROVE AgainRefreshes'
  BY <1>14 DEF TypeOK, PairsOK, NumbersOK, CallsOK, RestOK, AgainRefreshes, Crash, Finish, zalo, row, refresh, history
<1>. QED
  BY <1>1, <1>2, <1>3, <1>4, <1>5, <1>5a, <1>6, <1>7, <1>8, <1>9, <1>10, <1>10a, <1>11, <1>12, <1>13, <1>14, Sorted DEF Step, Other

\* The row does not change under a second try.
LEMMA SecondTryIsStoredStep == ASSUME TypeOK, OnePerServer, Undisturbed, AgainRefreshes, SecondTryIsStored, [Next]_vars PROVE SecondTryIsStored'
<1>1. ASSUME Aside PROVE SecondTryIsStored'
  BY <1>1 DEF TypeOK, PairsOK, NumbersOK, CallsOK, RestOK, OnePerServer, Undisturbed, AgainRefreshes, SecondTryIsStored, Retries, Aside, history
<1>2. ASSUME NEW c \in Calls, Lead(c) PROVE SecondTryIsStored'
  BY <1>2 DEF TypeOK, PairsOK, NumbersOK, CallsOK, RestOK, OnePerServer, Undisturbed, AgainRefreshes, SecondTryIsStored, Retries, Lead, Reconsider, Goto, zalo, row, refresh, history
<1>3. ASSUME NEW c \in Calls, Granted(c) PROVE SecondTryIsStored'
  BY <1>3, Exchanged DEF TypeOK, PairsOK, NumbersOK, CallsOK, RestOK, OnePerServer, Undisturbed, AgainRefreshes, SecondTryIsStored, Retries, Granted, Goto, Exchange, IssuedUnder, zalo, row, refresh, history
<1>4. ASSUME NEW c \in Calls, AnswerLost(c) PROVE SecondTryIsStored'
  BY <1>4, Exchanged DEF TypeOK, PairsOK, NumbersOK, CallsOK, RestOK, OnePerServer, Undisturbed, AgainRefreshes, SecondTryIsStored, Retries, AnswerLost, Goto, Exchange, IssuedUnder, zalo, row, refresh, history
<1>5. ASSUME NEW c \in Calls, Refused(c) PROVE SecondTryIsStored'
  BY <1>5 DEF TypeOK, PairsOK, NumbersOK, CallsOK, RestOK, OnePerServer, Undisturbed, AgainRefreshes, SecondTryIsStored, Retries, Refused, Goto, zalo, row, refresh, history
<1>5a. ASSUME NEW c \in Calls, ErrorAnswer(c) PROVE SecondTryIsStored'
  BY <1>5a DEF TypeOK, PairsOK, NumbersOK, CallsOK, RestOK, OnePerServer, Undisturbed, AgainRefreshes, SecondTryIsStored, Retries, ErrorAnswer, Goto, zalo, row, refresh, history
<1>6. ASSUME NEW c \in Calls, Unreachable(c) PROVE SecondTryIsStored'
  BY <1>6 DEF TypeOK, PairsOK, NumbersOK, CallsOK, RestOK, OnePerServer, Undisturbed, AgainRefreshes, SecondTryIsStored, Retries, Unreachable, Goto, zalo, row, refresh, history
<1>7. ASSUME NEW c \in Calls, Persist(c) PROVE SecondTryIsStored'
  BY <1>7 DEF TypeOK, PairsOK, NumbersOK, CallsOK, RestOK, OnePerServer, Undisturbed, AgainRefreshes, SecondTryIsStored, Retries, Persist, EndRefresh, Party, Rotated, zalo, row, refresh, history
<1>8. ASSUME NEW c \in Calls, PersistFails(c) PROVE SecondTryIsStored'
  BY <1>8 DEF TypeOK, PairsOK, NumbersOK, CallsOK, RestOK, OnePerServer, Undisturbed, AgainRefreshes, SecondTryIsStored, Retries, PersistFails, Goto, zalo, row, refresh, history
<1>9. ASSUME NEW c \in Calls, Reread(c) PROVE SecondTryIsStored'
  <2>1. /\ UNCHANGED <<stored, lost>> /\ used' = [used EXCEPT ![c] = stored]
        /\ again' = again \cup {c} /\ overtaken \subseteq overtaken' \cup {c}
        /\ pc' = [pc EXCEPT ![c] = "ask"]
    BY <1>9 DEF Reread, Reconsider, Goto, row
  <2>2. used'[c] = stored
    BY <2>1 DEF TypeOK, NumbersOK
  <2>3. \A e \in Calls \ {c} : used'[e] = used[e] /\ pc'[e] = pc[e]
    BY <2>1 DEF TypeOK, NumbersOK, CallsOK
  <2>. QED
    BY <2>1, <2>2, <2>3 DEF SecondTryIsStored, TypeOK, RestOK
<1>10. ASSUME NEW c \in Calls, GiveUp(c) PROVE SecondTryIsStored'
  BY <1>10 DEF TypeOK, PairsOK, NumbersOK, CallsOK, RestOK, OnePerServer, Undisturbed, AgainRefreshes, SecondTryIsStored, Retries, GiveUp, EndRefresh, Party, zalo, row, refresh, history
<1>10a. ASSUME NEW c \in Calls, RereadFails(c) PROVE SecondTryIsStored'
  BY <1>10a DEF TypeOK, PairsOK, NumbersOK, CallsOK, RestOK, OnePerServer, Undisturbed, AgainRefreshes, SecondTryIsStored, Retries, RereadFails, EndRefresh, Party, zalo, row, refresh, history
<1>11. ASSUME Revoke PROVE SecondTryIsStored'
  BY <1>11 DEF TypeOK, PairsOK, NumbersOK, CallsOK, RestOK, OnePerServer, Undisturbed, AgainRefreshes, SecondTryIsStored, Retries, Revoke, zalo, row, refresh, history
<1>12. ASSUME Authorize PROVE SecondTryIsStored'
  BY <1>12, Authorized DEF TypeOK, PairsOK, NumbersOK, CallsOK, RestOK, OnePerServer, Undisturbed, AgainRefreshes, SecondTryIsStored, Retries, Authorize, IssuedUnder, zalo, row, refresh, history
<1>13. ASSUME Reauthorize PROVE SecondTryIsStored'
  BY <1>13 DEF TypeOK, PairsOK, NumbersOK, CallsOK, RestOK, OnePerServer, Undisturbed, AgainRefreshes, SecondTryIsStored, Retries, Reauthorize, zalo, row, refresh, history
<1>14. ASSUME NEW s \in Servers, Crash(s) PROVE SecondTryIsStored'
  BY <1>14 DEF TypeOK, PairsOK, NumbersOK, CallsOK, RestOK, OnePerServer, Undisturbed, AgainRefreshes, SecondTryIsStored, Retries, Crash, Finish, zalo, row, refresh, history
<1>. QED
  BY <1>1, <1>2, <1>3, <1>4, <1>5, <1>5a, <1>6, <1>7, <1>8, <1>9, <1>10, <1>10a, <1>11, <1>12, <1>13, <1>14, Sorted DEF Step, Other

-----------------------------------------------------------------------------
(* Marks. *)

\* A refresh that finds the channel dead, while nothing was lost, was overtaken or
\* misread its last answer: otherwise nobody carries a pair, the row's pair works,
\* and it is the one that was refused.
LEMMA DeadForCause ==
  ASSUME TypeOK, OnePerServer, Alive, Undisturbed, RefusedIsDead, SecondTryIsStored,
         NEW c \in Calls, GiveUp(c), c \in dead, lost = {}, ~revoked
  PROVE  c \in overtaken \cup misread
<1>2. SUFFICES ASSUME c \notin overtaken, c \notin misread PROVE FALSE
  OBVIOUS
<1>1. At(c, "caught") /\ ~Retries(c) /\ used[c] \notin live
  BY <1>2 DEF GiveUp, RefusedIsDead
<1>3. \A d \in Calls : ServerOf[d] = ServerOf[c] /\ Refreshing(d) => d = c
  BY <1>1 DEF OnePerServer
<1>4. \A d \in Calls : ~At(d, "persist")
  BY <1>1, <1>2, <1>3 DEF Undisturbed
<1>5. stored \in live
  BY <1>4 DEF Alive
<1>6. used[c] = stored
  BY <1>1, <1>2 DEF Retries, SecondTryIsStored
<1>. QED
  BY <1>1, <1>5, <1>6

\* What is lost or ended stays so; a call that is done stays done, with the
\* cause of its mark.
LEMMA HistoryGrows ==
  ASSUME TypeOK, [Next]_vars
  PROVE  /\ lost' = {} => lost = {}
         /\ ~revoked' => ~revoked
         /\ Done \subseteq Done'
         /\ (overtaken \cup misread) \cap Done \subseteq overtaken' \cup misread'
<1>. DEFINE Grows == /\ lost \subseteq lost'
                     /\ revoked => revoked'
                     /\ Done \subseteq Done'
                     /\ (overtaken \cup misread) \cap Done \subseteq overtaken' \cup misread'
<1>1. ASSUME Aside PROVE Grows
  BY <1>1 DEF Aside, history, Done
<1>2. ASSUME NEW c \in Calls, Step(c) PROVE Grows
  <2>1. CASE Lead(c) \/ Reread(c)
    <3>1. UNCHANGED <<lost, revoked>> /\ Reconsider(c) /\ c \notin Done /\ Goto(c, "ask")
      BY <2>1 DEF Lead, Reread, Done
    <3>. QED
      BY <3>1 DEF Reconsider, Done, Goto, TypeOK, CallsOK
  <2>2. CASE Granted(c) \/ AnswerLost(c)
    <3>1. /\ lost \subseteq lost' /\ overtaken \subseteq overtaken' /\ UNCHANGED <<revoked, misread>>
          /\ c \notin Done /\ (Goto(c, "persist") \/ Goto(c, "caught"))
      BY <2>2 DEF Granted, AnswerLost, Exchange, Done
    <3>. QED
      BY <3>1 DEF Done, Goto, TypeOK, CallsOK
  <2>3. CASE Refused(c) \/ ErrorAnswer(c) \/ Unreachable(c) \/ PersistFails(c)
    <3>1. /\ lost \subseteq lost' /\ misread \subseteq misread' /\ UNCHANGED <<revoked, overtaken>>
          /\ c \notin Done /\ Goto(c, "caught")
      BY <2>3 DEF Refused, ErrorAnswer, Unreachable, PersistFails, history, Done
    <3>. QED
      BY <3>1 DEF Done, Goto, TypeOK, CallsOK
  <2>4. CASE Persist(c) \/ GiveUp(c) \/ RereadFails(c)
    <3>1. /\ lost \subseteq lost' /\ UNCHANGED <<revoked, overtaken, misread>>
      BY <2>4 DEF Persist, GiveUp, RereadFails, history
    <3>2. \A d \in Done : d \notin Party(c)
      BY <2>4 DEF Persist, GiveUp, RereadFails, Done, Party
    <3>3. \A d \in Done : pc'[d] = pc[d]
      BY <2>4, <3>2 DEF Persist, GiveUp, RereadFails, EndRefresh, Done
    <3>. QED
      BY <3>1, <3>3 DEF Done
  <2>. QED
    BY <1>2, <2>1, <2>2, <2>3, <2>4 DEF Step
<1>3. ASSUME Other PROVE Grows
  <2>1. CASE Revoke \/ Authorize \/ Reauthorize
    BY <2>1 DEF Revoke, Authorize, Reauthorize, Done
  <2>2. ASSUME NEW s \in Servers, Crash(s) PROVE Grows
    <3>1. UNCHANGED <<revoked, overtaken, misread>> /\ lost \subseteq lost'
      BY <2>2 DEF Crash
    <3>2. Done \subseteq Done'
      BY <2>2 DEF Crash, Finish, Done
    <3>. QED
      BY <3>1, <3>2
  <2>. QED
    BY <1>3, <2>1, <2>2 DEF Other
<1>4. lost \subseteq lost' => (lost' = {} => lost = {})
  OBVIOUS
<1>. QED
  BY <1>1, <1>2, <1>3, <1>4, Sorted

\* Where marks come from.
Traced ==
  /\ \A d \in Calls : seen'[d] \in {seen[d], flaggedBy, NoCall}
  /\ flaggedBy' \in {flaggedBy, NoCall} \cup marks \cup {seen[d] : d \in Calls}
  /\ \A d \in marks' \ marks : d \in dead /\ GiveUp(d)

\* Every step says where.
LEMMA MarksTraced == ASSUME TypeOK, [Next]_vars PROVE Traced
<1>1. ASSUME NEW c \in Calls, Guard(c) PROVE Traced
  BY <1>1 DEF TypeOK, CallsOK, RestOK, Traced, Guard, row
<1>2. ASSUME NEW c \in Calls, UseCached(c) PROVE Traced
  BY <1>2 DEF TypeOK, CallsOK, RestOK, Traced, UseCached, row
<1>3. ASSUME NEW c \in Calls, Join(c) PROVE Traced
  BY <1>3 DEF TypeOK, CallsOK, RestOK, Traced, Join, row
<1>4. ASSUME NEW c \in Calls, Lead(c) PROVE Traced
  BY <1>4 DEF TypeOK, CallsOK, RestOK, Traced, Lead, Reconsider, row
<1>5. ASSUME NEW c \in Calls, Granted(c) PROVE Traced
  BY <1>5 DEF TypeOK, CallsOK, RestOK, Traced, Granted, Exchange, row
<1>6. ASSUME NEW c \in Calls, Refused(c) PROVE Traced
  BY <1>6 DEF TypeOK, CallsOK, RestOK, Traced, Refused, row
<1>6a. ASSUME NEW c \in Calls, ErrorAnswer(c) PROVE Traced
  BY <1>6a DEF TypeOK, CallsOK, RestOK, Traced, ErrorAnswer, row
<1>7. ASSUME NEW c \in Calls, Persist(c) PROVE Traced
  BY <1>7 DEF TypeOK, CallsOK, RestOK, Traced, Persist, row
<1>8. ASSUME NEW c \in Calls, Reread(c) PROVE Traced
  BY <1>8 DEF TypeOK, CallsOK, RestOK, Traced, Reread, Reconsider, row
<1>9. ASSUME NEW c \in Calls, Answered(c) PROVE Traced
  BY <1>9 DEF TypeOK, CallsOK, RestOK, Traced, Answered, row
<1>10. ASSUME NEW c \in Calls, AnswerLost(c) PROVE Traced
  BY <1>10 DEF TypeOK, CallsOK, RestOK, Traced, AnswerLost, Exchange, row
<1>11. ASSUME NEW c \in Calls, Unreachable(c) PROVE Traced
  BY <1>11 DEF TypeOK, CallsOK, RestOK, Traced, Unreachable, row
<1>12. ASSUME NEW c \in Calls, PersistFails(c) PROVE Traced
  BY <1>12 DEF TypeOK, CallsOK, RestOK, Traced, PersistFails, row
<1>13. ASSUME NEW c \in Calls, TokenRefused(c) PROVE Traced
  BY <1>13 DEF TypeOK, CallsOK, RestOK, Traced, TokenRefused, row
<1>14. ASSUME NEW c \in Calls, CallFails(c) PROVE Traced
  BY <1>14 DEF TypeOK, CallsOK, RestOK, Traced, CallFails, row
<1>15. ASSUME NEW c \in Calls, Load(c) PROVE Traced
  BY <1>15 DEF TypeOK, CallsOK, RestOK, Traced, Load, Goto, row
<1>16. ASSUME NEW c \in Calls, GiveUp(c) PROVE Traced
  BY <1>16 DEF TypeOK, CallsOK, RestOK, Traced, GiveUp, row
<1>16a. ASSUME NEW c \in Calls, RereadFails(c) PROVE Traced
  BY <1>16a DEF TypeOK, CallsOK, RestOK, Traced, RereadFails, row
<1>17. ASSUME NEW c \in Calls, Return(c) PROVE Traced
  BY <1>17 DEF TypeOK, CallsOK, RestOK, Traced, Return, Finish, row
<1>18. ASSUME NEW c \in Calls, Mark(c) PROVE Traced
  BY <1>18 DEF TypeOK, CallsOK, RestOK, Traced, Mark, row
<1>19. ASSUME NEW c \in Calls, MarkFails(c) PROVE Traced
  BY <1>19 DEF TypeOK, CallsOK, RestOK, Traced, MarkFails, row
<1>20. ASSUME Age PROVE Traced
  BY <1>20 DEF TypeOK, CallsOK, RestOK, Traced, Age, row
<1>21. ASSUME Revoke PROVE Traced
  BY <1>21 DEF TypeOK, CallsOK, RestOK, Traced, Revoke, row
<1>22. ASSUME Authorize PROVE Traced
  BY <1>22 DEF TypeOK, CallsOK, RestOK, Traced, Authorize, row
<1>23. ASSUME Reauthorize PROVE Traced
  BY <1>23 DEF TypeOK, CallsOK, RestOK, Traced, Reauthorize, row
<1>24. ASSUME NEW s \in Servers, Crash(s) PROVE Traced
  BY <1>24 DEF TypeOK, CallsOK, RestOK, Traced, Crash, Finish, row
<1>25. CASE UNCHANGED vars
  BY <1>25 DEF TypeOK, CallsOK, RestOK, Traced, vars, row
<1>. QED
  BY <1>1, <1>2, <1>3, <1>4, <1>5, <1>6, <1>6a, <1>7, <1>8, <1>9, <1>10, <1>11, <1>12, <1>13, <1>14, <1>15, <1>16, <1>16a, <1>17, <1>18, <1>19, <1>20, <1>21, <1>22, <1>23, <1>24, <1>25 DEF Next, Works, Errs

\* Who marks the channel is done.
LEMMA MarkedIsDoneStep == ASSUME TypeOK, CarriedIsFresh, MarkedIsDone, [Next]_vars PROVE MarkedIsDone'
<1>1. Traced /\ Done \subseteq Done'
  BY MarksTraced, HistoryGrows
<1>2. \A d \in marks' \ marks : GiveUp(d) /\ d \in Calls
  BY <1>1, TypeStep DEF Traced, TypeOK, RestOK
<1>3. \A d \in Calls : GiveUp(d) => d \in Done'
  BY DEF GiveUp, EndRefresh, Party, Done
<1>. QED
  BY <1>1, <1>2, <1>3 DEF Traced, MarkedIsDone

\* A mark has a cause when it is made, and what copies it copies the cause.
LEMMA CauseStep ==
  ASSUME IInv, [Next]_vars
  PROVE  SeenForCause' /\ MarkedForCause'
<1>. USE DEF IInv
<1>. DEFINE Caused == overtaken \cup misread
<1>1. SUFFICES ASSUME lost' = {}, ~revoked'
               PROVE  /\ \A d \in Calls : seen'[d] # NoCall => seen'[d] \in Caused'
                      /\ marks' \subseteq Caused'
                      /\ flaggedBy' # NoCall => flaggedBy' \in Caused'
  BY DEF SeenForCause, MarkedForCause
<1>2. lost = {} /\ ~revoked /\ Caused \cap Done \subseteq Caused'
  BY <1>1, HistoryGrows
<1>3. /\ \A d \in Calls : seen[d] # NoCall => seen[d] \in Caused'
      /\ marks \subseteq Caused'
      /\ flaggedBy # NoCall => flaggedBy \in Caused'
  BY <1>2 DEF SeenForCause, MarkedForCause, MarkedIsDone
<1>4. Traced /\ marks' \subseteq Calls
  BY MarksTraced, TypeStep DEF TypeOK, RestOK
<1>5. \A d \in marks' \ marks : d \in Caused /\ UNCHANGED <<overtaken, misread>>
  BY <1>2, <1>4, DeadForCause DEF Traced, GiveUp, history
<1>6. marks' \subseteq Caused'
  BY <1>3, <1>5
<1>. QED
  BY <1>3, <1>4, <1>6 DEF Traced

-----------------------------------------------------------------------------
(* Theorems. *)

\* A channel starts with a pair that works and no call.
LEMMA InitIInv == Init => IInv
<1>. SUFFICES ASSUME Init PROVE IInv
  OBVIOUS
<1>1. TypeOK
  <2>1. PairsOK
    BY DEF Init, PairsOK
  <2>2. NumbersOK
    BY DEF Init, NumbersOK
  <2>3. CallsOK
    BY DEF Init, CallsOK, Labels
  <2>4. RestOK
    <3>1. 0 \in 0 .. MaxMishaps
      OBVIOUS
    <3>. QED
      BY <3>1 DEF Init, RestOK
  <2>. QED
    BY <2>1, <2>2, <2>3, <2>4 DEF TypeOK
<1>2. OnePerServer /\ CarriedIsFresh /\ CarriedIsNewest /\ Undisturbed
  BY DEF Init, OnePerServer, CarriedIsFresh, CarriedIsNewest, Undisturbed
<1>3. OneLive /\ LivePairIsKept /\ Alive
  BY DEF Init, OneLive, LivePairIsKept, Alive
<1>4. /\ RefusedIsDead /\ SecondTryIsStored /\ AgainRefreshes
      /\ MarkedIsDone /\ SeenForCause /\ MarkedForCause
  BY DEF Init, RefusedIsDead, MarkedIsDone, SecondTryIsStored, AgainRefreshes, SeenForCause, MarkedForCause
<1>. QED
  BY <1>1, <1>2, <1>3, <1>4 DEF IInv

\* The invariant is inductive.
LEMMA NextIInv == IInv /\ [Next]_vars => IInv'
<1>. SUFFICES ASSUME IInv, [Next]_vars PROVE IInv'
  OBVIOUS
<1>1. TypeOK' /\ OnePerServer' /\ CarriedIsFresh' /\ OneLive' /\ CarriedIsNewest'
  BY TypeStep, OnePerServerStep, CarriedIsFreshStep, OneLiveStep, CarriedIsNewestStep DEF IInv
<1>2. LivePairIsKept' /\ Alive' /\ Undisturbed' /\ RefusedIsDead'
  BY LivePairIsKeptStep, AliveStep, UndisturbedStep, RefusedIsDeadStep DEF IInv
<1>3. SecondTryIsStored' /\ AgainRefreshes'
  BY SecondTryIsStoredStep, AgainRefreshesStep DEF IInv
<1>4. MarkedIsDone' /\ SeenForCause' /\ MarkedForCause'
  BY MarkedIsDoneStep, CauseStep DEF IInv
<1>. QED
  BY <1>1, <1>2, <1>3, <1>4 DEF IInv

\* It holds in every reachable state.
LEMMA AlwaysIInv == Spec => []IInv
  BY InitIInv, NextIInv, PTL DEF Spec

\* The types are correct.
THEOREM ZaloTypeCorrect == Spec => []TypeOK
<1>1. IInv => TypeOK
  BY DEF IInv
<1>. QED
  BY <1>1, AlwaysIInv, PTL

\* Refreshes never overwrite or forget a pair Zalo still takes: it is in the
\* row, on its way there, in a session, or lost to a named fault.
THEOREM RotationKeepsThePair == Spec => []LivePairIsKept
<1>1. IInv => LivePairIsKept
  BY DEF IInv
<1>. QED
  BY <1>1, AlwaysIInv, PTL

\* A channel is marked for reauthorization only when its pair was lost or
\* replaced, the authorization ended, or the last exchange of a refresh was
\* crossed by another server's or got an error about a token Zalo takes.
THEOREM MarkedOnlyForCause == Spec => []MarkedForCause
<1>1. IInv => MarkedForCause
  BY DEF IInv
<1>. QED
  BY <1>1, AlwaysIInv, PTL

=============================================================================
