---------------------------- MODULE MCZaloPersonal ----------------------------
EXTENDS ZaloPersonal

\* The bound on Entries takes nothing away: an id is free whenever a session is registered.
IdsSuffice ==
  scan = "written" \/ (\E t \in Tries : at[t] = "login") => \E e \in Entries : Unused(e)
=============================================================================
