---------------------------- MODULE TransferBook ----------------------------
(***************************************************************************)
(* What payment reconciliation promises about the bank's transfers: each   *)
(* is entered once, either as money of one order or as unmatched; an       *)
(* unmatched one may later be given to one order; an entry that is money   *)
(* of an order is final, and adds its amount to that order, once.  The     *)
(* amount is promised as long as no transaction on the order outlives the  *)
(* order's payment lock.                                                   *)
(***************************************************************************)
EXTENDS Naturals

CONSTANTS Transfers, Orders, Amount

VARIABLES entry,   \* entry[t]: "open", "pending", or the order that got t
          paid,    \* paid[o]: Order.paidAmount
          overrun  \* the orders on which a transaction outlived the lock

book == <<entry, paid, overrun>>

Init ==
  /\ entry = [t \in Transfers |-> "open"]
  /\ paid = [o \in Orders |-> 0]
  /\ overrun = {}

\* The transfer is entered as unmatched.
Hold(t) ==
  /\ entry[t] = "open"
  /\ entry' = [entry EXCEPT ![t] = "pending"]
  /\ UNCHANGED <<paid, overrun>>

\* The transfer becomes money of order o.
Credit(t, o) ==
  /\ entry[t] \in {"open", "pending"}
  /\ entry' = [entry EXCEPT ![t] = o]
  /\ \A q \in Orders \ {o} : paid'[q] = paid[q]
  /\ o \notin overrun => paid'[o] = paid[o] + Amount[t]
  /\ UNCHANGED overrun

\* From here on, o may miss money.
Overrun(o) ==
  /\ overrun' = overrun \cup {o}
  /\ UNCHANGED <<entry, paid>>

Next ==
  \/ \E t \in Transfers : Hold(t) \/ \E o \in Orders : Credit(t, o)
  \/ \E o \in Orders : Overrun(o)

Spec == Init /\ [][Next]_book

=============================================================================
