----------------------------- MODULE Settlement -----------------------------
(***************************************************************************)
(* What a user who buys a check is promised: the price is taken once, and  *)
(* afterwards the check is either served or paid back, not both, and paid  *)
(* back at most once.                                                      *)
(***************************************************************************)
EXTENDS Naturals

CONSTANT Checks

VARIABLES bought,   \* whether the check was paid for
          served,   \* whether a result was delivered
          refunds   \* how often the price was paid back

vars == <<bought, served, refunds>>

Init ==
  /\ bought = [c \in Checks |-> FALSE]
  /\ served = [c \in Checks |-> FALSE]
  /\ refunds = [c \in Checks |-> 0]

Buy(c) ==
  /\ ~bought[c]
  /\ bought' = [bought EXCEPT ![c] = TRUE]
  /\ UNCHANGED <<served, refunds>>

Open(c) == bought[c] /\ ~served[c] /\ refunds[c] = 0

Serve(c) ==
  /\ Open(c)
  /\ served' = [served EXCEPT ![c] = TRUE]
  /\ UNCHANGED <<bought, refunds>>

PayBack(c) ==
  /\ Open(c)
  /\ refunds' = [refunds EXCEPT ![c] = 1]
  /\ UNCHANGED <<bought, served>>

Next == \E c \in Checks : Buy(c) \/ Serve(c) \/ PayBack(c)

Spec == Init /\ [][Next]_vars

=============================================================================
