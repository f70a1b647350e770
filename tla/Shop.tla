-------------------------------- MODULE Shop --------------------------------
(***************************************************************************)
(* What the accounts of grot-backend promise, with no requests, sessions,  *)
(* connections or locks in it: people join with an empty account, pay for  *)
(* what is booked for them at the moment it is booked, and leave with      *)
(* everything that was theirs.                                             *)
(***************************************************************************)
EXTENDS Integers

CONSTANTS People,   \* who may ever have an account
          Costs     \* what a purchase may cost

VARIABLES members,   \* who has an account
          balance,   \* what is on it
          spent      \* what the things bought with it cost

\* Everybody begins with what is on the account; who has none yet, with nothing.
Init ==
  /\ members \subseteq People
  /\ balance \in [People -> Nat]
  /\ \A p \in People \ members : balance[p] = 0
  /\ spent = [p \in People |-> 0]

Join(p) ==
  /\ p \notin members
  /\ members' = members \cup {p}
  /\ balance[p] = 0 /\ spent[p] = 0
  /\ UNCHANGED <<balance, spent>>

Buy(p, cost) ==
  /\ p \in members
  /\ balance' = [balance EXCEPT ![p] = @ - cost]
  /\ spent' = [spent EXCEPT ![p] = @ + cost]
  /\ UNCHANGED members

Depart(p) ==
  /\ p \in members
  /\ members' = members \ {p}
  /\ spent' = [spent EXCEPT ![p] = 0]
  /\ UNCHANGED balance

Next == \E p \in People : Join(p) \/ Depart(p) \/ \E cost \in Costs : Buy(p, cost)

Spec == Init /\ [][Next]_<<members, balance, spent>>

=============================================================================
