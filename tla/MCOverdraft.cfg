SPECIFICATION Spec
CONSTANTS
  Users = {u1}
  Requests = {r1, r2, r3}
  Amounts = {1, 2}
  None = None
INVARIANT
  NeverOverdrawn
