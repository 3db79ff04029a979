\* Five users: the smallest group in which the greedy choice is not optimal.
CONSTANTS
  Users = {u1, u2, u3, u4, u5}
  MaxCents = 4
  Nets <- MCNets
SPECIFICATION Spec
INVARIANT MinimumSet
CHECK_DEADLOCK FALSE
