\* Two resends after a sign-up.
CONSTANTS
  Requests = {r1, r2, r3}
  Emails = {e1}
  Subs = {s1}
  None = None
SPECIFICATION Spec
SYMMETRY Symmetry
INVARIANT OneTokenPerUser
CHECK_DEADLOCK FALSE
