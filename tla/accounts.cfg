\* Three requests for two addresses and two Google accounts; no symmetry: a temporal property.
CONSTANTS
  Requests = {r1, r2, r3}
  Emails = {e1, e2}
  Subs = {s1, s2}
  None = None
SPECIFICATION FairSpec
INVARIANTS
  AccountsTypeOK VerifiedNeverLost LinkedIsProven LinksWork
PROPERTY RequestsAnswered
CHECK_DEADLOCK FALSE
