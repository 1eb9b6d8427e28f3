\* Three users of two servers and two lists of options.
CONSTANTS
  Users = {u1, u2, u3}
  Servers = {s1, s2}
  Keys = {k1, k2}
  None = None
SPECIFICATION FairSpec
INVARIANTS TypeOK OneUser FreshDatabase NoOrphan
PROPERTIES LeaseSpec AllStopped
CHECK_DEADLOCK FALSE
