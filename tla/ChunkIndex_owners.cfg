SPECIFICATION Spec
CONSTANTS
  c1 = c1
  c2 = c2
  m1 = m1
  m2 = m2
  m3 = m3
  Chunks = {c1, c2}
  Masternodes = {m1, m2, m3}
  Self = m1
  ReplicationFactor = 2
  Key <- MCKey
  Addr <- MCAddr
  Reported = {m1, m2, m3}
  MaxCrashes = 0
INVARIANT
  EnoughOwners
CHECK_DEADLOCK FALSE
