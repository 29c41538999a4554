SPECIFICATION ReportedSpec
CONSTANTS
  c1 = c1
  c2 = c2
  m1 = m1
  m2 = m2
  m3 = m3
  Chunks = {c1}
  Masternodes = {m1, m2, m3}
  Self = m1
  ReplicationFactor = 2
  Key <- MCKey
  Addr <- MCAddrClash
  Reported = {m1, m3}
  MaxCrashes = 0
PROPERTY
  EventuallyListed
CHECK_DEADLOCK FALSE
