SPECIFICATION WebSpec
CONSTANTS
  Users = {u1, u2}
  Tabs = {t1, t2}
  MaxTime = 2
  Quota = 2
  Sends = {s1, s2}
INVARIANTS TokensTogether LoginReachable SilentRenewal ResetStays
PROPERTIES EverythingSettles
