CONSTANTS
  Addresses <- MCAddresses
  Keys = {k1}
  IpKeys = {}
  Callers = {c1}
  Writers = {c1}
  Reasons = {r1, r2}
  Durations = {Never, 1}
  MaxTime = 3
  Never = Never
  NoRow = NoRow
  k1 = k1
  c1 = c1
  c2 = c2
  r1 = r1
  r2 = r2
SPECIFICATION Spec

PROPERTY ExpiredBansAbsent
