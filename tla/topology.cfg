\* Three radios, the table, the file and the reports of one.
SPECIFICATION FairSpec
CONSTANTS
  r1 = r1  r2 = r2  r3 = r3
  n1 = n1  n2 = n2  n3 = n3  n4 = n4
  a1 = a1  a2 = a2  a3 = a3
  p1 = p1  p2 = p2
  Nodes = {n1, n2, n3, n4}
  Ips = {a1, a2, a3}
  Params = {p1, p2}
  Radios = {r1, r2, r3}
  Observed = {r1}
  FirstConfig <- MCFirstConfig
  NextConfigs <- MCNextConfigs
  ROUTE_NUM = 3
  Absent = Absent
  Torn = Torn
  NoView = NoView
  MaxInFlight = 2
  MaxChanges = 3
INVARIANTS TypeOK SubnetsAgree
PROPERTY PictureSettles
