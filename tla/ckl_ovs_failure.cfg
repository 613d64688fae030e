CONSTANTS
  n1 = n1  n2 = n2  n3 = n3
  a1 = a1  a2 = a2  a3 = a3
  p = p  q = q
  m1 = m1  m2 = m2
  Nodes = {n1, n2, n3}
  Ips = {a1, a2, a3}
  Params = {p, q}
  Macs = {m1, m2}
  NoNeighbor = NoNeighbor
  Refused = Refused
  NoStat = NoStat
  Absent = Absent
  Torn = Torn
  NEIGHBOR_MAX = 1
  LocalConfigs <- RoleConfigs
  Frames <- SlavePeer
  NEIGHBOR_TIMEOUT = 1
  BROADCAST_INTERVAL = 1
  CONFIG_CHECK_INTERVAL = 1
  AgeCap = 2
  Stamps = {s1, s2, s3}
  Env = {"ovs"}
  MaxFaults = 1

SPECIFICATION FairSpec
PROPERTY FlowsHeal
