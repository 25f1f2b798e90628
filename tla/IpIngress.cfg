SPECIFICATION Spec
CONSTANTS
  Port = {p1}
  Bvi = bvi
  Table = {t1, t2}
  MaxEnable = 2
  Packet <- MCPacket
  Own <- MCOwn
  Loopback <- MCLoopback
  LoTable = t1
INVARIANTS CallbackBalanced ExactlyMartiansStopped Ip2meReachesHost
PROPERTY ApiAllOrNothing
