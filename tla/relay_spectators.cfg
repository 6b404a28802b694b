SPECIFICATION Spec
CONSTANTS
  Addr <- MCAddr
  Ip <- MCIp
  IpOf <- MCIpOf
  Sid = {"s1", "s2"}
  Announcement <- MovingWatched
  TcpAddr = {}
  Timeout = 1
  SpectatorTimeout = 1
  None = None
INVARIANTS  SpectatorsServed
