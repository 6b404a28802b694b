SPECIFICATION FairSpec
CONSTANTS
  Addr <- MCAddr
  Ip <- MCIp
  IpOf <- MCIpOf
  Sid = {"s1"}
  Announcement <- Watching
  TcpAddr = {"Wv"}
  Timeout = 1
  SpectatorTimeout = 1
  None = None
PROPERTY SilentSessionsRemoved
