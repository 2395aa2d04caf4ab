CONSTANTS
  c1 = c1
  c2 = c2
  c3 = c3
  home = home
  away = away
  NoConn = NoConn
  Conns <- MCConns
  Ips <- MCIps
  Ip <- MCIp
  MaxFd = 3
  MaxPending = 2
  MaxPendingPerIp = 1
  MaxClients = 2
  MaxClientsPerIp = 2
  MaxBuf = 2
  MaxGlobal = 3
  MaxFailures = 2
SPECIFICATION Spec
INVARIANTS AccountsExact StaleEventsMissSessions StreamsSeparate
