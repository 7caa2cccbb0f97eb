\* Any two mishaps, or restarts of the daemon, and what heals by itself; two
\* sessions with IPv4 and one without; every wait is two rounds at most.
CONSTANTS
  NoAddr = NoAddr
  ImsAddr = ImsAddr
  a4 = a4
  b4 = b4
  a6 = a6
  Sessions <- AllSessions
  V6Mode = "dhcpv6"
  ListsCgact = FALSE
  Residual = FALSE
  Ailments = {"blank", "stiff", "cut4", "cut6", "slow", "unbound", "halted", "flight", "off"}
  MaxFaults = 2
  AutoDial = TRUE
  NetRounds = 2
  NoAddrRounds = 2
  RetryAfter = 2
  ImsBackoff = 1
  PollEvery = 1
  RefreshEvery = 0
  DataGuardOn = TRUE
  NetGuardOn = TRUE
  DataRounds = 1
  UnboundRounds = 2
  Policy = "auto"
  Fallback = 2
  Cooldown = 3
  Lengths = {1}
SPECIFICATION FairSpec
PROPERTIES WorkingV4IsSpared RebootIsLastResort NoRedialOnRedial DeadSessionLeavesNoAddress Reconnects
