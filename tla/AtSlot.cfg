\* The daemon with its PortWatch, whose jobs take over what the user saves;
\* the real threshold; jobs on a mute port return what they got.
CONSTANTS
  Nodes = {n1, n2}
  Ifaces = {i1, i2}
  Linked = {i1}
  Located = {i2}
  NoNode = NoNode
  Clients = {daemon}
  Daemon = daemon
  Threshold = 3
  OpenRetry = 1
  Cooldown = 1
  Hold = 1
  DownRounds = 2
  CounterMod = 1
  SessionErrs = {}
  MaxMishaps = 2
SPECIFICATION FairSpec
INVARIANTS TalksToConfigured
PROPERTIES Recovers
