\* Two gateways, a private and a public session, two events, one fault.
CONSTANTS
  Gateways = {"near", "far"}
  Near = {"near"}
  Derived = "near"
  Sessions = {"private", "public"}
  Private = {"private"}
  Reported <- Gateway
  Modes = {"auto", "static", "off"}
  MaxEvents = 2
  MaxFaults = 1
SPECIFICATION FairSpec
INVARIANTS AppliedIsWhole
PROPERTIES Settles SettingsTakeEffect ForcedDnsReturns
