CONSTANTS
  AgentTypes = {"claude", "opencode", "codex"}
  Hostings = {"managed", "unproxied", "selfHosted"}
  Offers <- MCOffers
  Bounds <- MCBounds
SPECIFICATION ConfigSpec
INVARIANTS NoRemoteOnDisk
PROPERTIES RefreshTakesEffect GatewayIsKept
CHECK_DEADLOCK FALSE
