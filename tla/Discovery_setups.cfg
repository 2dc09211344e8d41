SPECIFICATION Spec
CONSTANTS
  Endpoints <- MCEndpoints
  DefaultSocket = "sock"
  UserSockets <- MCUserSockets
  LocalSockets <- MCLocalSockets
  Setups <- AllSetups
  MaxChanges = 2
INVARIANTS DiscoveryInv Hermetic FirstSteadyWins OnlyAnswerOpen
