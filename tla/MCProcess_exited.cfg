CONSTANTS
  p1 = p1
  maker = maker
  user1 = user1
  user2 = user2
  Processes <- OneProcess
  Clients <- ThreeClients
  Calls <- TwoResumers
  MaxPending = 2
SPECIFICATION Spec
PROPERTY PhaseSteps
