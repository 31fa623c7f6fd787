SPECIFICATION Spec
CONSTANTS
  a = a  b = b
  Runs = {a, b}
  None = None  Partial = Partial
  Hosts <- MCHosts  Ports <- MCPorts
  Loopback = {"localhost"}
  InputsOf <- MCInputsOf
CHECK_DEADLOCK FALSE
INVARIANTS
  SuccessIsClean
  FailureIsEarned
  RefusedIsMalformed
  PostedIsStored
PROPERTY
  ServedChangesOnlyByRace
