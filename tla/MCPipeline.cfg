SPECIFICATION PipeSpec
CONSTANTS
  ide = ide  host = host  a = a  b = b  blank = blank  huge = huge
  relay = relay  org = org
  Callers = {ide, host}
  Streaming = {ide}
  Webhook = {host}
  Items = {a, b, blank, huge}
  Script <- MCScript
  Valid = {a, b, huge}
  Fits = {a, b, blank}
  Calls = {1, 2}
  Nobody = Nobody
  MaxFaults = 1
  Relays = {relay}
  None = None
  MaxRows = 4
  OrgOf <- MCOrgOf
  Batch = 2
  MaxRelayFaults = 1
  Owners = {r1, r2}
  r1 = r1  r2 = r2
  FirstOwner = r1
  MaxTakeovers = 1
  MaxMishaps = 1
CHECK_DEADLOCK FALSE
INVARIANTS
  PipeTypeOK
  FirstCopiesInOrder
  VerdictsInOrder
PROPERTIES
  IntakeSpec
  EveryItemAnswered
