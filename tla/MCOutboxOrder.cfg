SPECIFICATION Spec
CONSTANTS
  o1 = o1  o2 = o2
  Relays = {a, b}
  a = a  b = b
  None = None
  MaxRows = 3
  OrgOf <- MCOrgOf
  Batch = 2
  MaxFaults = 0
INVARIANT
  TenantOrder
