CONSTANTS
  p1 = p1
  c1 = c1
  c2 = c2
  d1 = d1
  t1 = t1
  Nobody = Nobody
  Persons <- MCPersons
  Clients <- MCClients
  Devices <- MCDevices
  Triggers <- MCTriggers
  MaxTokens = 1
SPECIFICATION Spec
PROPERTIES ReactivationRevivesNothing
