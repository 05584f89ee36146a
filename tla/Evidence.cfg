SPECIFICATION Spec
CHECK_DEADLOCK FALSE
CONSTANTS
  Machines <- MCMachines
  Cases <- MCCases
INVARIANTS
  AuditedIsSound
  FreshestIsAudited
  BindingStands
  
  BreaksAreSeen
