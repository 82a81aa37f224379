SPECIFICATION TrialSpec
CONSTANTS
  Automatic = {wake, baseline}
  Manual = {outside}
  Machines <- MCMachines
  ExpectedProduct = "GL553VD"
  MaxBoots = 3
  MaxLines = 3
  None = None
  Torn = Torn
  Bad = Bad
INVARIANTS
  ResultNamesItsTrial
PROPERTIES
  PortWriteComesLast
CHECK_DEADLOCK FALSE
