SPECIFICATION Spec
CONSTANTS
  Stations <- MCStations
  Pumps <- MCPumps
  Nowhere = Nowhere
  FrontEnds = {serve}
  Words <- MCWords
  Denials <- MayLackRepair
  MaxWords = 2
  MaxMishaps = 1
INVARIANTS
  OneCourseStands
  
  
PROPERTIES
  FliesTheStandingCourse
  
