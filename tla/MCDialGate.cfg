SPECIFICATION Spec
CONSTANTS
  Surfaces <- MCSurfaces
  Families <- MCFamilies
  AdviseFloor <- MCAdviseFloor
  FamilyOf <- MCFamilyOf
  Intents <- MCIntents
  SurfaceOf <- MCSurfaceOf
  ProposalTTL = 1
  Engages <- MCEngages
  Courses <- MCCourses
  NoCourse = NoCourse
  AdviceWindow = 1
  Puts <- MCPuts
  Sets <- MCSets
  MaxTick = 2
  MaxMoves = 3
INVARIANTS
  TypeOK
  
  OneProposalPerIntent
  
  BridgeAgreesWithGate
