SPECIFICATION Spec
CONSTANTS
  Hulls = {1, 2}
  Berths = {yard, diner}
  None = None
  CoPiloted = {1, 2}
  HandWords <- MCWords
  MaxWear = 1
  MaxTurns = 1
  Flagship = 1
SYMMETRY Docks
INVARIANTS
  TypeOK
  
  OneOfEach
