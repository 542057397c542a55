SPECIFICATION Spec
CONSTANTS
  Loads = {a, b}
  NoLoad = NoLoad
  BayLimit = 2
  Bays = {1, 2}
  MaxMishaps = 2
  MaxCaptain = 1
INVARIANTS
  TypeOK
  NeverTwiceInFlight
  FliesOnlyItsOwn
  CollectsWhatIsOwed
SYMMETRY Symmetry
