SPECIFICATION Spec
CONSTANTS
  Writers = {app, cli}
  Names = {Purr, Tuned, Nova}
  Root = Purr
  Absent = Absent
  MaxNamings = 3
  MaxFaults = 2
SYMMETRY Commands
INVARIANTS
  TypeOK

  
