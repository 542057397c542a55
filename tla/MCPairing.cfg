SPECIFICATION Spec
CONSTANTS
  Fronts = {app, mac}
  Captains = {"luke", "leia"}
  Keys = {"k1", "k2", "k3"}
  CaptainOf <- MCCaptainOf
  CoPilotKeys = {"k2"}
  LukesStore = lukes
  LeiasStore = leias
  Slug <- MCSlug
  Names = {Purr, Nova}
  Root = Purr
  HullNames = {"a", "b", "c"}
  HullOf <- MCHullOf
  Worlds = {1, 2, 3}
  Ids = {1, 2}
  Legacy <- MCLegacy
  None = None
  MaxCommands = 3
CONSTRAINT Bounded
SYMMETRY Symmetric
INVARIANTS
  TypeOK
  PairedIsWhole
  Revoked
  
CHECK_DEADLOCK FALSE
