SPECIFICATION Spec
CONSTANTS
  f1 = f1
  f2 = f2
  old = old
  new = new
  mine = mine
  Files = {f1, f2}
  Shipped = {old, new}
  Mine = {mine}
  Gens = {"g1", "g2", "g3"}
  Want <- MCWant
  Rev <- MCRev
  Legacy <- MCLegacy
INVARIANTS
  TypeOK
  InstalledIsKnown
  RetryRefusesOnlyEdits
  Converged
PROPERTIES
  UserWorkKept
