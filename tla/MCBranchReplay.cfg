CONSTANTS
  Branches = {main, alt, third}
  Forkers = {f1, f2}
  MaxEvents = 4
  None = None
SPECIFICATION Spec
SYMMETRY Symmetry
INVARIANT BranchInv
INVARIANT LineageIsForest
INVARIANT DeltaAgrees
PROPERTY LineageStable
CHECK_DEADLOCK FALSE
