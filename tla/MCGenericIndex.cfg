\* An index with a unique secondary key that no modifier changes.
SPECIFICATION Spec
CONSTANTS
  MaxId = 3
  Value <- MCValue
  Absent = Absent
  KeyOf <- MCKeyOf
  KeyUnique = TRUE
  KeyMutable = FALSE
  MaxDepth = 3
  MaxRevision = 4
INVARIANT TypeOK
INVARIANT UndoNeverThrows
INVARIANT DeltaExact
INVARIANT RevisionsInStep
PROPERTY ImplementsUndoStack
