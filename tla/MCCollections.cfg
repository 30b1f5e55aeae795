CONSTANTS
  Cells = {1, 2}
  MaxItems = 2
  Variables = {"x", "y"}
  Scalars <- MCScalars
  Keys <- MCKeys
  Fields = {"f"}
  Order <- MCOrder
SPECIFICATION Spec
INVARIANTS
  TextTells
  OneEquality
CHECK_DEADLOCK FALSE
