\* What the documentation says of insert_or_replace, for a struct with a primary
\* key and a unique column.
CONSTANTS
  Structs <- MCStructs
  Enumerators <- MCEnumerators
  Programs <- MCKeys
  Dialects = {"postgres", "sqlite", "mysql"}
  MaxRows = 2
  MaxNext = 3
SPECIFICATION Spec
PROPERTIES
  UpsertReplaces
