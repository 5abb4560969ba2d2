\* Nine programs on each of the four servers, tables of at most two rows and
\* three numbers.  A program that only reads may stop.
CONSTANTS
  Structs <- MCStructs
  Enumerators <- MCEnumerators
  Programs <- MCPrograms
  Dialects = {"postgres", "sqlite", "mysql", "duckdb"}
  MaxRows = 2
  MaxNext = 3
SPECIFICATION Spec
INVARIANTS
  TypeOK
  SameAnswer
  NullFits
  SafeToRepeat
PROPERTIES
  
  RefusedChangesNothing
  WrittenReadsBack
  StaysInStep
