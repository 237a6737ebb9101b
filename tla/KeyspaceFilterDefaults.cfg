\* The default exclude list, no include list: does the loop skip every
\* system keyspace the list names?
CONSTANTS
  Nil = Nil
  Names = {0, 1, 2, 3, 4, 5}
  MaxLen = 0
  Configs <- DefaultFilter
SPECIFICATION Spec
INVARIANT SelectionMatchesSpec
