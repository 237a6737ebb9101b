\* Binary search of sort.SearchStrings against set membership, on every
\* sorted list of distinct keyspace names of length <= 5.
CONSTANTS
  Nil = Nil
  Names = {0, 1, 2, 3, 4, 5}
  MaxLen = 5
  Configs <- NoFilter
SPECIFICATION Spec
INVARIANT SearchStringsCorrect
