\* Include lists with sorted and unsorted exclude lists: are exactly the
\* included, non-excluded keyspaces selected?
CONSTANTS
  Nil = Nil
  Names = {0, 1, 2, 3, 4, 5}
  MaxLen = 0
  Configs <- IncludeFilters
SPECIFICATION Spec
INVARIANT SelectionMatchesSpec
