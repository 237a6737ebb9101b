--------------------------- MODULE KeyspaceFilter ---------------------------
(***************************************************************************)
(* The keyspace selection of the cassandra plugin                          *)
(* (src/plugin/cassandra/plugin.go): Go's sort.SearchStrings bisection, the *)
(* membership test built on it, the computation of savedKeyspaces and the  *)
(* per-directory decision of the linking loop.                             *)
(*                                                                         *)
(* Keyspace names are abstracted to natural numbers that keep their byte   *)
(* order: a name is its rank among the names a model uses, so that Go's    *)
(* string comparison becomes <= on Nat.  The order of the system keyspaces *)
(* of the default exclude list is the real one:                            *)
(*   "app" < "system" < "system_auth" < "system_distributed"               *)
(*         < "system_schema" < "system_traces"                             *)
(* A configured list is a sequence of names; a nil []string (an absent     *)
(* include list) is the model value Nil.                                   *)
(***************************************************************************)
EXTENDS Naturals, Sequences, FiniteSets

CONSTANT Nil

ASSUME NilAssumption == Nil \notin Seq(Nat)

App               == 0
System            == 1
SystemAuth        == 2
SystemDistributed == 3
SystemSchema      == 4
SystemTraces      == 5

\* DefaultExcludeKeyspaces, in the (unsorted) order the source lists them.
DefaultExcludeKeyspaces ==
  <<SystemSchema, SystemDistributed, SystemAuth, System, SystemTraces>>

\* The elements of a list.
Elems(a) == {a[i] : i \in 1..Len(a)}

\* A variant of the bisection that tests a[h] > x: it returns the first index
\* past every copy of x (the bug SearchStringsCorrect must catch).
SearchStringsPastMatch(a, x) ==
  LET bisect[i \in 0..Len(a), j \in 0..Len(a)] ==
        IF i >= j THEN i
        ELSE LET h == (i + j) \div 2
             IN  IF a[h + 1] > x THEN bisect[i, h] ELSE bisect[h + 1, j]
  IN  bisect[0, Len(a)]

(***************************************************************************)
(* sort.SearchStrings(a, x) = sort.Search(len(a), a[i] >= x): Go's loop    *)
(*   i, j := 0, n; for i < j { h := (i+j)/2; if !f(h) {i = h+1} else {j = h} } *)
(* written as a recursive function of the interval [i, j).  Indices are    *)
(* Go's (0-based): a[h] in Go is a[h + 1] here.  The result is only        *)
(* meaningful when a is sorted; on an unsorted list it is what the loop    *)
(* computes.                                                               *)
(***************************************************************************)
SearchStrings(a, x) ==
  LET bisect[i \in 0..Len(a), j \in 0..Len(a)] ==
        IF i >= j THEN i
        ELSE LET h == (i + j) \div 2
             IN  IF a[h + 1] >= x THEN bisect[i, h] ELSE bisect[h + 1, j]
  IN  bisect[0, Len(a)]

\* idx := sort.SearchStrings(a, x); idx < len(a) && a[idx] == x
Listed(a, x) ==
  LET idx == SearchStrings(a, x)
  IN  idx \in 0..Len(a) - 1 /\ a[idx + 1] = x

\* A list in ascending order.
IsSorted(a) == \A i \in 1..Len(a) - 1 : a[i] <= a[i + 1]

\* How often x occurs in the list a.
Occurrences(a, x) == Cardinality({i \in 1..Len(a) : a[i] = x})

\* sort.Strings(a): the ascending permutation of a.
SortStrings(a) ==
  CHOOSE s \in [1..Len(a) -> Elems(a)] :
    IsSorted(s) /\ \A x \in Elems(a) : Occurrences(s, x) = Occurrences(a, x)

\* A variant of SavedKeyspaces without the sort of the exclude list at 303
\* (the bug SelectionMatchesSpec must catch with an include list).
SavedKeyspacesUnsortedExclude(cfg) ==
  IF cfg.include = Nil THEN Nil
  ELSE SortStrings(SelectSeq(cfg.include,
                             LAMBDA k : ~Listed(cfg.exclude, k)))

(***************************************************************************)
(* savedKeyspaces (Backup, 301-313).  With an include list, the code sorts *)
(* the exclude list and keeps each included name the bisection does not   *)
(* find there; the bare append at 310 does not compile as written, and is *)
(* read as its evident intent, savedKeyspaces = append(savedKeyspaces,    *)
(* keyspace).  The trailing sort.Strings orders the result.  Without an   *)
(* include list it stays nil.  cfg is [include |-> Nil or a list,         *)
(* exclude |-> a list].                                                    *)
(***************************************************************************)
SavedKeyspaces(cfg) ==
  IF cfg.include = Nil THEN Nil
  ELSE SortStrings(SelectSeq(cfg.include,
                             LAMBDA k : ~Listed(SortStrings(cfg.exclude), k)))

\* The keyspaces named on the `nodetool snapshot -t shield-backup` command
\* line: those of savedKeyspaces when it is not nil; no name means every
\* keyspace of the node (all).
SnapshotKeyspaces(cfg, all) ==
  LET saved == SavedKeyspaces(cfg)
  IN  IF saved = Nil \/ saved = << >> THEN all ELSE Elems(saved)

\* The decision of the keyspace loop for directory ks: with savedKeyspaces
\* nil, keep ks unless the (never sorted) exclude list lists it; otherwise
\* keep ks only if savedKeyspaces lists it.
Selected(cfg, ks) ==
  LET saved == SavedKeyspaces(cfg)
  IN  IF saved = Nil THEN ~Listed(cfg.exclude, ks) ELSE Listed(saved, ks)

=============================================================================
