-------------------------- MODULE KeyspaceFilterMC --------------------------
(***************************************************************************)
(* Bounded checks of the keyspace filter operators: every list of distinct *)
(* names of length at most MaxLen, every name, every configuration of      *)
(* Configs.  The state is the input of the operators; a step picks a new   *)
(* input.                                                                  *)
(***************************************************************************)
EXTENDS KeyspaceFilter

CONSTANTS Names, MaxLen, Configs

ASSUME MCAssumption ==
  /\ Names \subseteq Nat /\ MaxLen \in Nat
  /\ \A c \in Configs : c.exclude \in Seq(Names)

\* Configurations given to Configs by the .cfg files.
NoFilter          == {[include |-> Nil, exclude |-> << >>]}
DefaultFilter     == {[include |-> Nil, exclude |-> DefaultExcludeKeyspaces]}
\* Include lists of at most two distinct names among app, system and
\* system_traces, with no exclude list, the default one, or an unsorted one.
IncludeFilters ==
  [include : {<< >>, <<App>>, <<System>>, <<SystemTraces>>,
              <<App, System>>, <<System, App>>, <<App, SystemTraces>>,
              <<SystemTraces, App>>, <<System, SystemTraces>>,
              <<SystemTraces, System>>},
   exclude : {<< >>, DefaultExcludeKeyspaces, <<SystemTraces, System>>}]

VARIABLES list, name, cfg

vars == <<list, name, cfg>>

\* Lists of pairwise distinct names, as a configured keyspace list.
DistinctLists ==
  UNION {{s \in [1..n -> Names] : \A i, j \in 1..n : i # j => s[i] # s[j]}
           : n \in 0..MaxLen}

Init ==
  /\ list \in DistinctLists
  /\ name \in Names
  /\ cfg \in Configs

Pick ==
  /\ list' \in DistinctLists
  /\ name' \in Names
  /\ cfg' \in Configs

Spec == Init /\ [][Pick]_vars

TypeOK ==
  /\ list \in DistinctLists
  /\ name \in Names
  /\ cfg \in Configs

(***************************************************************************)
(* On a sorted list, the bisection of sort.SearchStrings followed by the   *)
(* equality test finds a name exactly when the list holds it: the          *)
(* membership test that the plugin's exclude and include filtering relies  *)
(* on is correct on the inputs it was written for.                         *)
(***************************************************************************)
SearchStringsCorrect ==
  IsSorted(list) => (Listed(list, name) <=> name \in Elems(list))

(***************************************************************************)
(* The selection the spec promises (spec section 4.1 and the first         *)
(* testable property): with an include list, the included names not        *)
(* excluded; without one, every name not excluded, by exact match.  The    *)
(* plugin's keyspace loop (plugin.go 399-416) must keep exactly those.     *)
(***************************************************************************)
SpecSelected(c, ks) ==
  IF c.include = Nil THEN ks \notin Elems(c.exclude)
  ELSE ks \in Elems(c.include) /\ ks \notin Elems(c.exclude)

SelectionMatchesSpec == Selected(cfg, name) <=> SpecSelected(cfg, name)

=============================================================================
