--------------------------- MODULE BackupContract ---------------------------
(***************************************************************************)
(* What a backup run promises its caller (spec sections 4 and 7), with no *)
(* snapshot, no staging tree, no defers and no loop: a run is numbered and *)
(* gets a filter, its stdout carries files that run must back up, and it   *)
(* ends with an error, with success only once the stream carried all of    *)
(* them, or is killed.  A configuration error ends a call before it       *)
(* starts.                                                                 *)
(***************************************************************************)
EXTENDS Naturals

CONSTANTS
  Configs,     \* the filter configurations a run may get
  Wanted(_, _) \* Wanted(n, c): the files run n with filter c must stream

VARIABLES
  phase,    \* "idle" or "busy"
  run,      \* the number of calls so far
  cfg,      \* the configuration of the current (last) run
  archive,  \* what the stdout of the current (last) run carried
  result    \* what the last run returned: "none", "ok", "error" or "crash"

vars == <<phase, run, cfg, archive, result>>

Init ==
  /\ phase = "idle"
  /\ run = 0
  /\ cfg \in Configs
  /\ archive = {}
  /\ result = "none"

\* A call with a usable configuration starts a run.
Begin ==
  /\ phase = "idle"
  /\ phase' = "busy"
  /\ run' = run + 1
  /\ cfg' \in Configs
  /\ archive' = {}
  /\ result' = "none"

\* A call whose configuration is unusable returns before any side effect.
Reject ==
  /\ phase = "idle"
  /\ run' = run + 1
  /\ cfg' \in Configs
  /\ archive' = {}
  /\ result' = "error"
  /\ UNCHANGED phase

\* The run writes its stream: only files it must back up.
Stream ==
  /\ phase = "busy"
  /\ archive' \subseteq Wanted(run, cfg)
  /\ UNCHANGED <<phase, run, cfg, result>>

\* The run returns: an error at any time, nil only when all was streamed.
Finish ==
  /\ phase = "busy"
  /\ phase' = "idle"
  /\ result' \in {"ok", "error"}
  /\ result' = "ok" => archive = Wanted(run, cfg)
  /\ UNCHANGED <<run, cfg, archive>>

\* The host kills the run.
Kill ==
  /\ phase = "busy"
  /\ phase' = "idle"
  /\ result' = "crash"
  /\ UNCHANGED <<run, cfg, archive>>

Next == Begin \/ Reject \/ Stream \/ Finish \/ Kill

Spec == Init /\ [][Next]_vars

=============================================================================
