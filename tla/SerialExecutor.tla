--------------------------- MODULE SerialExecutor ---------------------------
(***************************************************************************)
(* What the background-job service of the main process promises about the  *)
(* WORK of the jobs, as opposed to their records: a collection job (copy,  *)
(* duplicate, delete, export or import) is executed at most once, whatever *)
(* fails and however often the application restarts, and never two at the  *)
(* same time.  A job that was interrupted is not executed again: its       *)
(* writes are not idempotent for every collision policy.                   *)
(*                                                                         *)
(* JobQueue implements this module (the property SerialExecution there).   *)
(***************************************************************************)
CONSTANT Jobs          \* the jobs that may ever be started

VARIABLES
  executing,           \* the jobs whose runner is between its call and its end
  executed             \* every job whose runner was ever called

Init ==
  /\ executing = {}
  /\ executed = {}

\* FirestoreCollectionJobRunner.run is called for j.
Begin(j) ==
  /\ executing = {}
  /\ j \notin executed
  /\ executing' = {j}
  /\ executed' = executed \cup {j}

\* The runner returned or threw, or the process died under it.
End ==
  /\ executing # {}
  /\ executing' = {}
  /\ UNCHANGED executed

Next == End \/ \E j \in Jobs : Begin(j)

Spec == Init /\ [][Next]_<<executing, executed>>
=============================================================================
