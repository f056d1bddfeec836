------------------------------ MODULE MCWorker ------------------------------
(* Values for the constants of Worker. *)
EXTENDS Worker

CONSTANTS r1, r2

OneRoot == {r1}
TwoRoots == {r1, r2}
FourStates == {"todo", "review", "paused", "done"}
TwoActive == {"todo", "review"}
OneTerminal == {"done"}
TwoStates == {"todo", "done"}
OneActive == {"todo"}
AllHooks == {"after_create", "before_run", "after_run"}

=============================================================================
