------------------------------ MODULE MCWatcher ------------------------------
(* Values for the constants of Watcher. *)
EXTENDS Watcher

CONSTANTS l1, l2

TwoLoaders == {l1, l2}

=============================================================================
