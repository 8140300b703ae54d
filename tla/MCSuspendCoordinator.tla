------------------------ MODULE MCSuspendCoordinator ------------------------
(* Small instances of SuspendCoordinator for TLC. *)
EXTENDS SuspendCoordinator
=============================================================================
