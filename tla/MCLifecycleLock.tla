--------------------------- MODULE MCLifecycleLock ---------------------------
(* Instances of LifecycleLock for TLC. *)
EXTENDS LifecycleLock
=============================================================================
