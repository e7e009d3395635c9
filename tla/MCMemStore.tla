---------------------------- MODULE MCMemStore ------------------------------
(* MemStore with two repositories and two requests, for TLC; MCMemStore.cfg  *)
(* uses no symmetry, because it checks liveness too.                         *)
EXTENDS MemStoreProofs
=============================================================================
