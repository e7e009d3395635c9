----------------------------- MODULE MCDirStore -----------------------------
(* DirStore on a small instance, for TLC. *)
EXTENDS DirStoreProofs
=============================================================================
