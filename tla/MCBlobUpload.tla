--------------------------- MODULE MCBlobUpload -----------------------------
(* BlobUpload with content of two chunks and two digest algorithms.           *)
EXTENDS BlobUploadProofs, TLC

CONSTANTS a, b, sha256, sha512

MCWant   == <<a, b>>
MCSource == {<<sha256, MCWant>>}
Symmetry == Permutations(Handlers)
=============================================================================
